---------------------------- MODULE StakingEras ----------------------------
(***************************************************************************)
(* The staking pallet, its eras: the planning and the start of sessions    *)
(* and eras, the rewards of an era, offences and the slashes they lead to. *)
(***************************************************************************)
EXTENDS StakingBonds

(* REWARD_F1: the part of the slash reward paid on the first detection.     *)
REWARD_F1 == Accuracy \div 2

ActiveEra(s) == s.ActiveEra.index

-----------------------------------------------------------------------------
(* Slashing spans.  A slash p is                                            *)
(*   [stash, slash, exposure, slash_era, window_start, now, disable].       *)
fetch_spans(s, stash, window_start) ==
    IF s.SlashingSpans[stash] = None THEN new_spans(window_start) ELSE s.SlashingSpans[stash]

(* Mistake: the whole slash is due again, not what it adds to the span's.   *)
span_difference_whole(record, amount) == amount

(* Only what exceeds the largest slash of the span is due.                  *)
span_difference(record, amount) == Less(amount, record.slashed)

(* A larger slash than the span's replaces it and the difference is due;    *)
(* the reporters have a part of what was not yet rewarded.                  *)
compare_and_update_span_slash(s, key, record, slash_era, amount, spans) ==
    LET difference == span_difference(record, amount)
        reward == IF amount >= record.slashed
                  THEN Portion(REWARD_F1, Less(Portion(SlashRewardFraction, amount), record.paid_out)) ELSE 0
        changed == difference > 0 \/ reward > 0
    IN  [s |-> IF ~changed THEN s
               ELSE [s EXCEPT !.SpanSlash = Put(@, key, [slashed |-> Higher(record.slashed, amount),
                                                         paid_out |-> record.paid_out + reward])],
         spans |-> IF difference > 0
                   THEN [spans EXCEPT !.last_nonzero_slash = Higher(@, slash_era)] ELSE spans,
         slashed |-> difference, paid |-> reward, changed |-> changed]

(* An offence of the ongoing span ends it; InspectingSpans is dropped: the  *)
(* spans are stored, and pruned if they changed.                            *)
drop_spans(s, stash, window_start, spans, dirty) ==
    [s EXCEPT !.SlashingSpans[stash] = IF dirty THEN prune(spans, window_start) ELSE spans,
              !.SpanSlash = IF dirty THEN Without(@, {<<stash, i>> : i \in pruned(spans, window_start)}) ELSE @]
close_spans(r, stash, p, recent) ==
    LET ended == IF recent THEN end_span(r.spans, p.now) ELSE r.spans IN
    [s |-> drop_spans(r.s, stash, p.window_start, ended, r.changed \/ ended # r.spans),
     slashed |-> r.slashed, paid |-> r.paid, recent |-> recent]

(* What is done with the spans of one staker; amount = None: the validator  *)
(* is only kicked out.                                                      *)
inspect(s, stash, p, amount, spans, target) ==
    LET key == <<stash, target.index>> IN
    close_spans(IF target = None \/ amount = None
                THEN [s |-> s, spans |-> spans, slashed |-> 0, paid |-> 0, changed |-> FALSE]
                ELSE compare_and_update_span_slash(s, key, Get(s.SpanSlash, key, [slashed |-> 0, paid_out |-> 0]),
                                                   p.slash_era, amount, spans),
                stash, p, target # None /\ target.index = spans.span_index)
inspect_spans(s, stash, p, amount) ==
    LET spans == fetch_spans(s, stash, p.window_start) IN
    inspect(s, stash, p, amount, spans, era_span(spans, p.slash_era))

ensure_new_era(mode) == IF mode \in {"ForceAlways", "ForceNew"} THEN mode ELSE "ForceNew"

(* The first offence of a validator in the era counts towards the threshold *)
(* that forces a new era.                                                   *)
add_offending_validator(s, stash, disable) ==
    IF stash \notin s.validators THEN s
    ELSE LET known == stash \in DOMAIN s.OffendingValidators
             offending == Put(s.OffendingValidators, stash, disable \/ (known /\ s.OffendingValidators[stash]))
             forced == /\ ~known
                       /\ Cardinality(DOMAIN offending) >=
                              Portion(OffendingValidatorsThreshold, Cardinality(s.validators))
         IN  [s EXCEPT !.OffendingValidators = offending,
                       !.ForceEra = IF forced THEN ensure_new_era(@) ELSE @,
                       !.disabled = IF disable THEN @ \cup {stash} ELSE @]

chill_if_recent(r, stash) == IF r.recent THEN chill_stash(r.s, stash) ELSE r.s

kick_out_if_recent(s, p) ==
    add_offending_validator(chill_if_recent(inspect_spans(s, p.stash, p, None), p.stash), p.stash, p.disable = "Always")

slash_nominators(s, p, prior_slash_p) ==
    LET one(acc, who) ==
            LET value == p.exposure.others[who]
                grown == Less(Portion(p.slash, value), Portion(prior_slash_p, value))
                key == <<p.slash_era, who>>
                era_slash == Get(acc.s.NominatorSlashInEra, key, 0) + grown
                r == inspect_spans([acc.s EXCEPT !.NominatorSlashInEra = Put(@, key, era_slash)], who, p, era_slash)
            IN  [s |-> r.s, paid |-> acc.paid + r.paid, others |-> Append(acc.others, <<who, r.slashed>>)]
    IN  FoldLeft(one, [s |-> s, paid |-> 0, others |-> <<>>], Sorted(DOMAIN p.exposure.others))

(* Returns the storage and the slash to apply, if any: only a slash above   *)
(* the largest of the era counts.                                           *)
slash_all(p, own, prior_slash_p) ==
    LET offending == add_offending_validator(chill_if_recent(own, p.stash), p.stash, p.disable # "Never")
        others == slash_nominators(offending, p, prior_slash_p)
    IN  [s |-> others.s,
         unapplied |-> [validator |-> p.stash, own |-> own.slashed, others |-> others.others,
                        payout |-> own.paid + others.paid]]

compute_slash(s, p) ==
    LET own_slash == Portion(p.slash, p.exposure.own)
        key == <<p.slash_era, p.stash>>
        prior_slash_p == Get(s.ValidatorSlashInEra, key, [slash |-> 0, own |-> 0]).slash
        noted == [s EXCEPT !.ValidatorSlashInEra = Put(@, key, [slash |-> p.slash, own |-> own_slash])]
    IN  IF Portion(p.slash, p.exposure.total) = 0 THEN [s |-> kick_out_if_recent(s, p), unapplied |-> None]
        ELSE IF p.slash <= prior_slash_p THEN [s |-> s, unapplied |-> None]
        ELSE slash_all(p, inspect_spans(noted, p.stash, p, own_slash), prior_slash_p)

-----------------------------------------------------------------------------
(* Applying a slash.                                                        *)

(* acc is [s, payout, imbalance]; what the balance cannot give lowers the   *)
(* reward of the reporters.                                                 *)
take_slash(acc, controller, l, after) ==
    LET due == l.total - after.total
        taken == Lower(due, Slashable(acc.s, l.stash))
    IN  IF due = 0 THEN acc
        ELSE [s |-> update_ledger([acc.s EXCEPT !.free[l.stash] = @ - taken], controller, after),
              payout |-> Less(acc.payout, due - taken),
              imbalance |-> acc.imbalance + taken]
do_slash(acc, stash, value, slash_era) ==
    LET controller == acc.s.Bonded[stash]
        l == acc.s.Ledger[controller]
    IN  IF controller = None THEN acc
        ELSE IF l = None THEN acc
        ELSE take_slash(acc, controller, l, slash(l, value, slash_era))

pay_reporters(acc, reporters) ==
    LET per_reporter == Lower(acc.payout, acc.imbalance) \div Len(reporters)
        paid == FoldLeft(LAMBDA s, r : deposit_creating(s, r, per_reporter), acc.s, reporters)
    IN  IF acc.payout = 0 \/ reporters = <<>> THEN deposit_creating(acc.s, Treasury, acc.imbalance)
        ELSE deposit_creating(paid, Treasury, acc.imbalance - per_reporter * Len(reporters))

apply_slash(s, unapplied, slash_era) ==
    pay_reporters(FoldLeft(LAMBDA acc, x : do_slash(acc, x[1], x[2], slash_era),
                           [s |-> s, payout |-> unapplied.payout, imbalance |-> 0],
                           <<<<unapplied.validator, unapplied.own>>>> \o unapplied.others),
                  unapplied.reporters)

apply_unapplied_slashes(s, active_era) ==
    FoldLeft(LAMBDA acc, u : apply_slash(acc, u, Less(active_era, SlashDeferDuration)),
             [s EXCEPT !.UnappliedSlashes = Without(@, {active_era})],
             Get(s.UnappliedSlashes, active_era, <<>>))

(* The era of a session, None when it is before the bonded eras.            *)
slash_era_of(s, session) ==
    LET bonded == {i \in DOMAIN s.BondedEras : s.BondedEras[i][2] <= session} IN
    IF session >= s.ErasStartSessionIndex[ActiveEra(s)] THEN ActiveEra(s)
    ELSE IF bonded = {} THEN None
    ELSE s.BondedEras[CHOOSE i \in bonded : \A j \in bonded : j <= i][1]

(* r is what compute_slash returned.                                        *)
defer_slash(r, reporters, slash_era) ==
    LET due == slash_era + SlashDeferDuration + 1
        u == [reporters |-> reporters] @@ r.unapplied
    IN  IF r.unapplied = None THEN r.s
        ELSE IF SlashDeferDuration = 0 THEN apply_slash(r.s, u, slash_era)
        ELSE [r.s EXCEPT !.UnappliedSlashes = Put(@, due, Append(Get(@, due, <<>>), u))]

slash_offenders(s, offenders, slash_era, disable) ==
    LET params(o) == [stash |-> o.stash, slash |-> o.fraction, exposure |-> o.exposure, slash_era |-> slash_era,
                      now |-> ActiveEra(s), disable |-> disable,
                      window_start |-> Less(ActiveEra(s), BondingDuration)]
    IN  FoldLeft(LAMBDA acc, o : IF o.stash \in s.Invulnerables THEN acc
                                 ELSE defer_slash(compute_slash(acc, params(o)), o.reporters, slash_era),
                 s, offenders)

on_offence(s, offenders, slash_session, disable) ==
    LET slash_era == slash_era_of(s, slash_session) IN
    IF slash_era = None THEN s ELSE slash_offenders(s, offenders, slash_era, disable)

(* FilterHistoricalOffences: offences before the bonded eras are dropped.   *)
(* The exposure comes with the proof that the offender was in the session.  *)
report_offence(offenders, session, disable) ==
    /\ st.BondedEras # <<>>
    /\ session >= st.BondedEras[1][2]
    /\ Settings(on_offence(st, offenders, session, disable))

cancel_deferred_slash(era, slash_indices) ==
    LET unapplied == Get(st.UnappliedSlashes, era, <<>>)
        kept == SetToSortSeq(DOMAIN unapplied \ slash_indices, <)
    IN  /\ slash_indices # {}
        /\ slash_indices \subseteq DOMAIN unapplied
        /\ Settings([st EXCEPT !.UnappliedSlashes = Put(@, era, [i \in DOMAIN kept |-> unapplied[kept[i]]])])

-----------------------------------------------------------------------------
(* The end of an era: what is issued, and the reward of the validators.     *)
reward_to_committee_team(s) ==
    IF s.RewardTimes < 1 \/ s.CommitteeTeamRewardPerYear = None THEN s
    ELSE [FoldLeft(LAMBDA acc, r : deposit_creating(acc, r[1], r[2]), s, s.CommitteeTeamRewardPerYear)
            EXCEPT !.RewardTimes = @ - 1]

(* A release is due every reward_interval eras, left_reward_times times.    *)
ReleaseDue(params, era) ==
    /\ params.left_reward_times > 0
    /\ era >= params.first_reward_era
    /\ (era - params.first_reward_era) % params.reward_interval = 0

issue_reward(s, era) ==
    LET f == s.FoundationReward
        t == s.TreasuryReward
        founded == IF ~ReleaseDue(f, era) THEN s
                   ELSE [FoldLeft(LAMBDA acc, who : deposit_creating(acc, who, f.reward_amount), s, f.who)
                           EXCEPT !.FoundationReward.left_reward_times = @ - 1]
    IN  IF f = None \/ t = None THEN s
        ELSE IF f.reward_interval = 0 \/ t.reward_interval = 0 THEN s
        ELSE IF ~ReleaseDue(t, era) THEN founded
        ELSE [deposit_creating(founded, t.treasury_account, t.reward_amount)
                EXCEPT !.TreasuryReward.left_reward_times = @ - 1]

(* Three years of the first phase, five of the second.                      *)
yearly_inflation_amount(s, height) ==
    IF height < s.RewardStartHeight THEN 0
    ELSE IF height < 3 * Year + s.RewardStartHeight THEN s.PhaseReward[0]
    ELSE IF height < 8 * Year + s.RewardStartHeight THEN s.PhaseReward[1]
    ELSE s.PhaseReward[2]

(* The whole payout goes to the validators: there is no remainder.          *)
compute_total_payout(yearly, era_duration) == Portion(from_rational(era_duration, Year), yearly)

TeamReleaseDue(s, era) ==
    \/ era = s.FirstCommitteeTeamReleaseEra
    \/ era > s.FirstCommitteeTeamReleaseEra /\ (era - s.FirstCommitteeTeamReleaseEra) % ReleasePeriod = 0

end_era(s) ==
    LET era == ActiveEra(s)
        released == IF TeamReleaseDue(s, era) THEN reward_to_committee_team(s) ELSE s
        issued == issue_reward(released, era)
        payout == compute_total_payout(yearly_inflation_amount(issued, s.session + 1),
                                       s.session + 1 - s.ActiveEra.start)
    IN  IF s.ActiveEra.start = None THEN s
        ELSE [issued EXCEPT !.ErasValidatorReward = Put(@, era, payout), !.OffendingValidators = << >>]

ends_with(s, session) == Get(s.ErasStartSessionIndex, ActiveEra(s) + 1, None) = session + 1

end_session(s, session) == IF ends_with(s, session) THEN end_era(s) ELSE s

(* The slashing records of eras out of the bonding period go.               *)
start_era(s, start_session) ==
    LET era == ActiveEra(s) + 1
        pushed == Append(s.BondedEras, <<era, start_session>>)
        bonded == IF era > BondingDuration
                  THEN SelectSeq(pushed, LAMBDA b : b[1] >= era - BondingDuration) ELSE pushed
        kept == {bonded[i][1] : i \in DOMAIN bonded}
        gone(f) == {k \in DOMAIN f : \E i \in DOMAIN pushed : pushed[i][1] = k[1] /\ k[1] \notin kept}
        started == [s EXCEPT !.ActiveEra = [index |-> era, start |-> None],
                             !.BondedEras = bonded,
                             !.ValidatorSlashInEra = Without(@, gone(@)),
                             !.NominatorSlashInEra = Without(@, gone(@))]
    IN  apply_unapplied_slashes(started, era)

(* Offenders that are disabled for the era are disabled in each session.    *)
disable_offenders(s) ==
    [s EXCEPT !.disabled = @ \cup {v \in DOMAIN s.OffendingValidators : s.OffendingValidators[v]}]

start_session(s, session) ==
    LET next == Get(s.ErasStartSessionIndex, ActiveEra(s) + 1, None) IN
    disable_offenders(IF next # None /\ next <= session THEN start_era(s, session) ELSE s)

(* Only the largest nominators of a validator are rewarded.                 *)
Clipped(exposure) ==
    LET ranked == SetToSortSeq(DOMAIN exposure.others, LAMBDA a, b :
                      \/ exposure.others[a] > exposure.others[b]
                      \/ exposure.others[a] = exposure.others[b] /\ a < b)
    IN  SubSeq(ranked, 1, Lower(Len(ranked), MaxNominatorRewardedPerValidator))

(* supports is what the election returns: the votes behind each winner.     *)
collect_exposures(supports) ==
    [v \in DOMAIN supports |->
        LET votes == supports[v] IN
        [total |-> Total([i \in DOMAIN Sorted(DOMAIN votes) |-> votes[Sorted(DOMAIN votes)[i]]]),
         own |-> Get(votes, v, 0),
         others |-> Without(votes, {v})]]

clear_era_information(s, era) ==
    [s EXCEPT !.ErasStakers = Without(@, {era}), !.ErasValidatorPrefs = Without(@, {era}),
              !.ErasValidatorReward = Without(@, {era}), !.ErasRewardPoints = Without(@, {era}),
              !.ErasStartSessionIndex = Without(@, {era})]

(* The exposures of the era, and the preferences as they are now.           *)
store_stakers_info(s, era, exposures) ==
    LET commission(v) == IF s.Validators[v] = None THEN 0 ELSE s.Validators[v].commission IN
    [s EXCEPT !.ErasStakers = Put(@, era, exposures),
              !.ErasValidatorPrefs = Put(@, era, [v \in DOMAIN exposures |-> commission(v)]),
              !.queued = DOMAIN exposures]

trigger_new_era(s, session, exposures) ==
    LET era == s.CurrentEra + 1
        cleared == clear_era_information(s, era - HistoryDepth - 1)
    IN  store_stakers_info([cleared EXCEPT !.CurrentEra = era, !.ErasStartSessionIndex = Put(@, era, session)],
                           era, exposures)

(* supports = None: the election failed.                                    *)
try_trigger_new_era(s, session, supports) ==
    IF supports = None THEN s
    ELSE IF Cardinality(DOMAIN supports) < Higher(s.MinimumValidatorCount, 1) THEN s
    ELSE trigger_new_era(s, session, collect_exposures(supports))

NewEraDue(s, session) ==
    \/ s.ForceEra \in {"ForceNew", "ForceAlways"}
    \/ s.ForceEra = "NotForcing" /\ Less(session, s.ErasStartSessionIndex[s.CurrentEra]) >= SessionsPerEra

new_session(s, session, supports) ==
    LET planned == try_trigger_new_era([s EXCEPT !.snapshot = None], session, supports) IN
    IF ~NewEraDue(s, session) THEN s
    ELSE IF planned.CurrentEra # s.CurrentEra /\ s.ForceEra = "ForceNew"
    THEN [planned EXCEPT !.ForceEra = "NotForcing"] ELSE planned

-----------------------------------------------------------------------------
(* What the election sees, now or when the snapshot was taken: the voters   *)
(* with their active stake and their votes, and the targets.                *)
slashable_balance_of(s, stash) ==
    IF s.Bonded[stash] = None THEN 0
    ELSE IF s.Ledger[s.Bonded[stash]] = None THEN 0 ELSE s.Ledger[s.Bonded[stash]].active

get_npos_voters(s) ==
    LET votes(v) == IF s.Nominators[v] # None THEN s.Nominators[v].targets ELSE {v}
        voting == {v \in s.VoterList : votes(v) # {} /\ (s.Nominators[v] # None \/ s.Validators[v] # None)}
    IN  [v \in voting |-> [stake |-> slashable_balance_of(s, v), targets |-> votes(v)]]
get_npos_targets(s) == Holders(s.Validators)
electing(s) == [voters |-> get_npos_voters(s), targets |-> get_npos_targets(s)]

take_snapshot ==
    /\ st.snapshot = None
    /\ Settings([st EXCEPT !.snapshot = electing(st)])

(* An election fills the seats; every voter stands behind one winner it     *)
(* voted for, if there is one.  Which winners and which one is open.        *)
Elections(s) ==
    LET data == IF s.snapshot = None THEN electing(s) ELSE s.snapshot
        seats == Lower(s.ValidatorCount, Cardinality(data.targets))
        winners == {W \in SUBSET data.targets : Cardinality(W) = seats}
        behind(W) == {f \in [DOMAIN data.voters -> W \cup {None}] : \A v \in DOMAIN data.voters :
                         IF data.voters[v].targets \cap W = {} THEN f[v] = None
                         ELSE f[v] \in data.voters[v].targets}
        supports(W, f) == [w \in W |-> [v \in {x \in DOMAIN f : f[x] = w} |-> data.voters[v].stake]]
    IN  {None} \cup UNION {{supports(W, f) : f \in behind(W)} : W \in winners}

(* pallet_session::rotate_session, in on_initialize, and on_finalize of     *)
(* staking in the same block, which dates the era.                          *)
on_finalize(s) == IF s.ActiveEra.start = None THEN [s EXCEPT !.ActiveEra.start = s.session] ELSE s

next_validators(s) ==
    [s EXCEPT !.session = @ + 1, !.validators = s.queued, !.disabled = IF s.queued = s.validators THEN @ ELSE {}]

rotate_session(supports) ==
    LET next == st.session + 1 IN
    Settings(on_finalize(new_session(start_session(next_validators(end_session(st, st.session)), next),
                                     next + 1, supports)))

(* Every block counts the same, 20 points in the code: only shares matter.  *)
reward_by_ids(s, v) ==
    LET points == Get(s.ErasRewardPoints, ActiveEra(s), << >>) IN
    [s EXCEPT !.ErasRewardPoints = Put(@, ActiveEra(s), Put(points, v, Get(points, v, 0) + 1))]

note_author(v) ==
    /\ v \in st.validators
    /\ Settings(reward_by_ids(st, v))

-----------------------------------------------------------------------------
(* The payout of an era.                                                    *)
make_payout(s, stash, amount) ==
    LET dest == s.Payee[stash]
        controller == s.Bonded[stash]
    IN  CASE dest[1] = "None" -> s
          [] dest[1] = "Account" -> deposit_creating(s, dest[2], amount)
          [] dest[1] = "Stash" -> deposit_into_existing(s, stash, amount)
          [] controller = None -> s
          [] dest[1] = "Controller" -> deposit_creating(s, controller, amount)
          [] s.Ledger[controller] = None -> s
          [] OTHER -> update_ledger(deposit_into_existing(s, stash, amount), controller,
                          [s.Ledger[controller] EXCEPT !.active = @ + amount, !.total = @ + amount])

PaidEras(s) == Less(s.CurrentEra, HistoryDepth) .. s.CurrentEra

(* The commission first, the rest in proportion to what each had staked.    *)
pay_stakers(s, stash, era) ==
    LET exposure == Get(Get(s.ErasStakers, era, << >>), stash, [total |-> 0, own |-> 0, others |-> << >>])
        points == Get(s.ErasRewardPoints, era, << >>)
        all == Total([i \in DOMAIN Sorted(DOMAIN points) |-> points[Sorted(DOMAIN points)[i]]])
        total_payout == Portion(from_rational(Get(points, stash, 0), all), s.ErasValidatorReward[era])
        commission == Portion(Get(Get(s.ErasValidatorPrefs, era, << >>), stash, 0), total_payout)
        leftover == total_payout - commission
        part(value) == Portion(from_rational(value, exposure.total), leftover)
        own == make_payout(s, stash, part(exposure.own) + commission)
    IN  IF Get(points, stash, 0) = 0 THEN s
        ELSE FoldLeft(LAMBDA acc, who : make_payout(acc, who, part(exposure.others[who])), own, Clipped(exposure))

payout_stakers(validator_stash, era) ==
    LET controller == st.Bonded[validator_stash]
        l == st.Ledger[controller]
        claimed == {e \in l.claimed_rewards : e >= Less(st.CurrentEra, HistoryDepth)}
        noted == [st EXCEPT !.Ledger[controller].claimed_rewards = claimed \cup {era}]
    IN  /\ era \in PaidEras(st)
        /\ era \in DOMAIN st.ErasValidatorReward
        /\ controller # None
        /\ l # None
        /\ era \notin claimed
        /\ st' = pay_stakers(noted, l.stash, era)
        /\ claims' = Put(claims, <<l.stash, era>>, Get(claims, <<l.stash, era>>, 0) + 1)
        /\ UNCHANGED excused
=============================================================================
