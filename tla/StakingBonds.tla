---------------------------- MODULE StakingBonds ----------------------------
(***************************************************************************)
(* The staking pallet, its stakers: bonds and their unlocking, validators  *)
(* and nominators, and the settings of root.                               *)
(*                                                                         *)
(* st is the storage, a field per item, with the parts of the balances     *)
(* (free, lock), session (session, validators, queued, disabled) and       *)
(* election (snapshot) pallets that staking reads and writes.  The time    *)
(* between two sessions is the unit of time and of block numbers.          *)
(***************************************************************************)
EXTENDS StakingLedger, TLC

CONSTANTS
    Accounts, Treasury,
    SessionsPerEra, HistoryDepth, SlashDeferDuration, MaxUnlockingChunks,
    MaxNominations, MaxWinners, MaxNominatorRewardedPerValidator,
    OffendingValidatorsThreshold, SlashRewardFraction,      \* in parts
    Year,                              \* sessions in a year
    ReleasePeriod                      \* eras between two releases to the team, 365 in the code

VARIABLES
    st,
    claims,    \* history: how often the payout of <<validator, era>> succeeded
    excused    \* history: accounts that root has unstaked or given an earlier unlocking, or whose slashes are forgotten

vars == <<st, claims, excused>>

Staked == <<"Staked", None>>
Put(f, k, v) == (k :> v) @@ f
Get(f, k, default) == IF k \in DOMAIN f THEN f[k] ELSE default
Without(f, S) == [k \in DOMAIN f \ S |-> f[k]]
Sorted(S) == SetToSortSeq(S, <)
Holders(f) == {a \in DOMAIN f : f[a] # None}

-----------------------------------------------------------------------------
(* The balances pallet.  An account is dead when it has nothing.            *)
deposit_creating(s, who, amount) ==
    IF s.free[who] = 0 /\ amount < ED THEN s ELSE [s EXCEPT !.free[who] = @ + amount]
deposit_into_existing(s, who, amount) ==
    IF s.free[who] = 0 THEN s ELSE [s EXCEPT !.free[who] = @ + amount]

(* A bonded account is referenced and keeps the existential deposit.        *)
Slashable(s, who) == IF s.Bonded[who] = None THEN s.free[who] ELSE Less(s.free[who], ED)

-----------------------------------------------------------------------------

update_ledger(s, controller, l) ==
    [s EXCEPT !.Ledger[controller] = l, !.lock[l.stash] = l.total]

do_remove_validator(s, who) ==
    IF s.Validators[who] = None THEN s
    ELSE [s EXCEPT !.Validators[who] = None, !.VoterList = @ \ {who}]
do_remove_nominator(s, who) ==
    IF s.Nominators[who] = None THEN s
    ELSE [s EXCEPT !.Nominators[who] = None, !.VoterList = @ \ {who}]
do_add_validator(s, who, prefs) ==
    [s EXCEPT !.Validators[who] = prefs, !.VoterList = @ \cup {who}]
do_add_nominator(s, who, nominations) ==
    [s EXCEPT !.Nominators[who] = nominations, !.VoterList = @ \cup {who}]

chill_stash(s, stash) == do_remove_nominator(do_remove_validator(s, stash), stash)

(* A stash that goes takes the records of its slashes with it.              *)
Forgotten(s) == {a \in Accounts : s.SlashingSpans[a] = None /\ st.SlashingSpans[a] # None}
Removal(s) == st' = s /\ excused' = excused \cup Forgotten(s) /\ UNCHANGED claims

(* The number of spans, which a caller has to name at least.                *)
span_count(s, who) == IF s.SlashingSpans[who] = None THEN 0 ELSE Len(s.SlashingSpans[who].prior) + 1

clear_stash_metadata(s, stash) ==
    IF s.SlashingSpans[stash] = None THEN s
    ELSE LET iter == spans_iter(s.SlashingSpans[stash]) IN
         [s EXCEPT !.SlashingSpans[stash] = None,
                   !.SpanSlash = Without(@, {<<stash, iter[k].index>> : k \in DOMAIN iter})]

(* kill_stash with the removal of the lock that follows it.                 *)
kill_stash(s, stash) ==
    LET controller == s.Bonded[stash]
        cleared == clear_stash_metadata(s, stash)
        gone == [cleared EXCEPT !.Bonded[stash] = None, !.Ledger[controller] = None,
                                !.Payee[stash] = Staked, !.lock[stash] = 0]
    IN  do_remove_nominator(do_remove_validator(gone, stash), stash)

Leaves(l) == l.unlocking = <<>> /\ l.active < ED

MayWithdraw(s, controller, num_slashing_spans) ==
    /\ s.Ledger[controller] # None
    /\ LET l == consolidate_unlocked(s.Ledger[controller], s.CurrentEra) IN
       Leaves(l) => /\ s.Bonded[l.stash] # None
                    /\ num_slashing_spans >= span_count(s, l.stash)

do_withdraw_unbonded(s, controller) ==
    LET l == consolidate_unlocked(s.Ledger[controller], s.CurrentEra) IN
    IF Leaves(l) THEN kill_stash(s, l.stash) ELSE update_ledger(s, controller, l)

(* Mistake: a new ledger has claimed nothing.                               *)
claimed_before_none(current_era) == {}

(* A new ledger has no claim on the eras before it.                         *)
claimed_before(current_era) == Less(current_era, HistoryDepth) .. current_era - 1

bond(stash, value, payee) ==
    /\ st.Bonded[stash] = None
    /\ st.Ledger[stash] = None
    /\ value >= ED
    /\ st.free[stash] > 0
    /\ st' = update_ledger([st EXCEPT !.Bonded[stash] = stash, !.Payee[stash] = payee], stash,
                           new_ledger(stash, Lower(value, st.free[stash]), claimed_before(st.CurrentEra)))
    /\ UNCHANGED <<claims, excused>>

bond_extra(stash, max_additional) ==
    LET controller == st.Bonded[stash]
        l == st.Ledger[controller]
        extra == Lower(st.free[stash] - l.total, max_additional)
    IN  /\ controller # None
        /\ l # None
        /\ st.free[stash] >= l.total
        /\ l.active + extra >= ED
        /\ st' = update_ledger(st, controller, [l EXCEPT !.total = @ + extra, !.active = @ + extra])
        /\ UNCHANGED <<claims, excused>>

MinActiveBond(s, stash) ==
    IF s.Nominators[stash] # None THEN s.MinNominatorBond
    ELSE IF s.Validators[stash] # None THEN s.MinValidatorBond ELSE 0

unlock_era(current_era) == current_era + BondingDuration

(* One chunk an era: the last one takes what is unbonded in the same era.   *)
push_chunk(unlocking, value, era) ==
    IF unlocking # <<>> /\ Last(unlocking).era = era
    THEN [unlocking EXCEPT ![Len(unlocking)].value = @ + value]
    ELSE Append(unlocking, [value |-> value, era |-> era])

(* When every slot is taken, what is due is withdrawn first.                *)
unbond(controller, value) ==
    LET full == Len(st.Ledger[controller].unlocking) = MaxUnlockingChunks
        s == IF full THEN do_withdraw_unbonded(st, controller) ELSE st
        l == s.Ledger[controller]
        asked == Lower(value, l.active)
        amount == IF l.active - asked < ED THEN l.active ELSE asked
    IN  /\ st.Ledger[controller] # None
        /\ full => MayWithdraw(st, controller, span_count(st, controller))
        /\ l # None
        /\ Len(l.unlocking) < MaxUnlockingChunks
        /\ asked > 0 => l.active - amount >= MinActiveBond(s, l.stash)
        /\ Removal(IF asked = 0 THEN s
                   ELSE update_ledger(s, controller,
                          [l EXCEPT !.active = @ - amount,
                                    !.unlocking = push_chunk(@, amount, unlock_era(s.CurrentEra))]))

withdraw_unbonded(controller, num_slashing_spans) ==
    /\ MayWithdraw(st, controller, num_slashing_spans)
    /\ Removal(do_withdraw_unbonded(st, controller))

rebond_call(controller, value) ==
    LET l == st.Ledger[controller] IN
    /\ l # None
    /\ l.unlocking # <<>>
    /\ rebond(l, value).active >= ED
    /\ st' = update_ledger(st, controller, rebond(l, value))
    /\ UNCHANGED <<claims, excused>>

(* Root moves one chunk to another era, without sorting the chunks.         *)
set_unlock_after_eras(account, index, after_eras) ==
    LET l == st.Ledger[account] IN
    /\ l # None
    /\ index \in DOMAIN l.unlocking
    /\ st' = update_ledger(st, account, [l EXCEPT !.unlocking[index].era = st.CurrentEra + after_eras])
    /\ excused' = excused \cup {l.stash}
    /\ UNCHANGED claims

force_unstake(stash, num_slashing_spans) ==
    /\ st.Bonded[stash] # None
    /\ num_slashing_spans >= span_count(st, stash)
    /\ st' = kill_stash(st, stash)
    /\ excused' = excused \cup {stash}
    /\ UNCHANGED claims

reap_stash(stash, num_slashing_spans) ==
    LET controller == st.Bonded[stash]
        l == st.Ledger[controller]
    IN  /\ controller # None
        /\ st.free[stash] < ED \/ (IF l = None THEN 0 ELSE l.total) < ED
        /\ num_slashing_spans >= span_count(st, stash)
        /\ Removal(kill_stash(st, stash))

set_payee(controller, payee) ==
    /\ st.Ledger[controller] # None
    /\ st' = [st EXCEPT !.Payee[st.Ledger[controller].stash] = payee]
    /\ UNCHANGED <<claims, excused>>

(* Only a stash bonded before controllers were dropped has another one.     *)
set_controller(stash) ==
    LET old == st.Bonded[stash] IN
    /\ old # None
    /\ st.Ledger[stash] = None
    /\ old # stash
    /\ st' = [st EXCEPT !.Bonded[stash] = stash, !.Ledger[old] = None, !.Ledger[stash] = st.Ledger[old]]
    /\ UNCHANGED <<claims, excused>>

(* A transfer leaves what is locked, and an account that is referenced.     *)
transfer(from, to, amount) ==
    LET left == st.free[from] - amount IN
    /\ from # to
    /\ left >= st.lock[from]
    /\ left >= ED \/ (left = 0 /\ st.Bonded[from] = None)
    /\ st.free[to] + amount >= ED
    /\ st' = [st EXCEPT !.free[from] = left, !.free[to] = @ + amount]
    /\ UNCHANGED <<claims, excused>>

-----------------------------------------------------------------------------
(* Validators and nominators.                                               *)
validate(controller, prefs) ==
    LET l == st.Ledger[controller]
        stash == l.stash
    IN  /\ l # None
        /\ l.active >= st.MinValidatorBond
        /\ prefs.commission >= st.MinCommission
        /\ stash \notin st.DisabledValidators
        /\ st.Validators[stash] = None /\ st.MaxValidatorsCount # None =>
               Cardinality(Holders(st.Validators)) < st.MaxValidatorsCount
        /\ st' = do_add_validator(do_remove_nominator(st, stash), stash, prefs)
        /\ UNCHANGED <<claims, excused>>

(* A target need not be a validator; one that blocks takes no new nominator.*)
nominate(controller, targets) ==
    LET l == st.Ledger[controller]
        stash == l.stash
        old == IF st.Nominators[stash] = None THEN {} ELSE st.Nominators[stash].targets
        blocked(t) == st.Validators[t] # None /\ st.Validators[t].blocked
    IN  /\ l # None
        /\ l.active >= st.MinNominatorBond
        /\ st.Nominators[stash] = None /\ st.MaxNominatorsCount # None =>
               Cardinality(Holders(st.Nominators)) < st.MaxNominatorsCount
        /\ Cardinality(targets) \in 1 .. MaxNominations
        /\ \A t \in targets : t \in old \/ ~blocked(t)
        /\ st' = do_add_nominator(do_remove_validator(st, stash), stash,
                                  [targets |-> targets, submitted_in |-> st.CurrentEra])
        /\ UNCHANGED <<claims, excused>>

chill(controller) ==
    /\ st.Ledger[controller] # None
    /\ st' = chill_stash(st, st.Ledger[controller].stash)
    /\ UNCHANGED <<claims, excused>>

(* Anyone may chill a staker below the minimum once the places run short.   *)
chill_other(caller, controller) ==
    LET l == st.Ledger[controller]
        filled(list, max) == /\ max # None
                             /\ Portion(st.ChillThreshold, max) < Cardinality(Holders(list))
        others == /\ st.ChillThreshold # None
                  /\ st.Nominators[l.stash] # None => filled(st.Nominators, st.MaxNominatorsCount)
                  /\ st.Nominators[l.stash] = None /\ st.Validators[l.stash] # None =>
                         filled(st.Validators, st.MaxValidatorsCount)
                  /\ l.active < MinActiveBond(st, l.stash)
    IN  /\ l # None
        /\ caller # controller => others
        /\ st' = chill_stash(st, l.stash)
        /\ UNCHANGED <<claims, excused>>

kick(controller, who) ==
    LET l == st.Ledger[controller]
        kicked(n) == IF n \in who /\ st.Nominators[n] # None
                     THEN [st.Nominators[n] EXCEPT !.targets = @ \ {l.stash}] ELSE st.Nominators[n]
    IN  /\ l # None
        /\ st' = [st EXCEPT !.Nominators = [n \in Accounts |-> kicked(n)]]
        /\ UNCHANGED <<claims, excused>>

force_apply_min_commission(stash) ==
    /\ st.Validators[stash] # None
    /\ st' = [st EXCEPT !.Validators[stash].commission = Higher(@, st.MinCommission)]
    /\ UNCHANGED <<claims, excused>>

-----------------------------------------------------------------------------
(* Settings of root and of the council.                                     *)
Settings(s) == st' = s /\ UNCHANGED <<claims, excused>>

set_validator_count(new) == new <= MaxWinners /\ Settings([st EXCEPT !.ValidatorCount = new])
increase_validator_count(additional) ==
    st.ValidatorCount + additional <= MaxWinners /\ Settings([st EXCEPT !.ValidatorCount = @ + additional])
scale_validator_count(percent) ==
    LET new == st.ValidatorCount + (percent * st.ValidatorCount) \div 100 IN
    new <= MaxWinners /\ Settings([st EXCEPT !.ValidatorCount = new])
set_invulnerables(list) == Settings([st EXCEPT !.Invulnerables = list])
disable_validator(v) == Settings([st EXCEPT !.DisabledValidators = @ \cup {v}])
enable_validator(v) ==
    v \in st.DisabledValidators /\ Settings([st EXCEPT !.DisabledValidators = @ \ {v}])
set_min_commission(new) == Settings([st EXCEPT !.MinCommission = new])

(* Each of the six settings is kept, set or removed.                        *)
set_staking_configs(ops) ==
    LET set(op, old, removed) ==
            CASE op[1] = "Noop" -> old [] op[1] = "Remove" -> removed [] op[1] = "Set" -> op[2] IN
    Settings([st EXCEPT !.MinNominatorBond = set(ops.min_nominator_bond, @, 0),
                        !.MinValidatorBond = set(ops.min_validator_bond, @, 0),
                        !.MaxNominatorsCount = set(ops.max_nominator_count, @, None),
                        !.MaxValidatorsCount = set(ops.max_validator_count, @, None),
                        !.ChillThreshold = set(ops.chill_threshold, @, None),
                        !.MinCommission = set(ops.min_commission, @, 0)])

force_no_eras == Settings([st EXCEPT !.ForceEra = "ForceNone"])
force_new_era == Settings([st EXCEPT !.ForceEra = "ForceNew"])
force_new_era_always == Settings([st EXCEPT !.ForceEra = "ForceAlways"])

set_reward_start_height(height) == Settings([st EXCEPT !.RewardStartHeight = height])
set_phase_reward(phase, reward_per_year) == Settings([st EXCEPT !.PhaseReward[phase] = reward_per_year])
set_first_committee_team_reward_date(era) == Settings([st EXCEPT !.FirstCommitteeTeamReleaseEra = era])
add_committee_team_reward_per_year(who, amount) ==
    /\ st.CommitteeTeamRewardPerYear # None
    /\ Settings([st EXCEPT !.CommitteeTeamRewardPerYear = Append(@, <<who, amount>>)])
(* An index past the end is a panic of Vec::remove, not an error.           *)
rm_committee_team_reward_by_index(index) ==
    /\ st.CommitteeTeamRewardPerYear # None
    /\ index \in DOMAIN st.CommitteeTeamRewardPerYear
    /\ Settings([st EXCEPT !.CommitteeTeamRewardPerYear = RemoveAt(@, index)])
set_foundation_params(params) == Settings([st EXCEPT !.FoundationReward = params])
set_treasury_params(params) == Settings([st EXCEPT !.TreasuryReward = params])
=============================================================================
