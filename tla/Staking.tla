------------------------------ MODULE Staking ------------------------------
(***************************************************************************)
(* The staking pallet: its calls, the rotation of sessions and the reports *)
(* of offences, in any order.  Stakers of the genesis are the constants;   *)
(* MaxSession and MaxPoints bound the behaviours.                          *)
(***************************************************************************)
EXTENDS StakingEras

CONSTANTS
    Amounts, Fractions, Commissions, Counts,    \* the arguments of calls
    MaxSession, MaxPoints

-----------------------------------------------------------------------------
(* The genesis.  stakers gives some accounts a bond and the validators they *)
(* vote for (themselves: a validator); legacy pairs a stash with another    *)
(* controller, as bonds of earlier versions have; team is the list that no  *)
(* call of this version creates, None or one of an earlier version.         *)
genesis_bonds(stakers, legacy, wealth) ==
    LET controller(a) == Get(legacy, a, a)
        validates(a) == a \in DOMAIN stakers /\ a \in stakers[a].targets
        nominates(a) == a \in DOMAIN stakers /\ ~validates(a) /\ stakers[a].targets # {}
        ledger(c) == LET own == {a \in DOMAIN stakers : controller(a) = c} IN
                     IF own = {} THEN None
                     ELSE LET a == CHOOSE x \in own : TRUE IN new_ledger(a, stakers[a].bond, {})
    IN  [Bonded |-> [a \in Accounts |-> IF a \in DOMAIN stakers THEN controller(a) ELSE None],
         Ledger |-> [c \in Accounts |-> ledger(c)],
         Payee |-> [a \in Accounts |-> Staked],
         Validators |-> [a \in Accounts |-> IF validates(a) THEN [commission |-> 0, blocked |-> FALSE] ELSE None],
         Nominators |-> [a \in Accounts |-> IF nominates(a)
                                            THEN [targets |-> stakers[a].targets, submitted_in |-> 0] ELSE None],
         VoterList |-> {a \in Accounts : validates(a) \/ nominates(a)},
         free |-> [a \in Accounts \cup {Treasury} |-> wealth],
         lock |-> [a \in Accounts |-> IF a \in DOMAIN stakers THEN stakers[a].bond ELSE 0],
         ValidatorCount |-> 2, MinimumValidatorCount |-> 0, Invulnerables |-> {},
         MinNominatorBond |-> 0, MinValidatorBond |-> 0, MaxNominatorsCount |-> None, MaxValidatorsCount |-> None,
         MinCommission |-> 0]

genesis_eras ==
    [CurrentEra |-> -1, ActiveEra |-> [index |-> -1, start |-> None],
     ErasStartSessionIndex |-> << >>, ErasStakers |-> << >>, ErasValidatorPrefs |-> << >>,
     ErasValidatorReward |-> << >>, ErasRewardPoints |-> << >>,
     session |-> 0, validators |-> {}, queued |-> {}, disabled |-> {}, snapshot |-> None]

genesis_slashes(team) ==
    [ForceEra |-> "NotForcing", UnappliedSlashes |-> << >>, BondedEras |-> <<>>, ValidatorSlashInEra |-> << >>,
     NominatorSlashInEra |-> << >>, SlashingSpans |-> [a \in Accounts |-> None], SpanSlash |-> << >>,
     OffendingValidators |-> << >>, DisabledValidators |-> {}, ChillThreshold |-> None,
     RewardStartHeight |-> 0, PhaseReward |-> [p \in 0 .. 2 |-> 0], CommitteeTeamRewardPerYear |-> team,
     FirstCommitteeTeamReleaseEra |-> 0, RewardTimes |-> 6, FoundationReward |-> None, TreasuryReward |-> None]

genesis_storage(stakers, legacy, team, wealth) ==
    genesis_bonds(stakers, legacy, wealth) @@ genesis_eras @@ genesis_slashes(team)

(* Era 0 is planned for session 0 and starts with it.                       *)
Genesis(s) ==
    {LET planned == new_session(try_trigger_new_era(s, 0, supports), 1, supports) IN
     on_finalize(start_session([planned EXCEPT !.validators = planned.queued], 0))
        : supports \in Elections(s) \ {None}}

Init(stakers, legacy, team, wealth) ==
    /\ st \in Genesis(genesis_storage(stakers, legacy, team, wealth))
    /\ claims = << >>
    /\ excused = {}

-----------------------------------------------------------------------------
(* The calls, by subject.                                                   *)
Payees == {Staked, <<"Stash", None>>, <<"Controller", None>>, <<"None", None>>}
          \cup {<<"Account", b>> : b \in Accounts}

BondsChange(a, x) ==
    \/ bond(a, x, Staked)
    \/ bond_extra(a, x)
    \/ unbond(a, x)
    \/ rebond_call(a, x)
BondsEnd(a) == \E n \in 0 .. 2 :
    \/ withdraw_unbonded(a, n)
    \/ reap_stash(a, n)
Unstake(a) == \E n \in 0 .. 2 : force_unstake(a, n)
Unlock(a) == \E i \in 1 .. MaxUnlockingChunks, after \in 0 .. 1 : set_unlock_after_eras(a, i, after)
Transfers(a, x) == \E b \in Accounts : transfer(a, b, x)

RolesChange(a) ==
    \/ \E c \in Commissions, blocked \in BOOLEAN : validate(a, [commission |-> c, blocked |-> blocked])
    \/ \E targets \in SUBSET Accounts : nominate(a, targets)
    \/ chill(a)
RolesTaken(a) ==
    \/ \E b \in Accounts : chill_other(b, a)
    \/ \E b \in Accounts : kick(a, {b})
    \/ force_apply_min_commission(a)

Configure(x, f) ==
    \/ \E kind \in {"Noop", "Remove", "Set"}, n \in Counts, c \in Commissions :
           set_staking_configs([min_nominator_bond |-> <<kind, x>>, min_validator_bond |-> <<kind, x>>,
                                max_nominator_count |-> <<kind, n>>, max_validator_count |-> <<kind, n>>,
                                chill_threshold |-> <<kind, f>>, min_commission |-> <<kind, c>>])
    \/ \E c \in Commissions : set_min_commission(c)
    \/ \E n \in Counts : set_validator_count(n) \/ increase_validator_count(n) \/ scale_validator_count(50 * n)
DisableAccounts == \E v \in Accounts : disable_validator(v) \/ enable_validator(v)

ForceEras == force_no_eras \/ force_new_era \/ force_new_era_always
TeamSet(a, x) == \E n \in Counts :
    \/ set_first_committee_team_reward_date(n)
    \/ add_committee_team_reward_per_year(a, x)
    \/ rm_committee_team_reward_by_index(n)
ReleasesSet(a, x) == \E n \in Counts, every \in 0 .. 1 :
    \/ set_foundation_params([who |-> <<a>>, left_reward_times |-> n, first_reward_era |-> n,
                              reward_interval |-> every, reward_amount |-> x])
    \/ set_treasury_params([treasury_account |-> a, left_reward_times |-> n, first_reward_era |-> n,
                            reward_interval |-> every, reward_amount |-> x])

Sessions(election_may_fail) ==
    /\ st.session < MaxSession
    /\ \E supports \in Elections(st) : (supports = None => election_may_fail) /\ rotate_session(supports)
Authors == \E v \in Accounts :
    /\ Get(Get(st.ErasRewardPoints, ActiveEra(st), << >>), v, 0) < MaxPoints
    /\ note_author(v)
Payouts == \E v \in Accounts, e \in PaidEras(st) : payout_stakers(v, e)

(* An offence in the first session of an era, by a validator of the era.    *)
Offences(fraction, disable, reporters) == \E e \in 0 .. ActiveEra(st) :
    /\ e \in DOMAIN st.ErasStakers
    /\ \E v \in DOMAIN st.ErasStakers[e] :
          report_offence(<<[stash |-> v, fraction |-> fraction, exposure |-> st.ErasStakers[e][v],
                            reporters |-> reporters]>>,
                         st.ErasStartSessionIndex[e], disable)
SlashesCancelled == \E e \in DOMAIN st.UnappliedSlashes, i \in 1 .. 2 : cancel_deferred_slash(e, {i})
SetInvulnerable == \E v \in Accounts : set_invulnerables({v})

Next ==
    \/ \E a \in Accounts :
          \/ \E x \in Amounts : BondsChange(a, x) \/ Transfers(a, x) \/ TeamSet(a, x) \/ ReleasesSet(a, x)
          \/ BondsEnd(a) \/ Unstake(a) \/ Unlock(a) \/ set_controller(a)
          \/ \E payee \in Payees : set_payee(a, payee)
          \/ RolesChange(a) \/ RolesTaken(a)
    \/ \E x \in Amounts, f \in Fractions : Configure(x, f)
    \/ DisableAccounts \/ ForceEras
    \/ \E phase \in 0 .. 2, x \in Amounts : set_phase_reward(phase, x)
    \/ \E height \in 0 .. 1 : set_reward_start_height(height)
    \/ Sessions(TRUE) \/ take_snapshot \/ Authors \/ Payouts
    \/ \E f \in Fractions, disable \in {"Never", "WhenSlashed", "Always"}, reporters \in {<<>>} \cup {<<a>> : a \in Accounts} :
          Offences(f, disable, reporters)
    \/ SlashesCancelled \/ SetInvulnerable

-----------------------------------------------------------------------------
(* Each ledger adds up (ensure_ledger_consistent of try_state), is what is  *)
(* locked, and the stash has it, whatever was slashed, paid or moved; and a *)
(* staker has one role and is in the voter list exactly for it.             *)
LedgersBacked ==
    /\ \A c \in Holders(st.Ledger) :
          LET l == st.Ledger[c] IN
          /\ l.total = l.active + ValueOf(l.unlocking)
          /\ st.Bonded[l.stash] = c
          /\ st.lock[l.stash] = l.total
          /\ l.total <= st.free[l.stash]
    /\ st.VoterList = Holders(st.Validators) \cup Holders(st.Nominators)
    /\ Holders(st.Validators) \cap Holders(st.Nominators) = {}

(* payout_stakers pays a validator at most once for an era, even when the   *)
(* stash is removed and bonded again while the era is in the history.       *)
PaidOnce == \A k \in DOMAIN claims : claims[k] <= 1

(* An era that has ended has its reward as long as the history keeps it,    *)
(* and the active era is in the history and at most one behind the planned  *)
(* one (new_session, start_session, end_session).                           *)
ErasRewarded ==
    /\ ActiveEra(st) \in {st.CurrentEra, st.CurrentEra - 1}
    /\ ActiveEra(st) \in DOMAIN st.ErasStakers
    /\ \A e \in PaidEras(st) : e < ActiveEra(st) => e \in DOMAIN st.ErasValidatorReward

(* What a staker was exposed with in an era stays in its ledger while the   *)
(* era is in the bonding period (unbond, do_withdraw_unbonded), but for the *)
(* last era of it, which an election over an older snapshot can miss.       *)
StakeHeld ==
    \A e \in DOMAIN st.ErasStakers : e + BondingDuration > st.CurrentEra + 1 =>
        LET stakers == st.ErasStakers[e]
            elected == Sorted(DOMAIN stakers)
            exposed(a) == Total([i \in DOMAIN elected |->
                              IF elected[i] = a THEN stakers[a].own ELSE Get(stakers[elected[i]].others, a, 0)])
        IN  \A a \in Accounts \ excused : st.SlashingSpans[a] = None /\ exposed(a) > 0 =>
                /\ st.Bonded[a] # None
                /\ st.Ledger[st.Bonded[a]].total >= exposed(a)


(* The end of an era fixes its reward and every validator is paid it once   *)
(* (end_era, do_payout_stakers).                                            *)
ErasPaid == ErasRewarded /\ PaidOnce

(* Reports of the same era, in any order and with any fractions, queue no   *)
(* more against a staker than the largest of them (compute_slash,           *)
(* compare_and_update_span_slash), unless its records were cleared.         *)
SlashedByLargest ==
    \A i \in DOMAIN st.BondedEras :
        LET e == st.BondedEras[i][1]
            pending == Get(st.UnappliedSlashes, e + SlashDeferDuration + 1, <<>>)
            due(a, u) == Total([j \in DOMAIN u.others |-> IF u.others[j][1] = a THEN u.others[j][2] ELSE 0])
                         + (IF u.validator = a THEN u.own ELSE 0)
        IN  pending # <<>> =>
            \A a \in Accounts \ excused : st.SlashingSpans[a] # None =>
                Total([k \in DOMAIN pending |-> due(a, pending[k])])
                    <= Get(st.ValidatorSlashInEra, <<e, a>>, [slash |-> 0, own |-> 0]).own
                       + Get(st.NominatorSlashInEra, <<e, a>>, 0)

=============================================================================
