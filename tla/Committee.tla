----------------------------- MODULE Committee -----------------------------
(***************************************************************************)
(* The committee pallet (pallets/committee): who may verify machines, how  *)
(* much each of them has staked, and which part of the stake is in use.    *)
(*                                                                         *)
(* A dispatchable call is one action; a call that returns an error changes *)
(* nothing, so every ensure! is a conjunct of the guard.  The functions of *)
(* the ManageCommittee trait appear as what the verification pallets do to *)
(* one member with them.  Those pallets do not always return what they     *)
(* took: a failure in the middle of a hook is not rolled back, and some    *)
(* of them return the same stake twice.  Two history variables keep this   *)
(* apart: `held' is the stake that a member's orders and reviews hold, and *)
(* `unbalanced' are the members for whom a caller did something else than  *)
(* take it, return it or slash it once.                                    *)
(***************************************************************************)
EXTENDS Integers

CONSTANTS
    Accounts,       \* accounts that may be elected to the committee
    StakeParams,    \* the parameter records root may choose
    Amounts,        \* the amounts the calls are made with
    Endowment,      \* the free balance of an account at genesis
    OrderStake,     \* stake_per_order, the same in every parameter record
    StakePerReport, \* ReporterStakeParams.stake_per_report, the stake of a review
    MaxUsed,        \* bound: the stake in use of one member
    MaxStake,       \* bound: the stake on record of one member
    MaxReward       \* bound: rewards one member is ever given

ASSUME AmountsAreNat ==
    /\ Amounts \subseteq Nat
    /\ Endowment \in Nat /\ MaxUsed \in Nat /\ MaxStake \in Nat /\ MaxReward \in Nat
    /\ OrderStake \in Nat \ {0} /\ StakePerReport \in Nat \ {0}

ASSUME StakeParamsType ==
    StakeParams \subseteq [stake_baseline         : Nat,
                           stake_per_order        : {OrderStake},
                           min_free_stake_percent : 0..100]

VARIABLES
    normal,             \* CommitteeList.normal
    chill_list,         \* CommitteeList.chill_list
    waiting_box_pubkey, \* CommitteeList.waiting_box_pubkey
    fulfilling_list,    \* CommitteeList.fulfilling_list
    params,             \* CommitteeStakeParams
    staked_amount,      \* CommitteeStakeInfo.staked_amount, by account
    used_stake,         \* CommitteeStakeInfo.used_stake, by account
    can_claim_reward,   \* CommitteeStakeInfo.can_claim_reward, by account
    claimed_reward,     \* CommitteeStakeInfo.claimed_reward, by account
    box_pubkey,         \* the accounts that have set a box_pubkey
    free,               \* Currency: free balance
    reserved,           \* Currency: reserved balance
    held,               \* history: stake held by orders and reviews, by account
    unbalanced          \* history: accounts whose calls of ManageCommittee did not balance

lists == <<normal, chill_list, waiting_box_pubkey, fulfilling_list>>
rewards == <<can_claim_reward, claimed_reward>>
stakes == <<staked_amount, used_stake, rewards, box_pubkey>>
balances == <<free, reserved>>
callers == <<held, unbalanced>>
vars == <<lists, params, stakes, balances, callers>>

is_committee(c) ==
    c \in normal \cup chill_list \cup waiting_box_pubkey \cup fulfilling_list

(* Perbill * Balance rounds to the nearest unit, ties downwards. *)
PercentOf(p, a) == (2 * p * a + 99) \div 200

(* Parameters are proper when the free share of the baseline pays for an   *)
(* order; book_one says that it never fails after set proper params.       *)
ASSUME ProperParams ==
    \A p \in StakeParams : PercentOf(p.min_free_stake_percent, p.stake_baseline) >= OrderStake

SaturatingSub(a, b) == IF b <= a THEN a - b ELSE 0

(* Currency::unreserve and slash_reserved take what is there, if less. *)
Available(who, amount) == IF amount <= reserved[who] THEN amount ELSE reserved[who]

(* Enough stake, and enough of it free, for a total and a used stake. *)
IsHealthy(total, used) ==
    /\ total >= params.stake_baseline
    /\ SaturatingSub(total, used) >= PercentOf(params.min_free_stake_percent, total)

check_stake_health(c, total) == IsHealthy(total, used_stake[c])

reserve(c, amount) ==
    /\ staked_amount[c] + amount <= MaxStake
    /\ free[c] >= amount
    /\ free' = [free EXCEPT ![c] = @ - amount]
    /\ reserved' = [reserved EXCEPT ![c] = @ + amount]

unreserve(c, amount) ==
    /\ free' = [free EXCEPT ![c] = @ + Available(c, amount)]
    /\ reserved' = [reserved EXCEPT ![c] = @ - Available(c, amount)]

(* Mistake: a member that falls below its free stake keeps its place. *)
status_only_improves(c, n, total, used) ==
    LET toNormal == IsHealthy(total, used) /\ c \in fulfilling_list
    IN /\ normal' = IF toNormal THEN n \cup {c} ELSE n
       /\ fulfilling_list' = IF toNormal THEN fulfilling_list \ {c} ELSE fulfilling_list

(***************************************************************************)
(* do_change_status_when_stake_changed: a member moves between normal and  *)
(* fulfilling_list; members of the other lists stay where they are.  n is  *)
(* the normal list the caller has prepared.                                *)
(***************************************************************************)
do_change_status_when_stake_changed(c, n, total, used) ==
    LET enough == IsHealthy(total, used)
        toNormal     == enough /\ c \in fulfilling_list
        toFulfilling == ~enough /\ c \in n /\ ~toNormal
    IN /\ normal' = IF toNormal THEN n \cup {c}
                    ELSE IF toFulfilling THEN n \ {c} ELSE n
       /\ fulfilling_list' = IF toNormal THEN fulfilling_list \ {c}
                             ELSE IF toFulfilling THEN fulfilling_list \cup {c}
                             ELSE fulfilling_list

-----------------------------------------------------------------------------
Init ==
    /\ normal = {} /\ chill_list = {} /\ waiting_box_pubkey = {} /\ fulfilling_list = {}
    /\ params \in StakeParams
    /\ staked_amount = [c \in Accounts |-> 0]
    /\ used_stake = [c \in Accounts |-> 0]
    /\ can_claim_reward = [c \in Accounts |-> 0]
    /\ claimed_reward = [c \in Accounts |-> 0]
    /\ box_pubkey = {}
    /\ free = [c \in Accounts |-> Endowment]
    /\ reserved = [c \in Accounts |-> 0]
    /\ held = [c \in Accounts |-> 0] /\ unbalanced = {}

set_committee_stake_params(p) ==
    /\ params' = p
    /\ UNCHANGED <<lists, stakes, balances, callers>>

add_committee(c) ==
    /\ ~is_committee(c)
    /\ waiting_box_pubkey' = waiting_box_pubkey \cup {c}
    /\ UNCHANGED <<normal, chill_list, fulfilling_list, params, stakes, balances, callers>>

(* The first call bonds the baseline; a normal member only changes its key. *)
committee_set_box_pubkey(c) ==
    /\ box_pubkey' = box_pubkey \cup {c}
    /\ \/ /\ c \in waiting_box_pubkey
          /\ check_stake_health(c, staked_amount[c] + params.stake_baseline)
          /\ reserve(c, params.stake_baseline)
          /\ staked_amount' = [staked_amount EXCEPT ![c] = @ + params.stake_baseline]
          /\ waiting_box_pubkey' = waiting_box_pubkey \ {c}
          /\ normal' = normal \cup {c}
       \/ /\ c \notin waiting_box_pubkey
          /\ c \in normal
          /\ UNCHANGED <<staked_amount, balances, waiting_box_pubkey, normal>>
    /\ UNCHANGED <<chill_list, fulfilling_list, params, used_stake, rewards, callers>>

committee_add_stake(c, amount) ==
    /\ is_committee(c)
    /\ check_stake_health(c, staked_amount[c] + amount)
    /\ reserve(c, amount)
    /\ staked_amount' = [staked_amount EXCEPT ![c] = @ + amount]
    /\ IF c \in fulfilling_list
         THEN /\ fulfilling_list' = fulfilling_list \ {c}
              /\ normal' = normal \cup {c}
         ELSE UNCHANGED <<fulfilling_list, normal>>
    /\ UNCHANGED <<chill_list, waiting_box_pubkey, params, used_stake, rewards,
                   box_pubkey, callers>>

committee_reduce_stake(c, amount) ==
    /\ c \in normal
    /\ amount <= staked_amount[c]
    /\ check_stake_health(c, staked_amount[c] - amount)
    /\ unreserve(c, amount)
    /\ staked_amount' = [staked_amount EXCEPT ![c] = @ - amount]
    /\ UNCHANGED <<lists, params, used_stake, rewards, box_pubkey, callers>>

(* The reward is minted into the free balance. *)
claim_reward(c) ==
    /\ can_claim_reward[c] # 0
    /\ free' = [free EXCEPT ![c] = @ + can_claim_reward[c]]
    /\ claimed_reward' = [claimed_reward EXCEPT ![c] = @ + can_claim_reward[c]]
    /\ can_claim_reward' = [can_claim_reward EXCEPT ![c] = 0]
    /\ UNCHANGED <<lists, params, staked_amount, used_stake, box_pubkey, reserved, callers>>

chill(c) ==
    /\ is_committee(c)
    /\ c \notin chill_list
    /\ c \notin waiting_box_pubkey
    /\ normal' = normal \ {c}
    /\ fulfilling_list' = fulfilling_list \ {c}
    /\ chill_list' = chill_list \cup {c}
    /\ UNCHANGED <<waiting_box_pubkey, params, stakes, balances, callers>>

undo_chill(c) ==
    /\ c \in chill_list
    /\ chill_list' = chill_list \ {c}
    /\ do_change_status_when_stake_changed(c, normal \cup {c}, staked_amount[c], used_stake[c])
    /\ UNCHANGED <<waiting_box_pubkey, params, stakes, balances, callers>>

(* Mistake: a member may leave while its stake is in use. *)
exit_in_use(c) ==
    /\ c \in chill_list
    /\ chill_list' = chill_list \ {c}
    /\ unreserve(c, staked_amount[c])
    /\ staked_amount' = [staked_amount EXCEPT ![c] = 0]
    /\ UNCHANGED <<normal, waiting_box_pubkey, fulfilling_list, params, used_stake,
                   rewards, box_pubkey, callers>>

exit_committee(c) ==
    /\ used_stake[c] = 0
    /\ c \in chill_list
    /\ chill_list' = chill_list \ {c}
    /\ unreserve(c, staked_amount[c])
    /\ staked_amount' = [staked_amount EXCEPT ![c] = 0]
    /\ UNCHANGED <<normal, waiting_box_pubkey, fulfilling_list, params, used_stake,
                   rewards, box_pubkey, callers>>

-----------------------------------------------------------------------------
(* ManageCommittee, as the verification pallets call it for one member.    *)

(* What the pallets take from a member.                                    *)
Take(c, amount) ==
    /\ used_stake[c] + amount <= MaxUsed
    /\ held' = IF c \in unbalanced THEN held ELSE [held EXCEPT ![c] = @ + amount]

(* They give back, or take for good, something they hold ...               *)
Balanced(c, amount) ==
    /\ c \notin unbalanced
    /\ held[c] >= amount
    /\ held' = [held EXCEPT ![c] = @ - amount]
    /\ UNCHANGED unbalanced

(* ... or something they do not hold, or only a part of what they should.  *)
Unbalanced(c) ==
    /\ unbalanced' = unbalanced \cup {c}
    /\ held' = [held EXCEPT ![c] = 0]

(* An order is worth stake_per_order, a review that or stake_per_report.   *)
Stakes == {params.stake_per_order, StakePerReport}

change_used_stake(c, used, total) ==
    /\ used_stake' = [used_stake EXCEPT ![c] = used]
    /\ do_change_status_when_stake_changed(c, normal, total, used)

(* A pallet gives an order to a valid member: change_used_stake(c, +). *)
book(c) ==
    LET amount == params.stake_per_order IN
    /\ c \in normal
    /\ Take(c, amount)
    /\ change_used_stake(c, used_stake[c] + amount, staked_amount[c])
    /\ UNCHANGED <<chill_list, waiting_box_pubkey, params, staked_amount, rewards,
                   box_pubkey, balances, unbalanced>>

(***************************************************************************)
(* The order is over and the member did well, or its review succeeded:     *)
(* change_used_stake(c, -), which only asks that so much is in use.        *)
(* online-committee does it twice for the members of a machine without     *)
(* consensus.                                                              *)
(***************************************************************************)
release(c, amount) ==
    /\ used_stake[c] >= amount
    /\ change_used_stake(c, used_stake[c] - amount, staked_amount[c])
    /\ Balanced(c, amount) \/ Unbalanced(c)
    /\ UNCHANGED <<chill_list, waiting_box_pubkey, params, staked_amount, rewards,
                   box_pubkey, balances>>

(* slash_and_reward takes the amount only if all of it is in reserve.      *)
slash_reserved(c, amount) ==
    reserved' = [reserved EXCEPT ![c] = IF @ >= amount THEN @ - amount ELSE @]

(***************************************************************************)
(* The order is over and the member is slashed: change_total_stake(c, -)   *)
(* without touching the reserve, change_used_stake(c, -), and then         *)
(* slash_and_reward.  Nothing is rolled back when the second fails or when *)
(* another member's slash ends the loop before the coins are taken, and    *)
(* online-committee then does it again in the next block.                  *)
(***************************************************************************)
slash(c, amount) ==
    /\ staked_amount[c] >= amount
    /\ staked_amount' = [staked_amount EXCEPT ![c] = @ - amount]
    /\ IF used_stake[c] >= amount
         THEN change_used_stake(c, used_stake[c] - amount, staked_amount[c] - amount)
         ELSE UNCHANGED <<used_stake, normal, fulfilling_list>>
    /\ \/ /\ used_stake[c] >= amount
          /\ Balanced(c, amount)
          /\ slash_reserved(c, amount)
       \/ /\ Unbalanced(c)
          /\ slash_reserved(c, amount) \/ UNCHANGED reserved
    /\ UNCHANGED <<chill_list, waiting_box_pubkey, params, rewards, box_pubkey, free>>

(* Mistake: the stake of a review is reserved but not put on record.       *)
review_reserves_only(c, amount) ==
    /\ reserve(c, amount)
    /\ Take(c, amount)
    /\ change_used_stake(c, used_stake[c] + amount, staked_amount[c])
    /\ unbalanced' = IF is_committee(c) THEN unbalanced ELSE unbalanced \cup {c}
    /\ UNCHANGED <<chill_list, waiting_box_pubkey, params, staked_amount, rewards, box_pubkey>>

(***************************************************************************)
(* A slashed member asks for a review: change_total_stake(c, +) with the   *)
(* reserve and change_used_stake(c, +).  Nothing demands that it is still  *)
(* a member.                                                               *)
(***************************************************************************)
apply_slash_review(c, amount) ==
    /\ reserve(c, amount)
    /\ Take(c, amount)
    /\ staked_amount' = [staked_amount EXCEPT ![c] = @ + amount]
    /\ change_used_stake(c, used_stake[c] + amount, staked_amount[c] + amount)
    /\ unbalanced' = IF is_committee(c) THEN unbalanced ELSE unbalanced \cup {c}
    /\ UNCHANGED <<chill_list, waiting_box_pubkey, params, rewards, box_pubkey>>

(***************************************************************************)
(* online-committee cancels a slash after a review: it unreserves the      *)
(* stake, then lowers the record with change_total_stake(c, -), which      *)
(* unreserves it again, then change_used_stake(c, -); each result is       *)
(* ignored.                                                                *)
(***************************************************************************)
do_cancel_slash(c, amount) ==
    LET lowered == staked_amount[c] >= amount
        back == Available(c, IF lowered THEN 2 * amount ELSE amount)
        total == IF lowered THEN staked_amount[c] - amount ELSE staked_amount[c]
    IN /\ free' = [free EXCEPT ![c] = @ + back]
       /\ reserved' = [reserved EXCEPT ![c] = @ - back]
       /\ staked_amount' = [staked_amount EXCEPT ![c] = total]
       /\ IF used_stake[c] >= amount
            THEN change_used_stake(c, used_stake[c] - amount, total)
            ELSE UNCHANGED <<used_stake, normal, fulfilling_list>>
       /\ Unbalanced(c)
       /\ UNCHANGED <<chill_list, waiting_box_pubkey, params, rewards, box_pubkey>>

(* online-committee decides a review of a machine that was refused: the    *)
(* coins are taken, the record keeps them.                                 *)
do_a_pending_review(c, amount) ==
    /\ slash_reserved(c, amount)
    /\ Unbalanced(c)
    /\ UNCHANGED <<lists, params, stakes, free>>

add_reward(c, reward) ==
    /\ can_claim_reward[c] + claimed_reward[c] + reward <= MaxReward
    /\ can_claim_reward' = [can_claim_reward EXCEPT ![c] = @ + reward]
    /\ UNCHANGED <<lists, params, staked_amount, used_stake, claimed_reward, box_pubkey,
                   balances, callers>>

-----------------------------------------------------------------------------
Next ==
    \/ \E p \in StakeParams : set_committee_stake_params(p)
    \/ \E c \in Accounts :
          \/ add_committee(c)
          \/ committee_set_box_pubkey(c)
          \/ \E amount \in Amounts : committee_add_stake(c, amount)
          \/ \E amount \in Amounts : committee_reduce_stake(c, amount)
          \/ claim_reward(c)
          \/ chill(c)
          \/ undo_chill(c)
          \/ exit_committee(c)
          \/ book(c)
          \/ \E amount \in Stakes :
                \/ release(c, amount)
                \/ slash(c, amount)
                \/ apply_slash_review(c, amount)
                \/ do_cancel_slash(c, amount)
                \/ do_a_pending_review(c, amount)
          \/ \E amount \in Amounts : add_reward(c, amount)

Spec == Init /\ [][Next]_vars

-----------------------------------------------------------------------------
(* Every variable of the pallet keeps its type: no balance or stake is ever *)
(* negative, although the code subtracts in many places.                    *)
TypeOK ==
    /\ normal \subseteq Accounts
    /\ chill_list \subseteq Accounts
    /\ waiting_box_pubkey \subseteq Accounts
    /\ fulfilling_list \subseteq Accounts
    /\ box_pubkey \subseteq Accounts
    /\ params \in StakeParams
    /\ staked_amount \in [Accounts -> Nat]
    /\ used_stake \in [Accounts -> Nat]
    /\ can_claim_reward \in [Accounts -> Nat]
    /\ claimed_reward \in [Accounts -> Nat]
    /\ free \in [Accounts -> Nat]
    /\ reserved \in [Accounts -> Nat]
    /\ held \in [Accounts -> Nat]
    /\ unbalanced \subseteq Accounts

(* The four lists of CommitteeList never share a member, although each call *)
(* edits one or two of them and is_committee only looks at their union.     *)
ListsDisjoint ==
    /\ normal \cap (chill_list \cup waiting_box_pubkey \cup fulfilling_list) = {}
    /\ chill_list \cap (waiting_box_pubkey \cup fulfilling_list) = {}
    /\ waiting_box_pubkey \cap fulfilling_list = {}

(* The stake the pallet has on record is exactly what the currency holds in *)
(* reserve, through staking, orders, slashes, reviews and leaving, for each *)
(* member whose stake the callers of ManageCommittee returned once.         *)
StakeIsReserved == \A c \in Accounts \ unbalanced : reserved[c] = staked_amount[c]

(* used_stake is what the orders and reviews of the member hold, neither    *)
(* more nor less.                                                           *)
UsedIsBooked == \A c \in Accounts \ unbalanced : used_stake[c] = held[c]

(* Whoever is in no list has no stake on record, and neither an order nor a *)
(* review that still holds some: exit_committee only asks whether           *)
(* used_stake is zero, and that is enough unless a caller has returned the  *)
(* stake of an order more than once.                                        *)
OutsiderOwesNothing ==
    \A c \in Accounts \ unbalanced :
        ~is_committee(c) => staked_amount[c] = 0 /\ used_stake[c] = 0 /\ held[c] = 0

(* The orders and reviews in hand are always covered by the stake that can  *)
(* be slashed for them, whatever was staked, reduced, slashed or            *)
(* reconfigured since.                                                      *)
UsedWithinStake ==
    \A c \in Accounts \ unbalanced : held[c] <= staked_amount[c] /\ used_stake[c] <= staked_amount[c]

(* A member of normal can pay for one more order, so the order that         *)
(* distribute_machines gives it next is covered as well.                    *)
NormalCanTakeOrder ==
    \A c \in normal \ unbalanced : used_stake[c] + OrderStake <= staked_amount[c]

(* A step that moves a member into normal, or changes the stake or the used *)
(* stake of a normal member, leaves it with the free stake the parameters   *)
(* ask for: normal members are the ones that get_work_index hands machines  *)
(* to.  Only a slash or a cancelled slash of which change_used_stake failed *)
(* lowers the stake and leaves the list alone.                              *)
NormalIsHealthy ==
    [][\A c \in Accounts :
          /\ c \in normal'
          /\ \/ c \notin normal
             \/ used_stake[c]' # used_stake[c]
             \/ staked_amount[c]' # staked_amount[c] /\ c \notin unbalanced'
          => IsHealthy(staked_amount[c], used_stake[c])']_vars
=============================================================================
