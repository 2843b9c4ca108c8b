-------------------------- MODULE CommitteeStakes --------------------------
(***************************************************************************)
(* What the committee pallet (trait ManageCommittee) and the generic-func  *)
(* pallet (trait GNOps) do for the pallets that give work to the           *)
(* committee.  The operators work on a record k of the storage behind      *)
(* them: [staked, used, normal, fulfilling, free, reserved, ok].  The      *)
(* field ok is the Result of the last call: a failed call leaves the rest  *)
(* of k as it was when the call failed.                                    *)
(***************************************************************************)
EXTENDS Integers, Sequences, SequencesExt, FiniteSets

CONSTANTS
    Members, None,
    TWO_DAYS,               \* how long a slash waits for a review
    FixedTxFee,
    Treasury,               \* the account that T::Slash pays
    StakeBaseline, StakePerOrder, MinFreeStakePercent   \* CommitteeStakeParams

(* Perbill arithmetic rounds to the nearest, a half down.                   *)
PercentOf(p, amount) == (2 * p * amount + 99) \div 200
ShareOf(n, amount) == (2 * amount + n - 1) \div (2 * n)

Less(a, x) == IF a >= x THEN a - x ELSE 0
Lower(a, x) == IF a <= x THEN a ELSE x

(* Lists of accounts and of ids are sorted vectors; ids are numbers.        *)
Sorted(S) == SetToSortSeq(S, <)
Fail(k) == [k EXCEPT !.ok = FALSE]
Ok(k) == [k EXCEPT !.ok = TRUE]

-----------------------------------------------------------------------------
(* The currency.                                                            *)
reserve(k, who, amount) ==
    IF k.free[who] < amount THEN Fail(k)
    ELSE Ok([k EXCEPT !.free[who] = @ - amount, !.reserved[who] = @ + amount])

unreserve(k, who, amount) ==
    LET moved == Lower(amount, k.reserved[who]) IN
    [k EXCEPT !.reserved[who] = @ - moved, !.free[who] = @ + moved]

repatriate_reserved(k, from, to, amount) ==
    LET moved == Lower(amount, k.reserved[from]) IN
    [k EXCEPT !.reserved[from] = @ - moved, !.free[to] = @ + moved]

(* A loop that goes on while the calls succeed: the operator `?` of Rust.   *)
WhileOk(op(_, _), k, list) == FoldLeft(LAMBDA acc, x : IF acc.ok THEN op(acc, x) ELSE acc, Ok(k), list)
(* A loop that drops the result of every call.                              *)
Always(op(_, _), k, list) == Ok(FoldLeft(LAMBDA acc, x : op(acc, x), k, list))

-----------------------------------------------------------------------------
(* GNOps                                                                    *)

(* One slashed account: equal parts to the rewarded, the rest to the        *)
(* treasury.                                                                *)
slash_one(k, who, each_slash, reward_who) ==
    LET part == ShareOf(Len(reward_who), each_slash)
        pay(acc, to) ==
            IF acc.k.reserved[who] < acc.left THEN acc
            ELSE LET paid == Lower(part, acc.left) IN
                 [k |-> repatriate_reserved(acc.k, who, to, paid), left |-> acc.left - paid]
        end == FoldLeft(pay, [k |-> k, left |-> each_slash], reward_who)
    IN  repatriate_reserved(end.k, who, Treasury, end.left)

slash_and_reward(k, slash_who, each_slash, reward_who) ==
    IF reward_who = <<>>
    THEN Always(LAMBDA acc, who : IF acc.reserved[who] >= each_slash
                                  THEN repatriate_reserved(acc, who, Treasury, each_slash) ELSE acc,
                k, slash_who)
    ELSE Always(LAMBDA acc, who : slash_one(acc, who, each_slash, reward_who), k, slash_who)

pay_fixed_tx_fee(k, who) ==
    IF ~k.ok \/ k.free[who] < FixedTxFee THEN Fail(k)
    ELSE [k EXCEPT !.free[who] = @ - FixedTxFee, !.free[Treasury] = @ + FixedTxFee]

-----------------------------------------------------------------------------
(* ManageCommittee                                                          *)
FreeStakeEnough(k, c) ==
    /\ k.staked[c] >= StakeBaseline
    /\ Less(k.staked[c], k.used[c]) >= PercentOf(MinFreeStakePercent, k.staked[c])

do_change_status_when_stake_changed(k, c) ==
    IF FreeStakeEnough(k, c) /\ c \in k.fulfilling
    THEN [k EXCEPT !.fulfilling = @ \ {c}, !.normal = @ \cup {c}]
    ELSE IF ~FreeStakeEnough(k, c) /\ c \in k.normal
    THEN [k EXCEPT !.fulfilling = @ \cup {c}, !.normal = @ \ {c}]
    ELSE k

change_used_stake(k, c, amount, is_add) ==
    IF is_add THEN Ok(do_change_status_when_stake_changed([k EXCEPT !.used[c] = @ + amount], c))
    ELSE IF k.used[c] < amount THEN Fail(k)
    ELSE Ok(do_change_status_when_stake_changed([k EXCEPT !.used[c] = @ - amount], c))

change_total_stake(k, c, amount, is_add, change_reserve) ==
    IF is_add
    THEN LET r == IF change_reserve THEN reserve(k, c, amount) ELSE Ok(k) IN
         IF r.ok THEN [r EXCEPT !.staked[c] = @ + amount] ELSE Fail(k)
    ELSE IF k.staked[c] < amount THEN Fail(k)
    ELSE LET r == IF change_reserve THEN unreserve(k, c, amount) ELSE k IN
         Ok([r EXCEPT !.staked[c] = @ - amount])

(* The loop the verifying pallets share: it ends at the first failure.      *)
change_committee_stake(k, list, amount, is_slash) ==
    WhileOk(LAMBDA acc, c :
        LET t == IF is_slash THEN change_total_stake(acc, c, amount, FALSE, FALSE) ELSE Ok(acc) IN
        IF t.ok THEN change_used_stake(t, c, amount, FALSE) ELSE t, k, list)
=============================================================================
