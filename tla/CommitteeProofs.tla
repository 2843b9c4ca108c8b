-------------------------- MODULE CommitteeProofs --------------------------
(* Proofs about the committee pallet, for any accounts, amounts, bounds and *)
(* any proper parameters.                                                   *)
EXTENDS Committee, TLAPS

(* A leaf goes to the SMT solver, to Zenon and, with more time, to the     *)
(* SMT solver again, unless it says otherwise.                             *)
USE SMTT(30), ZenonT(30), SMTT(40)

(* A share of more stake is no smaller.                                  *)
LEMMA PercentMonotone ==
    ASSUME NEW p \in 0..100, NEW a \in Nat, NEW b \in Nat, b <= a
    PROVE  PercentOf(p, b) <= PercentOf(p, a)
  BY DEF PercentOf

(* The parameters in force always ask for at least one order's worth of free *)
(* stake, so a healthy stake pays for one more order.                        *)
LEMMA HealthyPaysForAnOrder ==
    ASSUME TypeOK, NEW total \in Nat, NEW used \in Nat, IsHealthy(total, used)
    PROVE  used + OrderStake <= total
  <1>1. /\ params \in StakeParams
        /\ params.stake_baseline \in Nat
        /\ params.min_free_stake_percent \in 0..100
        /\ OrderStake \in Nat \ {0}
    BY StakeParamsType, AmountsAreNat DEF TypeOK
  <1>2. PercentOf(params.min_free_stake_percent, params.stake_baseline) >= OrderStake
    BY <1>1, ProperParams
  <1>3. PercentOf(params.min_free_stake_percent, params.stake_baseline)
           <= PercentOf(params.min_free_stake_percent, total)
    BY <1>1, PercentMonotone, ZenonT(30) DEF IsHealthy
  <1>4. /\ PercentOf(params.min_free_stake_percent, params.stake_baseline) \in Int
        /\ PercentOf(params.min_free_stake_percent, total) \in Int
    BY <1>1 DEF PercentOf
  <1>5. SaturatingSub(total, used) >= OrderStake
    BY <1>1, <1>2, <1>3, <1>4 DEF IsHealthy, SaturatingSub
  <1> QED
    BY <1>1, <1>5 DEF SaturatingSub

(* What every step preserves: the invariants of Committee, together with the *)
(* room for one more order that makes book preserve UsedWithinStake.         *)
IInv ==
    /\ TypeOK
    /\ ListsDisjoint
    /\ StakeIsReserved
    /\ UsedIsBooked
    /\ OutsiderOwesNothing
    /\ UsedWithinStake
    /\ NormalCanTakeOrder

(* The genesis of the pallet satisfies the invariant.                    *)
LEMMA InitIInv == Init => IInv
  BY AmountsAreNat DEF Init, IInv, TypeOK, ListsDisjoint, StakeIsReserved, UsedIsBooked,
     OutsiderOwesNothing, UsedWithinStake, NormalCanTakeOrder, is_committee

(* What the type of the parameters in force gives every proof step.      *)
LEMMA ParamsTyped ==
    ASSUME TypeOK
    PROVE  /\ params.stake_per_order = OrderStake
           /\ params.stake_baseline \in Nat
           /\ OrderStake \in Nat \ {0}
  BY StakeParamsType, AmountsAreNat DEF TypeOK

(* Every call and hook of the pallet preserves the invariant.            *)
LEMMA NextIInv ==
    ASSUME IInv, [Next]_vars
    PROVE  IInv'
  <1> USE DEF IInv
  <1>p. /\ params.stake_per_order = OrderStake
        /\ params.stake_baseline \in Nat
        /\ OrderStake \in Nat \ {0}
        /\ Stakes \subseteq Nat \ {0}
    BY ParamsTyped, AmountsAreNat DEF Stakes
  <1>h. \A total, used \in Nat : IsHealthy(total, used) => used + OrderStake <= total
    BY HealthyPaysForAnOrder
  <1>1. ASSUME NEW p \in StakeParams, set_committee_stake_params(p) PROVE IInv'
    BY <1>1 DEF set_committee_stake_params, lists, stakes, rewards, balances, callers, TypeOK, ListsDisjoint,
       StakeIsReserved, UsedIsBooked, OutsiderOwesNothing, UsedWithinStake, NormalCanTakeOrder, is_committee
  <1>2. ASSUME NEW c \in Accounts, add_committee(c) PROVE IInv'
    <2> USE <1>2, <1>p, <1>h, AmountsAreNat DEF add_committee,
          lists, stakes, rewards, balances, callers
    <2>1. TypeOK'  BY DEF TypeOK
    <2>2. ListsDisjoint'  BY DEF ListsDisjoint, is_committee
    <2>3. StakeIsReserved'  BY DEF StakeIsReserved, UsedIsBooked, UsedWithinStake, TypeOK
    <2>4. UsedIsBooked'  BY DEF UsedIsBooked, TypeOK
    <2>5. OutsiderOwesNothing'  BY DEF OutsiderOwesNothing, UsedIsBooked, TypeOK, ListsDisjoint, is_committee
    <2>6. UsedWithinStake'  BY DEF UsedWithinStake, UsedIsBooked, NormalCanTakeOrder, TypeOK
    <2>7. NormalCanTakeOrder'  BY DEF NormalCanTakeOrder, UsedWithinStake, TypeOK, OutsiderOwesNothing, ListsDisjoint, is_committee
    <2> QED BY <2>1, <2>2, <2>3, <2>4, <2>5, <2>6, <2>7, ZenonT(30)
  <1>3. ASSUME NEW c \in Accounts, committee_set_box_pubkey(c) PROVE IInv'
    <2> USE <1>3, <1>p, <1>h, AmountsAreNat DEF committee_set_box_pubkey, reserve, check_stake_health,
          lists, stakes, rewards, balances, callers
    <2>1. TypeOK'  BY DEF TypeOK
    <2>2. ListsDisjoint'  BY DEF ListsDisjoint, is_committee
    <2>3. StakeIsReserved'  BY DEF StakeIsReserved, UsedIsBooked, UsedWithinStake, TypeOK
    <2>4. UsedIsBooked'  BY DEF UsedIsBooked, TypeOK
    <2>5. OutsiderOwesNothing'  BY DEF OutsiderOwesNothing, UsedIsBooked, TypeOK, ListsDisjoint, is_committee
    <2>6. UsedWithinStake'  BY DEF UsedWithinStake, UsedIsBooked, NormalCanTakeOrder, TypeOK
    <2>7. NormalCanTakeOrder'  BY DEF NormalCanTakeOrder, UsedWithinStake, TypeOK, OutsiderOwesNothing, ListsDisjoint, is_committee
    <2> QED BY <2>1, <2>2, <2>3, <2>4, <2>5, <2>6, <2>7, ZenonT(30)
  <1>4. ASSUME NEW c \in Accounts, NEW amount \in Amounts, committee_add_stake(c, amount) PROVE IInv'
    <2> USE <1>4, <1>p, <1>h, AmountsAreNat DEF committee_add_stake, reserve, check_stake_health,
          lists, stakes, rewards, balances, callers
    <2>1. TypeOK'  BY DEF TypeOK
    <2>2. ListsDisjoint'  BY DEF ListsDisjoint, is_committee
    <2>3. StakeIsReserved'  BY DEF StakeIsReserved, UsedIsBooked, UsedWithinStake, TypeOK
    <2>4. UsedIsBooked'  BY DEF UsedIsBooked, TypeOK
    <2>5. OutsiderOwesNothing'  BY DEF OutsiderOwesNothing, UsedIsBooked, TypeOK, ListsDisjoint, is_committee
    <2>6. UsedWithinStake'  BY DEF UsedWithinStake, UsedIsBooked, NormalCanTakeOrder, TypeOK
    <2>7. NormalCanTakeOrder'  BY DEF NormalCanTakeOrder, UsedWithinStake, TypeOK, OutsiderOwesNothing, ListsDisjoint, is_committee
    <2> QED BY <2>1, <2>2, <2>3, <2>4, <2>5, <2>6, <2>7, ZenonT(30)
  <1>5. ASSUME NEW c \in Accounts, NEW amount \in Amounts, committee_reduce_stake(c, amount) PROVE IInv'
    <2> USE <1>5, <1>p, <1>h, AmountsAreNat DEF committee_reduce_stake, unreserve, Available, check_stake_health,
          lists, stakes, rewards, balances, callers
    <2>1. TypeOK'  BY DEF TypeOK
    <2>2. ListsDisjoint'  BY DEF ListsDisjoint, is_committee
    <2>3. StakeIsReserved'  BY DEF StakeIsReserved, UsedIsBooked, UsedWithinStake, TypeOK
    <2>4. UsedIsBooked'  BY DEF UsedIsBooked, TypeOK
    <2>5. OutsiderOwesNothing'  BY DEF OutsiderOwesNothing, UsedIsBooked, TypeOK, ListsDisjoint, is_committee
    <2>6. UsedWithinStake'  BY DEF UsedWithinStake, UsedIsBooked, NormalCanTakeOrder, TypeOK
    <2>7. NormalCanTakeOrder'  BY DEF NormalCanTakeOrder, UsedWithinStake, TypeOK, OutsiderOwesNothing, ListsDisjoint, is_committee
    <2> QED BY <2>1, <2>2, <2>3, <2>4, <2>5, <2>6, <2>7, ZenonT(30)
  <1>6. ASSUME NEW c \in Accounts, claim_reward(c) PROVE IInv'
    <2> USE <1>6, <1>p, <1>h, AmountsAreNat DEF claim_reward,
          lists, stakes, rewards, balances, callers
    <2>1. TypeOK'  BY DEF TypeOK
    <2>2. ListsDisjoint'  BY DEF ListsDisjoint, is_committee
    <2>3. StakeIsReserved'  BY DEF StakeIsReserved, UsedIsBooked, UsedWithinStake, TypeOK
    <2>4. UsedIsBooked'  BY DEF UsedIsBooked, TypeOK
    <2>5. OutsiderOwesNothing'  BY DEF OutsiderOwesNothing, UsedIsBooked, TypeOK, ListsDisjoint, is_committee
    <2>6. UsedWithinStake'  BY DEF UsedWithinStake, UsedIsBooked, NormalCanTakeOrder, TypeOK
    <2>7. NormalCanTakeOrder'  BY DEF NormalCanTakeOrder, UsedWithinStake, TypeOK, OutsiderOwesNothing, ListsDisjoint, is_committee
    <2> QED BY <2>1, <2>2, <2>3, <2>4, <2>5, <2>6, <2>7, ZenonT(30)
  <1>7. ASSUME NEW c \in Accounts, chill(c) PROVE IInv'
    <2> USE <1>7, <1>p, <1>h, AmountsAreNat DEF chill,
          lists, stakes, rewards, balances, callers
    <2>1. TypeOK'  BY DEF TypeOK
    <2>2. ListsDisjoint'  BY DEF ListsDisjoint, is_committee
    <2>3. StakeIsReserved'  BY DEF StakeIsReserved, UsedIsBooked, UsedWithinStake, TypeOK
    <2>4. UsedIsBooked'  BY DEF UsedIsBooked, TypeOK
    <2>5. OutsiderOwesNothing'  BY DEF OutsiderOwesNothing, UsedIsBooked, TypeOK, ListsDisjoint, is_committee
    <2>6. UsedWithinStake'  BY DEF UsedWithinStake, UsedIsBooked, NormalCanTakeOrder, TypeOK
    <2>7. NormalCanTakeOrder'  BY DEF NormalCanTakeOrder, UsedWithinStake, TypeOK, OutsiderOwesNothing, ListsDisjoint, is_committee
    <2> QED BY <2>1, <2>2, <2>3, <2>4, <2>5, <2>6, <2>7, ZenonT(30)
  <1>8. ASSUME NEW c \in Accounts, undo_chill(c) PROVE IInv'
    <2> USE <1>8, <1>p, <1>h, AmountsAreNat DEF undo_chill, do_change_status_when_stake_changed,
          lists, stakes, rewards, balances, callers
    <2>1. TypeOK'  BY DEF TypeOK
    <2>2. ListsDisjoint'  BY DEF ListsDisjoint, is_committee
    <2>3. StakeIsReserved'  BY DEF StakeIsReserved, UsedIsBooked, UsedWithinStake, TypeOK
    <2>4. UsedIsBooked'  BY DEF UsedIsBooked, TypeOK
    <2>5. OutsiderOwesNothing'  BY DEF OutsiderOwesNothing, UsedIsBooked, TypeOK, ListsDisjoint, is_committee
    <2>6. UsedWithinStake'  BY DEF UsedWithinStake, UsedIsBooked, NormalCanTakeOrder, TypeOK
    <2>7. NormalCanTakeOrder'  BY DEF NormalCanTakeOrder, UsedWithinStake, TypeOK, OutsiderOwesNothing, ListsDisjoint, is_committee
    <2> QED BY <2>1, <2>2, <2>3, <2>4, <2>5, <2>6, <2>7, ZenonT(30)
  <1>9. ASSUME NEW c \in Accounts, exit_committee(c) PROVE IInv'
    <2> USE <1>9, <1>p, <1>h, AmountsAreNat DEF exit_committee, unreserve, Available,
          lists, stakes, rewards, balances, callers
    <2>1. TypeOK'  BY DEF TypeOK
    <2>2. ListsDisjoint'  BY DEF ListsDisjoint, is_committee
    <2>3. StakeIsReserved'  BY DEF StakeIsReserved, UsedIsBooked, UsedWithinStake, TypeOK
    <2>4. UsedIsBooked'  BY DEF UsedIsBooked, TypeOK
    <2>5. OutsiderOwesNothing'  BY DEF OutsiderOwesNothing, UsedIsBooked, TypeOK, ListsDisjoint, is_committee
    <2>6. UsedWithinStake'  BY DEF UsedWithinStake, UsedIsBooked, NormalCanTakeOrder, TypeOK
    <2>7. NormalCanTakeOrder'  BY DEF NormalCanTakeOrder, UsedWithinStake, TypeOK, OutsiderOwesNothing, ListsDisjoint, is_committee
    <2> QED BY <2>1, <2>2, <2>3, <2>4, <2>5, <2>6, <2>7, ZenonT(30)
  <1>10. ASSUME NEW c \in Accounts, book(c) PROVE IInv'
    <2> USE <1>10, <1>p, <1>h, AmountsAreNat DEF book, Take, change_used_stake, do_change_status_when_stake_changed,
          lists, stakes, rewards, balances, callers
    <2>1. TypeOK'  BY DEF TypeOK
    <2>2. ListsDisjoint'  BY DEF ListsDisjoint, is_committee
    <2>3. StakeIsReserved'  BY DEF StakeIsReserved, UsedIsBooked, UsedWithinStake, TypeOK
    <2>4. UsedIsBooked'  BY DEF UsedIsBooked, TypeOK
    <2>5. OutsiderOwesNothing'  BY DEF OutsiderOwesNothing, UsedIsBooked, TypeOK, ListsDisjoint, is_committee
    <2>6. UsedWithinStake'  BY DEF UsedWithinStake, UsedIsBooked, NormalCanTakeOrder, TypeOK
    <2>7. NormalCanTakeOrder'  BY DEF NormalCanTakeOrder, UsedWithinStake, TypeOK, OutsiderOwesNothing, ListsDisjoint, is_committee
    <2> QED BY <2>1, <2>2, <2>3, <2>4, <2>5, <2>6, <2>7, ZenonT(30)
  <1>11. ASSUME NEW c \in Accounts, NEW amount \in Stakes, release(c, amount) PROVE IInv'
    <2> USE <1>11, <1>p, <1>h, AmountsAreNat DEF release, Balanced, Unbalanced, change_used_stake, do_change_status_when_stake_changed,
          lists, stakes, rewards, balances, callers
    <2>1. TypeOK'  BY DEF TypeOK
    <2>2. ListsDisjoint'  BY DEF ListsDisjoint, is_committee
    <2>3. StakeIsReserved'  BY DEF StakeIsReserved, UsedIsBooked, UsedWithinStake, TypeOK
    <2>4. UsedIsBooked'  BY DEF UsedIsBooked, TypeOK
    <2>5. OutsiderOwesNothing'  BY DEF OutsiderOwesNothing, UsedIsBooked, TypeOK, ListsDisjoint, is_committee
    <2>6. UsedWithinStake'  BY DEF UsedWithinStake, UsedIsBooked, NormalCanTakeOrder, TypeOK
    <2>7. NormalCanTakeOrder'  BY DEF NormalCanTakeOrder, UsedWithinStake, TypeOK, OutsiderOwesNothing, ListsDisjoint, is_committee
    <2> QED BY <2>1, <2>2, <2>3, <2>4, <2>5, <2>6, <2>7, ZenonT(30)
  <1>12. ASSUME NEW c \in Accounts, NEW amount \in Stakes, slash(c, amount) PROVE IInv'
    <2> USE <1>12, <1>p, <1>h, AmountsAreNat DEF slash, Balanced, Unbalanced, slash_reserved, change_used_stake, do_change_status_when_stake_changed,
          lists, stakes, rewards, balances, callers
    <2>1. TypeOK'
      <3>1. /\ normal' \subseteq Accounts /\ fulfilling_list' \subseteq Accounts
            /\ unbalanced' \subseteq Accounts
        BY DEF TypeOK
      <3>2. staked_amount' \in [Accounts -> Nat] /\ used_stake' \in [Accounts -> Nat]
        BY DEF TypeOK
      <3>3. reserved' \in [Accounts -> Nat] /\ held' \in [Accounts -> Nat]
        BY DEF TypeOK
      <3> QED BY <3>1, <3>2, <3>3 DEF TypeOK
    <2>2. ListsDisjoint'  BY DEF ListsDisjoint, is_committee
    <2>3. StakeIsReserved'  BY DEF StakeIsReserved, UsedIsBooked, UsedWithinStake, TypeOK
    <2>4. UsedIsBooked'  BY DEF UsedIsBooked, TypeOK
    <2>5. OutsiderOwesNothing'  BY DEF OutsiderOwesNothing, UsedIsBooked, TypeOK, ListsDisjoint, is_committee
    <2>6. UsedWithinStake'  BY DEF UsedWithinStake, UsedIsBooked, NormalCanTakeOrder, TypeOK
    <2>7. NormalCanTakeOrder'  BY DEF NormalCanTakeOrder, UsedWithinStake, TypeOK, OutsiderOwesNothing, ListsDisjoint, is_committee
    <2> QED BY <2>1, <2>2, <2>3, <2>4, <2>5, <2>6, <2>7, ZenonT(30)
  <1>13. ASSUME NEW c \in Accounts, NEW amount \in Stakes, apply_slash_review(c, amount) PROVE IInv'
    <2> USE <1>13, <1>p, <1>h, AmountsAreNat DEF apply_slash_review, Take, reserve, change_used_stake, do_change_status_when_stake_changed,
          lists, stakes, rewards, balances, callers
    <2>1. TypeOK'  BY DEF TypeOK
    <2>2. ListsDisjoint'  BY DEF ListsDisjoint, is_committee
    <2>3. StakeIsReserved'  BY DEF StakeIsReserved, UsedIsBooked, UsedWithinStake, TypeOK
    <2>4. UsedIsBooked'  BY DEF UsedIsBooked, TypeOK
    <2>5. OutsiderOwesNothing'  BY DEF OutsiderOwesNothing, UsedIsBooked, TypeOK, ListsDisjoint, is_committee
    <2>6. UsedWithinStake'  BY DEF UsedWithinStake, UsedIsBooked, NormalCanTakeOrder, TypeOK
    <2>7. NormalCanTakeOrder'  BY DEF NormalCanTakeOrder, UsedWithinStake, TypeOK, OutsiderOwesNothing, ListsDisjoint, is_committee
    <2> QED BY <2>1, <2>2, <2>3, <2>4, <2>5, <2>6, <2>7, ZenonT(30)
  <1>14. ASSUME NEW c \in Accounts, NEW amount \in Stakes, do_cancel_slash(c, amount) PROVE IInv'
    <2> USE <1>14, <1>p, <1>h, AmountsAreNat DEF do_cancel_slash, Available, Unbalanced, change_used_stake, do_change_status_when_stake_changed,
          lists, stakes, rewards, balances, callers
    <2>1. TypeOK'  BY DEF TypeOK
    <2>2. ListsDisjoint'  BY DEF ListsDisjoint, is_committee
    <2>3. StakeIsReserved'  BY DEF StakeIsReserved, UsedIsBooked, UsedWithinStake, TypeOK
    <2>4. UsedIsBooked'  BY DEF UsedIsBooked, TypeOK
    <2>5. OutsiderOwesNothing'  BY DEF OutsiderOwesNothing, UsedIsBooked, TypeOK, ListsDisjoint, is_committee
    <2>6. UsedWithinStake'  BY DEF UsedWithinStake, UsedIsBooked, NormalCanTakeOrder, TypeOK
    <2>7. NormalCanTakeOrder'  BY DEF NormalCanTakeOrder, UsedWithinStake, TypeOK, OutsiderOwesNothing, ListsDisjoint, is_committee
    <2> QED BY <2>1, <2>2, <2>3, <2>4, <2>5, <2>6, <2>7, ZenonT(30)
  <1>15. ASSUME NEW c \in Accounts, NEW amount \in Stakes, do_a_pending_review(c, amount) PROVE IInv'
    <2> USE <1>15, <1>p, <1>h, AmountsAreNat DEF do_a_pending_review, slash_reserved, Unbalanced,
          lists, stakes, rewards, balances, callers
    <2>1. TypeOK'  BY DEF TypeOK
    <2>2. ListsDisjoint'  BY DEF ListsDisjoint, is_committee
    <2>3. StakeIsReserved'  BY DEF StakeIsReserved, UsedIsBooked, UsedWithinStake, TypeOK
    <2>4. UsedIsBooked'  BY DEF UsedIsBooked, TypeOK
    <2>5. OutsiderOwesNothing'  BY DEF OutsiderOwesNothing, UsedIsBooked, TypeOK, ListsDisjoint, is_committee
    <2>6. UsedWithinStake'  BY DEF UsedWithinStake, UsedIsBooked, NormalCanTakeOrder, TypeOK
    <2>7. NormalCanTakeOrder'  BY DEF NormalCanTakeOrder, UsedWithinStake, TypeOK, OutsiderOwesNothing, ListsDisjoint, is_committee
    <2> QED BY <2>1, <2>2, <2>3, <2>4, <2>5, <2>6, <2>7, ZenonT(30)
  <1>16. ASSUME NEW c \in Accounts, NEW amount \in Amounts, add_reward(c, amount) PROVE IInv'
    <2> USE <1>16, <1>p, <1>h, AmountsAreNat DEF add_reward,
          lists, stakes, rewards, balances, callers
    <2>1. TypeOK'  BY DEF TypeOK
    <2>2. ListsDisjoint'  BY DEF ListsDisjoint, is_committee
    <2>3. StakeIsReserved'  BY DEF StakeIsReserved, UsedIsBooked, UsedWithinStake, TypeOK
    <2>4. UsedIsBooked'  BY DEF UsedIsBooked, TypeOK
    <2>5. OutsiderOwesNothing'  BY DEF OutsiderOwesNothing, UsedIsBooked, TypeOK, ListsDisjoint, is_committee
    <2>6. UsedWithinStake'  BY DEF UsedWithinStake, UsedIsBooked, NormalCanTakeOrder, TypeOK
    <2>7. NormalCanTakeOrder'  BY DEF NormalCanTakeOrder, UsedWithinStake, TypeOK, OutsiderOwesNothing, ListsDisjoint, is_committee
    <2> QED BY <2>1, <2>2, <2>3, <2>4, <2>5, <2>6, <2>7, ZenonT(30)
  <1>17. CASE UNCHANGED vars
    BY <1>17 DEF vars, lists, stakes, rewards, balances, callers, TypeOK, ListsDisjoint,
       StakeIsReserved, UsedIsBooked, OutsiderOwesNothing, UsedWithinStake, NormalCanTakeOrder, is_committee
  <1> QED
    BY <1>1, <1>2, <1>3, <1>4, <1>5, <1>6, <1>7, <1>8, <1>9, <1>10, <1>11, <1>12, <1>13, <1>14, <1>15, <1>16, <1>17, ZenonT(30) DEF Next

(* No call, order, slash or parameter change ever leaves a stake or balance  *)
(* out of its type (TypeOK).                                                 *)
THEOREM TypeCorrect == Spec => []TypeOK
  <1>1. IInv => TypeOK  BY DEF IInv
  <1> QED BY <1>1, InitIInv, NextIInv, PTL DEF Spec

(* CommitteeList is a partition of the members: no member is in two lists.   *)
THEOREM MembersInOneList == Spec => []ListsDisjoint
  <1>1. IInv => ListsDisjoint  BY DEF IInv
  <1> QED BY <1>1, InitIInv, NextIInv, PTL DEF Spec

(* The stake CommitteeStake records of an account is what the currency       *)
(* holds in reserve for it, so a slash takes what it is decided on, for      *)
(* every member that no caller of ManageCommittee has paid back twice or     *)
(* slashed in part.                                                          *)
THEOREM StakeInReserve == Spec => []StakeIsReserved
  <1>1. IInv => StakeIsReserved  BY DEF IInv
  <1> QED BY <1>1, InitIInv, NextIInv, PTL DEF Spec

(* The used stake is what the orders and reviews of a member hold, and the   *)
(* stake on record covers it, until a caller returns more than it holds      *)
(* (release, slash, do_cancel_slash).                                        *)
THEOREM StakeCoversOrders == Spec => [](UsedIsBooked /\ UsedWithinStake)
  <1>1. IInv => UsedIsBooked /\ UsedWithinStake  BY DEF IInv
  <1> QED BY <1>1, InitIInv, NextIInv, PTL DEF Spec

(* Nobody leaves the committee with an order or a review in hand or stake on *)
(* record, unless a caller had returned the stake of that order already:     *)
(* exit_committee looks at used_stake only.                                  *)
THEOREM ExitIsClean == Spec => []OutsiderOwesNothing
  <1>1. IInv => OutsiderOwesNothing  BY DEF IInv
  <1> QED BY <1>1, InitIInv, NextIInv, PTL DEF Spec

(* Entering normal, and changing the stake or the used stake of a normal     *)
(* member, is only possible with the free stake the parameters ask for; the  *)
(* exception are the halves of a slash that failed.                          *)
THEOREM NormalMembersHealthy == Spec => NormalIsHealthy
  <1> DEFINE Good ==
        \A c \in Accounts :
            /\ c \in normal'
            /\ \/ c \notin normal
               \/ used_stake[c]' # used_stake[c]
               \/ staked_amount[c]' # staked_amount[c] /\ c \notin unbalanced'
            => IsHealthy(staked_amount[c], used_stake[c])'
  <1>1. ASSUME IInv, [Next]_vars PROVE [Good]_vars
    <2> SUFFICES ASSUME Next PROVE Good
      BY <1>1, ZenonT(30)
    <2> USE <1>1 DEF IInv, lists, stakes, rewards, balances, callers, IsHealthy
    <2>1. ASSUME NEW p \in StakeParams, set_committee_stake_params(p) PROVE Good
      BY <2>1 DEF set_committee_stake_params, TypeOK, ListsDisjoint
    <2>2. ASSUME NEW c \in Accounts, add_committee(c) PROVE Good
      BY <2>2 DEF add_committee, TypeOK, ListsDisjoint
    <2>3. ASSUME NEW c \in Accounts, committee_set_box_pubkey(c) PROVE Good
      BY <2>3 DEF committee_set_box_pubkey, reserve, check_stake_health, TypeOK, ListsDisjoint
    <2>4. ASSUME NEW c \in Accounts, NEW amount \in Amounts, committee_add_stake(c, amount) PROVE Good
      BY <2>4 DEF committee_add_stake, reserve, check_stake_health, TypeOK, ListsDisjoint
    <2>5. ASSUME NEW c \in Accounts, NEW amount \in Amounts, committee_reduce_stake(c, amount) PROVE Good
      BY <2>5 DEF committee_reduce_stake, unreserve, Available, check_stake_health, TypeOK, ListsDisjoint
    <2>6. ASSUME NEW c \in Accounts, claim_reward(c) PROVE Good
      BY <2>6 DEF claim_reward, TypeOK, ListsDisjoint
    <2>7. ASSUME NEW c \in Accounts, chill(c) PROVE Good
      BY <2>7 DEF chill, TypeOK, ListsDisjoint
    <2>8. ASSUME NEW c \in Accounts, undo_chill(c) PROVE Good
      BY <2>8 DEF undo_chill, do_change_status_when_stake_changed, TypeOK, ListsDisjoint
    <2>9. ASSUME NEW c \in Accounts, exit_committee(c) PROVE Good
      BY <2>9 DEF exit_committee, unreserve, Available, TypeOK, ListsDisjoint
    <2>10. ASSUME NEW c \in Accounts, book(c) PROVE Good
      BY <2>10 DEF book, Take, change_used_stake, do_change_status_when_stake_changed, TypeOK, ListsDisjoint
    <2>11. ASSUME NEW c \in Accounts, NEW amount \in Stakes, release(c, amount) PROVE Good
      BY <2>11 DEF release, Balanced, Unbalanced, change_used_stake, do_change_status_when_stake_changed, TypeOK, ListsDisjoint
    <2>12. ASSUME NEW c \in Accounts, NEW amount \in Stakes, slash(c, amount) PROVE Good
      BY <2>12 DEF slash, Balanced, Unbalanced, slash_reserved, change_used_stake, do_change_status_when_stake_changed, TypeOK, ListsDisjoint
    <2>13. ASSUME NEW c \in Accounts, NEW amount \in Stakes, apply_slash_review(c, amount) PROVE Good
      BY <2>13 DEF apply_slash_review, Take, reserve, change_used_stake, do_change_status_when_stake_changed, TypeOK, ListsDisjoint
    <2>14. ASSUME NEW c \in Accounts, NEW amount \in Stakes, do_cancel_slash(c, amount) PROVE Good
      BY <2>14 DEF do_cancel_slash, Available, Unbalanced, change_used_stake, do_change_status_when_stake_changed, TypeOK, ListsDisjoint
    <2>15. ASSUME NEW c \in Accounts, NEW amount \in Stakes, do_a_pending_review(c, amount) PROVE Good
      BY <2>15 DEF do_a_pending_review, slash_reserved, Unbalanced, TypeOK, ListsDisjoint
    <2>16. ASSUME NEW c \in Accounts, NEW amount \in Amounts, add_reward(c, amount) PROVE Good
      BY <2>16 DEF add_reward, TypeOK, ListsDisjoint
    <2> QED
      BY <2>1, <2>2, <2>3, <2>4, <2>5, <2>6, <2>7, <2>8, <2>9, <2>10, <2>11, <2>12, <2>13, <2>14, <2>15, <2>16, ZenonT(30) DEF Next
  <1> QED
    BY <1>1, InitIInv, NextIInv, PTL DEF Spec, NormalIsHealthy
=============================================================================
