----------------------------- MODULE X402Proofs -----------------------------
(***************************************************************************)
(* Proofs about the x402-settlement pallet, for any accounts, payments,    *)
(* delays and bounds.  The lemmas on single steps ask of the reserves only *)
(* that they cover the open intents, so that they hold as well where other *)
(* pallets use the same reserve.                                           *)
(***************************************************************************)
EXTENDS X402Settlement, SumTheorems

(* What every step preserves, apart from the balances. *)
Fresh == \A id \in IntentIds : id >= NextIntentId => status[id] = "None" /\ id \notin receipts

Recorded ==
    \A id \in IntentIds : status[id] # "None" =>
        /\ payment[id] \in Signed
        /\ <<payment[id].merchant, payment[id].nonce>> \in NonceUsed
        /\ payment[id].replay_fingerprint \in FingerprintUsed

Listed ==
    /\ \A id \in IntentIds : status[id] = "Pending" =>
          id \in PendingIntentIds /\ (now < expires_at[id] \/ id \in expiring)
    /\ \A id \in expiring : status[id] = "Pending"

SInv == TypeOK /\ Fresh /\ Recorded /\ NoReplay /\ Listed

(* The reserve of every account covers its open intents. *)
Covered == \A a \in Accounts : Owed(a) <= reserved[a]

(* A leaf goes to the SMT solver, to Zenon and, with more time, to the     *)
(* SMT solver again, unless it says otherwise.                             *)
USE SMTT(30), ZenonT(30), SMTT(40)

(* The signed payments are records of the declared type.                    *)
LEMMA SignedType ==
    ASSUME NEW p \in Signed
    PROVE  /\ p \in Payments /\ p.merchant \in Accounts /\ p.miner \in Accounts
           /\ p.amount \in Nat /\ p.nonce \in Nat /\ p.replay_fingerprint \in Nat
  BY PaymentsType

(* There are finitely many intents.                                         *)
LEMMA IntentIdsFinite == IsFiniteSet(IntentIds) /\ IntentIds \subseteq Nat
  BY FS_Interval, SettlementParams DEF IntentIds

OwedOf(a) == [id \in IntentIds |-> OwedFor(a, id)]

(* What is owed for an intent, and in all, is a natural number.             *)
LEMMA OwedType ==
    ASSUME TypeOK, Recorded, NEW a \in Accounts
    PROVE  OwedOf(a) \in [IntentIds -> Nat] /\ Owed(a) \in Nat /\ Owed(a) = SumOver(OwedOf(a), IntentIds)
  <1>1. OwedOf(a) \in [IntentIds -> Nat]
    BY SignedType, ZenonT(30) DEF OwedOf, OwedFor, Recorded, Open
  <1>2. SumOver(OwedOf(a), IntentIds) \in Nat
    BY <1>1, SumType, IntentIdsFinite, ZenonT(30)
  <1> QED BY <1>1, <1>2 DEF Owed, OwedOf

(* The same in the next state.                                              *)
LEMMA OwedTypeNext ==
    ASSUME TypeOK', Recorded', NEW a \in Accounts
    PROVE  OwedOf(a)' \in [IntentIds -> Nat] /\ Owed(a)' \in Nat /\ Owed(a)' = SumOver(OwedOf(a)', IntentIds)
  <1>1. OwedOf(a)' \in [IntentIds -> Nat]
    BY SignedType, ZenonT(30) DEF OwedOf, OwedFor, Recorded, Open
  <1>2. SumOver(OwedOf(a)', IntentIds) \in Nat
    BY <1>1, SumType, IntentIdsFinite, ZenonT(30)
  <1> QED BY <1>1, <1>2 DEF Owed, OwedOf

(* Where only the intent i changes, the sum changes by what i does.         *)
LEMMA OwedStep ==
    ASSUME TypeOK, Recorded, TypeOK', Recorded', NEW i \in IntentIds, NEW a \in Accounts,
           \A id \in IntentIds \ {i} : status'[id] = status[id] /\ payment'[id] = payment[id]
    PROVE  /\ Owed(a)' + OwedFor(a, i) = Owed(a) + OwedFor(a, i)'
           /\ Owed(a) \in Nat /\ Owed(a)' \in Nat
  <1>1. OwedOf(a) \in [IntentIds -> Nat] /\ Owed(a) = SumOver(OwedOf(a), IntentIds)
    BY OwedType
  <1>2. OwedOf(a)' \in [IntentIds -> Nat] /\ Owed(a)' = SumOver(OwedOf(a)', IntentIds)
    BY OwedTypeNext
  <1>3. \A id \in IntentIds \ {i} : OwedOf(a)'[id] = OwedOf(a)[id]
    BY DEF OwedOf, OwedFor
  <1>4. OwedOf(a)[i] = OwedFor(a, i) /\ OwedOf(a)'[i] = OwedFor(a, i)'
    BY DEF OwedOf
  <1>5. SumOver(OwedOf(a)', IntentIds) + OwedOf(a)[i] = SumOver(OwedOf(a), IntentIds) + OwedOf(a)'[i]
    BY <1>1, <1>2, <1>3, SumUpdate, IntentIdsFinite, ZenonT(30)
  <1>6. SumOver(OwedOf(a), IntentIds) \in Nat /\ SumOver(OwedOf(a)', IntentIds) \in Nat
    BY <1>1, <1>2, SumType, IntentIdsFinite
  <1> QED BY <1>1, <1>2, <1>4, <1>5, <1>6

(* A single open intent is covered by the sum.                              *)
LEMMA OwedMember ==
    ASSUME TypeOK, Recorded, NEW i \in IntentIds, status[i] \in Open
    PROVE  payment[i].amount <= Owed(payment[i].merchant)
  <1>1. payment[i].merchant \in Accounts
    BY SignedType, ZenonT(30) DEF Recorded, Open
  <1>2. OwedOf(payment[i].merchant)[i] = payment[i].amount
    BY DEF OwedOf, OwedFor
  <1> QED BY <1>1, <1>2, OwedType, SumMember, IntentIdsFinite, ZenonT(30)

(* The reserves change by what is owed changes by. *)
ReserveFollows == \A a \in Accounts : reserved'[a] + Owed(a) = reserved[a] + Owed(a)'

(* Genesis: nothing is owed.                                                *)
LEMMA InitSInv == Init => SInv /\ \A a \in Accounts : Owed(a) = 0
  <1> SUFFICES ASSUME Init PROVE SInv /\ \A a \in Accounts : Owed(a) = 0
    OBVIOUS
  <1>1. TypeOK
    BY ReserveParams, SettlementParams, PaymentsType DEF Init, TypeOK, Statuses
  <1>2. Fresh /\ Recorded /\ NoReplay /\ Listed
    BY DEF Init, Fresh, Recorded, NoReplay, Listed
  <1>3. ASSUME NEW a \in Accounts PROVE Owed(a) = 0
    <2>1. [id \in IntentIds |-> OwedFor(a, id)] = [id \in IntentIds |-> 0]
      BY DEF Init, OwedFor, Open
    <2> QED BY <2>1, SumZero, IntentIdsFinite, ZenonT(30) DEF Owed
  <1> QED BY <1>1, <1>2, <1>3 DEF SInv

(* submit_payment_intent: a fresh id, a fresh nonce and fingerprint, and    *)
(* the amount in reserve.                                                   *)
LEMMA SubmitStep ==
    ASSUME SInv, HookDone, NEW p \in Payments, submit_payment_intent(p)
    PROVE  SInv' /\ ReserveFollows
  <1> USE DEF SInv
  <1>p. p \in Signed /\ p.merchant \in Accounts /\ p.amount \in Nat /\ p.nonce \in Nat
        /\ p.replay_fingerprint \in Nat /\ p \in Payments
    BY SignedType DEF submit_payment_intent
  <1>i. PICK i \in IntentIds : i = NextIntentId /\ i \in Nat /\ status[i] = "None"
    BY DEF submit_payment_intent, Fresh, TypeOK
  <1>s. /\ status' = [status EXCEPT ![i] = "Pending"]
        /\ payment' = [payment EXCEPT ![i] = p]
        /\ \A k \in IntentIds \ {i} : status'[k] = status[k] /\ payment'[k] = payment[k]
        /\ status'[i] = "Pending" /\ payment'[i] = p
    BY <1>i DEF submit_payment_intent, TypeOK
  <1>n. /\ NonceUsed' = NonceUsed \cup {<<p.merchant, p.nonce>>}
        /\ FingerprintUsed' = FingerprintUsed \cup {p.replay_fingerprint}
        /\ <<p.merchant, p.nonce>> \notin NonceUsed /\ p.replay_fingerprint \notin FingerprintUsed
    BY DEF submit_payment_intent, mark_used
  <1>1. TypeOK'
    <2> USE <1>p, <1>i, SettlementParams DEF submit_payment_intent, TypeOK
    <2>1. NextIntentId' \in 0..MaxIds  BY DEF IntentIds
    <2>2. payment' \in [IntentIds -> Payments \cup {NoPayment}]  OBVIOUS
    <2>3. status' \in [IntentIds -> Statuses]  BY DEF Statuses
    <2>4. expires_at' \in [IntentIds -> Nat]  OBVIOUS
    <2>5. PendingIntentIds' \subseteq IntentIds  BY DEF track
    <2>6. NonceUsed' \subseteq Accounts \X Nat /\ FingerprintUsed' \subseteq Nat
      <3>1. <<p.merchant, p.nonce>> \in Accounts \X Nat  OBVIOUS
      <3> QED BY <1>n, <3>1, ZenonT(30)
    <2>7. free' \in [Accounts -> Nat] /\ reserved' \in [Accounts -> Nat]  BY DEF reserve
    <2> QED BY <2>1, <2>2, <2>3, <2>4, <2>5, <2>6, <2>7
  <1>2. Fresh'
    BY <1>i, IntentIdsFinite DEF submit_payment_intent, Fresh, TypeOK
  <1>3. Recorded'
    BY <1>p, <1>s, <1>n DEF Recorded
  <1>4. NoReplay'
    <2> SUFFICES ASSUME NEW j \in IntentIds, NEW k \in IntentIds,
                        status'[j] # "None", status'[k] # "None", j # k
                 PROVE  /\ payment'[j].replay_fingerprint # payment'[k].replay_fingerprint
                        /\ <<payment'[j].merchant, payment'[j].nonce>>
                               # <<payment'[k].merchant, payment'[k].nonce>>
      BY DEF NoReplay
    <2>1. CASE j # i /\ k # i
      BY <1>s, <2>1 DEF NoReplay
    <2>2. \A l \in IntentIds \ {i} : status'[l] # "None" =>
              /\ <<payment'[l].merchant, payment'[l].nonce>> # <<p.merchant, p.nonce>>
              /\ payment'[l].replay_fingerprint # p.replay_fingerprint
      BY <1>s, <1>n, ZenonT(30) DEF Recorded
    <2>3. CASE j = i
      BY <1>s, <2>2, <2>3
    <2>4. CASE k = i
      BY <1>s, <2>2, <2>4
    <2> QED BY <2>1, <2>3, <2>4
  <1>5. Listed'
    BY <1>i, SettlementParams DEF submit_payment_intent, Listed, TypeOK, track, HookDone
  <1>6. ReserveFollows
    <2> SUFFICES ASSUME NEW a \in Accounts
                 PROVE  reserved'[a] + Owed(a) = reserved[a] + Owed(a)'
      BY DEF ReserveFollows
    <2>1. /\ Owed(a)' + OwedFor(a, i) = Owed(a) + OwedFor(a, i)'
          /\ Owed(a) \in Nat /\ Owed(a)' \in Nat
      BY <1>s, <1>1, <1>3, OwedStep
    <2>2. OwedFor(a, i) = 0
      BY <1>i DEF OwedFor, Open
    <2>3. OwedFor(a, i)' = IF p.merchant = a THEN p.amount ELSE 0
      BY <1>s DEF OwedFor, Open
    <2>4. reserved'[a] = reserved[a] + IF p.merchant = a THEN p.amount ELSE 0
      BY <1>p DEF submit_payment_intent, reserve, TypeOK
    <2>5. reserved[a] \in Nat
      BY DEF TypeOK
    <2> QED BY <1>p, <2>1, <2>2, <2>3, <2>4, <2>5
  <1> QED BY <1>1, <1>2, <1>3, <1>4, <1>5, <1>6

(* An open intent is closed: its amount leaves the reserve of the merchant, *)
(* as finalize_settlement, fail_payment_intent and on_initialize do it.     *)
LEMMA CloseStep ==
    ASSUME TypeOK, Recorded, Covered, TypeOK', Recorded', NEW i \in IntentIds, status[i] \in Open,
           NEW s, s \notin Open, status' = [status EXCEPT ![i] = s], payment' = payment,
           reserved' = [reserved EXCEPT ![payment[i].merchant] =
                           @ - Available(payment[i].merchant, payment[i].amount)]
    PROVE  ReserveFollows /\ Available(payment[i].merchant, payment[i].amount) = payment[i].amount
  <1>p. payment[i].merchant \in Accounts /\ payment[i].amount \in Nat
    BY SignedType, ZenonT(30) DEF Recorded, Open
  <1>o. \A a \in Accounts : Owed(a) \in Nat /\ reserved[a] \in Nat
    BY OwedType DEF TypeOK
  <1>1. Available(payment[i].merchant, payment[i].amount) = payment[i].amount
    BY <1>p, <1>o, OwedMember DEF Covered, Available
  <1>2. ASSUME NEW a \in Accounts
        PROVE  reserved'[a] + Owed(a) = reserved[a] + Owed(a)'
    <2>1. /\ Owed(a)' + OwedFor(a, i) = Owed(a) + OwedFor(a, i)'
          /\ Owed(a) \in Nat /\ Owed(a)' \in Nat
      BY OwedStep DEF TypeOK
    <2>2. OwedFor(a, i) = IF payment[i].merchant = a THEN payment[i].amount ELSE 0
      BY DEF OwedFor
    <2>3. OwedFor(a, i)' = 0
      BY DEF OwedFor, TypeOK
    <2>4. reserved'[a] = reserved[a] - (IF payment[i].merchant = a THEN payment[i].amount ELSE 0)
      BY <1>1, <1>p DEF TypeOK
    <2> QED BY <1>p, <1>o, <2>1, <2>2, <2>3, <2>4
  <1> QED BY <1>1, <1>2 DEF ReserveFollows

(* Where no intent is opened or closed, what is owed stays the same.        *)
LEMMA OwedUnchanged ==
    ASSUME payment' = payment,
           \A id \in IntentIds : (status'[id] \in Open) <=> (status[id] \in Open)
    PROVE  \A a \in Accounts : Owed(a)' = Owed(a)
  <1> SUFFICES ASSUME NEW a \in Accounts PROVE Owed(a)' = Owed(a)
    OBVIOUS
  <1>1. [id \in IntentIds |-> OwedFor(a, id)]' = [id \in IntentIds |-> OwedFor(a, id)]
    BY DEF OwedFor
  <1> QED BY <1>1 DEF Owed

(* verify_settlement: the intent stays open.                                *)
LEMMA VerifyStep ==
    ASSUME SInv, HookDone, NEW id \in IntentIds, verify_settlement(id)
    PROVE  SInv' /\ ReserveFollows
  <1> USE DEF SInv, verify_settlement
  <1>1. TypeOK'
    BY DEF TypeOK, Statuses, untrack, replay, balances
  <1>2. Fresh' /\ Recorded'
    BY DEF Fresh, Recorded, TypeOK, replay
  <1>3. NoReplay'
    BY DEF NoReplay, TypeOK
  <1>4. Listed'
    BY DEF Listed, TypeOK, untrack, HookDone
  <1>5. ReserveFollows
    BY OwedUnchanged DEF ReserveFollows, Open, TypeOK, balances
  <1> QED BY <1>1, <1>2, <1>3, <1>4, <1>5

(* finalize_settlement: the amount goes to the miner.                       *)
LEMMA FinalizeStep ==
    ASSUME SInv, Covered, HookDone, NEW id \in IntentIds, finalize_settlement(id)
    PROVE  /\ SInv' /\ ReserveFollows
           /\ Available(payment[id].merchant, payment[id].amount) = payment[id].amount
  <1> USE DEF SInv, finalize_settlement, repatriate_reserved
  <1>p. /\ payment[id].merchant \in Accounts /\ payment[id].miner \in Accounts
        /\ payment[id].amount \in Nat /\ status[id] \in Open
    BY SignedType, ZenonT(30) DEF Recorded, Open
  <1>1. TypeOK'
    BY <1>p DEF TypeOK, Statuses, Available, replay
  <1>2. Fresh'
    BY DEF Fresh, TypeOK
  <1>3. Recorded'
    BY DEF Recorded, TypeOK, replay
  <1>4. NoReplay'
    BY DEF NoReplay, TypeOK
  <1>5. Listed'
    BY DEF Listed, TypeOK, HookDone
  <1>6. ReserveFollows /\ Available(payment[id].merchant, payment[id].amount) = payment[id].amount
    BY <1>1, <1>3, <1>p, CloseStep, ZenonT(30) DEF Open
  <1> QED BY <1>1, <1>2, <1>3, <1>4, <1>5, <1>6

(* fail_payment_intent and a round of on_initialize: the merchant gets the  *)
(* amount back.                                                             *)
LEMMA FailStep ==
    ASSUME SInv, Covered, NEW id \in IntentIds, status[id] \in Open,
           unreserve(payment[id].merchant, payment[id].amount),
           status' = [status EXCEPT ![id] = "Failed"], untrack(id), expiring' = expiring \ {id},
           UNCHANGED <<now, NextIntentId, payment, verified_at, expires_at, replay, receipts>>
    PROVE  /\ SInv' /\ ReserveFollows
           /\ Available(payment[id].merchant, payment[id].amount) = payment[id].amount
  <1> USE DEF SInv
  <1>p. payment[id].merchant \in Accounts /\ payment[id].amount \in Nat
    BY SignedType, ZenonT(30) DEF Recorded, Open
  <1>1. TypeOK'
    BY <1>p DEF TypeOK, Statuses, Available, replay, unreserve, untrack
  <1>2. Fresh'
    BY DEF Fresh, TypeOK, Open
  <1>3. Recorded'
    BY DEF Recorded, TypeOK, replay, Open
  <1>4. NoReplay'
    BY DEF NoReplay, TypeOK, Open
  <1>5. Listed'
    BY DEF Listed, TypeOK, untrack
  <1>6. ReserveFollows /\ Available(payment[id].merchant, payment[id].amount) = payment[id].amount
    BY <1>1, <1>3, CloseStep, ZenonT(30) DEF Open, unreserve
  <1> QED BY <1>1, <1>2, <1>3, <1>4, <1>5, <1>6

(* A new block: what has expired is set apart for the hook.                 *)
LEMMA BlockStep ==
    ASSUME SInv, HookDone, next_block
    PROVE  SInv' /\ ReserveFollows
  <1> USE DEF SInv, next_block, intent, replay, balances
  <1>1. TypeOK'
    BY ReserveParams DEF TypeOK, expired
  <1>2. Fresh' /\ Recorded' /\ NoReplay'
    BY DEF Fresh, Recorded, NoReplay
  <1>3. Listed'
    <2>1. ASSUME NEW id \in IntentIds, status'[id] = "Pending"
          PROVE  id \in PendingIntentIds' /\ (now' < expires_at'[id] \/ id \in expiring')
      BY <2>1 DEF Listed, expired, TypeOK
    <2>2. \A id \in expiring' : status'[id] = "Pending"
      BY DEF expired
    <2> QED BY <2>1, <2>2 DEF Listed
  <1>4. ReserveFollows
    BY OwedUnchanged DEF ReserveFollows
  <1> QED BY <1>1, <1>2, <1>3, <1>4

(* Every step of the pallet, in a state where the reserves cover the open   *)
(* intents, whoever else reserves.                                          *)
LEMMA SettlementStep ==
    ASSUME SInv, Covered, Next
    PROVE  SInv' /\ ReserveFollows
  <1>1. ASSUME HookDone, NEW p \in Payments, submit_payment_intent(p)
        PROVE  SInv' /\ ReserveFollows
    BY <1>1, SubmitStep
  <1>2. ASSUME HookDone, NEW id \in IntentIds, verify_settlement(id)
        PROVE  SInv' /\ ReserveFollows
    BY <1>2, VerifyStep
  <1>3. ASSUME HookDone, NEW id \in IntentIds, finalize_settlement(id)
        PROVE  SInv' /\ ReserveFollows
    BY <1>3, FinalizeStep
  <1>4. ASSUME HookDone, NEW id \in IntentIds, fail_payment_intent(id)
        PROVE  SInv' /\ ReserveFollows
    <2>1. expiring' = expiring \ {id}
      BY <1>4 DEF fail_payment_intent, HookDone
    <2> QED BY <1>4, <2>1, FailStep, ZenonT(30) DEF fail_payment_intent, can_fail
  <1>5. ASSUME HookDone, next_block PROVE SInv' /\ ReserveFollows
    BY <1>5, BlockStep
  <1>6. ASSUME NEW id \in IntentIds, on_initialize(id) PROVE SInv' /\ ReserveFollows
    <2>1. status[id] \in Open
      BY <1>6 DEF on_initialize, SInv, Listed, Open
    <2> QED BY <1>6, <2>1, FailStep, ZenonT(30) DEF on_initialize
  <1> QED BY <1>1, <1>2, <1>3, <1>4, <1>5, <1>6 DEF Next, SettlementCall

(* The inductive invariant of the pallet on its own. *)
XInv == SInv /\ ReserveIsOwed

(* Where nothing else is reserved, the reserves cover the open intents.     *)
LEMMA XInvCovered == XInv => Covered
  BY OwedType DEF XInv, SInv, ReserveIsOwed, Covered

(* Genesis satisfies the invariant.                                         *)
LEMMA InitXInv == Init => XInv
  BY InitSInv DEF XInv, ReserveIsOwed, Init

(* Every step of the pallet preserves it.                                   *)
LEMMA NextXInv == XInv /\ [Next]_vars => XInv'
  <1> SUFFICES ASSUME XInv, [Next]_vars PROVE XInv'
    OBVIOUS
  <1>1. CASE Next
    <2>1. SInv' /\ ReserveFollows
      BY <1>1, XInvCovered, SettlementStep DEF XInv
    <2>2. ASSUME NEW a \in Accounts PROVE reserved'[a] = Owed(a)'
      <3>1. reserved[a] = Owed(a) /\ reserved[a] \in Nat
        BY DEF XInv, SInv, TypeOK, ReserveIsOwed
      <3>2. reserved'[a] \in Nat
        BY <2>1 DEF SInv, TypeOK
      <3>3. Owed(a)' \in Nat
        BY <2>1, OwedTypeNext DEF SInv
      <3> QED BY <2>1, <3>1, <3>2, <3>3 DEF ReserveFollows
    <2> QED BY <2>1, <2>2 DEF XInv, ReserveIsOwed
  <1>2. CASE UNCHANGED vars
    <2>1. SInv'
      BY <1>2 DEF vars, intent, replay, balances, XInv, SInv, TypeOK, Fresh, Recorded, NoReplay, Listed
    <2>2. \A a \in Accounts : Owed(a)' = Owed(a)
      BY <1>2, OwedUnchanged DEF vars, intent
    <2> QED BY <1>2, <2>1, <2>2 DEF XInv, ReserveIsOwed, vars, balances
  <1> QED BY <1>1, <1>2

(* No balance is ever negative and no record of the pallet leaves its type, *)
(* whatever calls are made and whatever expires.                            *)
THEOREM SettlementTyped == Spec => []TypeOK
  <1>1. XInv => TypeOK  BY DEF XInv, SInv
  <1> QED BY <1>1, InitXInv, NextXInv, PTL DEF Spec

(* A signed payment never becomes two intents: submit_payment_intent        *)
(* refuses a nonce or fingerprint that any intent, open or closed, has.     *)
THEOREM PaymentsNotReplayed == Spec => []NoReplay
  <1>1. XInv => NoReplay  BY DEF XInv, SInv
  <1> QED BY <1>1, InitXInv, NextXInv, PTL DEF Spec

(* Where no other pallet reserves, a merchant's reserve is the sum of its   *)
(* open intents: finalize, fail and the hook release each amount once.      *)
THEOREM ReserveMatchesIntents == Spec => []ReserveIsOwed
  <1>1. XInv => ReserveIsOwed  BY DEF XInv
  <1> QED BY <1>1, InitXInv, NextXInv, PTL DEF Spec

(* The list the hook goes over has every pending intent.                    *)
LEMMA ListedExpires == SInv => PendingExpires
  BY DEF SInv, Listed, PendingExpires, HookDone

(* After the hook of a block no pending intent is past its time to live.    *)
THEOREM PendingIntentsExpire == Spec => []PendingExpires
  <1>1. XInv => PendingExpires  BY ListedExpires DEF XInv
  <1> QED BY <1>1, InitXInv, NextXInv, PTL DEF Spec

-----------------------------------------------------------------------------
(* The pallet implements the escrow.  A payment is open, paid or refunded   *)
(* in the escrow when its intent is, and an intent is found by its payment. *)
WithStatus(S) == {payment[id] : id \in {i \in IntentIds : status[i] \in S}}

(* The sets of the refinement mapping, written with WithStatus.             *)
LEMMA EscrowSets ==
    /\ {payment[id] : id \in OpenIntents} = WithStatus(Open)
    /\ {payment[id] : id \in {i \in IntentIds : status[i] = "Settled"}} = WithStatus({"Settled"})
    /\ {payment[id] : id \in {i \in IntentIds : status[i] = "Failed"}} = WithStatus({"Failed"})
  BY DEF WithStatus, OpenIntents

(* The same in the next state.                                              *)
LEMMA EscrowSetsNext ==
    /\ {payment[id] : id \in OpenIntents}' = WithStatus(Open)'
    /\ {payment[id] : id \in {i \in IntentIds : status[i] = "Settled"}}' = WithStatus({"Settled"})'
    /\ {payment[id] : id \in {i \in IntentIds : status[i] = "Failed"}}' = WithStatus({"Failed"})'
  BY DEF WithStatus, OpenIntents

(* No two intents have the same payment.                                    *)
LEMMA IntentOfPayment ==
    ASSUME SInv, NEW i \in IntentIds, NEW j \in IntentIds,
           status[i] # "None", status[j] # "None", payment[i] = payment[j]
    PROVE  i = j
  BY DEF SInv, NoReplay

(* An intent that takes the status s enters that set.                       *)
LEMMA Enters ==
    ASSUME TypeOK, NEW i \in IntentIds, NEW s, NEW S, s \in S,
           status' = [status EXCEPT ![i] = s], payment' = payment
    PROVE  WithStatus(S)' = WithStatus(S) \cup {payment[i]}
  BY DEF TypeOK, WithStatus

(* An intent that loses it leaves it, as no other one has its payment.      *)
LEMMA Leaves ==
    ASSUME SInv, NEW i \in IntentIds, NEW s, NEW S, s \notin S, "None" \notin S,
           status[i] # "None",
           status' = [status EXCEPT ![i] = s], payment' = payment
    PROVE  WithStatus(S)' = WithStatus(S) \ {payment[i]}
  <1>1. ASSUME NEW j \in IntentIds, status[j] \in S, payment[j] = payment[i] PROVE j = i
    BY <1>1, IntentOfPayment
  <1> QED BY <1>1 DEF SInv, TypeOK, WithStatus

(* A status that neither has: the set is as before.                         *)
LEMMA Stays ==
    ASSUME TypeOK, NEW i \in IntentIds, NEW s, NEW S, s \notin S, status[i] \notin S,
           status' = [status EXCEPT ![i] = s], payment' = payment
    PROVE  WithStatus(S)' = WithStatus(S)
  BY DEF TypeOK, WithStatus

(* What is held changes as the reserves do.                                 *)
LEMMA HeldStep ==
    ASSUME SInv, SInv', ReserveFollows, NEW a \in Accounts
    PROVE  /\ Owed(a) \in Nat /\ reserved[a] \in Nat /\ Owed(a)' \in Nat /\ reserved'[a] \in Nat
           /\ \A n \in Nat : reserved'[a] = reserved[a] + n => Owed(a)' = Owed(a) + n
           /\ \A n \in Nat : reserved'[a] = reserved[a] - n => Owed(a)' = Owed(a) - n
  <1>1. Owed(a) \in Nat /\ reserved[a] \in Nat
    BY OwedType DEF SInv, TypeOK
  <1>2. Owed(a)' \in Nat /\ reserved'[a] \in Nat
    BY OwedTypeNext DEF SInv, TypeOK
  <1> QED BY <1>1, <1>2 DEF ReserveFollows

(* submit_payment_intent accepts the payment.                               *)
LEMMA SubmitAccepts ==
    ASSUME SInv, SInv', HookDone, NEW p \in Payments, submit_payment_intent(p)
    PROVE  p \in Signed /\ E!Accept(p)
  <1> USE DEF SInv
  <1>p. p \in Signed /\ p.merchant \in Accounts /\ p.amount \in Nat
    BY SignedType DEF submit_payment_intent
  <1>i. PICK i \in IntentIds : i = NextIntentId /\ status[i] = "None"
    BY DEF submit_payment_intent, Fresh, TypeOK
  <1>s. /\ \A k \in IntentIds \ {i} : status'[k] = status[k] /\ payment'[k] = payment[k]
        /\ status'[i] = "Pending" /\ payment'[i] = p
    BY <1>i DEF submit_payment_intent, TypeOK
  <1>1. \A S : "None" \notin S => p \notin WithStatus(S)
    BY DEF WithStatus, Recorded, submit_payment_intent
  <1>2. WithStatus(Open)' = WithStatus(Open) \cup {p}
    BY <1>i, <1>s DEF WithStatus, Open
  <1>3. WithStatus({"Settled"})' = WithStatus({"Settled"}) /\ WithStatus({"Failed"})' = WithStatus({"Failed"})
    BY <1>i, <1>s DEF WithStatus
  <1>4. reserve(p.merchant, p.amount)
    BY DEF submit_payment_intent
  <1>5. [a \in Accounts |-> Owed(a)]' = [[a \in Accounts |-> Owed(a)] EXCEPT ![p.merchant] = @ + p.amount]
    <2>1. ASSUME NEW a \in Accounts
          PROVE  Owed(a)' = IF a = p.merchant THEN Owed(a) + p.amount ELSE Owed(a)
      <3>1. reserved'[a] = reserved[a] + IF a = p.merchant THEN p.amount ELSE 0
        BY <1>p, <1>4, HeldStep, SubmitStep DEF reserve, TypeOK
      <3> QED BY <1>p, <3>1, HeldStep, SubmitStep
    <2> QED BY <2>1
  <1>6. p \notin WithStatus(Open) \cup WithStatus({"Settled"}) \cup WithStatus({"Failed"})
    BY <1>1 DEF Open
  <1> QED BY <1>p, <1>2, <1>3, <1>4, <1>5, <1>6, EscrowSets, EscrowSetsNext, ZenonT(30) DEF E!Accept, reserve

(* A closed intent releases its whole amount.                               *)
LEMMA CloseReleases ==
    ASSUME SInv, SInv', ReserveFollows, NEW i \in IntentIds, status[i] \in Open,
           NEW s, s \notin Open, status' = [status EXCEPT ![i] = s], payment' = payment,
           NEW to \in Accounts,
           reserved' = [reserved EXCEPT ![payment[i].merchant] = @ - payment[i].amount],
           free' = [free EXCEPT ![to] = @ + payment[i].amount]
    PROVE  payment[i] \in Signed /\ E!Release(payment[i], to)
  <1> USE DEF SInv
  <1>p. payment[i] \in Signed /\ payment[i].merchant \in Accounts /\ payment[i].amount \in Nat
    BY SignedType, ZenonT(30) DEF Recorded, Open
  <1>1. payment[i] \in WithStatus(Open)
    BY DEF WithStatus
  <1>2. WithStatus(Open)' = WithStatus(Open) \ {payment[i]}
    BY Leaves, ZenonT(30) DEF Open
  <1>3. \A a \in Accounts : Owed(a) \in Nat /\ reserved[a] \in Nat
    BY OwedType DEF TypeOK
  <1>6. [a \in Accounts |-> Owed(a)]'
          = [[a \in Accounts |-> Owed(a)] EXCEPT ![payment[i].merchant] = @ - payment[i].amount]
    <2>1. ASSUME NEW a \in Accounts
          PROVE  Owed(a)' = IF a = payment[i].merchant THEN Owed(a) - payment[i].amount ELSE Owed(a)
      <3>1. CASE a = payment[i].merchant
        BY <1>p, <3>1, HeldStep DEF TypeOK
      <3>2. CASE a # payment[i].merchant
        <4>1. reserved'[a] = reserved[a] + 0
          BY <3>2, HeldStep DEF TypeOK
        <4>2. Owed(a)' = Owed(a) + 0
          BY <4>1, HeldStep
        <4> QED BY <3>2, <4>2, HeldStep
      <3> QED BY <3>1, <3>2
    <2> QED BY <2>1
  <1> QED BY <1>p, <1>1, <1>2, <1>6, EscrowSets, EscrowSetsNext DEF E!Release

(* finalize_settlement pays.                                                *)
LEMMA FinalizePays ==
    ASSUME SInv, SInv', Covered, HookDone, NEW id \in IntentIds, finalize_settlement(id)
    PROVE  payment[id] \in Signed /\ E!Pay(payment[id])
  <1> USE DEF SInv, finalize_settlement
  <1>1. ReserveFollows /\ Available(payment[id].merchant, payment[id].amount) = payment[id].amount
    BY FinalizeStep, ZenonT(30)
  <1>2. payment[id].miner \in Accounts
    BY SignedType, ZenonT(30) DEF Recorded
  <1>3. payment[id] \in Signed /\ E!Release(payment[id], payment[id].miner)
    <2>1. PICK to \in Accounts : to = payment[id].miner
      BY <1>2, ZenonT(30)
    <2>2. payment[id] \in Signed /\ E!Release(payment[id], to)
      BY <1>1, <2>1, CloseReleases, ZenonT(30) DEF Open, repatriate_reserved
    <2> QED BY <2>1, <2>2, ZenonT(30) DEF E!Release
  <1>4. WithStatus({"Settled"})' = WithStatus({"Settled"}) \cup {payment[id]}
    BY Enters, ZenonT(30)
  <1>5. WithStatus({"Failed"})' = WithStatus({"Failed"})
    <2>1. "Settled" \notin {"Failed"} /\ status[id] \notin {"Failed"}
      OBVIOUS
    <2> QED BY <2>1, Stays, ZenonT(30)
  <1> QED BY <1>3, <1>4, <1>5, EscrowSets, EscrowSetsNext DEF E!Pay

(* fail_payment_intent and the hook refund.                                 *)
LEMMA FailRefunds ==
    ASSUME SInv, SInv', Covered, NEW id \in IntentIds, status[id] \in Open,
           unreserve(payment[id].merchant, payment[id].amount),
           status' = [status EXCEPT ![id] = "Failed"], untrack(id), expiring' = expiring \ {id},
           UNCHANGED <<now, NextIntentId, payment, verified_at, expires_at, replay, receipts>>
    PROVE  payment[id] \in Signed /\ E!Refund(payment[id])
  <1> USE DEF SInv
  <1>1. ReserveFollows /\ Available(payment[id].merchant, payment[id].amount) = payment[id].amount
    BY FailStep, ZenonT(30)
  <1>2. payment[id].merchant \in Accounts
    BY SignedType, ZenonT(30) DEF Recorded, Open
  <1>3. payment[id] \in Signed /\ E!Release(payment[id], payment[id].merchant)
    <2>1. PICK to \in Accounts : to = payment[id].merchant
      BY <1>2, ZenonT(30)
    <2>2. payment[id] \in Signed /\ E!Release(payment[id], to)
      BY <1>1, <2>1, CloseReleases, ZenonT(30) DEF Open, unreserve
    <2> QED BY <2>1, <2>2, ZenonT(30) DEF E!Release
  <1>4. WithStatus({"Failed"})' = WithStatus({"Failed"}) \cup {payment[id]}
    BY Enters, ZenonT(30)
  <1>5. WithStatus({"Settled"})' = WithStatus({"Settled"})
    <2>1. "Failed" \notin {"Settled"} /\ status[id] \notin {"Settled"}
      BY DEF Open
    <2> QED BY <2>1, Stays, ZenonT(30)
  <1> QED BY <1>3, <1>4, <1>5, EscrowSets, EscrowSetsNext, ZenonT(30) DEF E!Refund

(* A step that opens and closes no intent, of this pallet or of another     *)
(* one, is a step elsewhere if it leaves the reserves covering the intents. *)
LEMMA ElsewhereStep ==
    ASSUME Covered', payment' = payment,
           \A id \in IntentIds :
              /\ (status'[id] \in Open) <=> (status[id] \in Open)
              /\ (status'[id] = "Settled") <=> (status[id] = "Settled")
              /\ (status'[id] = "Failed") <=> (status[id] = "Failed")
    PROVE  E!Next
  <1>1. \A S \in {Open, {"Settled"}, {"Failed"}} : WithStatus(S)' = WithStatus(S)
    BY DEF WithStatus
  <1>2. \A a \in Accounts : Owed(a)' = Owed(a)
    BY OwedUnchanged
  <1>3. [a \in Accounts |-> Owed(a)]' = [a \in Accounts |-> Owed(a)]
    BY <1>2
  <1>4. \A a \in Accounts : [b \in Accounts |-> Owed(b)][a] <= reserved'[a]
    BY <1>2 DEF Covered
  <1> QED BY <1>1, <1>3, <1>4, EscrowSets, EscrowSetsNext DEF E!Next, E!Elsewhere, E!payments

(* The payment of an intent, as one of the signed payments.                 *)
LEMMA RefundStep ==
    ASSUME NEW id \in IntentIds, payment[id] \in Signed, E!Refund(payment[id])
    PROVE  E!Next
  <1>1. PICK p \in Signed : p = payment[id]
    OBVIOUS
  <1>2. E!Refund(p)
    BY <1>1, ZenonT(30) DEF E!Refund, E!Release
  <1> QED BY <1>2 DEF E!Next

(* Every step of the pallet is one of the escrow.                           *)
LEMMA SettlementRefines ==
    ASSUME SInv, Covered, SInv', Covered', Next
    PROVE  E!Next
  <1>1. ASSUME HookDone, NEW p \in Payments, submit_payment_intent(p) PROVE E!Next
    BY <1>1, SubmitAccepts DEF E!Next
  <1>2. ASSUME NEW id \in IntentIds, verify_settlement(id) PROVE E!Next
    BY <1>2, ElsewhereStep DEF verify_settlement, SInv, TypeOK, Open
  <1>3. ASSUME HookDone, NEW id \in IntentIds, finalize_settlement(id) PROVE E!Next
    <2>1. payment[id] \in Signed /\ E!Pay(payment[id])
      BY <1>3, FinalizePays
    <2>2. PICK p \in Signed : p = payment[id]
      BY <2>1
    <2>3. E!Pay(p)
      BY <2>1, <2>2, ZenonT(30) DEF E!Pay, E!Release
    <2> QED BY <2>3 DEF E!Next
  <1>4. ASSUME HookDone, NEW id \in IntentIds, fail_payment_intent(id) PROVE E!Next
    <2>1. expiring' = expiring \ {id}
      BY <1>4 DEF fail_payment_intent, HookDone
    <2>2. payment[id] \in Signed /\ E!Refund(payment[id])
      BY <1>4, <2>1, FailRefunds, ZenonT(30) DEF fail_payment_intent, can_fail
    <2> QED BY <2>2, RefundStep
  <1>5. ASSUME next_block PROVE E!Next
    BY <1>5, ElsewhereStep DEF next_block, intent
  <1>6. ASSUME NEW id \in IntentIds, on_initialize(id) PROVE E!Next
    <2>1. status[id] \in Open
      BY <1>6 DEF on_initialize, SInv, Listed, Open
    <2>2. payment[id] \in Signed /\ E!Refund(payment[id])
      BY <1>6, <2>1, FailRefunds, ZenonT(30) DEF on_initialize
    <2> QED BY <2>2, RefundStep
  <1> QED BY <1>1, <1>2, <1>3, <1>4, <1>5, <1>6 DEF Next, SettlementCall

(* Genesis is the initial state of the escrow.                              *)
LEMMA InitRefines == Init => E!Init
  <1> SUFFICES ASSUME Init PROVE E!Init
    OBVIOUS
  <1>1. \A S : "None" \notin S => WithStatus(S) = {}
    BY DEF Init, WithStatus
  <1>2. WithStatus(Open) = {} /\ WithStatus({"Settled"}) = {} /\ WithStatus({"Failed"}) = {}
    BY <1>1 DEF Open
  <1>3. [a \in Accounts |-> Owed(a)] = [a \in Accounts |-> 0]
    BY InitSInv
  <1> QED BY <1>2, <1>3, EscrowSets DEF E!Init, Init

(* The pallet implements PaymentEscrow: from acceptance to payment or       *)
(* refund, each signed payment is handled once and with its whole amount.   *)
THEOREM SettlementIsEscrow == Spec => EscrowSpec
  <1>1. Init => E!Init
    BY InitRefines
  <1>2. XInv /\ XInv' /\ [Next]_vars => [E!Next]_E!vars
    <2> SUFFICES ASSUME XInv, XInv', [Next]_vars PROVE [E!Next]_E!vars
      OBVIOUS
    <2>1. Covered
      BY XInvCovered
    <2>2. Covered'
      BY OwedTypeNext DEF Covered, XInv, SInv, ReserveIsOwed
    <2>3. CASE Next
      BY <2>1, <2>2, <2>3, SettlementRefines DEF XInv
    <2>4. CASE UNCHANGED vars
      BY <2>2, <2>4, ElsewhereStep DEF vars, intent
    <2> QED BY <2>3, <2>4
  <1> QED BY <1>1, <1>2, InitXInv, NextXInv, PTL DEF Spec, EscrowSpec, E!Spec
=============================================================================
