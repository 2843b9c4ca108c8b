--------------------------- MODULE ServicesProofs ---------------------------
(***************************************************************************)
(* Proofs about the three pallets that agents are paid through, on one     *)
(* chain and with one reserve for each account.  Each pallet's own proofs  *)
(* say what its steps do to its share of the reserve, as long as the       *)
(* reserve covers that share; what is left is that the shares add up.      *)
(***************************************************************************)
EXTENDS AgentServices, AgentProofs, TaskModeProofs

(* The inductive invariant of the three pallets.  It is the conjunction of  *)
(* what each of them preserves, and of what the reserves are.               *)
Shared == \A a \in Accounts : reserved[a] = Owed(a) + Deposits(a) + Charged(a)

DInv == AInv /\ SInv /\ TInv /\ Shared

(* A leaf goes to the SMT solver, to Zenon and, with more time, to the     *)
(* SMT solver again, unless it says otherwise.                             *)
USE SMTT(30), ZenonT(30), SMTT(40)

(* The three shares of a reserve are naturals.                              *)
LEMMA SharesType ==
    ASSUME AInv, SInv, TInv, NEW a \in Accounts
    PROVE  Owed(a) \in Nat /\ Deposits(a) \in Nat /\ Charged(a) \in Nat /\ reserved[a] \in Nat
  <1>1. Charged(a) \in Nat
    BY ChargedType DEF TInv
  <1> QED BY <1>1, OwedType, DepositsType DEF SInv, TypeOK

(* The same in the next state.                                              *)
LEMMA SharesTypeNext ==
    ASSUME AInv', SInv', TInv', NEW a \in Accounts
    PROVE  Owed(a)' \in Nat /\ Deposits(a)' \in Nat /\ Charged(a)' \in Nat /\ reserved'[a] \in Nat
  <1>1. Charged(a)' \in Nat
    BY ChargedTypeNext DEF TInv
  <1>2. Owed(a)' \in Nat /\ reserved'[a] \in Nat
    BY OwedTypeNext DEF SInv, TypeOK
  <1>3. PendingOf(a)' \subseteq AttestationIds
    BY DEF PendingOf
  <1>4. Cardinality(PendingOf(a)') \in Nat
    BY <1>3, AttestationIdsFinite, FS_Subset, FS_CardinalityType
  <1> QED BY <1>1, <1>2, <1>4, DepositTimes DEF Deposits

(* A reserve covers each of the shares it is made of.                       *)
LEMMA AllCovered ==
    ASSUME DInv
    PROVE  Covered /\ BothCovered /\ ChargesCovered
  <1>1. \A a \in Accounts : /\ Owed(a) \in Nat /\ Deposits(a) \in Nat /\ Charged(a) \in Nat
                             /\ reserved[a] = Owed(a) + Deposits(a) + Charged(a)
    BY SharesType DEF DInv, Shared
  <1> QED BY <1>1 DEF Covered, BothCovered, ChargesCovered

(* Genesis satisfies the invariant.                                         *)
LEMMA InitDInv == ServicesInit => DInv
  <1> SUFFICES ASSUME ServicesInit PROVE DInv
    OBVIOUS
  <1>1. AInv /\ SInv /\ \A a \in Accounts : Owed(a) = 0 /\ Deposits(a) = 0 /\ reserved[a] = 0
    BY InitAInv DEF ServicesInit
  <1>2. TInv /\ \A a \in Accounts : Charged(a) = 0
    BY InitTInv DEF ServicesInit
  <1> QED BY <1>1, <1>2 DEF DInv, Shared

(* A step of the two other pallets leaves the orders alone.                 *)
LEMMA OrdersKept ==
    ASSUME TInv, SInv', UNCHANGED taskvars
    PROVE  TInv' /\ \A a \in Accounts : Charged(a)' = Charged(a)
  <1>1. P!TypeOK'
    BY DEF TInv, TaskTypeOK, P!TypeOK, SInv, TypeOK, taskvars, oracle
  <1>2. UNCHANGED <<tasks, orders, stats>>
    BY DEF taskvars
  <1>3. free' \in [Accounts -> Nat] /\ reserved' \in [Accounts -> Nat]
    BY DEF SInv, TypeOK
  <1> QED BY <1>1, <1>2, <1>3, TaskKept

(* A step is one of the settlement pallet, a call to the attestation        *)
(* pallet, a call to the task pallet or a step of the oracle, and leaves    *)
(* alone what belongs to the others.                                        *)
LEMMA StepKinds ==
    ASSUME ServicesNext
    PROVE  \/ Next /\ UNCHANGED <<attvars, taskvars>>
           \/ AgentCall /\ UNCHANGED taskvars
           \/ TaskCall /\ UNCHANGED <<now, settlement, attvars>>
           \/ OracleStep /\ UNCHANGED <<now, settlement, attvars, balances>>
  <1>1. CASE SettlementCall /\ UNCHANGED <<attvars, taskvars>>
    BY <1>1 DEF Next
  <1>2. CASE TaskCall /\ UNCHANGED <<settlement, attvars>>
    BY <1>2, SameBlock
  <1>3. CASE OracleStep /\ UNCHANGED <<settlement, attvars>>
    <2>1. UNCHANGED balances
      BY <1>3 DEF OracleStep
    <2> QED BY <1>3, <2>1, SameBlock
  <1>4. CASE HookDone /\ next_block /\ task_next_block /\ UNCHANGED attvars
    <2>1. UNCHANGED taskvars
      BY <1>4 DEF task_next_block, P!next_price_block, P!oracle, oracle, tasks, orders, stats, taskvars
    <2> QED BY <1>4, <2>1 DEF Next
  <1>5. ASSUME NEW id \in IntentIds, on_initialize(id) /\ UNCHANGED <<attvars, taskvars>>
        PROVE  Next /\ UNCHANGED <<attvars, taskvars>>
    BY <1>5 DEF Next
  <1> QED BY <1>1, <1>2, <1>3, <1>4, <1>5 DEF ServicesNext

(* Every step of the three pallets preserves the invariant.                 *)
LEMMA NextDInv == DInv /\ [ServicesNext]_servicevars => DInv'
  <1> SUFFICES ASSUME DInv, [ServicesNext]_servicevars PROVE DInv'
    OBVIOUS
  <1> USE DEF DInv
  <1>c. Covered /\ BothCovered /\ ChargesCovered
    BY AllCovered
  <1>t. \A a \in Accounts : /\ Owed(a) \in Nat /\ Deposits(a) \in Nat /\ Charged(a) \in Nat
                             /\ reserved[a] \in Nat
                             /\ reserved[a] = Owed(a) + Deposits(a) + Charged(a)
    BY SharesType DEF Shared
  <1>1. CASE Next /\ UNCHANGED <<attvars, taskvars>>
    <2>1. SInv' /\ ReserveFollows
      BY <1>1, <1>c, SettlementStep
    <2>2. AInv' /\ \A a \in Accounts : Deposits(a)' = Deposits(a)
      BY <1>1, <2>1, AttestationKept DEF SInv
    <2>3. TInv' /\ \A a \in Accounts : Charged(a)' = Charged(a)
      BY <1>1, <2>1, OrdersKept
    <2>4. \A a \in Accounts : reserved'[a] = Owed(a)' + Deposits(a)' + Charged(a)'
      BY <1>t, <2>1, <2>2, <2>3, SharesTypeNext DEF ReserveFollows
    <2> QED BY <2>1, <2>2, <2>3, <2>4 DEF Shared
  <1>2. CASE AgentCall /\ UNCHANGED taskvars
    <2>1. AInv' /\ SInv' /\ DepositsFollow /\ payment' = payment /\ status' = status
      BY <1>2, <1>c, AgentStep DEF AgentEffect
    <2>2. \A a \in Accounts : Owed(a)' = Owed(a)
      BY <2>1, OwedUnchanged
    <2>3. TInv' /\ \A a \in Accounts : Charged(a)' = Charged(a)
      BY <1>2, <2>1, OrdersKept
    <2>4. \A a \in Accounts : reserved'[a] = Owed(a)' + Deposits(a)' + Charged(a)'
      BY <1>t, <2>1, <2>2, <2>3, SharesTypeNext DEF DepositsFollow
    <2> QED BY <2>1, <2>3, <2>4 DEF Shared
  <1>3. ASSUME TInv', UNCHANGED <<now, settlement, attvars>>
        PROVE  AInv' /\ SInv' /\ \A a \in Accounts : Owed(a)' = Owed(a) /\ Deposits(a)' = Deposits(a)
    <2>1. SInv'
      BY <1>3, SettlementKept DEF TInv, TaskTypeOK
    <2>2. AInv' /\ \A a \in Accounts : Deposits(a)' = Deposits(a)
      BY <1>3, <2>1, AttestationKept DEF SInv
    <2>3. \A a \in Accounts : Owed(a)' = Owed(a)
      BY <1>3, OwedUnchanged DEF settlement
    <2> QED BY <2>1, <2>2, <2>3
  <1>4. CASE TaskCall /\ UNCHANGED <<now, settlement, attvars>>
    <2>1. TInv' /\ ChargesFollow
      BY <1>4, <1>c, TaskStep
    <2>2. AInv' /\ SInv' /\ \A a \in Accounts : Owed(a)' = Owed(a) /\ Deposits(a)' = Deposits(a)
      BY <1>3, <1>4, <2>1
    <2>3. ASSUME NEW a \in Accounts
          PROVE  reserved'[a] = Owed(a)' + Deposits(a)' + Charged(a)'
      <3>1. reserved'[a] + Charged(a) = reserved[a] + Charged(a)'
        BY <2>1 DEF ChargesFollow
      <3>2. Charged(a)' \in Nat /\ reserved'[a] \in Nat
        BY <2>1, <2>2, SharesTypeNext
      <3> QED BY <1>t, <2>2, <3>1, <3>2
    <2> QED BY <2>1, <2>2, <2>3 DEF Shared
  <1>5. CASE OracleStep /\ UNCHANGED <<now, settlement, attvars, balances>>
    <2>1. TInv' /\ \A a \in Accounts : Charged(a)' = Charged(a)
      BY <1>5, OracleKept
    <2>2. AInv' /\ SInv' /\ \A a \in Accounts : Owed(a)' = Owed(a) /\ Deposits(a)' = Deposits(a)
      BY <1>3, <1>5, <2>1
    <2> QED BY <1>5, <1>t, <2>1, <2>2 DEF Shared, balances
  <1>6. CASE UNCHANGED servicevars
    <2>1. UNCHANGED <<now, settlement, balances, attvars, taskvars>>
      BY <1>6 DEF servicevars, agentvars
    <2>2. SInv'
      BY <2>1, SettlementKept DEF SInv, TypeOK, balances
    <2>3. TInv' /\ \A a \in Accounts : Charged(a)' = Charged(a)
      BY <2>1, <2>2, OrdersKept
    <2>4. AInv' /\ SInv' /\ \A a \in Accounts : Owed(a)' = Owed(a) /\ Deposits(a)' = Deposits(a)
      BY <1>3, <2>1, <2>3
    <2> QED BY <1>t, <2>1, <2>3, <2>4 DEF Shared, balances
  <1> QED BY <1>1, <1>2, <1>4, <1>5, <1>6, StepKinds

-----------------------------------------------------------------------------
(* The joint invariant holds in every state of the three pallets.           *)
LEMMA AlwaysDInv == ServicesSpec => []DInv
BY InitDInv, NextDInv, PTL DEF ServicesSpec

(* No pallet returns, slashes or pays out of what another one has put into  *)
(* the reserve of an account: unreserve, slash_reserved and                 *)
(* repatriate_reserved always find the whole amount of their own record.    *)
THEOREM ReserveOfAllPallets == ServicesSpec => []ReserveIsShared
  <1>1. DInv => ReserveIsShared
    BY DEF DInv, Shared, ReserveIsShared, Deposits
  <1> QED BY <1>1, AlwaysDInv, PTL

(* On the chain of the three pallets, too, submit_payment_intent makes one  *)
(* intent at most of a signed payment.                                      *)
THEOREM PaymentsOnce == ServicesSpec => []NoReplay
  <1>1. DInv => NoReplay  BY DEF DInv, SInv
  <1> QED BY <1>1, AlwaysDInv, PTL

(* The hook of the settlement pallet misses no pending intent, though       *)
(* attestations take ids of the same counter.                               *)
THEOREM IntentsExpire == ServicesSpec => []PendingExpires
  <1>1. DInv => PendingExpires  BY ListedExpires DEF DInv
  <1> QED BY <1>1, AlwaysDInv, PTL

(* The statistics that settle_task_order writes add up, and the shares that *)
(* miner_reward_share computes from them never exceed the pool.             *)
THEOREM SharesNeverExceedPool == ServicesSpec => []SharesWithinPool
  <1>1. DInv => SharesWithinPool
    BY SharesFit DEF DInv, SharesWithinPool
  <1> QED BY <1>1, AlwaysDInv, PTL

(* No call of any of the pallets confirms an attestation that can still be  *)
(* challenged, or challenges one whose window is over.                      *)
THEOREM ConfirmedAfterWindow == ServicesSpec => ConfirmedUnchallenged
  <1>1. ASSUME DInv, [ServicesNext]_servicevars
        PROVE  [\A id \in AttestationIds :
                  /\ att_status[id] # "Confirmed" /\ att_status'[id] = "Confirmed" =>
                         challenger[id] = NoAccount /\ now > challenge_end[id]
                  /\ challenger[id] # challenger'[id] => now <= challenge_end[id]]_agentvars
    <2>1. CASE AgentCall
      BY <1>1, <2>1, ChallengeStep DEF DInv
    <2>2. CASE UNCHANGED attvars
      BY <2>2 DEF attvars, attestation
    <2>3. CASE UNCHANGED servicevars
      BY <2>3 DEF servicevars
    <2> QED BY <1>1, <2>1, <2>2, <2>3, StepKinds
  <1> QED BY <1>1, AlwaysDInv, PTL DEF ServicesSpec, ConfirmedUnchallenged

(* The settlement pallet implements the escrow of payments also where the   *)
(* other pallets reserve, slash and release on the same accounts: their     *)
(* calls are steps elsewhere, which leave what is held in place.            *)
THEOREM ServicesImplementEscrow == ServicesSpec => EscrowSpec
  <1>1. ServicesInit => E!Init
    BY InitRefines DEF ServicesInit, AgentInit
  <1>2. DInv /\ DInv' /\ [ServicesNext]_servicevars => [E!Next]_E!vars
    <2> SUFFICES ASSUME DInv, DInv', [ServicesNext]_servicevars PROVE [E!Next]_E!vars
      OBVIOUS
    <2>1. Covered
      BY AllCovered
    <2>2. Covered'
      <3>1. ASSUME NEW a \in Accounts PROVE Owed(a)' <= reserved'[a]
        <4>1. /\ Owed(a)' \in Nat /\ Deposits(a)' \in Nat /\ Charged(a)' \in Nat
          BY SharesTypeNext DEF DInv
        <4>2. reserved'[a] = Owed(a)' + Deposits(a)' + Charged(a)'
          BY DEF DInv, Shared
        <4> QED BY <4>1, <4>2
      <3> QED BY <3>1 DEF Covered
    <2>3. CASE Next
      BY <2>1, <2>2, <2>3, SettlementRefines DEF DInv
    <2>4. ASSUME payment' = payment, status' = status PROVE E!Next
      BY <2>2, <2>4, ElsewhereStep
    <2>5. CASE AgentCall
      BY <2>4, <2>5, AllCovered, AgentStep DEF DInv, AgentEffect
    <2>6. CASE UNCHANGED settlement
      BY <2>4, <2>6 DEF settlement
    <2>7. CASE UNCHANGED servicevars
      BY <2>4, <2>7 DEF servicevars, agentvars, settlement
    <2> QED BY <2>3, <2>5, <2>6, <2>7, StepKinds
  <1> QED BY <1>1, <1>2, InitDInv, NextDInv, PTL DEF ServicesSpec, EscrowSpec, E!Spec
=============================================================================
