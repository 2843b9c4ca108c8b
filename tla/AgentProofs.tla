---------------------------- MODULE AgentProofs ----------------------------
(***************************************************************************)
(* Proofs about the agent-attestation pallet and the x402-settlement       *)
(* pallet together, for any accounts, tasks, models, deposits and bounds.  *)
(* As in X402Proofs, the lemmas on single steps ask of a reserve only that *)
(* it covers what the two pallets have put there.                          *)
(***************************************************************************)
EXTENDS AgentAttestation, X402Proofs

Deposits(a) == AttestationDeposit * Cardinality(PendingOf(a))

(* Ids that are not handed out are unused, an attestation has an attester,  *)
(* and the index by model repeats the capability records.                   *)
AttFresh ==
    \A id \in AttestationIds :
        /\ id >= NextAttestationId => att_status[id] = "None"
        /\ att_status[id] # "None" => attester[id] \in Accounts

Indexed ==
    /\ \A model \in Models, a \in Accounts : <<model, a>> \in ModelProviders <=> model \in models[a]
    /\ \A a \in Accounts : models[a] # {} => a \in nodes

AInv == AgentTypeOK /\ AttFresh /\ Indexed

(* The reserve of every account covers its intents and its deposits. *)
BothCovered == \A a \in Accounts : Owed(a) + Deposits(a) <= reserved[a]

DepositsFollow == \A a \in Accounts : reserved'[a] + Deposits(a) = reserved[a] + Deposits(a)'

(* A leaf goes to the SMT solver, to Zenon and, with more time, to the     *)
(* SMT solver again, unless it says otherwise.                             *)
USE SMTT(30), ZenonT(30), SMTT(40)

(* There are finitely many attestations.                                    *)
LEMMA AttestationIdsFinite == IsFiniteSet(AttestationIds) /\ AttestationIds \subseteq Nat
  BY FS_Interval, AttestationParams DEF AttestationIds

(* The undecided attestations of an account can be counted.                 *)
LEMMA PendingFinite ==
    ASSUME NEW a
    PROVE  IsFiniteSet(PendingOf(a)) /\ Cardinality(PendingOf(a)) \in Nat
  <1>1. PendingOf(a) \subseteq AttestationIds
    BY DEF PendingOf
  <1> QED BY <1>1, AttestationIdsFinite, FS_Subset, FS_CardinalityType

(* Multiples of the deposit.                                                *)
LEMMA DepositTimes ==
    ASSUME NEW n \in Nat
    PROVE  /\ AttestationDeposit * n \in Nat
           /\ AttestationDeposit * (n + 1) = AttestationDeposit * n + AttestationDeposit
           /\ AttestationDeposit * 0 = 0
  BY AttestationParams

(* The deposits of an account are a natural number, and one of them is      *)
(* covered by all.                                                          *)
LEMMA DepositsType ==
    ASSUME NEW a
    PROVE  /\ Deposits(a) \in Nat
           /\ \A id \in PendingOf(a) : AttestationDeposit <= Deposits(a)
  <1>1. Deposits(a) \in Nat
    BY PendingFinite, DepositTimes DEF Deposits
  <1>2. ASSUME NEW id \in PendingOf(a) PROVE AttestationDeposit <= Deposits(a)
    <2>1. Cardinality(PendingOf(a) \ {id}) = Cardinality(PendingOf(a)) - 1
          /\ Cardinality(PendingOf(a) \ {id}) \in Nat
      BY PendingFinite, FS_RemoveElement, FS_CardinalityType
    <2>2. PICK n \in Nat : Cardinality(PendingOf(a)) = n + 1
      BY <2>1, PendingFinite
    <2> QED BY <2>2, DepositTimes, AttestationParams DEF Deposits
  <1> QED BY <1>1, <1>2

(* One more undecided attestation is one more deposit, for its attester     *)
(* alone.                                                                   *)
LEMMA DepositAdded ==
    ASSUME NEW a, NEW id, id \notin PendingOf(a), PendingOf(a)' = PendingOf(a) \cup {id}
    PROVE  Deposits(a)' = Deposits(a) + AttestationDeposit
  <1>1. Cardinality(PendingOf(a) \cup {id}) = Cardinality(PendingOf(a)) + 1
    BY PendingFinite, FS_AddElement
  <1> QED BY <1>1, PendingFinite, DepositTimes DEF Deposits

(* And one decided attestation one deposit less.                            *)
LEMMA DepositRemoved ==
    ASSUME NEW a, NEW id \in PendingOf(a), PendingOf(a)' = PendingOf(a) \ {id}
    PROVE  Deposits(a) = Deposits(a)' + AttestationDeposit
  <1>1. Cardinality(PendingOf(a) \ {id}) = Cardinality(PendingOf(a)) - 1
        /\ Cardinality(PendingOf(a) \ {id}) \in Nat
    BY PendingFinite, FS_RemoveElement, FS_CardinalityType
  <1>2. PICK n \in Nat : Cardinality(PendingOf(a)) = n + 1 /\ Cardinality(PendingOf(a)') = n
    BY <1>1, PendingFinite
  <1> QED BY <1>2, DepositTimes DEF Deposits

(* A share of the deposit is no more than the deposit.                      *)
LEMMA ShareOfDeposit ==
    PercentOf(SlashPercent, AttestationDeposit) \in 0..AttestationDeposit
  <1>1. ASSUME NEW p \in 0..100, NEW d \in Nat PROVE p * d \in Nat /\ p * d <= 100 * d
    BY <1>1
  <1>2. SlashPercent * AttestationDeposit \in Nat
        /\ SlashPercent * AttestationDeposit <= 100 * AttestationDeposit
    BY <1>1, AttestationParams
  <1>3. 2 * SlashPercent * AttestationDeposit = 2 * (SlashPercent * AttestationDeposit)
    BY AttestationParams
  <1>4. ASSUME NEW x \in Nat, NEW d \in Nat, x <= 100 * d
        PROVE  (2 * x + 99) \div 200 \in 0..d
    BY <1>4
  <1> QED BY <1>2, <1>3, <1>4, AttestationParams DEF PercentOf

(* A step of another pallet that only moves balances.                       *)
LEMMA SettlementKept ==
    ASSUME SInv, UNCHANGED <<now, settlement>>, free' \in [Accounts -> Nat], reserved' \in [Accounts -> Nat]
    PROVE  SInv'
  <1> USE DEF settlement
  <1>1. TypeOK'
    BY DEF SInv, TypeOK
  <1>2. Fresh' /\ Recorded' /\ NoReplay' /\ Listed'
    BY DEF SInv, Fresh, Recorded, NoReplay, Listed
  <1> QED BY <1>1, <1>2 DEF SInv

(* reserve moves from free to reserved and keeps both natural numbers.      *)
LEMMA ReserveType ==
    ASSUME TypeOK, NEW who \in Accounts, NEW n \in Nat, reserve(who, n)
    PROVE  /\ free' \in [Accounts -> Nat] /\ reserved' \in [Accounts -> Nat]
           /\ reserved'[who] = reserved[who] + n
           /\ \A a \in Accounts \ {who} : reserved'[a] = reserved[a]
  BY DEF TypeOK, reserve

(* Where no attestation is made or decided, the deposits stay the same.     *)
LEMMA DepositsUnchanged ==
    ASSUME att_status' = att_status, attester' = attester
    PROVE  \A a \in Accounts : Deposits(a)' = Deposits(a)
  BY DEF Deposits, PendingOf

(* submit_attestation and on_task_completed: a fresh id and a deposit.      *)
LEMMA InsertStep ==
    ASSUME AInv, SInv, NEW who \in Agents, NEW task \in Tasks,
           NextAttestationId \in AttestationIds, NextAttestationId' = NextAttestationId + 1,
           insert_attestation(who, task), completed' \subseteq Tasks,
           UNCHANGED <<now, settlement, node>>
    PROVE  AInv' /\ SInv' /\ DepositsFollow
  <1> USE DEF AInv
  <1>i. PICK id \in AttestationIds : id = NextAttestationId /\ id \in Nat /\ att_status[id] = "None"
    BY AttestationIdsFinite DEF AttFresh
  <1>w. who \in Accounts /\ AttestationDeposit \in Nat /\ ChallengeWindow \in Nat
    BY AttestationParams
  <1>r. /\ free' \in [Accounts -> Nat] /\ reserved' \in [Accounts -> Nat]
        /\ reserved'[who] = reserved[who] + AttestationDeposit
        /\ \A a \in Accounts \ {who} : reserved'[a] = reserved[a]
    BY <1>w, ReserveType DEF insert_attestation, SInv
  <1>s. /\ att_status' = [att_status EXCEPT ![id] = "Pending"]
        /\ attester' = [attester EXCEPT ![id] = who]
        /\ task_of' = [task_of EXCEPT ![id] = task]
        /\ challenge_end' = [challenge_end EXCEPT ![id] = now + ChallengeWindow]
        /\ challenger' = challenger
        /\ AttesterTaskCount' = [AttesterTaskCount EXCEPT ![who][task] = @ + 1]
    BY <1>i DEF insert_attestation
  <1>1. SInv'
    BY <1>r, SettlementKept
  <1>2. AgentTypeOK'
    <2> USE DEF AgentTypeOK
    <2>1. TypeOK'  BY <1>1 DEF SInv
    <2>2. NextAttestationId' \in 0..MaxAttestations
      BY <1>i, AttestationParams DEF AttestationIds
    <2>3. attester' \in [AttestationIds -> Accounts \cup {NoAccount}]  BY <1>s, <1>w
    <2>4. task_of' \in [AttestationIds -> Tasks]  BY <1>s
    <2>5. att_status' \in [AttestationIds -> AttestationStatuses]  BY <1>s DEF AttestationStatuses
    <2>6. challenge_end' \in [AttestationIds -> Nat]
      <3>1. now + ChallengeWindow \in Nat  BY <1>w DEF TypeOK
      <3> QED BY <1>s, <3>1
    <2>7. AttesterTaskCount' \in [Accounts -> [Tasks -> Nat]]
      <3>1. AttesterTaskCount[who] \in [Tasks -> Nat] /\ AttesterTaskCount[who][task] + 1 \in Nat
        BY <1>w
      <3> QED BY <1>s, <3>1, ZenonT(30)
    <2>8. challenger' \in [AttestationIds -> Accounts \cup {NoAccount}]  BY <1>s
    <2> QED BY <2>1, <2>2, <2>3, <2>4, <2>5, <2>6, <2>7, <2>8 DEF node
  <1>3. AttFresh'
    BY <1>i, <1>s, <1>w, AttestationIdsFinite DEF AttFresh, AgentTypeOK
  <1>4. Indexed'
    BY DEF Indexed, node
  <1>5. ASSUME NEW a \in Accounts PROVE reserved'[a] + Deposits(a) = reserved[a] + Deposits(a)'
    <2>1. Deposits(a) \in Nat /\ reserved[a] \in Nat
      BY DepositsType DEF SInv, TypeOK
    <2>2. CASE a = who
      <3>1. id \notin PendingOf(a) /\ PendingOf(a)' = PendingOf(a) \cup {id}
        BY <1>i, <1>s, <2>2 DEF PendingOf, AgentTypeOK
      <3>2. Deposits(a)' = Deposits(a) + AttestationDeposit
        BY <3>1, DepositAdded
      <3> QED BY <1>r, <1>w, <2>1, <2>2, <3>2
    <2>3. CASE a # who
      <3>1. PendingOf(a)' = PendingOf(a)
        BY <1>i, <1>s, <2>3 DEF PendingOf, AgentTypeOK
      <3> QED BY <1>r, <2>3, <3>1 DEF Deposits
    <2> QED BY <2>2, <2>3
  <1> QED BY <1>1, <1>2, <1>3, <1>4, <1>5 DEF DepositsFollow

(* An undecided attestation is decided and its deposit leaves the reserve.  *)
LEMMA DecideStep ==
    ASSUME AInv, SInv, NEW id \in AttestationIds, att_status[id] = "Pending",
           NEW s \in AttestationStatuses \ {"None", "Pending"},
           att_status' = [att_status EXCEPT ![id] = s],
           reserved' = [reserved EXCEPT ![attester[id]] = @ - AttestationDeposit],
           reserved' \in [Accounts -> Nat], TypeOK',
           UNCHANGED <<now, node, NextAttestationId, attester, task_of,
                       challenge_end, challenger, AttesterTaskCount, completed>>
    PROVE  AInv' /\ DepositsFollow
  <1> USE DEF AInv
  <1>w. attester[id] \in Accounts /\ AttestationDeposit \in Nat
    BY AttestationParams DEF AttFresh
  <1>1. AgentTypeOK'
    BY DEF AgentTypeOK, node
  <1>2. AttFresh'
    BY DEF AttFresh, AgentTypeOK
  <1>3. Indexed'
    BY DEF Indexed, node
  <1>4. ASSUME NEW a \in Accounts PROVE reserved'[a] + Deposits(a) = reserved[a] + Deposits(a)'
    <2>1. Deposits(a) \in Nat /\ reserved[a] \in Nat
      BY DepositsType DEF SInv, TypeOK
    <2>2. CASE a = attester[id]
      <3>1. id \in PendingOf(a) /\ PendingOf(a)' = PendingOf(a) \ {id}
        BY <2>2 DEF PendingOf, AgentTypeOK
      <3>2. Deposits(a) = Deposits(a)' + AttestationDeposit
        BY <3>1, DepositRemoved
      <3>3. reserved'[a] = reserved[a] - AttestationDeposit
        BY <2>2 DEF SInv, TypeOK
      <3>4. Deposits(a)' \in Nat
        <4>1. Cardinality(PendingOf(a)') \in Nat
          BY <3>1, PendingFinite, FS_RemoveElement, FS_CardinalityType
        <4> QED BY <4>1, DepositTimes DEF Deposits
      <3> QED BY <1>w, <2>1, <3>2, <3>3, <3>4
    <2>3. CASE a # attester[id]
      <3>1. PendingOf(a)' = PendingOf(a)
        BY <2>3 DEF PendingOf, AgentTypeOK
      <3>2. reserved'[a] = reserved[a]
        BY <2>3, <1>w DEF SInv, TypeOK
      <3> QED BY <3>1, <3>2 DEF Deposits
    <2> QED BY <2>2, <2>3
  <1> QED BY <1>1, <1>2, <1>3, <1>4 DEF DepositsFollow

(* The deposit of an undecided attestation is in the reserve of its         *)
(* attester.                                                                *)
LEMMA DepositThere ==
    ASSUME AInv, SInv, BothCovered, NEW id \in AttestationIds, att_status[id] = "Pending"
    PROVE  attester[id] \in Accounts /\ AttestationDeposit <= reserved[attester[id]]
  <1>1. attester[id] \in Accounts
    BY DEF AInv, AttFresh
  <1>2. id \in PendingOf(attester[id])
    BY DEF PendingOf
  <1>3. PICK a \in Accounts : a = attester[id]
    BY <1>1
  <1>4. Owed(a) \in Nat /\ Deposits(a) \in Nat /\ AttestationDeposit <= Deposits(a) /\ reserved[a] \in Nat
    BY <1>2, <1>3, OwedType, DepositsType DEF SInv, TypeOK
  <1> QED BY <1>3, <1>4, AttestationParams DEF BothCovered

(* confirm_attestation: the deposit goes back, and the settlement to        *)
(* oneself takes an id and leaves a receipt.                                *)
LEMMA ConfirmStep ==
    ASSUME AInv, SInv, BothCovered, NEW id \in AttestationIds, confirm_attestation(id)
    PROVE  /\ AInv' /\ SInv' /\ DepositsFollow
           /\ payment' = payment /\ status' = status
           /\ receipts' = receipts \cup {NextIntentId} /\ NextIntentId \in IntentIds
  <1>1. att_status[id] = "Pending"
    BY DEF confirm_attestation, confirmable
  <1>2. attester[id] \in Accounts /\ AttestationDeposit <= reserved[attester[id]]
        /\ AttestationDeposit \in Nat
    BY <1>1, DepositThere, AttestationParams
  <1>3. /\ reserved' = [reserved EXCEPT ![attester[id]] = @ - AttestationDeposit]
        /\ free' = [free EXCEPT ![attester[id]] = @ + AttestationDeposit]
        /\ NextIntentId \in IntentIds /\ NextIntentId' = NextIntentId + 1
        /\ receipts' = receipts \cup {NextIntentId}
    BY <1>2 DEF confirm_attestation, settle_for_attestation, take_id, Available
  <1>4. reserved' \in [Accounts -> Nat] /\ free' \in [Accounts -> Nat]
    BY <1>2, <1>3 DEF SInv, TypeOK
  <1>5. UNCHANGED <<now, payment, status, verified_at, expires_at, PendingIntentIds,
                    NonceUsed, FingerprintUsed, expiring>>
    BY DEF confirm_attestation
  <1>6. SInv'
    <2>1. TypeOK'
      <3>1. NextIntentId' \in 0..MaxIds
        BY <1>3, SettlementParams DEF IntentIds
      <3> QED BY <1>3, <1>4, <1>5, <3>1 DEF SInv, TypeOK
    <2>2. Fresh'
      BY <1>3, <1>5, IntentIdsFinite DEF SInv, Fresh
    <2>3. Recorded' /\ NoReplay' /\ Listed'
      BY <1>5 DEF SInv, Recorded, NoReplay, Listed
    <2> QED BY <2>1, <2>2, <2>3 DEF SInv
  <1>7. AInv' /\ DepositsFollow
    <2>1. att_status' = [att_status EXCEPT ![id] = "Confirmed"]
      BY DEF confirm_attestation
    <2>2. UNCHANGED <<now, node, NextAttestationId, attester, task_of,
                      challenge_end, challenger, AttesterTaskCount, completed>>
      BY DEF confirm_attestation
    <2>3. "Confirmed" \in AttestationStatuses \ {"None", "Pending"}
      BY DEF AttestationStatuses
    <2>4. TypeOK'
      BY <1>6 DEF SInv
    <2> QED BY <1>1, <1>3, <1>4, <2>1, <2>2, <2>3, <2>4, DecideStep, ZenonT(30)
  <1> QED BY <1>3, <1>5, <1>6, <1>7

(* resolve_challenge: a part of the deposit is slashed and the rest goes    *)
(* back, together the deposit.                                              *)
LEMMA ResolveStep ==
    ASSUME AInv, SInv, BothCovered, NEW id \in AttestationIds, NEW guilty \in BOOLEAN,
           resolve_challenge(id, guilty)
    PROVE  AInv' /\ SInv' /\ DepositsFollow
  <1>1. att_status[id] = "Pending"
    BY DEF resolve_challenge
  <1>2. attester[id] \in Accounts /\ AttestationDeposit <= reserved[attester[id]]
        /\ AttestationDeposit \in Nat /\ reserved[attester[id]] \in Nat
    BY <1>1, DepositThere, AttestationParams DEF SInv, TypeOK
  <1>3. PICK slashed \in 0..AttestationDeposit :
            slashed = IF guilty THEN PercentOf(SlashPercent, AttestationDeposit) ELSE 0
    BY ShareOfDeposit, <1>2
  <1>4. resolve_deposit(id, guilty)
    BY DEF resolve_challenge
  <1>5. Available(attester[id], slashed) = slashed
    BY <1>2, <1>3 DEF Available
  <1>6. AttestationDeposit - slashed <= reserved[attester[id]] - slashed
    BY <1>2, <1>3
  <1>7. /\ reserved' = [reserved EXCEPT ![attester[id]] = @ - slashed - (AttestationDeposit - slashed)]
        /\ free' = [free EXCEPT ![attester[id]] = @ + (AttestationDeposit - slashed)]
    BY <1>3, <1>4, <1>5, <1>6, ZenonT(30) DEF resolve_deposit
  <1>8. reserved[attester[id]] - slashed - (AttestationDeposit - slashed)
           = reserved[attester[id]] - AttestationDeposit
    BY <1>2, <1>3
  <1>9. reserved' = [reserved EXCEPT ![attester[id]] = @ - AttestationDeposit]
    BY <1>7, <1>8, ZenonT(30)
  <1>10. reserved' \in [Accounts -> Nat] /\ free' \in [Accounts -> Nat]
    <2>1. reserved[attester[id]] - AttestationDeposit \in Nat /\ AttestationDeposit - slashed \in Nat
      BY <1>2, <1>3
    <2> QED BY <1>2, <1>7, <1>9, <2>1 DEF SInv, TypeOK
  <1>11. SInv'
    BY <1>10, SettlementKept DEF resolve_challenge
  <1>12. AInv' /\ DepositsFollow
    <2>1. PICK s \in AttestationStatuses \ {"None", "Pending"} :
              att_status' = [att_status EXCEPT ![id] = s]
      BY ZenonT(30) DEF resolve_challenge, AttestationStatuses
    <2>2. UNCHANGED <<now, node, NextAttestationId, attester, task_of,
                      challenge_end, challenger, AttesterTaskCount, completed>>
      BY DEF resolve_challenge
    <2>3. TypeOK'
      BY <1>11 DEF SInv
    <2> QED BY <1>1, <1>9, <1>10, <2>1, <2>2, <2>3, DecideStep, ZenonT(30)
  <1> QED BY <1>11, <1>12

(* What a call to the attestation pallet does, as the proofs of the whole   *)
(* need it.                                                                 *)
AgentEffect ==
    /\ AInv' /\ SInv' /\ DepositsFollow
    /\ payment' = payment /\ status' = status

(* The calls that move no balance: register_node, heartbeat,                *)
(* challenge_attestation and update_capability.                             *)
LEMMA QuietStep ==
    ASSUME AInv, SInv, NEW who \in Agents,
           \/ register_node(who)
           \/ heartbeat(who)
           \/ \E id \in AttestationIds : challenge_attestation(who, id)
           \/ \E new \in SUBSET Models : update_capability(who, new)
    PROVE  AgentEffect /\ receipts' = receipts /\ att_status' = att_status
  <1>w. who \in Accounts
    BY AttestationParams
  <1>1. UNCHANGED <<now, settlement, balances, NextAttestationId, attester, task_of, att_status,
                    challenge_end, AttesterTaskCount, completed>>
    BY DEF register_node, heartbeat, challenge_attestation, update_capability, attestation
  <1>2. SInv'
    BY <1>1, SettlementKept DEF balances, SInv, TypeOK
  <1>3. DepositsFollow
    BY <1>1, DepositsUnchanged DEF DepositsFollow, balances
  <1>4. AttFresh'
    BY <1>1 DEF AInv, AttFresh
  <1>5. TypeOK'
    BY <1>2 DEF SInv
  <1>6. AgentTypeOK' /\ Indexed'
    <2> USE DEF AInv, AgentTypeOK
    <2>1. CASE register_node(who)
      BY <1>1, <1>5, <1>w, <2>1 DEF register_node, Indexed, TypeOK, attestation
    <2>2. CASE heartbeat(who)
      BY <1>1, <1>5, <1>w, <2>2 DEF heartbeat, Indexed, TypeOK, attestation
    <2>3. ASSUME NEW id \in AttestationIds, challenge_attestation(who, id) PROVE AgentTypeOK' /\ Indexed'
      BY <1>1, <1>5, <1>w, <2>3 DEF challenge_attestation, Indexed, node
    <2>4. ASSUME NEW new \in SUBSET Models, update_capability(who, new) PROVE AgentTypeOK' /\ Indexed'
      <3> USE <1>w, <2>4 DEF update_capability
      <3>1. models' = [models EXCEPT ![who] = new] /\ models' \in [Accounts -> SUBSET Models]
        OBVIOUS
      <3>2. ModelProviders' = (ModelProviders \ (models[who] \X {who})) \cup (new \X {who})
        BY DEF reindex
      <3>3. ModelProviders' \subseteq Models \X Accounts
        BY <3>2
      <3>4. AgentTypeOK'
        BY <1>1, <1>5, <3>1, <3>3 DEF attestation
      <3>5. ASSUME NEW model \in Models, NEW a \in Accounts
            PROVE  <<model, a>> \in ModelProviders' <=> model \in models'[a]
        <4>1. <<model, a>> \in ModelProviders <=> model \in models[a]
          BY DEF Indexed
        <4>2. CASE a = who
          BY <3>1, <3>2, <4>1, <4>2
        <4>3. CASE a # who
          BY <3>1, <3>2, <4>1, <4>3
        <4> QED BY <4>2, <4>3
      <3>6. \A a \in Accounts : models'[a] # {} => a \in nodes'
        BY <3>1 DEF Indexed
      <3> QED BY <3>4, <3>5, <3>6 DEF Indexed
    <2> QED BY <2>1, <2>2, <2>3, <2>4
  <1> QED BY <1>1, <1>2, <1>3, <1>4, <1>6 DEF AInv, AgentEffect, settlement

(* Receipts without an intent, and confirmed attestations. *)
BareReceipts == {id \in receipts : status[id] = "None"}
Confirmed == {id \in AttestationIds : att_status[id] = "Confirmed"}

(* Every call to the attestation pallet, in a state where the reserves      *)
(* cover what both pallets have put there; only a confirmation writes a     *)
(* receipt.                                                                 *)
LEMMA AgentStep ==
    ASSUME AInv, SInv, BothCovered, AgentCall
    PROVE  /\ AgentEffect
           /\ \/ BareReceipts' = BareReceipts /\ Confirmed' = Confirmed
              \/ \E r, c : /\ r \notin BareReceipts /\ BareReceipts' = BareReceipts \cup {r}
                           /\ c \notin Confirmed /\ Confirmed' = Confirmed \cup {c}
  <1> DEFINE Counted ==
        \/ BareReceipts' = BareReceipts /\ Confirmed' = Confirmed
        \/ \E r, c : /\ r \notin BareReceipts /\ BareReceipts' = BareReceipts \cup {r}
                     /\ c \notin Confirmed /\ Confirmed' = Confirmed \cup {c}
  <1>1. ASSUME NEW who \in Agents,
               \/ register_node(who)
               \/ heartbeat(who)
               \/ \E id \in AttestationIds : challenge_attestation(who, id)
               \/ \E new \in SUBSET Models : update_capability(who, new)
        PROVE  AgentEffect /\ Counted
    BY <1>1, QuietStep DEF AgentEffect, BareReceipts, Confirmed
  <1>2. ASSUME NEW who \in Agents, NEW task \in Tasks, insert_attestation(who, task),
               NextAttestationId \in AttestationIds, NextAttestationId' = NextAttestationId + 1,
               completed' \subseteq Tasks, UNCHANGED <<now, settlement, node>>
        PROVE  AgentEffect /\ Counted
    <2>1. AgentEffect
      BY <1>2, InsertStep DEF AgentEffect, settlement
    <2>2. BareReceipts' = BareReceipts
      BY <1>2 DEF BareReceipts, settlement
    <2>3. Confirmed' = Confirmed
      BY <1>2 DEF Confirmed, insert_attestation, AInv, AgentTypeOK, AttFresh
    <2> QED BY <2>1, <2>2, <2>3
  <1>3. ASSUME NEW who \in Agents, NEW task \in Tasks, submit_attestation(who, task)
        PROVE  AgentEffect /\ Counted
    BY <1>2, <1>3 DEF submit_attestation, AInv, AgentTypeOK
  <1>4. ASSUME NEW who \in Agents, NEW task \in Tasks, on_task_completed(who, task)
        PROVE  AgentEffect /\ Counted
    <2> USE <1>4 DEF on_task_completed
    <2>1. completed' \subseteq Tasks
      BY DEF AInv, AgentTypeOK
    <2>2. CASE insert_attestation(who, task)
      BY <1>2, <2>1, <2>2
    <2>3. CASE UNCHANGED <<balances, attestation, AttesterTaskCount>>
      <3>1. SInv'
        BY <2>3, SettlementKept DEF balances, SInv, TypeOK
      <3>2. DepositsFollow
        BY <2>3, DepositsUnchanged DEF DepositsFollow, balances, attestation
      <3>3. NextAttestationId' \in 0..MaxAttestations
        BY AttestationParams DEF AttestationIds
      <3>4. AgentTypeOK'
        BY <2>1, <2>3, <3>1, <3>3 DEF AInv, AgentTypeOK, SInv, node, attestation
      <3>5. AttFresh' /\ Indexed'
        <4>1. \A id \in AttestationIds : id >= NextAttestationId + 1 => id >= NextAttestationId
          BY AttestationIdsFinite
        <4>2. AttFresh'
          BY <2>3, <4>1 DEF AInv, AttFresh, attestation
        <4>3. Indexed'
          BY ZenonT(30) DEF AInv, Indexed, node
        <4> QED BY <4>2, <4>3
      <3>6. BareReceipts' = BareReceipts /\ Confirmed' = Confirmed
        BY <2>3 DEF BareReceipts, Confirmed, settlement, attestation
      <3> QED BY <3>1, <3>2, <3>4, <3>5, <3>6 DEF AInv, AgentEffect, settlement
    <2> QED BY <2>2, <2>3
  <1>5. ASSUME NEW id \in AttestationIds, confirm_attestation(id)
        PROVE  AgentEffect /\ Counted
    <2>1. AgentEffect
      BY <1>5, ConfirmStep DEF AgentEffect
    <2>2. BareReceipts' = BareReceipts \cup {NextIntentId} /\ NextIntentId \notin BareReceipts
      BY <1>5, ConfirmStep DEF BareReceipts, SInv, Fresh, TypeOK
    <2>3. Confirmed' = Confirmed \cup {id} /\ id \notin Confirmed
      BY <1>5 DEF Confirmed, confirm_attestation, confirmable, AInv, AgentTypeOK
    <2> QED BY <2>1, <2>2, <2>3
  <1>6. ASSUME NEW id \in AttestationIds, NEW guilty \in BOOLEAN, resolve_challenge(id, guilty)
        PROVE  AgentEffect /\ Counted
    <2>1. AgentEffect
      BY <1>6, ResolveStep, ZenonT(30) DEF AgentEffect, resolve_challenge, settlement
    <2>2. BareReceipts' = BareReceipts
      BY <1>6, ZenonT(30) DEF BareReceipts, resolve_challenge, settlement
    <2>3. Confirmed' = Confirmed
      BY <1>6 DEF Confirmed, resolve_challenge, AInv, AgentTypeOK
    <2> QED BY <2>1, <2>2, <2>3
  <1> QED BY <1>1, <1>3, <1>4, <1>5, <1>6 DEF AgentCall

(* The settlement pallet writes receipts only for its own intents.          *)
LEMMA BareReceiptsKept ==
    ASSUME SInv, Next
    PROVE  BareReceipts' = BareReceipts
  <1> USE DEF SInv, TypeOK, BareReceipts
  <1>1. ASSUME NEW p \in Payments, submit_payment_intent(p) PROVE BareReceipts' = BareReceipts
    BY <1>1 DEF submit_payment_intent, Fresh
  <1>2. ASSUME NEW id \in IntentIds, verify_settlement(id) PROVE BareReceipts' = BareReceipts
    BY <1>2 DEF verify_settlement
  <1>3. ASSUME NEW id \in IntentIds, finalize_settlement(id) PROVE BareReceipts' = BareReceipts
    BY <1>3 DEF finalize_settlement
  <1>4. ASSUME NEW id \in IntentIds, fail_payment_intent(id) PROVE BareReceipts' = BareReceipts
    BY <1>4 DEF fail_payment_intent, can_fail, Open
  <1>5. ASSUME next_block PROVE BareReceipts' = BareReceipts
    BY <1>5 DEF next_block, intent
  <1>6. ASSUME NEW id \in IntentIds, on_initialize(id) PROVE BareReceipts' = BareReceipts
    BY <1>6 DEF on_initialize, Listed
  <1> QED BY <1>1, <1>2, <1>3, <1>4, <1>5, <1>6 DEF Next, SettlementCall

(* As many receipts without an intent as confirmations, from a step that    *)
(* adds none or one of each.                                                *)
LEMMA ReceiptsCounted ==
    ASSUME SInv, ReceiptPerConfirmation,
           \/ BareReceipts' = BareReceipts /\ Confirmed' = Confirmed
           \/ \E r, c : /\ r \notin BareReceipts /\ BareReceipts' = BareReceipts \cup {r}
                        /\ c \notin Confirmed /\ Confirmed' = Confirmed \cup {c}
    PROVE  ReceiptPerConfirmation'
  <1>1. IsFiniteSet(BareReceipts) /\ IsFiniteSet(Confirmed)
    <2>1. BareReceipts \subseteq IntentIds /\ Confirmed \subseteq AttestationIds
      BY DEF BareReceipts, Confirmed, SInv, TypeOK
    <2> QED BY <2>1, IntentIdsFinite, AttestationIdsFinite, FS_Subset, ZenonT(30)
  <1>2. Cardinality(BareReceipts) = Cardinality(Confirmed)
    BY DEF ReceiptPerConfirmation, BareReceipts, Confirmed
  <1>3. Cardinality(BareReceipts') = Cardinality(Confirmed')
    <2>1. CASE BareReceipts' = BareReceipts /\ Confirmed' = Confirmed
      BY <1>2, <2>1
    <2>2. ASSUME NEW r, NEW c, r \notin BareReceipts, BareReceipts' = BareReceipts \cup {r},
                 c \notin Confirmed, Confirmed' = Confirmed \cup {c}
          PROVE  Cardinality(BareReceipts') = Cardinality(Confirmed')
      <3>1. Cardinality(BareReceipts \cup {r}) = Cardinality(BareReceipts) + 1
        BY <1>1, <2>2, FS_AddElement, ZenonT(30)
      <3>2. Cardinality(Confirmed \cup {c}) = Cardinality(Confirmed) + 1
        BY <1>1, <2>2, FS_AddElement, ZenonT(30)
      <3> QED BY <1>2, <2>2, <3>1, <3>2
    <2> QED BY <2>1, <2>2
  <1> QED BY <1>3 DEF ReceiptPerConfirmation, BareReceipts, Confirmed

(* The inductive invariant of the two pallets. *)
NInv == AInv /\ SInv /\ DepositsAndIntents /\ ReceiptPerConfirmation

(* Genesis: no attestation, nothing in reserve.                             *)
LEMMA InitAInv ==
    ASSUME AgentInit
    PROVE  /\ AInv /\ SInv /\ ReceiptPerConfirmation
           /\ \A a \in Accounts : Owed(a) = 0 /\ Deposits(a) = 0 /\ reserved[a] = 0
  <1>1. SInv /\ \A a \in Accounts : Owed(a) = 0 /\ reserved[a] = 0
    BY InitSInv DEF AgentInit, Init
  <1>2. AgentTypeOK
    <2>1. TypeOK
      BY <1>1 DEF SInv
    <2>2. task_of \in [AttestationIds -> Tasks]
      BY AttestationParams DEF AgentInit
    <2> QED BY <2>1, <2>2, AttestationParams, ReserveParams DEF AgentInit, AgentTypeOK, AttestationStatuses
  <1>3. AttFresh /\ Indexed
    BY DEF AgentInit, AttFresh, Indexed
  <1>4. \A a \in Accounts : Deposits(a) = 0
    <2>1. \A a \in Accounts : PendingOf(a) = {}
      BY DEF AgentInit, PendingOf
    <2> QED BY <2>1, FS_EmptySet, DepositTimes, ZenonT(30) DEF Deposits
  <1>5. ReceiptPerConfirmation
    <2>1. {id \in receipts : status[id] = "None"} = {}
      BY DEF AgentInit, Init
    <2>2. {id \in AttestationIds : att_status[id] = "Confirmed"} = {}
      BY DEF AgentInit
    <2> QED BY <2>1, <2>2 DEF ReceiptPerConfirmation
  <1> QED BY <1>1, <1>2, <1>3, <1>4, <1>5 DEF AInv

(* Genesis satisfies the invariant.                                         *)
LEMMA InitNInv == AgentInit => NInv
  BY InitAInv DEF NInv, DepositsAndIntents, Deposits

(* The attestation pallet is left alone by a step of the settlement pallet. *)
LEMMA AttestationKept ==
    ASSUME AInv, TypeOK', UNCHANGED attvars
    PROVE  AInv' /\ Confirmed' = Confirmed /\ \A a \in Accounts : Deposits(a)' = Deposits(a)
  <1> USE DEF attvars, node, attestation
  <1>1. AgentTypeOK' /\ AttFresh' /\ Indexed'
    BY DEF AInv, AgentTypeOK, AttFresh, Indexed
  <1> QED BY <1>1, DepositsUnchanged DEF AInv, Confirmed

(* Every step of the two pallets preserves the invariant.                   *)
LEMMA NextNInv == NInv /\ [AgentNext]_agentvars => NInv'
  <1> SUFFICES ASSUME NInv, [AgentNext]_agentvars PROVE NInv'
    OBVIOUS
  <1>t. \A a \in Accounts : Owed(a) \in Nat /\ Deposits(a) \in Nat /\ reserved[a] \in Nat
                             /\ reserved[a] = Owed(a) + Deposits(a)
    BY OwedType, DepositsType DEF NInv, SInv, TypeOK, DepositsAndIntents, Deposits
  <1>c. BothCovered /\ Covered
    BY <1>t DEF BothCovered, Covered
  <1>n. ASSUME SInv', NEW a \in Accounts
        PROVE  Owed(a)' \in Nat /\ Deposits(a)' \in Nat /\ reserved'[a] \in Nat
    <2>1. Owed(a)' \in Nat /\ reserved'[a] \in Nat
      BY <1>n, OwedTypeNext DEF SInv, TypeOK
    <2>2. PendingOf(a)' \subseteq AttestationIds
      BY DEF PendingOf
    <2>3. Cardinality(PendingOf(a)') \in Nat
      BY <2>2, AttestationIdsFinite, FS_Subset, FS_CardinalityType
    <2> QED BY <2>1, <2>3, DepositTimes DEF Deposits
  <1>1. CASE Next /\ UNCHANGED attvars
    <2>1. SInv' /\ ReserveFollows
      BY <1>1, <1>c, SettlementStep DEF NInv
    <2>2. AInv' /\ Confirmed' = Confirmed /\ \A a \in Accounts : Deposits(a)' = Deposits(a)
      BY <1>1, <2>1, AttestationKept DEF NInv, SInv
    <2>3. \A a \in Accounts : reserved'[a] = Owed(a)' + Deposits(a)'
      BY <1>t, <1>n, <2>1, <2>2 DEF ReserveFollows
    <2>4. ReceiptPerConfirmation'
      BY <1>1, <2>2, BareReceiptsKept, ReceiptsCounted DEF NInv
    <2> QED BY <2>1, <2>2, <2>3, <2>4 DEF NInv, DepositsAndIntents, Deposits
  <1>2. CASE AgentCall
    <2>1. AgentEffect
      BY <1>2, <1>c, AgentStep DEF NInv
    <2>2. ReceiptPerConfirmation'
      BY <1>2, <1>c, AgentStep, ReceiptsCounted DEF NInv
    <2>3. \A a \in Accounts : Owed(a)' = Owed(a)
      BY <2>1, OwedUnchanged DEF AgentEffect
    <2>4. \A a \in Accounts : reserved'[a] = Owed(a)' + Deposits(a)'
      BY <1>t, <1>n, <2>1, <2>3 DEF AgentEffect, DepositsFollow
    <2> QED BY <2>1, <2>2, <2>4 DEF NInv, DepositsAndIntents, Deposits, AgentEffect
  <1>3. CASE UNCHANGED agentvars
    <2>1. UNCHANGED <<now, settlement, balances, attvars>>
      BY <1>3 DEF agentvars
    <2>2. SInv'
      BY <2>1, SettlementKept DEF NInv, SInv, TypeOK, balances
    <2>3. AInv' /\ Confirmed' = Confirmed /\ \A a \in Accounts : Deposits(a)' = Deposits(a)
      BY <2>1, <2>2, AttestationKept DEF NInv, SInv
    <2>4. \A a \in Accounts : Owed(a)' = Owed(a)
      BY <2>1, OwedUnchanged DEF settlement
    <2>5. BareReceipts' = BareReceipts
      BY <2>1 DEF BareReceipts, settlement
    <2>6. ReceiptPerConfirmation'
      BY <2>3, <2>5, ReceiptsCounted DEF NInv
    <2>7. \A a \in Accounts : reserved'[a] = Owed(a)' + Deposits(a)'
      BY <1>t, <2>1, <2>3, <2>4 DEF balances
    <2> QED BY <2>2, <2>3, <2>6, <2>7 DEF NInv, DepositsAndIntents, Deposits
  <1> QED BY <1>1, <1>2, <1>3 DEF AgentNext

(* The reserve an account has with the two pallets is its open intents and  *)
(* the deposits of its undecided attestations, to the unit.                 *)
THEOREM ReserveOfBothPallets == AgentSpec => []DepositsAndIntents
  <1>1. NInv => DepositsAndIntents  BY DEF NInv
  <1> QED BY <1>1, InitNInv, NextNInv, PTL DEF AgentSpec

(* get_providers_for_model returns exactly the accounts whose capability    *)
(* record lists the model, after any number of updates.                     *)
THEOREM IndexMatchesRecords == AgentSpec => []ProvidersMatchCapabilities
  <1>1. NInv => ProvidersMatchCapabilities
    BY DEF NInv, AInv, AgentTypeOK, Indexed, ProvidersMatchCapabilities, get_providers_for_model
  <1> QED BY <1>1, InitNInv, NextNInv, PTL DEF AgentSpec

(* Every confirmation leaves one receipt, under an id no intent has.        *)
THEOREM ReceiptsMatchConfirmations == AgentSpec => []ReceiptPerConfirmation
  <1>1. NInv => ReceiptPerConfirmation  BY DEF NInv
  <1> QED BY <1>1, InitNInv, NextNInv, PTL DEF AgentSpec

(* Only confirm_attestation confirms, and only challenge_attestation sets   *)
(* the challenger.                                                          *)
LEMMA ChallengeStep ==
    ASSUME AInv, AgentCall, NEW id \in AttestationIds
    PROVE  /\ att_status[id] # "Confirmed" /\ att_status'[id] = "Confirmed" =>
                  challenger[id] = NoAccount /\ now > challenge_end[id]
           /\ challenger[id] # challenger'[id] => now <= challenge_end[id]
  <1> USE DEF AInv, AgentTypeOK
  <1> DEFINE Body ==
        /\ att_status[id] # "Confirmed" /\ att_status'[id] = "Confirmed" =>
              challenger[id] = NoAccount /\ now > challenge_end[id]
        /\ challenger[id] # challenger'[id] => now <= challenge_end[id]
  <1>1. ASSUME NEW who, register_node(who) PROVE Body
    BY <1>1 DEF register_node, attestation
  <1>2. ASSUME NEW who, heartbeat(who) PROVE Body
    BY <1>2 DEF heartbeat, attestation
  <1>3. ASSUME NEW who, NEW task, insert_attestation(who, task) PROVE Body
    BY <1>3 DEF insert_attestation
  <1>4. ASSUME NEW who, NEW task, submit_attestation(who, task) PROVE Body
    BY <1>3, <1>4 DEF submit_attestation
  <1>5. ASSUME NEW who, NEW task, on_task_completed(who, task) PROVE Body
    BY <1>3, <1>5 DEF on_task_completed, attestation
  <1>6. ASSUME NEW who, NEW k \in AttestationIds, challenge_attestation(who, k) PROVE Body
    BY <1>6 DEF challenge_attestation, challengeable
  <1>7. ASSUME NEW who, NEW new, update_capability(who, new) PROVE Body
    BY <1>7 DEF update_capability, attestation
  <1>8. ASSUME NEW k \in AttestationIds, confirm_attestation(k) PROVE Body
    BY <1>8 DEF confirm_attestation, confirmable, window_over
  <1>9. ASSUME NEW k \in AttestationIds, NEW guilty \in BOOLEAN, resolve_challenge(k, guilty) PROVE Body
    BY <1>9 DEF resolve_challenge
  <1> QED BY <1>1, <1>2, <1>4, <1>5, <1>6, <1>7, <1>8, <1>9, ZenonT(30) DEF AgentCall

(* An attestation is confirmed only after its whole challenge window has    *)
(* passed without a challenge, and challenged only within the window.       *)
THEOREM ConfirmationsUnchallenged == AgentSpec => ConfirmedUnchallenged
  <1>1. ASSUME NInv, [AgentNext]_agentvars
        PROVE  [\A id \in AttestationIds :
                  /\ att_status[id] # "Confirmed" /\ att_status'[id] = "Confirmed" =>
                         challenger[id] = NoAccount /\ now > challenge_end[id]
                  /\ challenger[id] # challenger'[id] => now <= challenge_end[id]]_agentvars
    <2>1. CASE AgentCall
      BY <1>1, <2>1, ChallengeStep, ZenonT(30) DEF NInv
    <2>2. CASE UNCHANGED attvars
      BY <2>2 DEF attvars, attestation
    <2>3. CASE UNCHANGED agentvars
      BY <2>3
    <2> QED BY <1>1, <2>1, <2>2, <2>3 DEF AgentNext
  <1> QED BY <1>1, InitNInv, NextNInv, PTL DEF AgentSpec, ConfirmedUnchallenged
=============================================================================
