------------------------------ MODULE ZkProofs ------------------------------
(***************************************************************************)
(* Proofs about the zk-compute pallet, for any miners, proofs, deposits,   *)
(* scores and bounds.  Both verifiers decide a task in the same way        *)
(* (decide), so most of the argument is made once for the two of them; the *)
(* verdicts that wait in the transaction pool enter it only through        *)
(* WorkerHonest.                                                           *)
(***************************************************************************)
EXTENDS ZkCompute, SumTheorems

(* An id that is not handed out has no task, a task has a proof of a miner, *)
(* only a verified one is ever claimed, and only a failed one has a deposit *)
(* that could not be moved.                                                 *)
TasksKnown ==
    \A id \in TaskIds :
        /\ id >= NextTaskId => zk_status[id] = "None"
        /\ zk_status[id] # "None" => proof[id] \in Proofs
        /\ reward_claimed[id] => zk_status[id] = "Verified"
        /\ id \in unslashed => zk_status[id] = "Failed"

(* A verdict in the pool is that of the verifier on a task that exists.     *)
WorkerHonest ==
    \A id \in TaskIds, v \in BOOLEAN :
        <<id, v>> \in unsigned => zk_status[id] # "None" /\ v = proof[id].valid

ZInv ==
    /\ TypeOK
    /\ TasksKnown
    /\ PendingExact
    /\ DepositHeld
    /\ PotAccounted
    /\ VerdictSound
    /\ WorkerHonest

-----------------------------------------------------------------------------
(* A leaf goes to the SMT solver, to Zenon and, with more time, to the     *)
(* SMT solver again, unless it says otherwise.                             *)
USE SMTT(30), ZenonT(30), SMTT(40)

(* The parameters of the pallet are natural numbers.                        *)
LEMMA Numbers ==
    /\ Endowment \in Nat /\ PotEndowment \in Nat /\ MaxTasks \in Nat /\ MaxBlock \in Nat
    /\ InitialMinerScore \in 0..MaxMinerScore
<1>1. /\ Endowment \in Nat /\ PotEndowment \in Nat /\ MaxTasks \in Nat /\ MaxBlock \in Nat
      /\ InitialMinerScore \in Nat /\ MaxMinerScore \in Nat
    BY ZkParams, ZenonT(30)
<1>2. InitialMinerScore <= MaxMinerScore
    BY ZkParams, ZenonT(30)
<1> QED BY <1>1, <1>2

(* There are finitely many tasks.                                           *)
LEMMA TaskIdsFinite == IsFiniteSet(TaskIds)
BY FS_Interval, ZkParams DEF TaskIds

(* Any set of tasks is finite.                                              *)
LEMMA Part ==
    ASSUME NEW S \in SUBSET TaskIds
    PROVE  IsFiniteSet(S) /\ Cardinality(S) \in Nat
BY TaskIdsFinite, FS_Subset, FS_CardinalityType

(* A new element makes a set of tasks one larger.                           *)
LEMMA Grown ==
    ASSUME NEW S \in SUBSET TaskIds, NEW x \in TaskIds, x \notin S
    PROVE  Cardinality(S \cup {x}) = Cardinality(S) + 1
BY Part, FS_AddElement

(* Taking an element out makes a set of tasks one smaller.                  *)
LEMMA Shrunk ==
    ASSUME NEW S \in SUBSET TaskIds, NEW x \in S
    PROVE  Cardinality(S \ {x}) = Cardinality(S) - 1 /\ Cardinality(S) >= 1
<1>1. Cardinality(S \ {x}) = Cardinality(S) - 1
    BY Part, FS_RemoveElement
<1>2. Cardinality(S \ {x}) \in Nat /\ Cardinality(S) \in Nat
    BY Part
<1> QED BY <1>1, <1>2

(* The deposits of one task more, and of one less. *)
LEMMA DepositsOf ==
    ASSUME NEW c \in Nat
    PROVE  /\ SubmissionDeposit * c \in Nat
           /\ SubmissionDeposit * (c + 1) = SubmissionDeposit * c + SubmissionDeposit
           /\ SubmissionDeposit * (c - 1) = SubmissionDeposit * c - SubmissionDeposit
           /\ c >= 1 => SubmissionDeposit <= SubmissionDeposit * c
<1> DEFINE d == SubmissionDeposit
<1>1. d \in Nat
    BY ZkParams
<1> HIDE DEF d
<1>2. d * c \in Nat /\ d * (c + 1) = d * c + d /\ d * (c - 1) = d * c - d
    BY <1>1
<1>3. c >= 1 => d <= d * c
  <2> SUFFICES ASSUME c >= 1 PROVE d <= d * c
    OBVIOUS
  <2>1. PICK k \in Nat : c = k + 1
    <3>1. c - 1 \in Nat /\ c = (c - 1) + 1
      OBVIOUS
    <3> QED BY <3>1
  <2>2. d * c = d * k + d /\ d * k \in Nat
    BY <1>1, <2>1
  <2> QED BY <1>1, <2>2
<1> QED BY <1>2, <1>3 DEF d

(* calculate_reward is a natural number.                                    *)
LEMMA RewardType ==
    ASSUME NEW p \in Proofs
    PROVE  calculate_reward(p) \in Nat
<1>1. BaseReward \in Nat /\ p.volume \in Nat /\ p.multiplier_q100 \in Nat
    BY ZkParams
<1>2. BaseReward * p.volume \in Nat
    BY <1>1
<1>3. BaseReward * p.volume * p.multiplier_q100 \in Nat
    BY <1>1, <1>2
<1> QED BY <1>3, SMTT(30), SMTT(40) DEF calculate_reward

(* What was paid for each task (claim_reward) is a natural number.          *)
LEMMA PaidType ==
    ASSUME TypeOK, TasksKnown
    PROVE  Paid \in [TaskIds -> Nat]
<1> SUFFICES ASSUME NEW id \in TaskIds, reward_claimed[id]
             PROVE  calculate_reward(proof[id]) \in Nat
    BY DEF Paid
<1>1. proof[id] \in Proofs
    BY DEF TasksKnown
<1> QED BY <1>1, RewardType

(* The same after a step.                                                   *)
LEMMA PaidTypeNext ==
    ASSUME TypeOK', TasksKnown'
    PROVE  Paid' \in [TaskIds -> Nat]
<1> SUFFICES ASSUME NEW id \in TaskIds, reward_claimed'[id]
             PROVE  calculate_reward(proof'[id]) \in Nat
    BY SMTT(30), SMTT(40) DEF Paid, calculate_reward
<1>1. proof'[id] \in Proofs
    BY DEF TasksKnown
<1> QED BY <1>1, RewardType

-----------------------------------------------------------------------------
(* submit_proof reserves one deposit for one task more in the queue. *)
LEMMA SubmitStep ==
    ASSUME NEW who \in Miners, NEW p \in Proofs, NEW nonce \in Nonces, ZInv,
           submit_proof(who, p, nonce)
    PROVE  ZInv'
<1> USE DEF ZInv
<1>1. PICK id \in TaskIds : id = NextTaskId
    BY DEF submit_proof
<1>2. zk_status[id] = "None" /\ ~reward_claimed[id] /\ id \notin PendingTasks \cup unslashed
  <2>1. id >= NextTaskId
    BY <1>1 DEF TaskIds
  <2>2. zk_status[id] = "None"
    BY <2>1 DEF TasksKnown
  <2> QED BY <2>2 DEF TasksKnown, PendingExact, WithStatus
<1>3. /\ miner' = [miner EXCEPT ![id] = who]
      /\ proof' = [proof EXCEPT ![id] = p]
      /\ zk_status' = [zk_status EXCEPT ![id] = "Pending"]
      /\ submitted_at' = [submitted_at EXCEPT ![id] = now]
      /\ PendingTasks' = PendingTasks \cup {id}
      /\ UNCHANGED <<now, reward_claimed, VerifiedTasks, MinerScores, unsigned, pot, foreign,
                     unslashed>>
    BY <1>1 DEF submit_proof, history
<1>4. TypeOK'
  <2>1. /\ NextTaskId' \in 0..MaxTasks
        /\ free' \in [Miners -> Nat] /\ reserved' \in [Miners -> Nat]
        /\ MinerPendingCount' \in [Miners -> Nat]
    <3>1. SubmissionDeposit \in Nat /\ MaxTasks \in Nat
      BY ZkParams
    <3>2. NextTaskId' \in 0..MaxTasks
      BY <3>1, <1>1 DEF submit_proof, TypeOK, TaskIds
    <3>3. free' \in [Miners -> Nat]
      BY <3>1 DEF submit_proof, TypeOK
    <3>4. reserved' \in [Miners -> Nat]
      BY <3>1 DEF submit_proof, TypeOK
    <3>5. MinerPendingCount' \in [Miners -> Nat]
      BY DEF submit_proof, TypeOK
    <3> QED BY <3>2, <3>3, <3>4, <3>5
  <2>2. nonce_of' \in [TaskIds -> Nonces] /\ UsedNonces' \in [Miners -> SUBSET Nonces]
    BY DEF submit_proof, use_nonce, TypeOK
  <2> QED BY <1>3, <2>1, <2>2, ZenonT(30) DEF TypeOK, Statuses
<1>5. TasksKnown'
  <2>1. NextTaskId' = id + 1 /\ id \in Int
    BY <1>1 DEF submit_proof, TaskIds
  <2> SUFFICES ASSUME NEW i \in TaskIds
               PROVE  /\ i >= NextTaskId' => zk_status'[i] = "None"
                      /\ zk_status'[i] # "None" => proof'[i] \in Proofs
                      /\ reward_claimed'[i] => zk_status'[i] = "Verified"
                      /\ i \in unslashed' => zk_status'[i] = "Failed"
    BY DEF TasksKnown
  <2>2. i \in Int
    BY DEF TaskIds
  <2>3. CASE i = id
    BY <1>2, <1>3, <2>1, <2>3 DEF TypeOK
  <2>4. CASE i # id
    <3>1. /\ zk_status'[i] = zk_status[i] /\ proof'[i] = proof[i]
          /\ reward_claimed' = reward_claimed /\ unslashed' = unslashed
      BY <1>3, <2>4 DEF TypeOK
    <3>2. i >= id + 1 => i >= id
      BY <2>1, <2>2
    <3> QED BY <1>1, <2>1, <3>1, <3>2 DEF TasksKnown
  <2> QED BY <2>3, <2>4
<1>6. PendingExact'
  <2>1. PendingTasks' = WithStatus("Pending")'
    BY <1>3 DEF PendingExact, WithStatus, TypeOK
  <2> SUFFICES ASSUME NEW m \in Miners
               PROVE  MinerPendingCount'[m] = Cardinality(PendingTasks' \cap OfMiner(m)')
    BY <2>1 DEF PendingExact
  <2> DEFINE S == PendingTasks \cap OfMiner(m)
  <2>2. S \in SUBSET TaskIds /\ MinerPendingCount[m] = Cardinality(S) /\ id \notin S
    BY <1>2 DEF PendingExact, OfMiner
  <2>3. CASE m = who
    <3>1. PendingTasks' \cap OfMiner(m)' = S \cup {id}
      BY <1>2, <1>3, <2>3 DEF OfMiner, TypeOK
    <3>2. MinerPendingCount'[m] = MinerPendingCount[m] + 1
      BY <2>3 DEF submit_proof, TypeOK
    <3> HIDE DEF S
    <3> QED BY <2>2, <3>1, <3>2, Grown
  <2>4. CASE m # who
    <3>1. PendingTasks' \cap OfMiner(m)' = S
      BY <1>2, <1>3, <2>4 DEF OfMiner, TypeOK
    <3>2. MinerPendingCount'[m] = MinerPendingCount[m]
      BY <2>4 DEF submit_proof, TypeOK
    <3> QED BY <2>2, <3>1, <3>2
  <2> QED BY <2>3, <2>4
<1>7. DepositHeld'
  <2> SUFFICES ASSUME NEW m \in Miners
               PROVE  reserved'[m] = SubmissionDeposit * Cardinality(Held(m)')
    BY DEF DepositHeld
  <2> DEFINE S == Held(m)
  <2>2. S \in SUBSET TaskIds /\ reserved[m] = SubmissionDeposit * Cardinality(S) /\ id \notin S
    BY <1>2 DEF DepositHeld, OfMiner, Held
  <2>3. CASE m = who
    <3>1. Held(m)' = S \cup {id}
      BY <1>2, <1>3, <2>3 DEF OfMiner, Held, TypeOK
    <3>2. reserved'[m] = reserved[m] + SubmissionDeposit
      BY <2>3 DEF submit_proof, TypeOK
    <3> HIDE DEF S
    <3>3. Cardinality(S \cup {id}) = Cardinality(S) + 1 /\ Cardinality(S) \in Nat
      BY <2>2, Grown, Part
    <3> QED BY <2>2, <3>1, <3>2, <3>3, DepositsOf
  <2>4. CASE m # who
    <3>1. Held(m)' = S
      BY <1>2, <1>3, <2>4 DEF OfMiner, Held, TypeOK
    <3>2. reserved'[m] = reserved[m]
      BY <2>4 DEF submit_proof, TypeOK
    <3> QED BY <2>2, <3>1, <3>2
  <2> QED BY <2>3, <2>4
<1>8. PotAccounted'
  <2>1. Paid' = Paid
    BY <1>2, <1>3, SMTT(30), SMTT(40) DEF Paid, calculate_reward, TypeOK
  <2>2. WithStatus("Failed")' = WithStatus("Failed")
    BY <1>2, <1>3 DEF WithStatus, TypeOK
  <2> QED BY <1>3, <2>1, <2>2 DEF PotAccounted
<1>9. VerdictSound'
    BY <1>2, <1>3 DEF VerdictSound, TypeOK
<1>10. WorkerHonest'
    BY <1>2, <1>3 DEF WorkerHonest, TypeOK
<1> QED BY <1>4, <1>5, <1>6, <1>7, <1>8, <1>9, <1>10

-----------------------------------------------------------------------------
(* Either verifier takes a pending task off the queue, frees the slot of    *)
(* its miner, and moves the deposit when the verdict is negative, unless    *)
(* the pallet's account does not exist.                                     *)
LEMMA DecideStep ==
    ASSUME NEW id \in TaskIds, NEW v \in BOOLEAN, ZInv, zk_status[id] = "Pending",
           decide(id, v), VerifiedTasks' \subseteq TaskIds,
           unsigned' \subseteq TaskIds \X BOOLEAN, foreign' \subseteq TaskIds,
           \/ v /\ UNCHANGED <<money, unslashed>>
           \/ ~v /\ slash_deposit(miner[id]) /\ UNCHANGED unslashed
           \/ ~v /\ UNCHANGED money /\ unslashed' = unslashed \cup {id}
    PROVE  (TypeOK /\ TasksKnown /\ PendingExact /\ DepositHeld /\ PotAccounted)'
<1> USE DEF ZInv
<1>1. PICK who \in Miners : who = miner[id]
    BY DEF TypeOK
<1>2. /\ zk_status' = [zk_status EXCEPT ![id] = IF v THEN "Verified" ELSE "Failed"]
      /\ PendingTasks' = PendingTasks \ {id}
      /\ MinerPendingCount' =
            [MinerPendingCount EXCEPT ![who] = IF @ = 0 THEN 0 ELSE @ - 1]
      /\ UNCHANGED <<now, NextTaskId, miner, proof, nonce_of, submitted_at, reward_claimed,
                     UsedNonces>>
    BY <1>1 DEF decide, remove_from_pending, release_slot
<1>3. id \in PendingTasks /\ ~reward_claimed[id] /\ id \notin unslashed
    BY DEF PendingExact, WithStatus, TasksKnown
<1>4. PendingExact'
  <2>1. PendingTasks' = WithStatus("Pending")'
    BY <1>2 DEF PendingExact, WithStatus, TypeOK
  <2> SUFFICES ASSUME NEW m \in Miners
               PROVE  MinerPendingCount'[m] = Cardinality(PendingTasks' \cap OfMiner(m)')
    BY <2>1 DEF PendingExact
  <2> DEFINE S == PendingTasks \cap OfMiner(m)
  <2>2. S \in SUBSET TaskIds /\ MinerPendingCount[m] = Cardinality(S)
    BY DEF PendingExact, OfMiner
  <2>3. CASE m = who
    <3>1. id \in S /\ PendingTasks' \cap OfMiner(m)' = S \ {id}
      BY <1>1, <1>2, <1>3, <2>3 DEF OfMiner, TypeOK
    <3>2. MinerPendingCount'[m] = IF MinerPendingCount[m] = 0 THEN 0 ELSE MinerPendingCount[m] - 1
      BY <1>2, <2>3 DEF TypeOK
    <3> HIDE DEF S
    <3>3. Cardinality(S \ {id}) = Cardinality(S) - 1 /\ Cardinality(S) >= 1 /\ Cardinality(S) \in Nat
      BY <2>2, <3>1, Shrunk, Part
    <3>4. MinerPendingCount'[m] = Cardinality(S) - 1
      BY <2>2, <3>2, <3>3
    <3> QED BY <3>1, <3>3, <3>4
  <2>4. CASE m # who
    <3>1. PendingTasks' \cap OfMiner(m)' = S
      BY <1>1, <1>2, <1>3, <2>4 DEF OfMiner, TypeOK
    <3>2. MinerPendingCount'[m] = MinerPendingCount[m]
      BY <1>2, <2>4 DEF TypeOK
    <3> QED BY <2>2, <3>1, <3>2
  <2> QED BY <2>3, <2>4
<1>5. TasksKnown'
  <2>1. ASSUME NEW i \in TaskIds, i \in unslashed'
        PROVE  zk_status'[i] = "Failed"
    <3>1. CASE i \in unslashed
      BY <1>2, <1>3, <3>1 DEF TasksKnown, TypeOK
    <3>2. CASE i \notin unslashed
      <4>1. i = id /\ ~v
        BY <2>1, <3>2
      <4> QED BY <1>2, <4>1 DEF TypeOK
    <3> QED BY <3>1, <3>2
  <2> QED BY <1>2, <1>3, <2>1 DEF TasksKnown, TypeOK
<1>6. MinerPendingCount' \in [Miners -> Nat]
    BY <1>2 DEF TypeOK
<1>7. Paid' = Paid
    BY <1>2, SMTT(30), SMTT(40) DEF Paid, calculate_reward
<1>8. CASE v
  <2>1. MinerScores' \in [Miners -> 0..MaxMinerScore]
    <3>1. ScoreOnSuccess \in Nat /\ MaxMinerScore \in Nat
      BY ZkParams
    <3>2. increase_score(who)
      BY <1>1, <1>8 DEF decide
    <3> QED BY <3>1, <3>2 DEF increase_score, TypeOK
  <2>2. UNCHANGED <<free, reserved, pot, unslashed>>
    BY <1>8 DEF money
  <2>3. zk_status' = [zk_status EXCEPT ![id] = "Verified"]
    BY <1>2, <1>8
  <2>4. TypeOK'
    BY <1>2, <1>6, <2>1, <2>2, <2>3 DEF TypeOK, Statuses
  <2>5. \A m \in Miners : Held(m)' = Held(m)
    BY <1>2, <1>3, <2>3 DEF Held, OfMiner, TypeOK
  <2>6. DepositHeld'
    BY <2>2, <2>5 DEF DepositHeld
  <2>7. (WithStatus("Failed") \ unslashed)' = WithStatus("Failed") \ unslashed
    BY <2>2, <2>3 DEF WithStatus, TypeOK
  <2>8. PotAccounted'
    BY <1>7, <2>2, <2>7, ZenonT(30) DEF PotAccounted
  <2> QED BY <1>4, <1>5, <2>4, <2>6, <2>8
<1>9. ASSUME ~v PROVE MinerScores' \in [Miners -> 0..MaxMinerScore]
  <2>1. ScorePenaltyOnFailure \in Nat /\ MaxMinerScore \in Nat
    BY ZkParams
  <2>2. decrease_score(who)
    BY <1>1, <1>9 DEF decide
  <2> QED BY <2>1, <2>2 DEF decrease_score, TypeOK
<1>10. CASE ~v /\ UNCHANGED money /\ unslashed' = unslashed \cup {id}
  <2>1. UNCHANGED <<free, reserved, pot>> /\ unslashed' = unslashed \cup {id}
    BY <1>10 DEF money
  <2>2. zk_status' = [zk_status EXCEPT ![id] = "Failed"]
    BY <1>2, <1>10
  <2>3. MinerScores' \in [Miners -> 0..MaxMinerScore]
    BY <1>9, <1>10
  <2>4. TypeOK'
    BY <1>2, <1>6, <2>1, <2>2, <2>3 DEF TypeOK, Statuses
  <2>5. \A m \in Miners : Held(m)' = Held(m)
    BY <1>2, <1>3, <2>1, <2>2 DEF Held, OfMiner, TypeOK
  <2>6. DepositHeld'
    BY <2>1, <2>5 DEF DepositHeld
  <2>7. (WithStatus("Failed") \ unslashed)' = WithStatus("Failed") \ unslashed
    BY <2>1, <2>2 DEF WithStatus, TypeOK
  <2>8. PotAccounted'
    BY <1>7, <2>1, <2>7, ZenonT(30) DEF PotAccounted
  <2> QED BY <1>4, <1>5, <2>4, <2>6, <2>8
<1>11. CASE ~v /\ slash_deposit(miner[id]) /\ UNCHANGED unslashed
  <2>1. MinerScores' \in [Miners -> 0..MaxMinerScore]
    BY <1>9, <1>11
  <2>2. Held(who) \in SUBSET TaskIds /\ id \in Held(who)
    BY <1>1 DEF Held, OfMiner
  <2>3. reserved[who] = SubmissionDeposit * Cardinality(Held(who))
    BY DEF DepositHeld
  <2>4. SubmissionDeposit <= reserved[who] /\ SubmissionDeposit \in Nat
    <3>1. Cardinality(Held(who)) \in Nat /\ Cardinality(Held(who)) >= 1
      BY <2>2, Shrunk, Part, ZenonT(30)
    <3> QED BY <2>3, <3>1, DepositsOf, ZkParams
  <2>5. /\ reserved' = [reserved EXCEPT ![who] = @ - SubmissionDeposit]
        /\ pot' = pot + SubmissionDeposit
        /\ UNCHANGED free
    BY <1>1, <1>11, <2>4 DEF slash_deposit
  <2>6. zk_status' = [zk_status EXCEPT ![id] = "Failed"]
    BY <1>2, <1>11
  <2>7. TypeOK'
    <3>1. reserved' \in [Miners -> Nat] /\ pot' \in Nat
      BY <2>4, <2>5 DEF TypeOK
    <3> QED BY <1>2, <1>6, <1>11, <2>1, <2>5, <2>6, <3>1 DEF TypeOK, Statuses
  <2>8. DepositHeld'
    <3> SUFFICES ASSUME NEW m \in Miners
                 PROVE  reserved'[m] = SubmissionDeposit * Cardinality(Held(m)')
      BY DEF DepositHeld
    <3>1. CASE m = who
      <4>1. Held(m)' = Held(m) \ {id}
        BY <1>2, <1>3, <1>11, <2>6, <3>1 DEF Held, OfMiner, TypeOK
      <4>2. Cardinality(Held(m) \ {id}) = Cardinality(Held(m)) - 1 /\ Cardinality(Held(m)) \in Nat
        BY <2>2, <3>1, Shrunk, Part
      <4>3. reserved'[m] = reserved[m] - SubmissionDeposit
        BY <2>5, <3>1 DEF TypeOK
      <4> QED BY <2>3, <3>1, <4>1, <4>2, <4>3, DepositsOf
    <3>2. CASE m # who
      <4>1. Held(m)' = Held(m)
        BY <1>1, <1>2, <1>11, <2>6, <3>2 DEF Held, OfMiner, TypeOK
      <4>2. reserved'[m] = reserved[m]
        BY <2>5, <3>2 DEF TypeOK
      <4> QED BY <4>1, <4>2 DEF DepositHeld
    <3> QED BY <3>1, <3>2
  <2>9. PotAccounted'
    <3> DEFINE F == WithStatus("Failed") \ unslashed
    <3>1. /\ (WithStatus("Failed") \ unslashed)' = F \cup {id}
          /\ id \notin F /\ F \in SUBSET TaskIds
      BY <1>3, <1>11, <2>6 DEF WithStatus, TypeOK
    <3> HIDE DEF F
    <3>2. Cardinality(F \cup {id}) = Cardinality(F) + 1 /\ Cardinality(F) \in Nat
      BY <3>1, Grown, Part
    <3>3. SubmissionDeposit * Cardinality((WithStatus("Failed") \ unslashed)') =
            SubmissionDeposit * Cardinality(F) + SubmissionDeposit
      BY <3>1, <3>2, DepositsOf, ZenonT(30)
    <3>4. pot + SumOver(Paid, TaskIds) = PotEndowment + SubmissionDeposit * Cardinality(F)
      BY DEF PotAccounted, F
    <3>5. SumOver(Paid, TaskIds) \in Nat /\ PotEndowment \in Nat /\ pot \in Nat
      BY PaidType, TaskIdsFinite, SumType, ZkParams DEF TypeOK
    <3>6. SubmissionDeposit * Cardinality(F) \in Nat
      BY <3>2, DepositsOf
    <3>7. pot' + SumOver(Paid, TaskIds) =
            PotEndowment + (SubmissionDeposit * Cardinality(F) + SubmissionDeposit)
      BY <2>4, <2>5, <3>4, <3>5, <3>6
    <3> QED BY <1>7, <3>3, <3>7 DEF PotAccounted
  <2> QED BY <1>4, <1>5, <2>7, <2>8, <2>9
<1> QED BY <1>8, <1>10, <1>11

(* verify_task: the proof is looked at now, within its deadline or not. *)
LEMMA VerifyStep ==
    ASSUME NEW id \in TaskIds, ZInv, verify_task(id)
    PROVE  ZInv'
<1> USE DEF ZInv
<1> DEFINE v == ~timed_out(id) /\ proof[id].valid
<1>1. /\ zk_status[id] = "Pending"
      /\ VerifiedTasks' = IF v THEN VerifiedTasks \cup {id} ELSE VerifiedTasks
      /\ decide(id, v)
      /\ UNCHANGED <<unsigned, foreign, unslashed>>
      /\ IF v THEN UNCHANGED money ELSE slash_deposit(miner[id])
    BY DEF verify_task, history
<1>2. PICK w \in BOOLEAN : w = v
    BY ZenonT(30)
<1>3. decide(id, w)
    BY <1>1, <1>2
<1>4. /\ VerifiedTasks' \subseteq TaskIds /\ unsigned' \subseteq TaskIds \X BOOLEAN
      /\ foreign' \subseteq TaskIds
    BY <1>1 DEF TypeOK
<1>m. \/ w /\ UNCHANGED <<money, unslashed>>
      \/ ~w /\ slash_deposit(miner[id]) /\ UNCHANGED unslashed
    BY <1>1, <1>2
<1>5. (TypeOK /\ TasksKnown /\ PendingExact /\ DepositHeld /\ PotAccounted)'
    BY <1>1, <1>3, <1>4, <1>m, DecideStep
<1>6. /\ zk_status' = [zk_status EXCEPT ![id] = IF w THEN "Verified" ELSE "Failed"]
      /\ UNCHANGED <<now, proof, submitted_at>>
    BY <1>3 DEF decide
<1>7. VerdictSound'
    BY <1>1, <1>2, <1>6, ZenonT(30) DEF VerdictSound, TypeOK, timed_out
<1>8. WorkerHonest'
    BY <1>1, <1>6 DEF WorkerHonest, TypeOK
<1> QED BY <1>5, <1>7, <1>8

(* submit_verification_unsigned, wherever the transaction comes from: a     *)
(* deposit that cannot be moved stays in reserve.                           *)
LEMMA CallStep ==
    ASSUME NEW id \in TaskIds, NEW v \in BOOLEAN, ZInv, submit_verification_unsigned(id, v),
           unsigned' \subseteq unsigned, foreign' \subseteq TaskIds
    PROVE  /\ (TypeOK /\ TasksKnown /\ PendingExact /\ DepositHeld /\ PotAccounted)'
           /\ zk_status' = [zk_status EXCEPT ![id] = IF v THEN "Verified" ELSE "Failed"]
           /\ UNCHANGED <<now, proof, submitted_at>>
           /\ WorkerHonest'
<1> USE DEF ZInv
<1>1. zk_status[id] = "Pending" /\ decide(id, v) /\ VerifiedTasks' \subseteq TaskIds
    BY DEF submit_verification_unsigned, fresh, record_if_room, TypeOK
<1>2. \/ v /\ UNCHANGED <<money, unslashed>>
      \/ ~v /\ slash_deposit(miner[id]) /\ UNCHANGED unslashed
      \/ ~v /\ UNCHANGED money /\ unslashed' = unslashed \cup {id}
    BY DEF submit_verification_unsigned
<1>3. unsigned' \subseteq TaskIds \X BOOLEAN
    BY DEF TypeOK
<1>4. (TypeOK /\ TasksKnown /\ PendingExact /\ DepositHeld /\ PotAccounted)'
    BY <1>1, <1>2, <1>3, DecideStep
<1>5. /\ zk_status' = [zk_status EXCEPT ![id] = IF v THEN "Verified" ELSE "Failed"]
      /\ UNCHANGED <<now, proof, submitted_at>>
    BY <1>1 DEF decide
<1>6. WorkerHonest'
    BY <1>1, <1>5 DEF WorkerHonest, TypeOK
<1> QED BY <1>4, <1>5, <1>6

(* A step that leaves the tasks, their deposits and the clock alone.        *)
LEMMA SameTasks ==
    ASSUME ZInv,
           UNCHANGED <<now, NextTaskId, miner, proof, nonce_of, zk_status, submitted_at,
                       reward_claimed, PendingTasks, VerifiedTasks, MinerScores, UsedNonces,
                       MinerPendingCount, free, reserved, pot, foreign, unslashed>>
    PROVE  (TasksKnown /\ PendingExact /\ DepositHeld /\ PotAccounted /\ VerdictSound)'
<1> USE DEF ZInv
<1>1. WithStatus("Failed")' = WithStatus("Failed") /\ WithStatus("Pending")' = WithStatus("Pending")
    BY DEF WithStatus
<1>2. \A m \in Miners : OfMiner(m)' = OfMiner(m) /\ Held(m)' = Held(m)
    BY DEF OfMiner, Held
<1>3. Paid' = Paid
    BY SMTT(30), SMTT(40) DEF Paid, calculate_reward
<1>4. PotAccounted'
    BY <1>1, <1>3 DEF PotAccounted
<1>5. PendingExact' /\ DepositHeld'
    BY <1>1, <1>2 DEF PendingExact, DepositHeld
<1>6. TasksKnown' /\ VerdictSound'
    BY DEF TasksKnown, VerdictSound
<1> QED BY <1>4, <1>5, <1>6

(* worker_verdict: a verdict of an earlier block is applied if the task is  *)
(* still undecided, and dropped otherwise.                                  *)
LEMMA WorkerVerdictStep ==
    ASSUME NEW id \in TaskIds, NEW v \in BOOLEAN, ZInv, worker_verdict(id, v)
    PROVE  ZInv'
<1> USE DEF ZInv
<1>1. <<id, v>> \in unsigned /\ unsigned' = unsigned \ {<<id, v>>} /\ foreign' = foreign
    BY DEF worker_verdict
<1>2. v = proof[id].valid
    BY <1>1 DEF WorkerHonest
<1>3. CASE submit_verification_unsigned(id, v)
  <2>1. unsigned' \subseteq unsigned /\ foreign' \subseteq TaskIds
    BY <1>1 DEF TypeOK
  <2>2. /\ (TypeOK /\ TasksKnown /\ PendingExact /\ DepositHeld /\ PotAccounted)'
        /\ zk_status' = [zk_status EXCEPT ![id] = IF v THEN "Verified" ELSE "Failed"]
        /\ UNCHANGED <<now, proof, submitted_at>>
        /\ WorkerHonest'
    BY <1>3, <2>1, CallStep
  <2>3. VerdictSound'
    BY <1>1, <1>2, <2>2 DEF VerdictSound, TypeOK
  <2> QED BY <2>2, <2>3
<1>4. CASE ~fresh(id) /\ ~submit_verification_unsigned(id, v)
  <2>1. UNCHANGED <<now, NextTaskId, task, PendingTasks, VerifiedTasks, MinerScores,
                    UsedNonces, MinerPendingCount, money, unslashed, foreign>>
    BY <1>4 DEF worker_verdict
  <2> USE DEF task, money
  <2>2. TypeOK'
    BY <1>1, <2>1 DEF TypeOK
  <2>3. (TasksKnown /\ PendingExact /\ DepositHeld /\ PotAccounted /\ VerdictSound)'
    BY <2>1, SameTasks
  <2>4. WorkerHonest'
    BY <1>1, <2>1, ZenonT(30) DEF WorkerHonest
  <2> QED BY <2>2, <2>3, <2>4
<1> QED BY <1>3, <1>4 DEF worker_verdict

(* foreign_verdict: a verdict from elsewhere keeps the accounts right,      *)
(* whatever it says of the proof.                                           *)
LEMMA ForeignVerdictStep ==
    ASSUME NEW id \in TaskIds, NEW v \in BOOLEAN, ZInv, foreign_verdict(id, v)
    PROVE  ZInv'
<1> USE DEF ZInv
<1>1. /\ submit_verification_unsigned(id, v)
      /\ foreign' = foreign \cup {id} /\ unsigned' = unsigned
    BY DEF foreign_verdict
<1>2. unsigned' \subseteq unsigned /\ foreign' \subseteq TaskIds
    BY <1>1 DEF TypeOK
<1>3. /\ (TypeOK /\ TasksKnown /\ PendingExact /\ DepositHeld /\ PotAccounted)'
      /\ zk_status' = [zk_status EXCEPT ![id] = IF v THEN "Verified" ELSE "Failed"]
      /\ UNCHANGED <<now, proof, submitted_at>>
      /\ WorkerHonest'
    BY <1>1, <1>2, CallStep
<1>4. VerdictSound'
    BY <1>1, <1>3 DEF VerdictSound, TypeOK
<1> QED BY <1>3, <1>4

(* offchain_worker: every verdict it sends is that of the verifier. *)
LEMMA WorkerStep ==
    ASSUME ZInv, offchain_worker
    PROVE  ZInv'
<1> USE DEF ZInv
<1>1. UNCHANGED <<now, NextTaskId, task, PendingTasks, VerifiedTasks, MinerScores, UsedNonces,
                  MinerPendingCount, money, foreign, unslashed>>
    BY DEF offchain_worker, history
<1> DEFINE open == {i \in PendingTasks : zk_status[i] = "Pending"}
           sent == {<<i, proof[i].valid>> : i \in open}
<1>2. unsigned' = unsigned \cup sent
    BY DEF offchain_worker
<1>3. \A x \in sent : \E i \in open : x = <<i, proof[i].valid>>
    OBVIOUS
<1> HIDE DEF sent
<1>4. \A i \in open : i \in TaskIds /\ zk_status[i] = "Pending" /\ proof[i].valid \in BOOLEAN
    BY ZkParams DEF TasksKnown, TypeOK
<1> HIDE DEF open
<1>5. ASSUME NEW x \in sent PROVE x \in TaskIds \X BOOLEAN
  <2>1. PICK i \in open : x = <<i, proof[i].valid>>
    BY <1>3
  <2>2. i \in TaskIds /\ proof[i].valid \in BOOLEAN
    BY <1>4
  <2> QED BY <2>1, <2>2
<1>6. \A i \in TaskIds, v \in BOOLEAN :
          <<i, v>> \in sent => zk_status[i] = "Pending" /\ v = proof[i].valid
    BY <1>3, <1>4
<1> USE DEF task, money
<1>7. TypeOK'
    BY <1>1, <1>2, <1>5 DEF TypeOK
<1>8. (TasksKnown /\ PendingExact /\ DepositHeld /\ PotAccounted /\ VerdictSound)'
    BY <1>1, SameTasks
<1>9. WorkerHonest'
    BY <1>1, <1>2, <1>6 DEF WorkerHonest
<1> QED BY <1>7, <1>8, <1>9

(* claim_reward: the reward leaves the pallet's account, the deposit the    *)
(* reserve, and the task is claimed.                                        *)
LEMMA ClaimStep ==
    ASSUME NEW id \in TaskIds, ZInv, claim_reward(id)
    PROVE  ZInv'
<1> USE DEF ZInv
<1>1. PICK who \in Miners : who = miner[id]
    BY DEF TypeOK
<1>2. PICK reward \in Nat : reward = calculate_reward(proof[id])
  <2>1. proof[id] \in Proofs
    BY DEF claim_reward, TasksKnown
  <2> QED BY <2>1, RewardType
<1>3. zk_status[id] = "Verified" /\ ~reward_claimed[id] /\ pot >= reward
    BY <1>2 DEF claim_reward
<1>4. Held(who) \in SUBSET TaskIds /\ id \in Held(who)
    BY <1>1, <1>3 DEF Held, OfMiner
<1>5. Cardinality(Held(who) \ {id}) = Cardinality(Held(who)) - 1
      /\ Cardinality(Held(who)) \in Nat /\ Cardinality(Held(who)) >= 1
    BY <1>4, Shrunk, Part
<1>6. reserved[who] = SubmissionDeposit * Cardinality(Held(who))
    BY DEF DepositHeld
<1>7. SubmissionDeposit <= reserved[who] /\ SubmissionDeposit \in Nat
    BY <1>5, <1>6, DepositsOf, ZkParams
<1>8. /\ pot' = pot - reward
      /\ free' = [free EXCEPT ![who] = @ + reward + SubmissionDeposit]
      /\ reserved' = [reserved EXCEPT ![who] = @ - SubmissionDeposit]
      /\ reward_claimed' = [reward_claimed EXCEPT ![id] = TRUE]
      /\ UNCHANGED <<now, NextTaskId, miner, proof, nonce_of, zk_status, submitted_at,
                     PendingTasks, VerifiedTasks, MinerScores, UsedNonces, MinerPendingCount,
                     unsigned, foreign, unslashed>>
    BY <1>1, <1>2, <1>7 DEF claim_reward, mark_claimed, history
<1>9. TypeOK'
  <2>1. free' \in [Miners -> Nat] /\ reserved' \in [Miners -> Nat] /\ pot' \in Nat
    BY <1>3, <1>7, <1>8 DEF TypeOK
  <2> QED BY <1>8, <2>1 DEF TypeOK
<1>10. TasksKnown'
    BY <1>3, <1>8 DEF TasksKnown, TypeOK
<1>11. PendingExact' /\ VerdictSound' /\ WorkerHonest'
  <2>1. WithStatus("Pending")' = WithStatus("Pending") /\ \A m \in Miners : OfMiner(m)' = OfMiner(m)
    BY <1>8 DEF WithStatus, OfMiner
  <2>2. PendingExact'
    BY <1>8, <2>1 DEF PendingExact
  <2> QED BY <1>8, <2>2 DEF VerdictSound, WorkerHonest
<1>12. DepositHeld'
  <2> SUFFICES ASSUME NEW m \in Miners
               PROVE  reserved'[m] = SubmissionDeposit * Cardinality(Held(m)')
    BY DEF DepositHeld
  <2>1. CASE m = who
    <3>1. Held(m)' = Held(m) \ {id}
      BY <1>3, <1>8, <2>1 DEF Held, OfMiner, TypeOK, TasksKnown
    <3>2. reserved'[m] = reserved[m] - SubmissionDeposit
      BY <1>8, <2>1 DEF TypeOK
    <3> QED BY <1>5, <1>6, <2>1, <3>1, <3>2, DepositsOf
  <2>2. CASE m # who
    <3>1. Held(m)' = Held(m)
      BY <1>1, <1>8, <2>2 DEF Held, OfMiner, TypeOK
    <3>2. reserved'[m] = reserved[m]
      BY <1>8, <2>2 DEF TypeOK
    <3> QED BY <3>1, <3>2 DEF DepositHeld
  <2> QED BY <2>1, <2>2
<1>13. PotAccounted'
  <2>1. Paid \in [TaskIds -> Nat] /\ Paid' \in [TaskIds -> Nat]
    BY <1>9, <1>10, PaidType, PaidTypeNext
  <2>2. Paid[id] = 0 /\ Paid'[id] = reward
    BY <1>2, <1>3, <1>8, SMTT(30), SMTT(40) DEF Paid, calculate_reward, TypeOK
  <2>3. \A i \in TaskIds \ {id} : Paid'[i] = Paid[i]
    BY <1>8, SMTT(30), SMTT(40) DEF Paid, calculate_reward, TypeOK
  <2>4. SumOver(Paid', TaskIds) + Paid[id] = SumOver(Paid, TaskIds) + Paid'[id]
    BY <2>1, <2>3, TaskIdsFinite, SumUpdate
  <2>5. SumOver(Paid', TaskIds) \in Nat /\ SumOver(Paid, TaskIds) \in Nat
    BY <2>1, TaskIdsFinite, SumType
  <2>6. SumOver(Paid', TaskIds) = SumOver(Paid, TaskIds) + reward
    BY <2>2, <2>4, <2>5
  <2>7. pot' + SumOver(Paid', TaskIds) = pot + SumOver(Paid, TaskIds)
    BY <1>8, <2>5, <2>6 DEF TypeOK
  <2>8. WithStatus("Failed")' = WithStatus("Failed")
    BY <1>8 DEF WithStatus
  <2> QED BY <1>8, <2>7, <2>8 DEF PotAccounted
<1> QED BY <1>9, <1>10, <1>11, <1>12, <1>13

-----------------------------------------------------------------------------
(* The invariant holds before the first proof is submitted.                 *)
LEMMA InitZInv == Init => ZInv
<1> SUFFICES ASSUME Init PROVE ZInv
    OBVIOUS
<1> USE DEF Init
<1>1. TypeOK
  <2>1. (CHOOSE m \in Miners : TRUE) \in Miners /\ (CHOOSE n \in Nonces : TRUE) \in Nonces
    BY ZkParams
  <2>2. miner \in [TaskIds -> Miners] /\ nonce_of \in [TaskIds -> Nonces]
    BY <2>1
  <2>3. /\ Endowment \in Nat /\ PotEndowment \in Nat /\ MaxTasks \in Nat /\ MaxBlock \in Nat
        /\ InitialMinerScore \in 0..MaxMinerScore
    BY Numbers
  <2> QED BY <2>2, <2>3 DEF TypeOK, Statuses
<1>2. TasksKnown /\ VerdictSound /\ WorkerHonest
    BY DEF TasksKnown, VerdictSound, WorkerHonest
<1>3. WithStatus("Pending") = {} /\ WithStatus("Failed") = {} /\ \A m \in Miners : Held(m) = {}
    BY DEF WithStatus, Held, OfMiner
<1>4. PendingExact
  <2>1. \A m \in Miners : PendingTasks \cap OfMiner(m) = {} /\ MinerPendingCount[m] = 0
    OBVIOUS
  <2> QED BY <1>3, <2>1, FS_EmptySet DEF PendingExact
<1>5. SubmissionDeposit * 0 = 0
    BY ZkParams
<1>6. DepositHeld
    BY <1>3, <1>5, FS_EmptySet, ZenonT(30) DEF DepositHeld
<1>7. PotAccounted
  <2>1. Paid = [id \in TaskIds |-> 0]
    BY DEF Paid
  <2>2. SumOver(Paid, TaskIds) = 0
    BY <2>1, TaskIdsFinite, SumZero
  <2>3. PotEndowment \in Nat
    BY ZkParams
  <2> QED BY <1>3, <1>5, <2>2, <2>3, FS_EmptySet DEF PotAccounted
<1> QED BY <1>1, <1>2, <1>4, <1>6, <1>7 DEF ZInv

(* next_block changes nothing but the clock, which only makes deadlines     *)
(* pass.                                                                    *)
LEMMA BlockStep ==
    ASSUME ZInv, next_block
    PROVE  ZInv'
<1> USE DEF ZInv
<1>1. /\ now' = now + 1 /\ now < MaxBlock
      /\ UNCHANGED <<NextTaskId, miner, proof, nonce_of, zk_status, submitted_at, reward_claimed,
                     PendingTasks, VerifiedTasks, MinerScores, UsedNonces, MinerPendingCount,
                     unsigned, free, reserved, pot, foreign, unslashed>>
    BY DEF next_block, task, money, history
<1>2. TypeOK'
  <2>1. now' \in 0..MaxBlock
    BY <1>1, Numbers DEF TypeOK
  <2> QED BY <1>1, <2>1 DEF TypeOK
<1>3. TasksKnown' /\ WorkerHonest'
    BY <1>1, ZenonT(30) DEF TasksKnown, WorkerHonest
<1>4. VerdictSound'
  <2>1. \A i \in TaskIds : now > submitted_at[i] + VerificationTimeout =>
                               now + 1 > submitted_at[i] + VerificationTimeout
    BY ZkParams DEF TypeOK
  <2> QED BY <1>1, <2>1 DEF VerdictSound
<1>5. /\ WithStatus("Failed")' = WithStatus("Failed") /\ WithStatus("Pending")' = WithStatus("Pending")
      /\ \A m \in Miners : OfMiner(m)' = OfMiner(m) /\ Held(m)' = Held(m)
    BY <1>1 DEF WithStatus, OfMiner, Held
<1>6. Paid' = Paid
    BY <1>1, SMTT(30), SMTT(40) DEF Paid, calculate_reward
<1>7. PotAccounted'
    BY <1>1, <1>5, <1>6 DEF PotAccounted
<1>8. PendingExact' /\ DepositHeld'
    BY <1>1, <1>5 DEF PendingExact, DepositHeld
<1> QED BY <1>2, <1>3, <1>4, <1>7, <1>8

(* A step that changes nothing keeps the invariant.                         *)
LEMMA SameZInv ==
    ASSUME ZInv, UNCHANGED vars
    PROVE  ZInv'
<1> USE DEF ZInv
<1>1. UNCHANGED <<now, NextTaskId, miner, proof, nonce_of, zk_status, submitted_at, reward_claimed,
                  PendingTasks, VerifiedTasks, MinerScores, UsedNonces, MinerPendingCount,
                  unsigned, free, reserved, pot, foreign, unslashed>>
    BY DEF vars, task, money, history
<1>2. TypeOK' /\ WorkerHonest'
    BY <1>1, ZenonT(30) DEF TypeOK, WorkerHonest
<1>3. (TasksKnown /\ PendingExact /\ DepositHeld /\ PotAccounted /\ VerdictSound)'
    BY <1>1, SameTasks
<1> QED BY <1>2, <1>3

(* Every call, verdict and block keeps the invariant.                       *)
LEMMA NextZInv == ZInv /\ [Next]_vars => ZInv'
<1> SUFFICES ASSUME ZInv, [Next]_vars PROVE ZInv'
    OBVIOUS
<1>1. CASE \E who \in Miners, p \in Proofs, nonce \in Nonces : submit_proof(who, p, nonce)
    BY <1>1, SubmitStep
<1>2. CASE \E id \in TaskIds : verify_task(id)
    BY <1>2, VerifyStep
<1>3. CASE \E id \in TaskIds : claim_reward(id)
    BY <1>3, ClaimStep
<1>4. CASE \E id \in TaskIds, v \in BOOLEAN : worker_verdict(id, v)
    BY <1>4, WorkerVerdictStep
<1>f. CASE \E id \in TaskIds, v \in BOOLEAN : foreign_verdict(id, v)
    BY <1>f, ForeignVerdictStep
<1>5. CASE offchain_worker
    BY <1>5, WorkerStep
<1>6. CASE next_block
    BY <1>6, BlockStep
<1>7. CASE UNCHANGED vars
    BY <1>7, SameZInv
<1> QED BY <1>1, <1>2, <1>3, <1>4, <1>f, <1>5, <1>6, <1>7 DEF Next

(* The invariant holds in every state.                                      *)
LEMMA AlwaysZInv == Spec => []ZInv
BY InitZInv, NextZInv, PTL DEF Spec

(* Scores stay within their maximum and no subtraction of the pallet's      *)
(* account or of a reserve goes below zero (decrease_score, slash_deposit,  *)
(* claim_reward).                                                           *)
THEOREM ZkTyped == Spec => []TypeOK
<1>1. ZInv => TypeOK
    BY DEF ZInv
<1> QED BY <1>1, AlwaysZInv, PTL

(* The queue of the worker and the counters that limit submissions agree    *)
(* with the tasks, whichever verifier decides them (submit_proof,           *)
(* verify_task, submit_verification_unsigned).                              *)
THEOREM QueueMatchesTasks == Spec => []PendingExact
<1>1. ZInv => PendingExact
    BY DEF ZInv
<1> QED BY <1>1, AlwaysZInv, PTL

(* Every reserve is one deposit for each task still open or unclaimed, and  *)
(* for each that failed while the pallet's account did not exist, so that   *)
(* slash_deposit and claim_reward always find the whole deposit.            *)
THEOREM DepositsHeld == Spec => []DepositHeld
<1>1. ZInv => DepositHeld
    BY DEF ZInv
<1> QED BY <1>1, AlwaysZInv, PTL

(* The pallet's account is its endowment, the deposits slashed while it     *)
(* existed and nothing more, less each reward paid once by claim_reward.    *)
THEOREM PotAccounts == Spec => []PotAccounted
<1>1. ZInv => PotAccounted
    BY DEF ZInv
<1> QED BY <1>1, AlwaysZInv, PTL

(* A verdict agrees with the verifier even when the worker's transaction    *)
(* is executed blocks after it was computed: only a valid proof is          *)
(* verified, and a valid one fails only by verify_task after its deadline.  *)
(* A task decided by a transaction that no worker made is excepted.         *)
THEOREM VerdictsSound == Spec => []VerdictSound
<1>1. ZInv => VerdictSound
    BY DEF ZInv
<1> QED BY <1>1, AlwaysZInv, PTL
=============================================================================
