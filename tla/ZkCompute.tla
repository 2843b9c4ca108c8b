------------------------------ MODULE ZkCompute ------------------------------
(***************************************************************************)
(* The zk-compute pallet (pallets/zk-compute): miners submit proofs        *)
(* against a deposit, anyone may have one verified on chain, the off-chain *)
(* worker verifies the pending ones and sends the verdict in an unsigned   *)
(* transaction that is executed later, and the miner of a verified task    *)
(* claims a reward from the pallet's account.                              *)
(*                                                                         *)
(* A proof is abstracted to the verdict of ZkVerifier on it, its           *)
(* dimensions to their product.                                            *)
(***************************************************************************)
EXTENDS Integers, FiniteSets, Sums

CONSTANTS
    Miners, Nonces,
    Proofs,                 \* records [valid, volume, multiplier_q100]
    NoProof,                \* the proof of an unused id
    Endowment,              \* free balance of every miner at genesis
    PotEndowment,           \* free balance of the pallet's account at genesis
    BaseReward, SubmissionDeposit, VerificationTimeout,
    MaxPendingTasks, MaxVerifiedTasks, MaxPendingPerMiner,
    InitialMinerScore, MinMinerScoreToSubmit, MaxMinerScore,
    ScoreOnSuccess, ScorePenaltyOnFailure,
    MaxTasks,               \* bound: task ids ever handed out
    MaxBlock                \* bound: block numbers

ASSUME ZkParams ==
    /\ \A n \in {Endowment, PotEndowment, BaseReward, SubmissionDeposit, VerificationTimeout,
                 MaxPendingTasks, MaxVerifiedTasks, MaxPendingPerMiner, InitialMinerScore,
                 MinMinerScoreToSubmit, MaxMinerScore, ScoreOnSuccess, ScorePenaltyOnFailure,
                 MaxTasks, MaxBlock} : n \in Nat
    /\ InitialMinerScore <= MaxMinerScore
    /\ Miners # {} /\ Nonces # {}
    /\ \A p \in Proofs : /\ p.valid \in BOOLEAN /\ p.volume \in Nat /\ p.multiplier_q100 \in Nat
                         /\ p # NoProof

VARIABLES
    now,
    NextTaskId,
    miner, proof, nonce_of, zk_status, submitted_at, reward_claimed,    \* Tasks, by id
    PendingTasks,       \* the queue; its order is never used
    VerifiedTasks,
    MinerScores, UsedNonces, MinerPendingCount,     \* by miner
    unsigned,           \* external: verdicts of the worker in the transaction pool
    free, reserved,     \* Currency, by miner
    pot,                \* free balance of Pallet::account_id()
    foreign,            \* history: tasks decided by a transaction no worker made
    unslashed           \* history: failed tasks whose deposit could not be moved

task == <<miner, proof, nonce_of, zk_status, submitted_at, reward_claimed>>
money == <<free, reserved, pot>>
history == <<foreign, unslashed>>
vars == <<now, NextTaskId, task, PendingTasks, VerifiedTasks, MinerScores, UsedNonces,
          MinerPendingCount, unsigned, money, history>>

TaskIds == 0..MaxTasks - 1
Statuses == {"None", "Pending", "Verified", "Failed"}

-----------------------------------------------------------------------------
Init ==
    /\ now = 0
    /\ NextTaskId = 0
    /\ miner \in [TaskIds -> {CHOOSE m \in Miners : TRUE}]
    /\ proof = [id \in TaskIds |-> NoProof]
    /\ nonce_of \in [TaskIds -> {CHOOSE n \in Nonces : TRUE}]
    /\ zk_status = [id \in TaskIds |-> "None"]
    /\ submitted_at = [id \in TaskIds |-> 0]
    /\ reward_claimed = [id \in TaskIds |-> FALSE]
    /\ PendingTasks = {}
    /\ VerifiedTasks = {}
    /\ MinerScores = [m \in Miners |-> InitialMinerScore]
    /\ UsedNonces = [m \in Miners |-> {}]
    /\ MinerPendingCount = [m \in Miners |-> 0]
    /\ unsigned = {}
    /\ free = [m \in Miners |-> Endowment]
    /\ reserved = [m \in Miners |-> 0]
    /\ pot = PotEndowment
    /\ foreign = {} /\ unslashed = {}

use_nonce(who, nonce) == UsedNonces' = [UsedNonces EXCEPT ![who] = @ \cup {nonce}]

submit_proof(who, p, nonce) ==
    LET id == NextTaskId IN
    /\ NextTaskId \in TaskIds
    /\ p.volume > 0
    /\ p.multiplier_q100 \in 120..150
    /\ nonce \notin UsedNonces[who]
    /\ MinerScores[who] >= MinMinerScoreToSubmit
    /\ MinerPendingCount[who] < MaxPendingPerMiner
    /\ free[who] >= SubmissionDeposit
    /\ Cardinality(PendingTasks) < MaxPendingTasks
    /\ free' = [free EXCEPT ![who] = @ - SubmissionDeposit]
    /\ reserved' = [reserved EXCEPT ![who] = @ + SubmissionDeposit]
    /\ miner' = [miner EXCEPT ![id] = who]
    /\ proof' = [proof EXCEPT ![id] = p]
    /\ nonce_of' = [nonce_of EXCEPT ![id] = nonce]
    /\ zk_status' = [zk_status EXCEPT ![id] = "Pending"]
    /\ submitted_at' = [submitted_at EXCEPT ![id] = now]
    /\ PendingTasks' = PendingTasks \cup {id}
    /\ NextTaskId' = NextTaskId + 1
    /\ use_nonce(who, nonce)
    /\ MinerPendingCount' = [MinerPendingCount EXCEPT ![who] = @ + 1]
    /\ UNCHANGED <<now, reward_claimed, VerifiedTasks, MinerScores, unsigned, pot, history>>

increase_score(who) ==
    MinerScores' = [MinerScores EXCEPT ![who] =
                        IF @ + ScoreOnSuccess > MaxMinerScore THEN MaxMinerScore
                        ELSE @ + ScoreOnSuccess]

decrease_score(who) ==
    MinerScores' = [MinerScores EXCEPT ![who] =
                        IF @ < ScorePenaltyOnFailure THEN 0 ELSE @ - ScorePenaltyOnFailure]

(* The account of the pallet does not exist while it holds nothing (the     *)
(* existential deposit of the runtime is zero), and repatriate_reserved     *)
(* pays only into an existing account.                                      *)
PotExists == SubmissionDeposit = 0 \/ pot > 0

(* Where it pays, it moves what is there, if less. *)
slash_deposit(who) ==
    LET moved == IF SubmissionDeposit <= reserved[who] THEN SubmissionDeposit ELSE reserved[who]
    IN /\ reserved' = [reserved EXCEPT ![who] = @ - moved]
       /\ pot' = pot + moved
       /\ UNCHANGED free

remove_from_pending(id) == PendingTasks' = PendingTasks \ {id}

(* Mistake: the verdict of the worker does not free the miner's slot. *)
keep_slot(who) == UNCHANGED MinerPendingCount

release_slot(who) ==
    MinerPendingCount' = [MinerPendingCount EXCEPT ![who] = IF @ = 0 THEN 0 ELSE @ - 1]

(* Common to the two ways a task is decided. *)
decide(id, verified) ==
    LET who == miner[id] IN
    /\ zk_status' = [zk_status EXCEPT ![id] = IF verified THEN "Verified" ELSE "Failed"]
    /\ remove_from_pending(id)
    /\ release_slot(who)
    /\ IF verified THEN increase_score(who) ELSE decrease_score(who)
    /\ UNCHANGED <<now, NextTaskId, miner, proof, nonce_of, submitted_at, reward_claimed,
                   UsedNonces>>

(* Mistake: the deadline itself is already too late. *)
timed_out_early(id) == now >= submitted_at[id] + VerificationTimeout

timed_out(id) == now > submitted_at[id] + VerificationTimeout

(* By anyone.  A full history refuses a verified task, and an account that  *)
(* does not exist the deposit of a failed one: the call fails and leaves    *)
(* the task pending.                                                        *)
verify_task(id) ==
    LET verified == ~timed_out(id) /\ proof[id].valid IN
    /\ zk_status[id] = "Pending"
    /\ verified => Cardinality(VerifiedTasks) < MaxVerifiedTasks
    /\ VerifiedTasks' = IF verified THEN VerifiedTasks \cup {id} ELSE VerifiedTasks
    /\ decide(id, verified)
    /\ IF verified THEN UNCHANGED money ELSE PotExists /\ slash_deposit(miner[id])
    /\ UNCHANGED <<unsigned, history>>

(* Mistake: the worker submits nothing. *)
offchain_worker_idle == UNCHANGED vars

(* ocw_verify_pending_tasks: the worker of some node verifies every pending *)
(* task and submits one unsigned transaction for each.                      *)
offchain_worker ==
    /\ unsigned' = unsigned \cup {<<id, proof[id].valid>> : id \in
                                    {i \in PendingTasks : zk_status[i] = "Pending"}}
    /\ UNCHANGED <<now, NextTaskId, task, PendingTasks, VerifiedTasks, MinerScores, UsedNonces,
                   MinerPendingCount, money, history>>

(* Mistake: a verdict is applied whatever has been decided meanwhile. *)
fresh_always(id) == zk_status[id] # "None"

(* validate_unsigned, and the same test of the call. *)
fresh(id) == zk_status[id] = "Pending"

(* The error of a full history is ignored here. *)
record_if_room(id) ==
    VerifiedTasks' = IF Cardinality(VerifiedTasks) < MaxVerifiedTasks
                       THEN VerifiedTasks \cup {id} ELSE VerifiedTasks

(* The errors of a full history and of a missing account are ignored here.  *)
submit_verification_unsigned(id, verified) ==
    /\ fresh(id)
    /\ decide(id, verified)
    /\ IF verified THEN record_if_room(id) ELSE UNCHANGED VerifiedTasks
    /\ IF ~verified /\ PotExists THEN slash_deposit(miner[id]) ELSE UNCHANGED money
    /\ unslashed' = IF ~verified /\ ~PotExists THEN unslashed \cup {id} ELSE unslashed

(* A verdict of the worker is taken from the pool; a stale one is discarded. *)
worker_verdict(id, verified) ==
    /\ <<id, verified>> \in unsigned
    /\ unsigned' = unsigned \ {<<id, verified>>}
    /\ \/ submit_verification_unsigned(id, verified)
       \/ /\ ~fresh(id)
          /\ UNCHANGED <<now, NextTaskId, task, PendingTasks, VerifiedTasks, MinerScores,
                         UsedNonces, MinerPendingCount, money, unslashed>>
    /\ UNCHANGED foreign

(* validate_unsigned does not look at the source of the transaction: a      *)
(* verdict need not come from a worker, and then it may be any.             *)
foreign_verdict(id, verified) ==
    /\ submit_verification_unsigned(id, verified)
    /\ foreign' = foreign \cup {id}
    /\ UNCHANGED unsigned

calculate_reward(p) == (BaseReward * p.volume * p.multiplier_q100) \div 100000000

(* Mistake: a claim is not remembered. *)
claim_again(id) == UNCHANGED reward_claimed

mark_claimed(id) == reward_claimed' = [reward_claimed EXCEPT ![id] = TRUE]

(* The reward is transferred first; without it the deposit stays reserved. *)
claim_reward(id) ==
    LET who == miner[id]
        reward == calculate_reward(proof[id])
        back == IF SubmissionDeposit <= reserved[who] THEN SubmissionDeposit ELSE reserved[who]
    IN
    /\ zk_status[id] = "Verified"
    /\ ~reward_claimed[id]
    /\ pot >= reward
    /\ pot' = pot - reward
    /\ free' = [free EXCEPT ![who] = @ + reward + back]
    /\ reserved' = [reserved EXCEPT ![who] = @ - back]
    /\ mark_claimed(id)
    /\ UNCHANGED <<now, NextTaskId, miner, proof, nonce_of, zk_status, submitted_at, PendingTasks,
                   VerifiedTasks, MinerScores, UsedNonces, MinerPendingCount, unsigned,
                   history>>

next_block ==
    /\ now < MaxBlock
    /\ now' = now + 1
    /\ UNCHANGED <<NextTaskId, task, PendingTasks, VerifiedTasks, MinerScores, UsedNonces,
                   MinerPendingCount, unsigned, money, history>>

-----------------------------------------------------------------------------
Next ==
    \/ \E who \in Miners, p \in Proofs, nonce \in Nonces : submit_proof(who, p, nonce)
    \/ \E id \in TaskIds :
          \/ verify_task(id)
          \/ claim_reward(id)
          \/ \E verified \in BOOLEAN : worker_verdict(id, verified) \/ foreign_verdict(id, verified)
    \/ offchain_worker
    \/ next_block

Spec == Init /\ [][Next]_vars

(* Workers run at every block, and authors include what is in the pool. *)
Fairness ==
    /\ WF_vars(offchain_worker)
    /\ \A id \in TaskIds, verified \in BOOLEAN :
          WF_vars(worker_verdict(id, verified))

FairSpec == Spec /\ Fairness

-----------------------------------------------------------------------------
(* Every variable keeps its type; scores never exceed MaxMinerScore and the *)
(* pallet's account is never overdrawn.                                     *)
TypeOK ==
    /\ now \in 0..MaxBlock
    /\ NextTaskId \in 0..MaxTasks
    /\ miner \in [TaskIds -> Miners]
    /\ proof \in [TaskIds -> Proofs \cup {NoProof}]
    /\ nonce_of \in [TaskIds -> Nonces]
    /\ zk_status \in [TaskIds -> Statuses]
    /\ submitted_at \in [TaskIds -> 0..MaxBlock]
    /\ reward_claimed \in [TaskIds -> BOOLEAN]
    /\ PendingTasks \subseteq TaskIds
    /\ VerifiedTasks \subseteq TaskIds
    /\ MinerScores \in [Miners -> 0..MaxMinerScore]
    /\ UsedNonces \in [Miners -> SUBSET Nonces]
    /\ MinerPendingCount \in [Miners -> Nat]
    /\ unsigned \subseteq TaskIds \X BOOLEAN
    /\ free \in [Miners -> Nat]
    /\ reserved \in [Miners -> Nat]
    /\ pot \in Nat
    /\ foreign \subseteq TaskIds
    /\ unslashed \subseteq TaskIds

WithStatus(s) == {id \in TaskIds : zk_status[id] = s}
OfMiner(m) == {id \in TaskIds : miner[id] = m}

(* The queue the worker scans holds exactly the undecided tasks, and the    *)
(* counter that limits each miner is the number of that miner's.            *)
PendingExact ==
    /\ PendingTasks = WithStatus("Pending")
    /\ \A m \in Miners : MinerPendingCount[m] = Cardinality(PendingTasks \cap OfMiner(m))

(* The tasks for which a miner's deposit is still held. *)
Held(m) == {id \in OfMiner(m) : \/ zk_status[id] = "Pending"
                                \/ zk_status[id] = "Verified" /\ ~reward_claimed[id]
                                \/ id \in unslashed}

(* A miner's reserve is one deposit for each task of the miner that is      *)
(* undecided or verified and not yet claimed: none is slashed twice or      *)
(* released early, whichever verdict came first.  The deposit of a task     *)
(* that failed by an unsigned verdict while the pallet's account did not    *)
(* exist stays in reserve as well, and no call ever releases it.            *)
DepositHeld == \A m \in Miners : reserved[m] = SubmissionDeposit * Cardinality(Held(m))

(* What claim_reward has paid for each task. *)
Paid == [id \in TaskIds |-> IF reward_claimed[id] THEN calculate_reward(proof[id]) ELSE 0]

(* The pallet's account has received every deposit slashed while it existed *)
(* and paid every claimed reward once, and nothing else.                    *)
PotAccounted ==
    pot + SumOver(Paid, TaskIds) =
        PotEndowment + SubmissionDeposit * Cardinality(WithStatus("Failed") \ unslashed)

(* The verdict of verify_task or of a worker agrees with the verifier, also *)
(* when the worker's is applied blocks after it was computed: only a valid  *)
(* proof is verified, and a valid one fails only after its deadline.        *)
(* Nothing is said of tasks decided by a transaction from elsewhere.        *)
VerdictSound ==
    \A id \in TaskIds \ foreign :
        /\ zk_status[id] = "Verified" => proof[id].valid
        /\ zk_status[id] = "Failed" /\ proof[id].valid =>
               now > submitted_at[id] + VerificationTimeout

(* Every submitted proof is decided in the end, even when the history is    *)
(* full and verify_task can no longer do it.                                *)
EveryTaskDecided == \A id \in TaskIds : zk_status[id] = "Pending" ~> zk_status[id] # "Pending"
=============================================================================
