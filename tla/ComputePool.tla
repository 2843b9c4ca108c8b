----------------------------- MODULE ComputePool -----------------------------
(***************************************************************************)
(* The compute-pool-scheduler pallet (pallets/compute-pool-scheduler):     *)
(* miners register pools against a deposit, users submit tasks whose       *)
(* reward and deposit go into escrow, the pool's owner submits a proof,    *)
(* somebody else verifies it or it is approved after a timeout, the owner  *)
(* claims the reward, and the user may dispute the verdict once.           *)
(*                                                                         *)
(* on_initialize decides timed-out tasks one after the other; the model    *)
(* gives each a step of its own (hook steps) and lets no call run before   *)
(* the last one.  PoolStatus is always Active, and verification_result is  *)
(* determined by the status, so neither is a variable.                     *)
(***************************************************************************)
EXTENDS Reserves, FiniteSetsExt

CONSTANTS
    Configs,        \* records [gpu_memory, has_nvlink, nvlink_efficiency, price_per_task]
    Dimensions,     \* records [k, complexity], complexity = m * n * k
    StakeAmounts,
    PoolDeposit, TaskDeposit, FailureSlash, TaskTimeout, VerificationTimeout,
    MaxTasksPerPool, InitialReputation,
    MaxScanned,     \* pools looked at for a task (50 in the code)
    MaxPools, MaxTasks,     \* bounds: ids ever handed out
    MaxStake                \* bound: stake of one account in one pool

ASSUME PoolParams ==
    /\ \A n \in {PoolDeposit, TaskDeposit, FailureSlash, TaskTimeout, VerificationTimeout,
                 MaxTasksPerPool, InitialReputation, MaxScanned, MaxTasks, MaxStake} : n \in Nat
    /\ MaxPools \in Nat \ {0}
    /\ StakeAmounts \subseteq Nat
    /\ Accounts # {} /\ Configs # {}
    /\ \A c \in Configs : c.price_per_task \in Nat /\ c.nvlink_efficiency \in Nat
    /\ \A dim \in Dimensions : dim.complexity \in Nat

VARIABLES
    to_verify, to_fail,     \* tasks on_initialize has still to decide
    NextPoolId,
    Pools,                  \* ids of the registered pools
    owner, config, deposit_held, reputation,                \* Pools, by id
    total_tasks, completed_tasks, failed_tasks,             \* Pools, by id
    MinerReputation,        \* by account: [reputation, total, successful, failed]
    PoolTasks, ActiveTaskCount,                             \* by pool id
    PoolStakes, TotalPoolStake,                             \* by pool id
    NextTaskId,
    user, pool_of, status, submitted_at, reward, disputed,  \* Tasks, by id
    ProofSubmittedAt,       \* by task id
    Rewards,                \* ids with an available reward
    escrow,                 \* TaskEscrowStore: "None", "Held" or "Claimed", by task id
    released_twice          \* history: tasks whose escrow was released after a claim

pool == <<NextPoolId, Pools, owner, config>>
standing == <<reputation, total_tasks, completed_tasks, failed_tasks, MinerReputation>>
activity == <<PoolTasks, ActiveTaskCount>>
stakes == <<PoolStakes, TotalPoolStake>>
taskinfo == <<NextTaskId, user, pool_of, submitted_at, reward>>
verdict == <<status, disputed, ProofSubmittedAt>>
payment == <<Rewards, escrow, released_twice>>
money == <<free, reserved, deposit_held>>
hook == <<to_verify, to_fail>>
vars == <<now, hook, pool, standing, activity, stakes, taskinfo, verdict, payment, money>>

PoolIds == 0..MaxPools - 1
TaskIds == 0..MaxTasks - 1
Undecided == {"Computing", "ProofSubmitted"}
Statuses == {"None", "Completed", "Failed"} \cup Undecided

Least(a, b) == IF a <= b THEN a ELSE b
Monus(a, b) == IF a >= b THEN a - b ELSE 0

(* Calls run after on_initialize. *)
HookDone == to_verify = {} /\ to_fail = {}

-----------------------------------------------------------------------------
Init ==
    LET anyone == CHOOSE a \in Accounts : TRUE IN
    /\ now = 0 /\ to_verify = {} /\ to_fail = {}
    /\ NextPoolId = 0 /\ Pools = {}
    /\ owner = [p \in PoolIds |-> anyone]
    /\ config = [p \in PoolIds |-> CHOOSE c \in Configs : TRUE]
    /\ deposit_held = [p \in PoolIds |-> 0]
    /\ reputation = [p \in PoolIds |-> 0]
    /\ total_tasks = [p \in PoolIds |-> 0]
    /\ completed_tasks = [p \in PoolIds |-> 0]
    /\ failed_tasks = [p \in PoolIds |-> 0]
    /\ MinerReputation = [a \in Accounts |->
                             [reputation |-> 80, total |-> 0, successful |-> 0, failed |-> 0]]
    /\ PoolTasks = [p \in PoolIds |-> {}]
    /\ ActiveTaskCount = [p \in PoolIds |-> 0]
    /\ PoolStakes = [p \in PoolIds |-> [a \in Accounts |-> 0]]
    /\ TotalPoolStake = [p \in PoolIds |-> 0]
    /\ NextTaskId = 0
    /\ user = [t \in TaskIds |-> anyone]
    /\ pool_of = [t \in TaskIds |-> 0]
    /\ status = [t \in TaskIds |-> "None"]
    /\ submitted_at = [t \in TaskIds |-> 0]
    /\ reward = [t \in TaskIds |-> 0]
    /\ disputed = [t \in TaskIds |-> FALSE]
    /\ ProofSubmittedAt = [t \in TaskIds |-> 0]
    /\ Rewards = {}
    /\ escrow = [t \in TaskIds |-> "None"]
    /\ released_twice = {}
    /\ free = [a \in Accounts |-> Endowment]
    /\ reserved = [a \in Accounts |-> 0]

ensure_nvlink(c) == IF c.has_nvlink THEN c.nvlink_efficiency \in 120..150 ELSE c.nvlink_efficiency = 100

acceptable(c) == c.gpu_memory > 0 /\ c.price_per_task > 0 /\ ensure_nvlink(c)

register_pool(who, c) ==
    LET id == NextPoolId
        start == Least(InitialReputation, 100)
    IN
    /\ HookDone
    /\ NextPoolId \in PoolIds
    /\ \A p \in Pools : owner[p] # who
    /\ acceptable(c)
    /\ reserve(who, PoolDeposit)
    /\ NextPoolId' = NextPoolId + 1
    /\ Pools' = Pools \cup {id}
    /\ owner' = [owner EXCEPT ![id] = who]
    /\ config' = [config EXCEPT ![id] = c]
    /\ deposit_held' = [deposit_held EXCEPT ![id] = PoolDeposit]
    /\ reputation' = [reputation EXCEPT ![id] = start]
    /\ MinerReputation' = [MinerReputation EXCEPT ![who] =
                              [reputation |-> start, total |-> 0, successful |-> 0, failed |-> 0]]
    /\ UNCHANGED <<now, hook, total_tasks, completed_tasks, failed_tasks, activity, stakes,
                   taskinfo, verdict, payment>>

(* By the owner. *)
update_pool_config(id, c) ==
    /\ HookDone
    /\ id \in Pools
    /\ acceptable(c)
    /\ config' = [config EXCEPT ![id] = c]
    /\ UNCHANGED <<now, hook, NextPoolId, Pools, owner, standing, activity, stakes, taskinfo,
                   verdict, payment, money>>

no_active_tasks(id) == ActiveTaskCount[id] = 0

(* By the owner. *)
deregister_pool(id) ==
    /\ HookDone
    /\ id \in Pools
    /\ no_active_tasks(id)
    /\ Pools' = Pools \ {id}
    /\ PoolTasks' = [PoolTasks EXCEPT ![id] = {}]
    /\ ActiveTaskCount' = [ActiveTaskCount EXCEPT ![id] = 0]
    /\ unreserve(owner[id], deposit_held[id])
    /\ deposit_held' = [deposit_held EXCEPT ![id] = 0]
    /\ UNCHANGED <<now, hook, NextPoolId, owner, config, standing, stakes, taskinfo, verdict, payment>>

calculate_reward(c, dim) ==
    LET factor == Max({1, dim.complexity \div 1000000})
        base == c.price_per_task * factor
    IN IF c.has_nvlink THEN (base * c.nvlink_efficiency) \div 100 ELSE base

success_rate(p) == IF total_tasks[p] = 0 THEN 100 ELSE (completed_tasks[p] * 100) \div total_tasks[p]

price_score(price, min_price, max_price) ==
    IF max_price = min_price THEN 100
    ELSE 100 - ((price - min_price) * 100) \div (max_price - min_price)

calculate_pool_score(p, min_price, max_price) ==
    LET c == config[p]
        nvlink_score == IF c.has_nvlink THEN (c.nvlink_efficiency * 100) \div 150 ELSE 0
    IN reputation[p] * 40 + success_rate(p) * 30
         + price_score(c.price_per_task, min_price, max_price) * 20 + nvlink_score * 10

has_room(p) == ActiveTaskCount[p] < MaxTasksPerPool

(* The first pools in the order of the hashed ids, which is not known: any  *)
(* of the pools, and all of them while they are few.                        *)
Scans == {seen \in SUBSET Pools : Cardinality(seen) = Least(Cardinality(Pools), MaxScanned)}

candidates(seen, dim) == {p \in seen : has_room(p) /\ config[p].gpu_memory >= dim.k}

(* The pools with the highest score of those seen; the code takes the first *)
(* one of them.                                                             *)
best_of(seen, dim) ==
    LET prices == {config[p].price_per_task : p \in candidates(seen, dim)}
        score(p) == calculate_pool_score(p, Min(prices), Max(prices))
    IN {p \in candidates(seen, dim) : \A q \in candidates(seen, dim) : score(p) >= score(q)}

select_best_pool_for_task(dim) == UNION {best_of(seen, dim) : seen \in Scans}

(* A preferred pool has to pass the same tests, wherever it is listed. *)
submit_task(who, dim, p, preferred) ==
    LET id == NextTaskId
        amount == calculate_reward(config[p], dim)
    IN
    /\ HookDone
    /\ NextTaskId \in TaskIds
    /\ now + TaskTimeout < MaxBlock         \* so that the timeout is reached
    /\ dim.complexity > 0
    /\ p \in IF preferred THEN candidates(Pools, dim) ELSE select_best_pool_for_task(dim)
    /\ reserve(who, amount + TaskDeposit)
    /\ NextTaskId' = NextTaskId + 1
    /\ user' = [user EXCEPT ![id] = who]
    /\ pool_of' = [pool_of EXCEPT ![id] = p]
    /\ status' = [status EXCEPT ![id] = "Computing"]
    /\ submitted_at' = [submitted_at EXCEPT ![id] = now]
    /\ reward' = [reward EXCEPT ![id] = amount]
    /\ PoolTasks' = [PoolTasks EXCEPT ![p] = @ \cup {id}]
    /\ ActiveTaskCount' = [ActiveTaskCount EXCEPT ![p] = @ + 1]
    /\ escrow' = [escrow EXCEPT ![id] = "Held"]
    /\ UNCHANGED <<now, hook, pool, deposit_held, standing, stakes, disputed, ProofSubmittedAt,
                   Rewards, released_twice>>

can_prove(id) == status[id] = "Computing"

(* By the owner of the pool. *)
submit_proof(id) ==
    /\ HookDone
    /\ can_prove(id)
    /\ pool_of[id] \in Pools
    /\ now <= submitted_at[id] + TaskTimeout
    /\ status' = [status EXCEPT ![id] = "ProofSubmitted"]
    /\ ProofSubmittedAt' = [ProofSubmittedAt EXCEPT ![id] = now]
    /\ UNCHANGED <<now, hook, pool, standing, activity, stakes, taskinfo, disputed, payment, money>>

(* Mistake: the task leaves the list but still counts. *)
decrement_list_only(id) ==
    /\ PoolTasks' = [PoolTasks EXCEPT ![pool_of[id]] = @ \ {id}]
    /\ UNCHANGED ActiveTaskCount

decrement_pool_activity(id) ==
    /\ PoolTasks' = [PoolTasks EXCEPT ![pool_of[id]] = @ \ {id}]
    /\ ActiveTaskCount' = [ActiveTaskCount EXCEPT ![pool_of[id]] = Monus(@, 1)]

adjusted(rep, success) == IF success THEN Least(rep + 1, 100) ELSE Monus(rep, 2)

miner_reputation(id, success) ==
    MinerReputation' = [MinerReputation EXCEPT ![owner[pool_of[id]]] =
        [reputation |-> adjusted(@.reputation, success), total |-> @.total + 1,
         successful |-> @.successful + (IF success THEN 1 ELSE 0),
         failed |-> @.failed + (IF success THEN 0 ELSE 1)]]

(* Nothing, if the pool is gone. *)
update_reputation(id, success) ==
    LET p == pool_of[id] IN
    IF p \notin Pools THEN UNCHANGED standing
    ELSE /\ total_tasks' = [total_tasks EXCEPT ![p] = @ + 1]
         /\ completed_tasks' = [completed_tasks EXCEPT ![p] = @ + (IF success THEN 1 ELSE 0)]
         /\ failed_tasks' = [failed_tasks EXCEPT ![p] = @ + (IF success THEN 0 ELSE 1)]
         /\ reputation' = [reputation EXCEPT ![p] = adjusted(@, success)]
         /\ miner_reputation(id, success)

(* Mistake: a failed task does not release the user's money. *)
release_nothing(id) == 0

(* release_escrow: what goes back to the user. *)
released(id) == IF escrow[id] = "None" THEN 0 ELSE reward[id] + TaskDeposit

(* release_escrow, then slash_pool. *)
release_and_slash(id) ==
    LET p == pool_of[id]
        back == Least(released(id), reserved[user[id]])
        left == [reserved EXCEPT ![user[id]] = @ - back]
        slashed == Least(Least(deposit_held[p], FailureSlash), left[owner[p]])
    IN
    /\ Rewards' = Rewards \ {id}
    /\ escrow' = [escrow EXCEPT ![id] = "None"]
    /\ released_twice' = IF escrow[id] = "Claimed" THEN released_twice \cup {id} ELSE released_twice
    /\ free' = [free EXCEPT ![user[id]] = @ + back]
    /\ reserved' = [left EXCEPT ![owner[p]] = @ - slashed]
    /\ deposit_held' = [deposit_held EXCEPT ![p] = @ - slashed]

(* By verify_proof or by the hook.  The attestation that a success triggers *)
(* is modelled in AgentAttestation.                                         *)
finalize_verification(id, result) ==
    /\ status' = [status EXCEPT ![id] = IF result THEN "Completed" ELSE "Failed"]
    /\ decrement_pool_activity(id)
    /\ update_reputation(id, result)
    /\ ProofSubmittedAt' = [ProofSubmittedAt EXCEPT ![id] = 0]
    /\ IF result
         THEN Rewards' = Rewards \cup {id} /\ UNCHANGED <<escrow, released_twice, money>>
         ELSE release_and_slash(id)
    /\ UNCHANGED <<now, pool, stakes, taskinfo, disputed>>

(* By anyone but the owner of the pool. *)
verify_proof(who, id, result) ==
    /\ HookDone
    /\ status[id] = "ProofSubmitted"
    /\ pool_of[id] \in Pools
    /\ owner[pool_of[id]] # who
    /\ finalize_verification(id, result)
    /\ UNCHANGED hook

mark_task_failed(id) ==
    /\ status' = [status EXCEPT ![id] = "Failed"]
    /\ decrement_pool_activity(id)
    /\ update_reputation(id, FALSE)
    /\ ProofSubmittedAt' = [ProofSubmittedAt EXCEPT ![id] = 0]
    /\ release_and_slash(id)
    /\ UNCHANGED <<now, pool, stakes, taskinfo, disputed>>

(* By the owner of the pool.  The reward is paid out of the user's reserve  *)
(* or not at all.                                                           *)
claim_reward(id) ==
    LET who == owner[pool_of[id]]
        rest == [reserved EXCEPT ![user[id]] = @ - reward[id]]
        back == Least(TaskDeposit, rest[user[id]])
    IN
    /\ HookDone
    /\ status[id] = "Completed"
    /\ pool_of[id] \in Pools
    /\ id \in Rewards
    /\ escrow[id] = "Held"
    /\ reserved[user[id]] >= reward[id]
    /\ reserved' = [rest EXCEPT ![user[id]] = @ - back]
    /\ LET paid == [free EXCEPT ![who] = @ + reward[id]]
       IN free' = [paid EXCEPT ![user[id]] = @ + back]
    /\ escrow' = [escrow EXCEPT ![id] = "Claimed"]
    /\ Rewards' = Rewards \ {id}
    /\ UNCHANGED <<now, hook, pool, deposit_held, standing, activity, stakes, taskinfo, verdict,
                   released_twice>>

(* Mistake: a task can be disputed again and again. *)
can_dispute_again(id) == status[id] \in {"Completed", "Failed"}

can_dispute(id) == status[id] \in {"Completed", "Failed"} /\ ~disputed[id]

(* By the user.  Overturning a success needs the pool (slash_pool fails     *)
(* without it); overturning a failure only announces a reward.              *)
dispute_verification(id) ==
    /\ HookDone
    /\ can_dispute(id)
    /\ disputed' = [disputed EXCEPT ![id] = TRUE]
    /\ \/ /\ status[id] = "Completed"
          /\ pool_of[id] \in Pools
          /\ status' = [status EXCEPT ![id] = "Failed"]
          /\ update_reputation(id, FALSE)
          /\ release_and_slash(id)
       \/ /\ status[id] = "Failed"
          /\ status' = [status EXCEPT ![id] = "Completed"]
          /\ Rewards' = Rewards \cup {id}
          /\ update_reputation(id, TRUE)
          /\ UNCHANGED <<escrow, released_twice, money>>
    /\ UNCHANGED <<now, hook, pool, activity, stakes, taskinfo, ProofSubmittedAt>>

stake_to_pool(who, p, amount) ==
    /\ HookDone
    /\ p \in Pools
    /\ PoolStakes[p][who] + amount <= MaxStake
    /\ reserve(who, amount)
    /\ PoolStakes' = [PoolStakes EXCEPT ![p][who] = @ + amount]
    /\ TotalPoolStake' = [TotalPoolStake EXCEPT ![p] = @ + amount]
    /\ UNCHANGED <<now, hook, pool, deposit_held, standing, activity, taskinfo, verdict, payment>>

unstake_total(p, amount) == TotalPoolStake' = [TotalPoolStake EXCEPT ![p] = Monus(@, amount)]

(* Also from a pool that is gone. *)
unstake_from_pool(who, p, amount) ==
    /\ HookDone
    /\ PoolStakes[p][who] >= amount
    /\ unreserve(who, amount)
    /\ PoolStakes' = [PoolStakes EXCEPT ![p][who] = @ - amount]
    /\ unstake_total(p, amount)
    /\ UNCHANGED <<now, hook, pool, deposit_held, standing, activity, taskinfo, verdict, payment>>

-----------------------------------------------------------------------------
Active == UNION {PoolTasks[p] : p \in PoolIds}

(* The tasks on_initialize approves because nobody verified them in time. *)
unverified(block) ==
    {id \in Active : status[id] = "ProofSubmitted" /\ block > ProofSubmittedAt[id] + VerificationTimeout}

(* Mistake: only tasks without a proof time out. *)
overdue_unproven(block) ==
    {id \in Active : status[id] = "Computing" /\ block > submitted_at[id] + TaskTimeout}

(* The tasks it fails, proof or not. *)
overdue(block) ==
    {id \in Active : status[id] \in Undecided /\ block > submitted_at[id] + TaskTimeout} \ unverified(block)

next_block ==
    /\ HookDone
    /\ now < MaxBlock
    /\ now' = now + 1
    /\ to_verify' = unverified(now + 1)
    /\ to_fail' = overdue(now + 1)
    /\ UNCHANGED <<pool, standing, activity, stakes, taskinfo, verdict, payment, money>>

auto_verify(id) ==
    /\ id \in to_verify
    /\ to_verify' = to_verify \ {id}
    /\ finalize_verification(id, TRUE)
    /\ UNCHANGED to_fail

expire(id) ==
    /\ to_verify = {}
    /\ id \in to_fail
    /\ to_fail' = to_fail \ {id}
    /\ mark_task_failed(id)
    /\ UNCHANGED to_verify

on_initialize == \E id \in TaskIds : auto_verify(id) \/ expire(id)

-----------------------------------------------------------------------------
Next ==
    \/ \E who \in Accounts :
          \/ \E c \in Configs : register_pool(who, c)
          \/ \E dim \in Dimensions, p \in PoolIds, preferred \in BOOLEAN :
                submit_task(who, dim, p, preferred)
          \/ \E id \in TaskIds, result \in BOOLEAN : verify_proof(who, id, result)
          \/ \E p \in PoolIds, amount \in StakeAmounts :
                stake_to_pool(who, p, amount) \/ unstake_from_pool(who, p, amount)
    \/ \E p \in PoolIds :
          \/ deregister_pool(p)
          \/ \E c \in Configs : update_pool_config(p, c)
    \/ \E id \in TaskIds :
          \/ submit_proof(id)
          \/ claim_reward(id)
          \/ dispute_verification(id)
    \/ on_initialize
    \/ next_block

Spec == Init /\ [][Next]_vars

-----------------------------------------------------------------------------
(* Every variable keeps its type; reputations stay within 0..100. *)
TypeOK ==
    /\ now \in 0..MaxBlock
    /\ to_verify \subseteq TaskIds /\ to_fail \subseteq TaskIds
    /\ NextPoolId \in 0..MaxPools /\ Pools \subseteq 0..NextPoolId - 1
    /\ owner \in [PoolIds -> Accounts]
    /\ config \in [PoolIds -> Configs]
    /\ deposit_held \in [PoolIds -> 0..PoolDeposit]
    /\ reputation \in [PoolIds -> 0..100]
    /\ \A f \in {total_tasks, completed_tasks, failed_tasks} : f \in [PoolIds -> Nat]
    /\ MinerReputation \in [Accounts -> [reputation : 0..100, total : Nat, successful : Nat, failed : Nat]]
    /\ PoolTasks \in [PoolIds -> SUBSET TaskIds]
    /\ ActiveTaskCount \in [PoolIds -> Nat]
    /\ PoolStakes \in [PoolIds -> [Accounts -> Nat]]
    /\ TotalPoolStake \in [PoolIds -> Nat]
    /\ NextTaskId \in 0..MaxTasks
    /\ user \in [TaskIds -> Accounts]
    /\ pool_of \in [TaskIds -> PoolIds]
    /\ status \in [TaskIds -> Statuses]
    /\ submitted_at \in [TaskIds -> 0..MaxBlock]
    /\ ProofSubmittedAt \in [TaskIds -> 0..MaxBlock]
    /\ reward \in [TaskIds -> Nat]
    /\ disputed \in [TaskIds -> BOOLEAN]
    /\ Rewards \subseteq TaskIds
    /\ escrow \in [TaskIds -> {"None", "Held", "Claimed"}]
    /\ released_twice \subseteq TaskIds
    /\ free \in [Accounts -> Nat]
    /\ reserved \in [Accounts -> Nat]

(* The list of a pool, which the hook scans, and its counter, which limits  *)
(* it and lets it deregister, are exactly its undecided tasks; and the pool *)
(* of an undecided task is always there.                                    *)
ActivityExact ==
    /\ \A p \in PoolIds :
          /\ PoolTasks[p] = {id \in TaskIds : pool_of[id] = p /\ status[id] \in Undecided}
          /\ ActiveTaskCount[p] = Cardinality(PoolTasks[p])
          /\ ActiveTaskCount[p] <= MaxTasksPerPool
          /\ PoolTasks[p] # {} => p \in Pools

(* What an account should have in reserve: the deposit of its pool, its     *)
(* tasks in escrow and its stakes.                                          *)
Deposits(a) == [p \in PoolIds |-> IF p \in Pools /\ owner[p] = a THEN deposit_held[p] ELSE 0]

Escrows(a) ==
    [id \in TaskIds |-> IF user[id] = a /\ escrow[id] = "Held" THEN reward[id] + TaskDeposit ELSE 0]

StakesBy(a) == [p \in PoolIds |-> PoolStakes[p][a]]

Due(a) == SumOver(Deposits(a), PoolIds) + SumOver(Escrows(a), TaskIds) + SumOver(StakesBy(a), PoolIds)

(* Deposits, escrows and stakes share one reserve.  It is exactly their     *)
(* sum, unless the user has disputed a task whose reward had been claimed:  *)
(* then release_escrow returns the escrow a second time, and the reserve    *)
(* falls short of the sum, never beyond it.                                 *)
ReserveIsDue ==
    \A a \in Accounts :
        /\ reserved[a] <= Due(a)
        /\ (\A id \in released_twice : user[id] # a) => reserved[a] = Due(a)

(* After the hook no task is undecided beyond its timeout, nor a proof      *)
(* unverified beyond its own.                                               *)
NothingOverdue ==
    HookDone =>
        \A id \in TaskIds :
            /\ status[id] \in Undecided => now <= submitted_at[id] + TaskTimeout
            /\ status[id] = "ProofSubmitted" => now <= ProofSubmittedAt[id] + VerificationTimeout

(* A verdict changes only through the one dispute of its user, and the      *)
(* reward of a task that was paid and disputed can never be paid again.     *)
VerdictStable ==
    [][\A id \in TaskIds :
          /\ status[id] \in {"Completed", "Failed"} /\ status'[id] # status[id] =>
                 ~disputed[id] /\ disputed'[id]
          /\ disputed[id] /\ escrow[id] = "None" => escrow'[id] = "None"]_vars

(* The record of a miner and that of the miner's pool tell the same story:  *)
(* every verdict, disputes included, counts once in both                    *)
(* (update_reputation).                                                     *)
ReputationMirrored ==
    \A p \in Pools :
        /\ MinerReputation[owner[p]] =
             [reputation |-> reputation[p], total |-> total_tasks[p],
              successful |-> completed_tasks[p], failed |-> failed_tasks[p]]
        /\ total_tasks[p] = completed_tasks[p] + failed_tasks[p]

(* The books of a pool are exact: the lists and counters that admit tasks   *)
(* and let it leave (increment_pool_activity, decrement_pool_activity), and *)
(* the reputation that chooses it (update_reputation).                      *)
PoolRecords == ActivityExact /\ ReputationMirrored

-----------------------------------------------------------------------------
(* The design document says that a reward is locked until its verification: *)
(* the escrow of undecided tasks is always in the user's reserve.           *)
EscrowLocked ==
    \A a \in Accounts :
        SumOver([id \in TaskIds |-> IF user[id] = a /\ status[id] \in Undecided
                                     THEN reward[id] + TaskDeposit ELSE 0], TaskIds) <= reserved[a]
=============================================================================
