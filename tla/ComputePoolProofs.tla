-------------------------- MODULE ComputePoolProofs --------------------------
(***************************************************************************)
(* Proofs about the compute-pool-scheduler pallet, for any accounts,       *)
(* configurations, tasks, stakes, timeouts and bounds.  The books of the   *)
(* pools, what the hook has still to decide, and the sums of the shared    *)
(* reserve are one inductive invariant: a slash takes from a reserve what  *)
(* the deposit on record says, and the deposit of a pool that is gone is   *)
(* zero only because a pool with undecided tasks cannot leave.             *)
(***************************************************************************)
EXTENDS ComputePool, SumTheorems

(* A pool that is gone holds no deposit, one that is not yet registered has *)
(* no record, and an account has at most one pool (register_pool).          *)
PoolsKnown ==
    /\ \A p \in PoolIds :
          /\ p \notin Pools => deposit_held[p] = 0
          /\ p >= NextPoolId => total_tasks[p] = 0 /\ completed_tasks[p] = 0 /\ failed_tasks[p] = 0
    /\ \A p, q \in Pools : owner[p] = owner[q] => p = q

(* An id that is not handed out has neither a dispute nor an escrow.        *)
TasksKnown ==
    \A id \in TaskIds :
        /\ id >= NextTaskId => status[id] = "None"
        /\ status[id] = "None" => ~disputed[id] /\ escrow[id] = "None" /\ id \notin released_twice

(* The hook has before it exactly tasks that are undecided, and every task  *)
(* whose time is up.                                                        *)
HookExact ==
    /\ \A id \in to_verify : status[id] = "ProofSubmitted" /\ id \notin to_fail
    /\ \A id \in to_fail : status[id] \in Undecided
    /\ \A id \in TaskIds :
          /\ status[id] = "ProofSubmitted" /\ now > ProofSubmittedAt[id] + VerificationTimeout =>
                 id \in to_verify
          /\ status[id] \in Undecided /\ now > submitted_at[id] + TaskTimeout =>
                 id \in to_verify \cup to_fail

PInv ==
    /\ TypeOK
    /\ PoolsKnown
    /\ TasksKnown
    /\ ActivityExact
    /\ ReputationMirrored
    /\ HookExact
    /\ ReserveIsDue

(* Most leaves are first-order steps for Zenon; the ones that count, or    *)
(* need several facts on types at once, name SMT.                           *)
USE ZenonT(30)

-----------------------------------------------------------------------------
(* Blocks are integers, and timeouts are naturals.                          *)
LEMMA TimeTypes ==
    ASSUME TypeOK
    PROVE  /\ now \in Int /\ TaskTimeout \in Nat /\ VerificationTimeout \in Nat
           /\ \A id \in TaskIds : submitted_at[id] \in Int /\ ProofSubmittedAt[id] \in Int
<1>1. now \in 0..MaxBlock
    BY DEF TypeOK
<1>2. submitted_at \in [TaskIds -> 0..MaxBlock] /\ ProofSubmittedAt \in [TaskIds -> 0..MaxBlock]
    BY DEF TypeOK
<1>3. TaskTimeout \in Nat /\ VerificationTimeout \in Nat
    BY PoolParams
<1>4. 0..MaxBlock \subseteq Int
    BY SMTT(30), SMTT(40)
<1> QED BY <1>1, <1>2, <1>3, <1>4

(* There are finitely many tasks and pools.                                 *)
LEMMA IdsFinite == IsFiniteSet(TaskIds) /\ IsFiniteSet(PoolIds)
<1>1. MaxTasks - 1 \in Int /\ MaxPools - 1 \in Int /\ 0 \in Int
    BY PoolParams, SMTT(30), SMTT(40)
<1> QED BY <1>1, FS_Interval DEF TaskIds, PoolIds

(* A registered pool has an id that was handed out.                         *)
LEMMA PoolsListed ==
    ASSUME TypeOK
    PROVE  Pools \subseteq PoolIds /\ \A p \in PoolIds : p >= NextPoolId => p \notin Pools
<1>1. MaxPools \in Nat
    BY PoolParams
<1> QED BY <1>1, SMTT(30), SMTT(40) DEF TypeOK, PoolIds

(* Balances are naturals.                                                   *)
LEMMA BalancesType ==
    ASSUME TypeOK
    PROVE  /\ free \in [Accounts -> Nat] /\ reserved \in [Accounts -> Nat]
           /\ \A a \in Accounts : free[a] \in Nat /\ reserved[a] \in Nat
    BY DEF TypeOK

(* What is unreserved of a natural is a natural within the balance.         *)
LEMMA AvailableType ==
    ASSUME NEW a \in Accounts, NEW n \in Nat, reserved[a] \in Nat
    PROVE  Available(a, n) \in Nat /\ Available(a, n) <= reserved[a]
    BY SMTT(30), SMTT(40) DEF Available

(* The parts of what is due are natural numbers.                            *)
LEMMA DueType ==
    ASSUME TypeOK, NEW a \in Accounts
    PROVE  /\ Deposits(a) \in [PoolIds -> Nat] /\ SumOver(Deposits(a), PoolIds) \in Nat
           /\ Escrows(a) \in [TaskIds -> Nat] /\ SumOver(Escrows(a), TaskIds) \in Nat
           /\ StakesBy(a) \in [PoolIds -> Nat] /\ SumOver(StakesBy(a), PoolIds) \in Nat
<1>1. PoolDeposit \in Nat /\ TaskDeposit \in Nat
    BY PoolParams
<1>2. Deposits(a) \in [PoolIds -> Nat]
    BY <1>1, SMTT(30), SMTT(40) DEF Deposits, TypeOK
<1>3. Escrows(a) \in [TaskIds -> Nat]
    BY <1>1, SMTT(30), SMTT(40) DEF Escrows, TypeOK
<1>4. StakesBy(a) \in [PoolIds -> Nat]
    BY SMTT(30), SMTT(40) DEF StakesBy, TypeOK
<1> QED BY <1>2, <1>3, <1>4, IdsFinite, SumType

(* The same in the next state.                                              *)
LEMMA DueTypeNext ==
    ASSUME TypeOK', NEW a \in Accounts
    PROVE  /\ Deposits(a)' \in [PoolIds -> Nat] /\ SumOver(Deposits(a)', PoolIds) \in Nat
           /\ Escrows(a)' \in [TaskIds -> Nat] /\ SumOver(Escrows(a)', TaskIds) \in Nat
           /\ StakesBy(a)' \in [PoolIds -> Nat] /\ SumOver(StakesBy(a)', PoolIds) \in Nat
<1>1. PoolDeposit \in Nat /\ TaskDeposit \in Nat
    BY PoolParams
<1>2. Deposits(a)' \in [PoolIds -> Nat]
    BY <1>1, SMTT(30), SMTT(40) DEF Deposits, TypeOK
<1>3. Escrows(a)' \in [TaskIds -> Nat]
    BY <1>1, SMTT(30), SMTT(40) DEF Escrows, TypeOK
<1>4. StakesBy(a)' \in [PoolIds -> Nat]
    BY SMTT(30), SMTT(40) DEF StakesBy, TypeOK
<1> QED BY <1>2, <1>3, <1>4, IdsFinite, SumType

(* Where one deposit, escrow or stake changes, what is due changes by it.   *)
LEMMA DepositsStep ==
    ASSUME TypeOK, TypeOK', NEW a \in Accounts, NEW q \in PoolIds,
           \A p \in PoolIds \ {q} : Deposits(a)'[p] = Deposits(a)[p]
    PROVE  SumOver(Deposits(a)', PoolIds) + Deposits(a)[q] =
           SumOver(Deposits(a), PoolIds) + Deposits(a)'[q]
BY DueType, DueTypeNext, IdsFinite, SumUpdate, SMTT(30), SMTT(40)

(* The same for the escrow of one task.                                     *)
LEMMA EscrowsStep ==
    ASSUME TypeOK, TypeOK', NEW a \in Accounts, NEW t \in TaskIds,
           \A i \in TaskIds \ {t} : Escrows(a)'[i] = Escrows(a)[i]
    PROVE  SumOver(Escrows(a)', TaskIds) + Escrows(a)[t] =
           SumOver(Escrows(a), TaskIds) + Escrows(a)'[t]
BY DueType, DueTypeNext, IdsFinite, SumUpdate, SMTT(30), SMTT(40)

(* The same for the stake in one pool.                                      *)
LEMMA StakesStep ==
    ASSUME TypeOK, TypeOK', NEW a \in Accounts, NEW q \in PoolIds,
           \A p \in PoolIds \ {q} : StakesBy(a)'[p] = StakesBy(a)[p]
    PROVE  SumOver(StakesBy(a)', PoolIds) + StakesBy(a)[q] =
           SumOver(StakesBy(a), PoolIds) + StakesBy(a)'[q]
BY DueType, DueTypeNext, IdsFinite, SumUpdate, SMTT(30), SMTT(40)

(* One deposit, escrow or stake is at most what is due.                     *)
LEMMA DueMember ==
    ASSUME TypeOK, NEW a \in Accounts
    PROVE  /\ Due(a) \in Nat
           /\ \A p \in PoolIds : Deposits(a)[p] <= Due(a) /\ StakesBy(a)[p] <= Due(a)
           /\ \A i \in TaskIds : Escrows(a)[i] <= Due(a)
<1> DEFINE d == SumOver(Deposits(a), PoolIds)
           e == SumOver(Escrows(a), TaskIds)
           k == SumOver(StakesBy(a), PoolIds)
<1>1. d \in Nat /\ e \in Nat /\ k \in Nat
    BY DueType
<1>2. Due(a) = d + e + k
    BY DEF Due
<1>3. \A p \in PoolIds : Deposits(a)[p] \in Nat /\ StakesBy(a)[p] \in Nat
    BY DueType
<1>4. \A i \in TaskIds : Escrows(a)[i] \in Nat
    BY DueType
<1>5. \A p \in PoolIds : Deposits(a)[p] <= d
    BY DueType, IdsFinite, SumMember
<1>6. \A p \in PoolIds : StakesBy(a)[p] <= k
    BY DueType, IdsFinite, SumMember
<1>7. \A i \in TaskIds : Escrows(a)[i] <= e
    BY DueType, IdsFinite, SumMember
<1> HIDE DEF d, e, k
<1> QED BY <1>1, <1>2, <1>3, <1>4, <1>5, <1>6, <1>7, SMTT(30), SMTT(40)

-----------------------------------------------------------------------------
(* decrement_pool_activity: a decided task leaves the list and the count of *)
(* its pool together.                                                       *)
LEMMA ActivityStep ==
    ASSUME TypeOK, ActivityExact, NEW id \in TaskIds, NEW s \in Statuses \ Undecided,
           status[id] \in Undecided, decrement_pool_activity(id),
           status' = [status EXCEPT ![id] = s], UNCHANGED <<Pools, pool_of>>
    PROVE  /\ ActivityExact'
           /\ PoolTasks' \in [PoolIds -> SUBSET TaskIds] /\ ActiveTaskCount' \in [PoolIds -> Nat]
<1>1. PICK q \in PoolIds : q = pool_of[id]
    BY DEF TypeOK
<1>2. /\ PoolTasks' = [PoolTasks EXCEPT ![q] = @ \ {id}]
      /\ ActiveTaskCount' = [ActiveTaskCount EXCEPT ![q] = Monus(@, 1)]
    BY <1>1 DEF decrement_pool_activity
<1>3. PoolTasks' \in [PoolIds -> SUBSET TaskIds] /\ ActiveTaskCount' \in [PoolIds -> Nat]
    BY <1>2, SMTT(30), SMTT(40) DEF TypeOK, Monus
<1>4. ASSUME NEW p \in PoolIds
      PROVE  /\ PoolTasks'[p] = {i \in TaskIds : pool_of'[i] = p /\ status'[i] \in Undecided}
             /\ ActiveTaskCount'[p] = Cardinality(PoolTasks'[p])
             /\ ActiveTaskCount'[p] <= MaxTasksPerPool
             /\ PoolTasks'[p] # {} => p \in Pools'
  <2> DEFINE T == PoolTasks[p]
  <2>1. /\ T = {i \in TaskIds : pool_of[i] = p /\ status[i] \in Undecided}
        /\ ActiveTaskCount[p] = Cardinality(T) /\ ActiveTaskCount[p] <= MaxTasksPerPool
        /\ T # {} => p \in Pools
    BY DEF ActivityExact
  <2>2. CASE p = q
    <3>1. PoolTasks'[p] = T \ {id} /\ id \in T
      BY <1>1, <1>2, <2>1, <2>2 DEF TypeOK
    <3>2. PoolTasks'[p] = {i \in TaskIds : pool_of'[i] = p /\ status'[i] \in Undecided}
      BY <2>1, <3>1 DEF TypeOK
    <3>3. ActiveTaskCount'[p] = Monus(ActiveTaskCount[p], 1)
      BY <1>2, <2>2 DEF TypeOK
    <3>4. IsFiniteSet(T)
      BY <2>1, IdsFinite, FS_Subset
    <3> HIDE DEF T
    <3>5. Cardinality(T \ {id}) = Cardinality(T) - 1 /\ Cardinality(T \ {id}) \in Nat /\ Cardinality(T) \in Nat
      BY <3>1, <3>4, FS_RemoveElement, FS_CardinalityType
    <3>6. MaxTasksPerPool \in Nat
      BY PoolParams
    <3>7. ActiveTaskCount'[p] = Cardinality(T \ {id}) /\ ActiveTaskCount'[p] <= MaxTasksPerPool
      BY <2>1, <3>3, <3>5, <3>6, SMTT(30), SMTT(40) DEF Monus
    <3> QED BY <2>1, <3>1, <3>2, <3>7
  <2>3. CASE p # q
    <3>1. PoolTasks'[p] = T /\ ActiveTaskCount'[p] = ActiveTaskCount[p]
      BY <1>2, <2>3 DEF TypeOK
    <3>2. \A i \in TaskIds : pool_of'[i] = p /\ status'[i] \in Undecided <=>
                              pool_of[i] = p /\ status[i] \in Undecided
      BY <1>1, <2>3 DEF TypeOK
    <3> QED BY <2>1, <3>1, <3>2
  <2> QED BY <2>2, <2>3
<1> QED BY <1>3, <1>4 DEF ActivityExact

(* update_reputation: the records of the pool and of its owner move         *)
(* together; the records of a pool that is gone are left alone.             *)
LEMMA ReputationStep ==
    ASSUME TypeOK, PoolsKnown, ReputationMirrored, NEW id \in TaskIds, NEW success \in BOOLEAN,
           update_reputation(id, success), UNCHANGED <<Pools, owner, NextPoolId>>
    PROVE  /\ ReputationMirrored'
           /\ reputation' \in [PoolIds -> 0..100]
           /\ \A f \in {total_tasks', completed_tasks', failed_tasks'} : f \in [PoolIds -> Nat]
           /\ MinerReputation' \in [Accounts -> [reputation : 0..100, total : Nat, successful : Nat, failed : Nat]]
           /\ \A p \in PoolIds : p >= NextPoolId =>
                  total_tasks'[p] = 0 /\ completed_tasks'[p] = 0 /\ failed_tasks'[p] = 0
<1>1. PICK q \in PoolIds : q = pool_of[id]
    BY DEF TypeOK
<1>2. CASE q \notin Pools
  <2>1. UNCHANGED <<reputation, total_tasks, completed_tasks, failed_tasks, MinerReputation>>
    BY <1>1, <1>2 DEF update_reputation, standing
  <2> QED BY <2>1 DEF TypeOK, PoolsKnown, ReputationMirrored
<1>3. CASE q \in Pools
  <2>1. PICK o \in Accounts : o = owner[q]
    BY DEF TypeOK
  <2> DEFINE up == IF success THEN 1 ELSE 0
             down == IF success THEN 0 ELSE 1
             rep(r) == adjusted(r, success)
  <2>2. up \in Nat /\ down \in Nat /\ up + down = 1
    BY SMTT(30), SMTT(40)
  <2>3. \A r \in 0..100 : rep(r) \in 0..100
    BY SMTT(30), SMTT(40) DEF adjusted, Least, Monus
  <2>4. /\ total_tasks' = [total_tasks EXCEPT ![q] = @ + 1]
        /\ completed_tasks' = [completed_tasks EXCEPT ![q] = @ + up]
        /\ failed_tasks' = [failed_tasks EXCEPT ![q] = @ + down]
        /\ reputation' = [reputation EXCEPT ![q] = rep(@)]
        /\ MinerReputation' = [MinerReputation EXCEPT ![o] =
              [reputation |-> rep(@.reputation), total |-> @.total + 1,
               successful |-> @.successful + up, failed |-> @.failed + down]]
    BY <1>1, <1>3, <2>1 DEF update_reputation, miner_reputation
  <2> HIDE DEF up, down, rep
  <2>5. /\ total_tasks \in [PoolIds -> Nat] /\ completed_tasks \in [PoolIds -> Nat]
        /\ failed_tasks \in [PoolIds -> Nat] /\ reputation \in [PoolIds -> 0..100]
        /\ MinerReputation \in [Accounts -> [reputation : 0..100, total : Nat, successful : Nat, failed : Nat]]
    BY DEF TypeOK
  <2>6. /\ total_tasks' \in [PoolIds -> Nat] /\ completed_tasks' \in [PoolIds -> Nat]
        /\ failed_tasks' \in [PoolIds -> Nat]
    BY <2>2, <2>4, <2>5, SMTT(30), SMTT(40)
  <2>7. reputation' \in [PoolIds -> 0..100]
    BY <2>3, <2>4, <2>5
  <2>8. MinerReputation' \in [Accounts -> [reputation : 0..100, total : Nat, successful : Nat, failed : Nat]]
    <3> DEFINE R == [reputation : 0..100, total : Nat, successful : Nat, failed : Nat]
               new == [reputation |-> rep(MinerReputation[o].reputation),
                       total |-> MinerReputation[o].total + 1,
                       successful |-> MinerReputation[o].successful + up,
                       failed |-> MinerReputation[o].failed + down]
    <3>1. MinerReputation[o] \in R
      BY <2>5
    <3>2. new \in R
      <4>1. /\ MinerReputation[o].reputation \in 0..100 /\ MinerReputation[o].total \in Nat
            /\ MinerReputation[o].successful \in Nat /\ MinerReputation[o].failed \in Nat
        BY <3>1
      <4>2. /\ MinerReputation[o].total + 1 \in Nat /\ MinerReputation[o].successful + up \in Nat
            /\ MinerReputation[o].failed + down \in Nat
        BY <2>2, <4>1, SMTT(30), SMTT(40)
      <4>3. rep(MinerReputation[o].reputation) \in 0..100
        BY <2>3, <4>1
      <4> QED BY <4>2, <4>3
    <3>3. MinerReputation' = [MinerReputation EXCEPT ![o] = new]
      BY <2>4
    <3> HIDE DEF new, R
    <3>4. MinerReputation \in [Accounts -> R]
      BY <2>5 DEF R
    <3>5. MinerReputation' \in [Accounts -> R]
      BY <3>2, <3>3, <3>4
    <3> QED BY <3>5 DEF R
  <2>9. \A p \in PoolIds : p >= NextPoolId =>
            total_tasks'[p] = 0 /\ completed_tasks'[p] = 0 /\ failed_tasks'[p] = 0
    <3>1. \A p \in PoolIds : p >= NextPoolId => p # q
      BY <1>3, PoolsListed
    <3> QED BY <2>4, <2>5, <3>1 DEF PoolsKnown
  <2>10. ReputationMirrored'
    <3> SUFFICES ASSUME NEW p \in Pools
                 PROVE  /\ MinerReputation'[owner[p]] =
                             [reputation |-> reputation'[p], total |-> total_tasks'[p],
                              successful |-> completed_tasks'[p], failed |-> failed_tasks'[p]]
                        /\ total_tasks'[p] = completed_tasks'[p] + failed_tasks'[p]
      BY DEF ReputationMirrored
    <3>1. p \in PoolIds /\ owner[p] \in Accounts
      BY PoolsListed DEF TypeOK
    <3>2. /\ MinerReputation[owner[p]] =
                 [reputation |-> reputation[p], total |-> total_tasks[p],
                  successful |-> completed_tasks[p], failed |-> failed_tasks[p]]
          /\ total_tasks[p] = completed_tasks[p] + failed_tasks[p]
      BY DEF ReputationMirrored
    <3>3. CASE p = q
      <4>1. total_tasks'[p] = completed_tasks'[p] + failed_tasks'[p]
        BY <2>2, <2>4, <2>5, <3>2, <3>3, SMTT(30), SMTT(40)
      <4>2. MinerReputation'[o] =
              [reputation |-> rep(MinerReputation[o].reputation), total |-> MinerReputation[o].total + 1,
               successful |-> MinerReputation[o].successful + up, failed |-> MinerReputation[o].failed + down]
        BY <2>4, <2>5
      <4> QED BY <2>1, <2>4, <2>5, <3>2, <3>3, <4>1, <4>2, SMTT(30), SMTT(40)
    <3>4. CASE p # q
      <4>1. owner[p] # o
        BY <1>3, <2>1, <3>4 DEF PoolsKnown
      <4> QED BY <2>4, <2>5, <3>1, <3>2, <3>4, <4>1
    <3> QED BY <3>3, <3>4
  <2> QED BY <2>6, <2>7, <2>8, <2>9, <2>10
<1> QED BY <1>2, <1>3

-----------------------------------------------------------------------------
(* release_escrow and slash_pool, when the user and the owner of the pool   *)
(* may be the same account.                                                 *)
LEMMA ReleaseTypes ==
    ASSUME TypeOK, PoolsKnown, NEW id \in TaskIds, release_and_slash(id)
    PROVE  /\ Rewards' \subseteq TaskIds
           /\ escrow' \in [TaskIds -> {"None", "Held", "Claimed"}]
           /\ released_twice' \subseteq TaskIds
           /\ free' \in [Accounts -> Nat] /\ reserved' \in [Accounts -> Nat]
           /\ deposit_held' \in [PoolIds -> 0..PoolDeposit]
           /\ \A p \in PoolIds : p \notin Pools => deposit_held'[p] = 0
<1>1. PICK q \in PoolIds, u \in Accounts, o \in Accounts : q = pool_of[id] /\ u = user[id] /\ o = owner[q]
    BY DEF TypeOK
<1> DEFINE back == Least(released(id), reserved[u])
           left == [reserved EXCEPT ![u] = @ - back]
           slashed == Least(Least(deposit_held[q], FailureSlash), left[o])
<1>2. /\ Rewards' = Rewards \ {id}
      /\ escrow' = [escrow EXCEPT ![id] = "None"]
      /\ released_twice' = IF escrow[id] = "Claimed" THEN released_twice \cup {id} ELSE released_twice
      /\ free' = [free EXCEPT ![u] = @ + back]
      /\ reserved' = [left EXCEPT ![o] = @ - slashed]
      /\ deposit_held' = [deposit_held EXCEPT ![q] = @ - slashed]
    BY <1>1 DEF release_and_slash
<1>3. released(id) \in Nat
  <2>1. TaskDeposit \in Nat /\ reward[id] \in Nat
    BY PoolParams DEF TypeOK
  <2> QED BY <2>1, SMTT(30), SMTT(40) DEF released
<1>4. back \in Nat /\ back <= reserved[u] /\ reserved[u] \in Nat
    BY <1>3, SMTT(30), SMTT(40) DEF Least, TypeOK
<1> HIDE DEF back
<1>5. left \in [Accounts -> Nat]
    BY <1>4, SMTT(30), SMTT(40) DEF TypeOK
<1>6. left[o] \in Nat
    BY <1>5
<1> HIDE DEF left
<1>7. FailureSlash \in Nat /\ PoolDeposit \in Nat /\ deposit_held[q] \in 0..PoolDeposit
    BY PoolParams DEF TypeOK
<1>8. slashed \in Nat /\ slashed <= left[o] /\ slashed <= deposit_held[q]
    BY <1>6, <1>7, SMTT(30), SMTT(40) DEF Least
<1> HIDE DEF slashed
<1>9. free' \in [Accounts -> Nat]
    BY <1>2, <1>4, SMTT(30), SMTT(40) DEF TypeOK
<1>10. reserved' \in [Accounts -> Nat]
    BY <1>2, <1>5, <1>8, SMTT(30), SMTT(40)
<1>11. deposit_held[q] - slashed \in 0..PoolDeposit
    BY <1>7, <1>8, SMTT(30), SMTT(40)
<1>12. deposit_held' \in [PoolIds -> 0..PoolDeposit]
    BY <1>2, <1>11 DEF TypeOK
<1>13. ASSUME NEW p \in PoolIds, p \notin Pools PROVE deposit_held'[p] = 0
  <2>1. deposit_held[p] = 0
    BY <1>13 DEF PoolsKnown
  <2>2. CASE p = q
    <3>1. deposit_held'[p] = deposit_held[p] - slashed
      BY <1>2, <2>2 DEF TypeOK
    <3> QED BY <1>8, <2>1, <2>2, <3>1, SMTT(30), SMTT(40)
  <2>3. CASE p # q
    BY <1>2, <2>1, <2>3 DEF TypeOK
  <2> QED BY <2>2, <2>3
<1>14. /\ Rewards' \subseteq TaskIds /\ released_twice' \subseteq TaskIds
       /\ escrow' \in [TaskIds -> {"None", "Held", "Claimed"}]
    BY <1>2 DEF TypeOK
<1> QED BY <1>9, <1>10, <1>12, <1>13, <1>14

(* The reserve still covers what is due, and exactly so unless an escrow    *)
(* of the account is released after its claim.                              *)
LEMMA ReleaseStep ==
    ASSUME TypeOK, TypeOK', PoolsKnown, ReserveIsDue, NEW id \in TaskIds, release_and_slash(id),
           UNCHANGED <<Pools, owner, user, reward, PoolStakes, pool_of>>
    PROVE  ReserveIsDue'
<1>1. PICK q \in PoolIds, u \in Accounts, o \in Accounts : q = pool_of[id] /\ u = user[id] /\ o = owner[q]
    BY DEF TypeOK
<1> DEFINE back == Least(released(id), reserved[u])
           left == [reserved EXCEPT ![u] = @ - back]
           slashed == Least(Least(deposit_held[q], FailureSlash), left[o])
<1>2. /\ escrow' = [escrow EXCEPT ![id] = "None"]
      /\ released_twice' = IF escrow[id] = "Claimed" THEN released_twice \cup {id} ELSE released_twice
      /\ reserved' = [left EXCEPT ![o] = @ - slashed]
      /\ deposit_held' = [deposit_held EXCEPT ![q] = @ - slashed]
    BY <1>1 DEF release_and_slash
<1>3. released(id) \in Nat /\ TaskDeposit \in Nat /\ reward[id] \in Nat
  <2>1. TaskDeposit \in Nat /\ reward[id] \in Nat
    BY PoolParams DEF TypeOK
  <2> QED BY <2>1, SMTT(30), SMTT(40) DEF released
<1>4. back \in Nat /\ back <= reserved[u] /\ back <= released(id) /\ reserved[u] \in Nat
      /\ (back = released(id) \/ back = reserved[u])
    BY <1>3, SMTT(30), SMTT(40) DEF Least, TypeOK
<1> HIDE DEF back
<1>5. left \in [Accounts -> Nat] /\ \A a \in Accounts : left[a] = IF a = u THEN reserved[u] - back ELSE reserved[a]
    BY <1>4, SMTT(30), SMTT(40) DEF TypeOK
<1> HIDE DEF left
<1>6. slashed \in Nat /\ slashed <= left[o] /\ slashed <= deposit_held[q] /\ deposit_held[q] \in Nat
  <2>1. FailureSlash \in Nat /\ PoolDeposit \in Nat /\ deposit_held[q] \in 0..PoolDeposit /\ left[o] \in Nat
    BY <1>5, PoolParams DEF TypeOK
  <2> QED BY <2>1, SMTT(30), SMTT(40) DEF Least
<1> HIDE DEF slashed
<1>7. \A a \in Accounts : reserved'[a] = IF a = o THEN left[o] - slashed ELSE left[a]
    BY <1>2, <1>5
<1>8. q \notin Pools => slashed = 0
    BY <1>6, SMTT(30), SMTT(40) DEF PoolsKnown
<1> SUFFICES ASSUME NEW a \in Accounts
             PROVE  /\ reserved'[a] <= Due(a)'
                    /\ (\A i \in released_twice' : user'[i] # a) => reserved'[a] = Due(a)'
    BY DEF ReserveIsDue
<1> DEFINE d == SumOver(Deposits(a), PoolIds)
           e == SumOver(Escrows(a), TaskIds)
           k == SumOver(StakesBy(a), PoolIds)
           dd == SumOver(Deposits(a)', PoolIds)
           ee == SumOver(Escrows(a)', TaskIds)
           freed == IF a = u /\ escrow[id] = "Held" THEN reward[id] + TaskDeposit ELSE 0
           cut == IF a = o THEN slashed ELSE 0
<1>9. d \in Nat /\ e \in Nat /\ k \in Nat /\ dd \in Nat /\ ee \in Nat
    BY DueType, DueTypeNext
<1>10. Due(a) = d + e + k
    BY DEF Due
<1>11. Due(a)' = dd + ee + k
  <2>1. StakesBy(a)' = StakesBy(a)
    BY DEF StakesBy
  <2> QED BY <2>1 DEF Due
<1>12. ee + freed = e
  <2>1. \A i \in TaskIds \ {id} : Escrows(a)'[i] = Escrows(a)[i]
    <3>1. UNCHANGED <<user, reward>> /\ \A i \in TaskIds \ {id} : escrow'[i] = escrow[i]
      BY <1>2 DEF TypeOK
    <3> QED BY <3>1, SMTT(30), SMTT(40) DEF Escrows
  <2>2. Escrows(a)[id] = freed /\ Escrows(a)'[id] = 0
    BY <1>1, <1>2, SMTT(30), SMTT(40) DEF Escrows, TypeOK
  <2>3. ee + Escrows(a)[id] = e + Escrows(a)'[id]
    BY <2>1, EscrowsStep
  <2> HIDE DEF freed, e, ee
  <2> QED BY <1>9, <2>2, <2>3, SMTT(30), SMTT(40)
<1>13. dd + cut = d
  <2>1. \A p \in PoolIds \ {q} : Deposits(a)'[p] = Deposits(a)[p]
    BY <1>2 DEF Deposits, TypeOK
  <2>2. dd + Deposits(a)[q] = d + Deposits(a)'[q]
    BY <2>1, DepositsStep
  <2>3. Deposits(a)[q] = (IF q \in Pools /\ a = o THEN deposit_held[q] ELSE 0)
        /\ Deposits(a)'[q] = (IF q \in Pools /\ a = o THEN deposit_held[q] - slashed ELSE 0)
    BY <1>1, <1>2 DEF Deposits, TypeOK
  <2> HIDE DEF d, dd
  <2> QED BY <1>6, <1>8, <1>9, <2>2, <2>3, SMTT(30), SMTT(40)
<1>14. freed \in Nat /\ cut \in Nat
    BY <1>3, <1>6, SMTT(30), SMTT(40)
<1>15. reserved[a] \in Nat /\ reserved'[a] = (IF a = u THEN reserved[a] - back ELSE reserved[a]) - cut
    BY <1>5, <1>7, SMTT(30), SMTT(40) DEF TypeOK
<1>16. reserved'[a] \in Nat
    BY DEF TypeOK
<1>17. /\ reserved[a] <= Due(a)
       /\ (\A i \in released_twice : user[i] # a) => reserved[a] = Due(a)
    BY DEF ReserveIsDue
<1>18. CASE a # u
  <2>1. freed = 0 /\ reserved'[a] = reserved[a] - cut
    BY <1>15, <1>18
  <2>2. (\A i \in released_twice' : user'[i] # a) => \A i \in released_twice : user[i] # a
    BY <1>2
  <2> HIDE DEF d, e, k, dd, ee, freed, cut
  <2>3. Due(a)' = Due(a) - cut
    BY <1>9, <1>10, <1>11, <1>12, <1>13, <1>14, <2>1, SMTT(30), SMTT(40)
  <2>4. Due(a) \in Nat
    BY <1>9, <1>10, SMTT(30), SMTT(40)
  <2> QED BY <1>14, <1>15, <1>17, <2>1, <2>2, <2>3, <2>4, SMTT(30), SMTT(40)
<1>19. CASE a = u /\ escrow[id] = "Held"
  <2>1. freed = released(id)
    BY <1>19 DEF released
  <2>2. (\A i \in released_twice' : user'[i] # a) => \A i \in released_twice : user[i] # a
    BY <1>2
  <2>3. reserved'[a] = reserved[a] - back - cut
    BY <1>15, <1>19
  <2>4. back = reserved[a] => cut = 0
    <3>1. back = reserved[a] => left[u] = 0
      BY <1>4, <1>5, <1>19, SMTT(30), SMTT(40)
    <3> QED BY <1>6, <1>19, <3>1, SMTT(30), SMTT(40)
  <2> HIDE DEF d, e, k, dd, ee, freed, cut
  <2>5. Due(a)' = Due(a) - cut - freed /\ freed <= Due(a) /\ Due(a)' \in Nat /\ Due(a) \in Nat
    BY <1>9, <1>10, <1>11, <1>12, <1>13, <1>14, SMTT(30), SMTT(40)
  <2>6. CASE back = freed
    BY <1>4, <1>14, <1>15, <1>17, <2>2, <2>3, <2>5, <2>6, SMTT(30), SMTT(40)
  <2>7. CASE back # freed
    <3>1. back = reserved[a] /\ reserved[a] < freed
      BY <1>4, <1>14, <1>19, <2>1, <2>7, SMTT(30), SMTT(40)
    <3>2. reserved'[a] = 0
      BY <1>15, <2>3, <2>4, <3>1, SMTT(30), SMTT(40)
    <3>3. reserved[a] # Due(a)
      BY <1>14, <1>15, <2>5, <3>1, SMTT(30), SMTT(40)
    <3> QED BY <1>17, <2>2, <2>5, <3>2, <3>3, SMTT(30), SMTT(40)
  <2> QED BY <2>6, <2>7
<1>20. CASE a = u /\ escrow[id] = "Claimed"
  <2>1. freed = 0 /\ reserved'[a] = reserved[a] - back - cut
    BY <1>15, <1>20
  <2>2. ~ \A i \in released_twice' : user'[i] # a
    BY <1>1, <1>2, <1>20
  <2> HIDE DEF d, e, k, dd, ee, freed, cut
  <2>3. Due(a)' = Due(a) - cut /\ Due(a) \in Nat
    BY <1>9, <1>10, <1>11, <1>12, <1>13, <1>14, <2>1, SMTT(30), SMTT(40)
  <2>4. reserved'[a] <= Due(a)'
    BY <1>4, <1>14, <1>15, <1>17, <2>1, <2>3, SMTT(30), SMTT(40)
  <2> QED BY <2>2, <2>4
<1>21. CASE a = u /\ escrow[id] = "None"
  <2>1. freed = 0 /\ reserved'[a] = reserved[a] - back - cut
    BY <1>15, <1>21
  <2>2. back = 0
    <3>1. released(id) = 0
      BY <1>21 DEF released
    <3> QED BY <1>4, <3>1, SMTT(30), SMTT(40)
  <2>3. (\A i \in released_twice' : user'[i] # a) => \A i \in released_twice : user[i] # a
    BY <1>2
  <2> HIDE DEF d, e, k, dd, ee, freed, cut
  <2>4. Due(a)' = Due(a) - cut /\ Due(a) \in Nat
    BY <1>9, <1>10, <1>11, <1>12, <1>13, <1>14, <2>1, SMTT(30), SMTT(40)
  <2> QED BY <1>14, <1>15, <1>17, <2>1, <2>2, <2>3, <2>4, SMTT(30), SMTT(40)
<1> QED BY <1>18, <1>19, <1>20, <1>21 DEF TypeOK

-----------------------------------------------------------------------------
(* An untouched account: nothing that it has in reserve or that is due to   *)
(* it changes.                                                              *)
LEMMA ReserveKept ==
    ASSUME ReserveIsDue, UNCHANGED <<Pools, owner, deposit_held, user, escrow, reward, PoolStakes,
                                     released_twice, reserved>>
    PROVE  ReserveIsDue'
<1>1. \A a \in Accounts : Deposits(a)' = Deposits(a) /\ Escrows(a)' = Escrows(a) /\ StakesBy(a)' = StakesBy(a)
    BY DEF Deposits, Escrows, StakesBy
<1>2. \A a \in Accounts : Due(a)' = Due(a)
    BY <1>1 DEF Due
<1> QED BY <1>2 DEF ReserveIsDue

(* finalize_verification, by a verifier or by the hook, and mark_task_failed. *)
LEMMA FinalStep ==
    ASSUME PInv, NEW id \in TaskIds, NEW result \in BOOLEAN, status[id] \in Undecided,
           finalize_verification(id, result), to_verify' \subseteq TaskIds, to_fail' \subseteq TaskIds
    PROVE  (TypeOK /\ PoolsKnown /\ TasksKnown /\ ActivityExact /\ ReputationMirrored /\ ReserveIsDue)'
<1> USE DEF PInv
<1>1. PICK s \in {"Completed", "Failed"} : s = IF result THEN "Completed" ELSE "Failed"
    OBVIOUS
<1>2. /\ status' = [status EXCEPT ![id] = s]
      /\ decrement_pool_activity(id)
      /\ update_reputation(id, result)
      /\ ProofSubmittedAt' = [ProofSubmittedAt EXCEPT ![id] = 0]
      /\ UNCHANGED <<now, NextPoolId, Pools, owner, config, PoolStakes, TotalPoolStake, NextTaskId,
                     user, pool_of, submitted_at, reward, disputed>>
    BY <1>1 DEF finalize_verification, pool, stakes, taskinfo
<1>3. s \in Statuses \ Undecided
    BY DEF Statuses, Undecided
<1>4. /\ ActivityExact'
      /\ PoolTasks' \in [PoolIds -> SUBSET TaskIds] /\ ActiveTaskCount' \in [PoolIds -> Nat]
    BY <1>2, <1>3, ActivityStep
<1>5. /\ ReputationMirrored'
      /\ reputation' \in [PoolIds -> 0..100]
      /\ \A f \in {total_tasks', completed_tasks', failed_tasks'} : f \in [PoolIds -> Nat]
      /\ MinerReputation' \in [Accounts -> [reputation : 0..100, total : Nat, successful : Nat, failed : Nat]]
      /\ \A p \in PoolIds : p >= NextPoolId =>
             total_tasks'[p] = 0 /\ completed_tasks'[p] = 0 /\ failed_tasks'[p] = 0
    BY <1>2, ReputationStep
<1>6. /\ Rewards' \subseteq TaskIds
      /\ escrow' \in [TaskIds -> {"None", "Held", "Claimed"}]
      /\ released_twice' \subseteq TaskIds
      /\ free' \in [Accounts -> Nat] /\ reserved' \in [Accounts -> Nat]
      /\ deposit_held' \in [PoolIds -> 0..PoolDeposit]
      /\ \A p \in PoolIds : p \notin Pools => deposit_held'[p] = 0
  <2>1. CASE result
    <3>1. Rewards' = Rewards \cup {id} /\ UNCHANGED <<escrow, released_twice, free, reserved, deposit_held>>
      BY <2>1 DEF finalize_verification, money
    <3> QED BY <3>1 DEF TypeOK, PoolsKnown
  <2>2. CASE ~result
    <3>1. release_and_slash(id)
      BY <2>2 DEF finalize_verification
    <3> QED BY <3>1, ReleaseTypes
  <2> QED BY <2>1, <2>2
<1>7. TypeOK'
  <2>1. status' \in [TaskIds -> Statuses] /\ ProofSubmittedAt' \in [TaskIds -> 0..MaxBlock]
    BY <1>2, <1>3, ReserveParams, SMTT(30), SMTT(40) DEF TypeOK
  <2> QED BY <1>2, <1>4, <1>5, <1>6, <2>1 DEF TypeOK
<1>8. PoolsKnown'
    BY <1>2, <1>5, <1>6 DEF PoolsKnown
<1>9. TasksKnown'
  <2>1. \A i \in TaskIds : i # id => escrow'[i] = escrow[i] /\ (i \in released_twice' => i \in released_twice)
    BY SMTT(30), SMTT(40) DEF finalize_verification, release_and_slash, TypeOK
  <2>2. status[id] # "None" /\ s # "None"
    BY DEF Undecided
  <2>3. ~ (id >= NextTaskId)
    BY <2>2 DEF TasksKnown
  <2>4. status'[id] = s /\ \A i \in TaskIds : i # id => status'[i] = status[i]
    BY <1>2 DEF TypeOK
  <2> QED BY <1>2, <2>1, <2>2, <2>3, <2>4 DEF TasksKnown
<1>10. ReserveIsDue'
  <2>1. CASE result
    <3>1. UNCHANGED <<escrow, released_twice, reserved, deposit_held>>
      BY <2>1 DEF finalize_verification, money
    <3> QED BY <1>2, <3>1, ReserveKept
  <2>2. CASE ~result
    <3>1. release_and_slash(id)
      BY <2>2 DEF finalize_verification
    <3> QED BY <1>2, <1>7, <3>1, ReleaseStep
  <2> QED BY <2>1, <2>2
<1> QED BY <1>4, <1>5, <1>7, <1>8, <1>9, <1>10

(* What the hook has before it is not changed by deciding one task of it.   *)
LEMMA HookStep ==
    ASSUME PInv, NEW id \in TaskIds, NEW result \in BOOLEAN, status[id] \in Undecided,
           finalize_verification(id, result),
           to_verify' = to_verify \ {id}, to_fail' = to_fail \ {id}
    PROVE  HookExact'
<1> USE DEF PInv
<1>1. PICK s \in {"Completed", "Failed"} : s = IF result THEN "Completed" ELSE "Failed"
    OBVIOUS
<1>2. /\ status'[id] = s
      /\ \A i \in TaskIds : i # id => status'[i] = status[i] /\ ProofSubmittedAt'[i] = ProofSubmittedAt[i]
      /\ UNCHANGED <<now, submitted_at>>
    BY <1>1 DEF finalize_verification, taskinfo, TypeOK
<1>3. s \notin Undecided /\ s # "ProofSubmitted"
    BY DEF Undecided
<1>4. to_verify \subseteq TaskIds /\ to_fail \subseteq TaskIds
    BY DEF TypeOK
<1>5. /\ \A i \in to_verify' : status'[i] = "ProofSubmitted" /\ i \notin to_fail'
      /\ \A i \in to_fail' : status'[i] \in Undecided
    BY <1>2, <1>4 DEF HookExact
<1>6. ASSUME NEW i \in TaskIds
      PROVE  /\ status'[i] = "ProofSubmitted" /\ now' > ProofSubmittedAt'[i] + VerificationTimeout =>
                     i \in to_verify'
             /\ status'[i] \in Undecided /\ now' > submitted_at'[i] + TaskTimeout =>
                     i \in to_verify' \cup to_fail'
  <2>1. CASE i = id
    BY <1>2, <1>3, <2>1
  <2>2. CASE i # id
    BY <1>2, <2>2 DEF HookExact
  <2> QED BY <2>1, <2>2
<1> QED BY <1>5, <1>6 DEF HookExact

(* A call leaves the hook's work alone.                                     *)
LEMMA HookKept ==
    ASSUME HookExact, UNCHANGED <<now, to_verify, to_fail, status, ProofSubmittedAt, submitted_at>>
    PROVE  HookExact'
BY DEF HookExact

(* Reserving an amount that becomes due, or releasing one that is no longer *)
(* due, leaves the account as covered as it was.                            *)
LEMMA ReserveMoved ==
    ASSUME TypeOK, ReserveIsDue, NEW a \in Accounts, NEW x \in Nat,
           (\A i \in released_twice' : user'[i] # a) => (\A i \in released_twice : user[i] # a),
           \/ Due(a)' = Due(a) + x /\ reserved'[a] = reserved[a] + x
           \/ /\ Due(a)' + x = Due(a) /\ Due(a)' \in Nat
              /\ reserved'[a] = IF x <= reserved[a] THEN reserved[a] - x ELSE 0
    PROVE  /\ reserved'[a] <= Due(a)'
           /\ (\A i \in released_twice' : user'[i] # a) => reserved'[a] = Due(a)'
<1>1. Due(a) \in Nat /\ reserved[a] \in Nat
    BY DueMember DEF TypeOK
<1>2. /\ reserved[a] <= Due(a)
      /\ (\A i \in released_twice : user[i] # a) => reserved[a] = Due(a)
    BY DEF ReserveIsDue
<1> QED BY <1>1, <1>2, SMTT(30), SMTT(40)

-----------------------------------------------------------------------------
(* register_pool: a new id, one pool for each owner, the deposit reserved.  *)
LEMMA RegisterStep ==
    ASSUME PInv, NEW who \in Accounts, NEW c \in Configs, register_pool(who, c)
    PROVE  PInv'
<1> USE DEF PInv
<1>1. PICK q \in PoolIds : q = NextPoolId
    BY DEF register_pool
<1>2. q \notin Pools /\ q \in Nat
    BY <1>1, PoolsListed, SMTT(30), SMTT(40) DEF PoolIds
<1> DEFINE start == Least(InitialReputation, 100)
           new == [reputation |-> start, total |-> 0, successful |-> 0, failed |-> 0]
<1>3. start \in 0..100
  <2>1. InitialReputation \in Nat
    BY PoolParams
  <2> QED BY <2>1, SMTT(30), SMTT(40) DEF Least
<1>4. /\ NextPoolId' = q + 1
      /\ Pools' = Pools \cup {q}
      /\ owner' = [owner EXCEPT ![q] = who]
      /\ config' = [config EXCEPT ![q] = c]
      /\ deposit_held' = [deposit_held EXCEPT ![q] = PoolDeposit]
      /\ reputation' = [reputation EXCEPT ![q] = start]
      /\ MinerReputation' = [MinerReputation EXCEPT ![who] = new]
      /\ free[who] >= PoolDeposit
      /\ free' = [free EXCEPT ![who] = @ - PoolDeposit]
      /\ reserved' = [reserved EXCEPT ![who] = @ + PoolDeposit]
      /\ \A p \in Pools : owner[p] # who
    BY <1>1 DEF register_pool, reserve
<1>5. UNCHANGED <<now, to_verify, to_fail, total_tasks, completed_tasks, failed_tasks, PoolTasks,
                  ActiveTaskCount, PoolStakes, TotalPoolStake, NextTaskId, user, pool_of,
                  submitted_at, reward, status, disputed, ProofSubmittedAt, Rewards, escrow,
                  released_twice>>
    BY DEF register_pool, hook, activity, stakes, taskinfo, verdict, payment
<1> HIDE DEF start
<1>6. PoolDeposit \in Nat /\ MaxPools \in Nat
    BY PoolParams
<1>7. TypeOK'
  <2>1. NextPoolId' \in 0..MaxPools /\ Pools' \subseteq 0..NextPoolId' - 1
    <3>1. q + 1 \in 0..MaxPools
      BY <1>6, SMTT(30), SMTT(40) DEF PoolIds
    <3>2. Pools \subseteq 0..q - 1
      BY <1>1 DEF TypeOK
    <3>3. Pools \cup {q} \subseteq 0..(q + 1) - 1
      BY <1>2, <3>2, SMTT(30), SMTT(40)
    <3> QED BY <1>4, <3>1, <3>3
  <2>2. free' \in [Accounts -> Nat] /\ reserved' \in [Accounts -> Nat]
    <3>1. free[who] - PoolDeposit \in Nat /\ reserved[who] + PoolDeposit \in Nat
      <4>1. free[who] \in Nat /\ reserved[who] \in Nat /\ free[who] >= PoolDeposit
        BY <1>4, BalancesType
      <4> QED BY <1>6, <4>1, SMTT(30), SMTT(40)
    <3> QED BY <1>4, <3>1, BalancesType
  <2>3. /\ owner' \in [PoolIds -> Accounts] /\ config' \in [PoolIds -> Configs]
        /\ deposit_held' \in [PoolIds -> 0..PoolDeposit] /\ reputation' \in [PoolIds -> 0..100]
    BY <1>3, <1>4, <1>6, SMTT(30), SMTT(40) DEF TypeOK
  <2>4. MinerReputation' \in [Accounts -> [reputation : 0..100, total : Nat, successful : Nat, failed : Nat]]
    <3>1. new \in [reputation : 0..100, total : Nat, successful : Nat, failed : Nat]
      BY <1>3
    <3> HIDE DEF new
    <3> QED BY <1>4, <3>1 DEF TypeOK
  <2> QED BY <1>5, <2>1, <2>2, <2>3, <2>4 DEF TypeOK
<1>8. /\ deposit_held'[q] = PoolDeposit /\ owner'[q] = who /\ reputation'[q] = start
      /\ \A p \in PoolIds : p # q => deposit_held'[p] = deposit_held[p] /\ owner'[p] = owner[p]
                                    /\ reputation'[p] = reputation[p]
    BY <1>4 DEF TypeOK
<1>9. Pools \subseteq PoolIds
    BY PoolsListed
<1>10. PoolsKnown'
  <2>1. \A p \in PoolIds : p \notin Pools' => deposit_held'[p] = 0
    BY <1>4, <1>8 DEF PoolsKnown
  <2>2. \A p \in PoolIds : p >= NextPoolId' => p >= NextPoolId
    BY <1>1, <1>2, <1>4, SMTT(30), SMTT(40) DEF PoolIds
  <2>3. \A p, r \in Pools' : owner'[p] = owner'[r] => p = r
    BY <1>2, <1>4, <1>8, <1>9, SMTT(30), SMTT(40) DEF PoolsKnown
  <2> QED BY <1>5, <2>1, <2>2, <2>3 DEF PoolsKnown
<1>11. TasksKnown'
    BY <1>5 DEF TasksKnown
<1>12. ActivityExact'
    BY <1>4, <1>5 DEF ActivityExact
<1>13. ReputationMirrored'
  <2> SUFFICES ASSUME NEW p \in Pools'
               PROVE  /\ MinerReputation'[owner'[p]] =
                           [reputation |-> reputation'[p], total |-> total_tasks[p],
                            successful |-> completed_tasks[p], failed |-> failed_tasks[p]]
                      /\ total_tasks[p] = completed_tasks[p] + failed_tasks[p]
    BY <1>5 DEF ReputationMirrored
  <2>1. CASE p = q
    <3>1. total_tasks[q] = 0 /\ completed_tasks[q] = 0 /\ failed_tasks[q] = 0
      BY <1>1, <1>2, SMTT(30), SMTT(40) DEF PoolsKnown
    <3>2. MinerReputation'[who] = new
      BY <1>4 DEF TypeOK
    <3> QED BY <1>8, <2>1, <3>1, <3>2, SMTT(30), SMTT(40)
  <2>2. CASE p # q
    <3>1. p \in Pools /\ owner'[p] = owner[p] /\ owner[p] # who /\ reputation'[p] = reputation[p]
          /\ owner[p] \in Accounts
      BY <1>4, <1>8, <1>9, <2>2 DEF TypeOK
    <3>2. MinerReputation'[owner[p]] = MinerReputation[owner[p]]
      BY <1>4, <3>1 DEF TypeOK
    <3> QED BY <3>1, <3>2 DEF ReputationMirrored
  <2> QED BY <2>1, <2>2
<1>14. HookExact'
    BY <1>5, HookKept
<1>15. ReserveIsDue'
  <2> SUFFICES ASSUME NEW a \in Accounts
               PROVE  /\ reserved'[a] <= Due(a)'
                      /\ (\A i \in released_twice' : user'[i] # a) => reserved'[a] = Due(a)'
    BY DEF ReserveIsDue
  <2>1. PICK x \in Nat : x = IF a = who THEN PoolDeposit ELSE 0
    BY <1>6
  <2> DEFINE d == SumOver(Deposits(a), PoolIds)
             dd == SumOver(Deposits(a)', PoolIds)
             e == SumOver(Escrows(a), TaskIds)
             k == SumOver(StakesBy(a), PoolIds)
  <2>2. \A p \in PoolIds \ {q} : Deposits(a)'[p] = Deposits(a)[p]
    BY <1>4, <1>8 DEF Deposits
  <2>3. Deposits(a)[q] = 0 /\ Deposits(a)'[q] = x
    BY <1>2, <1>4, <1>8, <2>1 DEF Deposits
  <2>4. dd + Deposits(a)[q] = d + Deposits(a)'[q]
    BY <1>7, <2>2, DepositsStep
  <2>5. Due(a) = d + e + k /\ Due(a)' = dd + e + k
    <3>1. Escrows(a)' = Escrows(a) /\ StakesBy(a)' = StakesBy(a)
      BY <1>5 DEF Escrows, StakesBy
    <3> QED BY <3>1 DEF Due
  <2>6. d \in Nat /\ dd \in Nat /\ e \in Nat /\ k \in Nat
    BY <1>7, DueType, DueTypeNext
  <2> HIDE DEF d, dd, e, k
  <2>7. Due(a)' = Due(a) + x
    BY <2>3, <2>4, <2>5, <2>6, SMTT(30), SMTT(40)
  <2>8. reserved'[a] = reserved[a] + x
    BY <1>4, <1>6, <2>1, BalancesType, SMTT(30), SMTT(40)
  <2>9. (\A i \in released_twice' : user'[i] # a) => (\A i \in released_twice : user[i] # a)
    BY <1>5
  <2> QED BY <2>7, <2>8, <2>9, ReserveMoved
<1> QED BY <1>7, <1>10, <1>11, <1>12, <1>13, <1>14, <1>15

(* update_pool_config: only the configuration changes.                      *)
LEMMA ConfigStep ==
    ASSUME PInv, NEW q \in PoolIds, NEW c \in Configs, update_pool_config(q, c)
    PROVE  PInv'
<1> USE DEF PInv
<1>1. /\ config' = [config EXCEPT ![q] = c]
      /\ UNCHANGED <<now, to_verify, to_fail, NextPoolId, Pools, owner, deposit_held, reputation,
                     total_tasks, completed_tasks, failed_tasks, MinerReputation, PoolTasks,
                     ActiveTaskCount, PoolStakes, TotalPoolStake, NextTaskId, user, pool_of,
                     submitted_at, reward, status, disputed, ProofSubmittedAt, Rewards, escrow,
                     released_twice, free, reserved>>
    BY DEF update_pool_config, hook, standing, activity, stakes, taskinfo, verdict, payment, money
<1>2. TypeOK'
  <2>1. config' \in [PoolIds -> Configs]
    BY <1>1 DEF TypeOK
  <2> QED BY <1>1, <2>1 DEF TypeOK
<1>3. PoolsKnown' /\ TasksKnown' /\ ActivityExact' /\ ReputationMirrored'
    BY <1>1 DEF PoolsKnown, TasksKnown, ActivityExact, ReputationMirrored
<1> QED BY <1>1, <1>2, <1>3, HookKept, ReserveKept

(* deregister_pool: a pool without undecided tasks takes its deposit back.  *)
LEMMA DeregisterStep ==
    ASSUME PInv, NEW q \in PoolIds, deregister_pool(q)
    PROVE  PInv'
<1> USE DEF PInv
<1>1. PICK o \in Accounts : o = owner[q]
    BY DEF TypeOK
<1>2. /\ q \in Pools /\ ActiveTaskCount[q] = 0
      /\ Pools' = Pools \ {q}
      /\ PoolTasks' = [PoolTasks EXCEPT ![q] = {}]
      /\ ActiveTaskCount' = [ActiveTaskCount EXCEPT ![q] = 0]
      /\ deposit_held' = [deposit_held EXCEPT ![q] = 0]
      /\ free' = [free EXCEPT ![o] = @ + Available(o, deposit_held[q])]
      /\ reserved' = [reserved EXCEPT ![o] = @ - Available(o, deposit_held[q])]
    BY <1>1 DEF deregister_pool, no_active_tasks, unreserve
<1>3. UNCHANGED <<now, to_verify, to_fail, NextPoolId, owner, config, reputation, total_tasks,
                  completed_tasks, failed_tasks, MinerReputation, PoolStakes, TotalPoolStake,
                  NextTaskId, user, pool_of, submitted_at, reward, status, disputed,
                  ProofSubmittedAt, Rewards, escrow, released_twice>>
    BY DEF deregister_pool, hook, standing, stakes, taskinfo, verdict, payment
<1>4. PICK n \in Nat : n = deposit_held[q]
  <2>1. PoolDeposit \in Nat /\ deposit_held[q] \in 0..PoolDeposit
    BY PoolParams DEF TypeOK
  <2> QED BY <2>1, SMTT(30), SMTT(40)
<1>5. PICK y \in Nat : y = Available(o, n) /\ y <= reserved[o] /\ reserved[o] \in Nat
    BY BalancesType, AvailableType
<1>6. TypeOK'
  <2>1. free' \in [Accounts -> Nat] /\ reserved' \in [Accounts -> Nat]
    BY <1>2, <1>4, <1>5, BalancesType, SMTT(30), SMTT(40)
  <2>2. deposit_held' \in [PoolIds -> 0..PoolDeposit]
    <3>1. 0 \in 0..PoolDeposit
      BY PoolParams, SMTT(30), SMTT(40)
    <3> QED BY <1>2, <3>1 DEF TypeOK
  <2>3. PoolTasks' \in [PoolIds -> SUBSET TaskIds] /\ ActiveTaskCount' \in [PoolIds -> Nat]
    BY <1>2 DEF TypeOK
  <2> QED BY <1>2, <1>3, <2>1, <2>2, <2>3 DEF TypeOK
<1>7. deposit_held'[q] = 0 /\ \A p \in PoolIds : p # q => deposit_held'[p] = deposit_held[p]
    BY <1>2 DEF TypeOK
<1>8. PoolsKnown'
    BY <1>2, <1>3, <1>7 DEF PoolsKnown
<1>9. TasksKnown' /\ ReputationMirrored'
    BY <1>2, <1>3 DEF TasksKnown, ReputationMirrored
<1>10. ActivityExact'
  <2>1. PoolTasks[q] = {}
    <3>1. PoolTasks[q] \subseteq TaskIds /\ Cardinality(PoolTasks[q]) = 0
      BY <1>2 DEF ActivityExact, TypeOK
    <3> QED BY <3>1, IdsFinite, FS_Subset, FS_EmptySet
  <2>2. PoolTasks' = PoolTasks /\ ActiveTaskCount' = ActiveTaskCount
    BY <1>2, <2>1 DEF TypeOK
  <2>3. ASSUME NEW p \in PoolIds
        PROVE  /\ PoolTasks'[p] = {i \in TaskIds : pool_of'[i] = p /\ status'[i] \in Undecided}
               /\ ActiveTaskCount'[p] = Cardinality(PoolTasks'[p])
               /\ ActiveTaskCount'[p] <= MaxTasksPerPool
               /\ PoolTasks'[p] # {} => p \in Pools'
    <3>1. /\ PoolTasks'[p] = PoolTasks[p] /\ ActiveTaskCount'[p] = ActiveTaskCount[p]
          /\ pool_of' = pool_of /\ status' = status
      BY <1>3, <2>2
    <3>2. PoolTasks[p] # {} => p \in Pools'
      BY <1>2, <2>1 DEF ActivityExact
    <3> QED BY <3>1, <3>2 DEF ActivityExact
  <2> QED BY <2>3 DEF ActivityExact
<1>11. HookExact'
    BY <1>3, HookKept
<1>12. ReserveIsDue'
  <2> SUFFICES ASSUME NEW a \in Accounts
               PROVE  /\ reserved'[a] <= Due(a)'
                      /\ (\A i \in released_twice' : user'[i] # a) => reserved'[a] = Due(a)'
    BY DEF ReserveIsDue
  <2>1. PICK x \in Nat : x = IF a = o THEN n ELSE 0
    OBVIOUS
  <2> DEFINE d == SumOver(Deposits(a), PoolIds)
             dd == SumOver(Deposits(a)', PoolIds)
             e == SumOver(Escrows(a), TaskIds)
             k == SumOver(StakesBy(a), PoolIds)
  <2>2. \A p \in PoolIds \ {q} : Deposits(a)'[p] = Deposits(a)[p]
    BY <1>2, <1>3, <1>7 DEF Deposits
  <2>3. Deposits(a)[q] = x /\ Deposits(a)'[q] = 0
    BY <1>1, <1>2, <1>4, <2>1 DEF Deposits
  <2>4. dd + Deposits(a)[q] = d + Deposits(a)'[q]
    BY <1>6, <2>2, DepositsStep
  <2>5. Due(a) = d + e + k /\ Due(a)' = dd + e + k
    <3>1. Escrows(a)' = Escrows(a) /\ StakesBy(a)' = StakesBy(a)
      BY <1>3 DEF Escrows, StakesBy
    <3> QED BY <3>1 DEF Due
  <2>6. d \in Nat /\ dd \in Nat /\ e \in Nat /\ k \in Nat
    BY <1>6, DueType, DueTypeNext
  <2> HIDE DEF d, dd, e, k
  <2>7. Due(a)' + x = Due(a) /\ Due(a)' \in Nat
    BY <2>3, <2>4, <2>5, <2>6, SMTT(30), SMTT(40)
  <2>8. reserved'[a] = IF x <= reserved[a] THEN reserved[a] - x ELSE 0
    <3>1. CASE a = o
      <4>1. reserved'[a] = reserved[a] - y
        BY <1>2, <1>4, <1>5, <3>1, BalancesType
      <4> QED BY <1>4, <1>5, <2>1, <3>1, <4>1, SMTT(30), SMTT(40) DEF Available
    <3>2. CASE a # o
      BY <1>2, <2>1, <3>2, BalancesType, SMTT(30), SMTT(40)
    <3> QED BY <3>1, <3>2
  <2>9. (\A i \in released_twice' : user'[i] # a) => (\A i \in released_twice : user[i] # a)
    BY <1>3
  <2> QED BY <2>7, <2>8, <2>9, ReserveMoved
<1> QED BY <1>6, <1>8, <1>9, <1>10, <1>11, <1>12

(* What changes when an account adds to its stake in a pool or takes from   *)
(* it.                                                                      *)
LEMMA StakeKept ==
    ASSUME PInv, NEW who \in Accounts, NEW q \in PoolIds, NEW n \in Nat,
           UNCHANGED <<now, hook, pool, deposit_held, standing, activity, taskinfo, verdict, payment>>,
           PoolStakes' = [PoolStakes EXCEPT ![q][who] = n],
           TotalPoolStake' \in [PoolIds -> Nat],
           free' \in [Accounts -> Nat], reserved' \in [Accounts -> Nat]
    PROVE  /\ (TypeOK /\ PoolsKnown /\ TasksKnown /\ ActivityExact /\ ReputationMirrored /\ HookExact)'
           /\ \A a \in Accounts : /\ Due(a)' + StakesBy(a)[q] = Due(a) + StakesBy(a)'[q]
                                  /\ Due(a) \in Nat /\ Due(a)' \in Nat
<1> USE DEF PInv
<1>1. UNCHANGED <<now, to_verify, to_fail, NextPoolId, Pools, owner, config, deposit_held,
                  reputation, total_tasks, completed_tasks, failed_tasks, MinerReputation,
                  PoolTasks, ActiveTaskCount, NextTaskId, user, pool_of, submitted_at, reward,
                  status, disputed, ProofSubmittedAt, Rewards, escrow, released_twice>>
    BY DEF hook, pool, standing, activity, taskinfo, verdict, payment
<1>2. TypeOK'
  <2>1. PoolStakes' \in [PoolIds -> [Accounts -> Nat]]
    BY DEF TypeOK
  <2> QED BY <1>1, <2>1 DEF TypeOK
<1>3. PoolsKnown' /\ TasksKnown' /\ ActivityExact' /\ ReputationMirrored'
    BY <1>1 DEF PoolsKnown, TasksKnown, ActivityExact, ReputationMirrored
<1>4. HookExact'
    BY <1>1, HookKept
<1>5. ASSUME NEW a \in Accounts
      PROVE  /\ Due(a)' + StakesBy(a)[q] = Due(a) + StakesBy(a)'[q]
             /\ Due(a) \in Nat /\ Due(a)' \in Nat
  <2> DEFINE d == SumOver(Deposits(a), PoolIds)
             e == SumOver(Escrows(a), TaskIds)
             k == SumOver(StakesBy(a), PoolIds)
             kk == SumOver(StakesBy(a)', PoolIds)
  <2>1. \A p \in PoolIds \ {q} : StakesBy(a)'[p] = StakesBy(a)[p]
    BY DEF StakesBy, TypeOK
  <2>2. kk + StakesBy(a)[q] = k + StakesBy(a)'[q]
    BY <1>2, <2>1, StakesStep
  <2>3. Due(a) = d + e + k /\ Due(a)' = d + e + kk
    <3>1. Escrows(a)' = Escrows(a) /\ Deposits(a)' = Deposits(a)
      BY <1>1 DEF Escrows, Deposits
    <3> QED BY <3>1 DEF Due
  <2>4. d \in Nat /\ e \in Nat /\ k \in Nat /\ kk \in Nat /\ StakesBy(a)[q] \in Nat /\ StakesBy(a)'[q] \in Nat
    BY <1>2, DueType, DueTypeNext
  <2> HIDE DEF d, e, k, kk
  <2> QED BY <2>2, <2>3, <2>4, SMTT(30), SMTT(40)
<1> QED BY <1>2, <1>3, <1>4, <1>5

(* stake_to_pool reserves what it adds to the stake.                        *)
LEMMA StakeStep ==
    ASSUME PInv, NEW who \in Accounts, NEW q \in PoolIds, NEW amount \in StakeAmounts,
           stake_to_pool(who, q, amount)
    PROVE  PInv'
<1> USE DEF PInv
<1>1. amount \in Nat
    BY PoolParams
<1>2. PICK n \in Nat : n = PoolStakes[q][who]
    BY DEF TypeOK
<1>3. /\ UNCHANGED <<now, hook, pool, deposit_held, standing, activity, taskinfo, verdict, payment>>
      /\ PoolStakes' = [PoolStakes EXCEPT ![q][who] = n + amount]
      /\ TotalPoolStake' = [TotalPoolStake EXCEPT ![q] = @ + amount]
      /\ free[who] >= amount
      /\ free' = [free EXCEPT ![who] = @ - amount]
      /\ reserved' = [reserved EXCEPT ![who] = @ + amount]
    BY <1>2 DEF stake_to_pool, reserve
<1>4. /\ TotalPoolStake' \in [PoolIds -> Nat]
      /\ free' \in [Accounts -> Nat] /\ reserved' \in [Accounts -> Nat]
      /\ n + amount \in Nat
    BY <1>1, <1>2, <1>3, SMTT(30), SMTT(40) DEF TypeOK
<1>5. /\ (TypeOK /\ PoolsKnown /\ TasksKnown /\ ActivityExact /\ ReputationMirrored /\ HookExact)'
      /\ \A a \in Accounts : /\ Due(a)' + StakesBy(a)[q] = Due(a) + StakesBy(a)'[q]
                             /\ Due(a) \in Nat /\ Due(a)' \in Nat
    BY <1>3, <1>4, StakeKept
<1>6. ASSUME NEW a \in Accounts
      PROVE  /\ reserved'[a] <= Due(a)'
             /\ (\A i \in released_twice' : user'[i] # a) => reserved'[a] = Due(a)'
  <2>1. PICK x \in Nat : x = IF a = who THEN amount ELSE 0
    BY <1>1
  <2>2. StakesBy(a)[q] \in Nat /\ StakesBy(a)'[q] = StakesBy(a)[q] + x
    BY <1>2, <1>3, <2>1, SMTT(30), SMTT(40) DEF StakesBy, TypeOK
  <2>3. Due(a)' = Due(a) + x
    BY <1>5, <2>2, SMTT(30), SMTT(40)
  <2>4. reserved'[a] = reserved[a] + x
    BY <1>1, <1>3, <2>1, BalancesType, SMTT(30), SMTT(40)
  <2>5. (\A i \in released_twice' : user'[i] # a) => (\A i \in released_twice : user[i] # a)
    BY <1>3 DEF payment, taskinfo
  <2> QED BY <2>3, <2>4, <2>5, ReserveMoved
<1>7. ReserveIsDue'
    BY <1>6 DEF ReserveIsDue
<1> QED BY <1>5, <1>7

(* unstake_from_pool releases what it takes from the stake.                 *)
LEMMA UnstakeStep ==
    ASSUME PInv, NEW who \in Accounts, NEW q \in PoolIds, NEW amount \in StakeAmounts,
           unstake_from_pool(who, q, amount)
    PROVE  PInv'
<1> USE DEF PInv
<1>1. amount \in Nat
    BY PoolParams
<1>2. PICK n \in Nat : n = PoolStakes[q][who]
    BY DEF TypeOK
<1>3. /\ UNCHANGED <<now, hook, pool, deposit_held, standing, activity, taskinfo, verdict, payment>>
      /\ n >= amount
      /\ PoolStakes' = [PoolStakes EXCEPT ![q][who] = n - amount]
      /\ TotalPoolStake' = [TotalPoolStake EXCEPT ![q] = Monus(@, amount)]
      /\ free' = [free EXCEPT ![who] = @ + Available(who, amount)]
      /\ reserved' = [reserved EXCEPT ![who] = @ - Available(who, amount)]
    BY <1>2 DEF unstake_from_pool, unreserve, unstake_total
<1>4. PICK y \in Nat : y = Available(who, amount) /\ y <= reserved[who] /\ reserved[who] \in Nat
  <2>1. reserved[who] \in Nat
    BY DEF TypeOK
  <2>2. Available(who, amount) \in Nat /\ Available(who, amount) <= reserved[who]
    BY <1>1, <2>1, AvailableType
  <2> QED BY <2>1, <2>2
<1>5. /\ TotalPoolStake' \in [PoolIds -> Nat]
      /\ free' \in [Accounts -> Nat] /\ reserved' \in [Accounts -> Nat]
      /\ n - amount \in Nat
  <2>1. \A t \in Nat : Monus(t, amount) \in Nat
    BY <1>1, SMTT(30), SMTT(40) DEF Monus
  <2>2. TotalPoolStake' \in [PoolIds -> Nat]
    BY <1>3, <2>1 DEF TypeOK
  <2>3. free' \in [Accounts -> Nat] /\ reserved' \in [Accounts -> Nat]
    BY <1>3, <1>4, BalancesType, SMTT(30), SMTT(40)
  <2> QED BY <1>1, <1>2, <1>3, <2>2, <2>3, SMTT(30), SMTT(40)
<1>6. /\ (TypeOK /\ PoolsKnown /\ TasksKnown /\ ActivityExact /\ ReputationMirrored /\ HookExact)'
      /\ \A a \in Accounts : /\ Due(a)' + StakesBy(a)[q] = Due(a) + StakesBy(a)'[q]
                             /\ Due(a) \in Nat /\ Due(a)' \in Nat
    BY <1>3, <1>5, StakeKept
<1>7. ASSUME NEW a \in Accounts
      PROVE  /\ reserved'[a] <= Due(a)'
             /\ (\A i \in released_twice' : user'[i] # a) => reserved'[a] = Due(a)'
  <2>1. PICK x \in Nat : x = IF a = who THEN amount ELSE 0
    BY <1>1
  <2>2. StakesBy(a)[q] \in Nat /\ StakesBy(a)'[q] \in Nat /\ StakesBy(a)'[q] + x = StakesBy(a)[q]
    <3>1. StakesBy(a)[q] = PoolStakes[q][a] /\ StakesBy(a)'[q] = PoolStakes'[q][a] /\ PoolStakes[q][a] \in Nat
      BY DEF StakesBy, TypeOK
    <3>2. CASE a = who
      <4>1. PoolStakes'[q][a] = n - amount
        BY <1>3, <3>2 DEF TypeOK
      <4> QED BY <1>1, <1>2, <1>3, <2>1, <3>1, <3>2, <4>1, SMTT(30), SMTT(40)
    <3>3. CASE a # who
      <4>1. PoolStakes'[q][a] = PoolStakes[q][a]
        BY <1>3, <3>3 DEF TypeOK
      <4> QED BY <2>1, <3>1, <3>3, <4>1, SMTT(30), SMTT(40)
    <3> QED BY <3>2, <3>3
  <2>3. Due(a)' + x = Due(a) /\ Due(a)' \in Nat
    BY <1>6, <2>2, SMTT(30), SMTT(40)
  <2>4. reserved'[a] = IF x <= reserved[a] THEN reserved[a] - x ELSE 0
    <3>1. CASE a = who
      <4>1. reserved'[a] = reserved[a] - Available(a, amount) /\ reserved[a] \in Nat
        BY <1>3, <3>1, BalancesType
      <4> QED BY <1>4, <2>1, <3>1, <4>1, SMTT(30), SMTT(40) DEF Available
    <3>2. CASE a # who
      BY <1>3, <2>1, <3>2, BalancesType, SMTT(30), SMTT(40)
    <3> QED BY <3>1, <3>2
  <2>5. (\A i \in released_twice' : user'[i] # a) => (\A i \in released_twice : user[i] # a)
    BY <1>3 DEF payment, taskinfo
  <2> QED BY <2>3, <2>4, <2>5, ReserveMoved
<1>8. ReserveIsDue'
    BY <1>7 DEF ReserveIsDue
<1> QED BY <1>6, <1>8

-----------------------------------------------------------------------------
(* calculate_reward is a natural number.                                    *)
LEMMA RewardType ==
    ASSUME NEW c \in Configs, NEW dim \in Dimensions
    PROVE  calculate_reward(c, dim) \in Nat
<1>1. c.price_per_task \in Nat /\ c.nvlink_efficiency \in Nat /\ dim.complexity \in Nat
    BY PoolParams
<1>2. \A m \in Nat : Max({1, m}) \in Nat
  <2> SUFFICES ASSUME NEW m \in Nat PROVE Max({1, m}) \in Nat
    OBVIOUS
  <2>1. \E x \in {1, m} : \A y \in {1, m} : x >= y
    BY SMTT(30), SMTT(40)
  <2>2. Max({1, m}) \in {1, m}
    BY <2>1 DEF Max
  <2> QED BY <2>2, SMTT(30), SMTT(40)
<1>3. dim.complexity \div 1000000 \in Nat
    BY <1>1, SMTT(30), SMTT(40)
<1> DEFINE factor == Max({1, dim.complexity \div 1000000})
<1>4. factor \in Nat
    BY <1>2, <1>3, SMTT(30), SMTT(40)
<1> DEFINE base == c.price_per_task * factor
<1>5. calculate_reward(c, dim) = IF c.has_nvlink THEN (base * c.nvlink_efficiency) \div 100 ELSE base
    BY SMTT(30), SMTT(40) DEF calculate_reward
<1> HIDE DEF factor
<1>6. base \in Nat
    BY <1>1, <1>4, SMTT(30), SMTT(40)
<1> HIDE DEF base
<1>7. base * c.nvlink_efficiency \in Nat
    BY <1>1, <1>6, SMTT(30), SMTT(40)
<1>8. (base * c.nvlink_efficiency) \div 100 \in Nat
    BY <1>7, SMTT(30), SMTT(40)
<1> QED BY <1>5, <1>6, <1>8

(* submit_task: a fresh id, a pool that is there and has room, and reward   *)
(* and deposit in reserve.                                                  *)
LEMMA TaskStep ==
    ASSUME PInv, NEW who \in Accounts, NEW dim \in Dimensions, NEW q \in PoolIds,
           NEW preferred \in BOOLEAN, submit_task(who, dim, q, preferred)
    PROVE  PInv'
<1> USE DEF PInv
<1>1. PICK t \in TaskIds : t = NextTaskId
    BY DEF submit_task
<1>2. PICK amount \in Nat : amount = calculate_reward(config[q], dim)
  <2>1. config[q] \in Configs
    BY DEF TypeOK
  <2> QED BY <2>1, RewardType
<1>3. q \in Pools /\ ActiveTaskCount[q] < MaxTasksPerPool
  <2>1. \A seen \in Scans : best_of(seen, dim) \subseteq candidates(Pools, dim)
    BY DEF Scans, best_of, candidates
  <2>2. q \in IF preferred THEN candidates(Pools, dim) ELSE select_best_pool_for_task(dim)
    BY DEF submit_task
  <2>3. q \in candidates(Pools, dim)
    BY <2>1, <2>2 DEF select_best_pool_for_task
  <2> QED BY <2>3 DEF candidates, has_room
<1>4. /\ NextTaskId' = t + 1
      /\ user' = [user EXCEPT ![t] = who]
      /\ pool_of' = [pool_of EXCEPT ![t] = q]
      /\ status' = [status EXCEPT ![t] = "Computing"]
      /\ submitted_at' = [submitted_at EXCEPT ![t] = now]
      /\ reward' = [reward EXCEPT ![t] = amount]
      /\ PoolTasks' = [PoolTasks EXCEPT ![q] = @ \cup {t}]
      /\ ActiveTaskCount' = [ActiveTaskCount EXCEPT ![q] = @ + 1]
      /\ escrow' = [escrow EXCEPT ![t] = "Held"]
    BY <1>1, <1>2 DEF submit_task
<1>5. /\ free[who] >= amount + TaskDeposit
      /\ free' = [free EXCEPT ![who] = @ - (amount + TaskDeposit)]
      /\ reserved' = [reserved EXCEPT ![who] = @ + (amount + TaskDeposit)]
    BY <1>2 DEF submit_task, reserve
<1>6. UNCHANGED <<now, to_verify, to_fail, NextPoolId, Pools, owner, config, deposit_held,
                  reputation, total_tasks, completed_tasks, failed_tasks, MinerReputation,
                  PoolStakes, TotalPoolStake, disputed, ProofSubmittedAt, Rewards, released_twice>>
    BY DEF submit_task, hook, pool, standing, stakes
<1>7. t \in Nat /\ status[t] = "None"
  <2>1. t \in Nat /\ t >= NextTaskId
    BY <1>1, SMTT(30), SMTT(40) DEF TaskIds
  <2> QED BY <2>1 DEF TasksKnown
<1>8. ~disputed[t] /\ escrow[t] = "None" /\ t \notin released_twice
    BY <1>7 DEF TasksKnown
<1>9. TaskDeposit \in Nat /\ MaxTasks \in Nat /\ MaxTasksPerPool \in Nat
    BY PoolParams
<1>10. TypeOK'
  <2>1. free' \in [Accounts -> Nat] /\ reserved' \in [Accounts -> Nat]
    BY <1>5, <1>9, SMTT(30), SMTT(40) DEF TypeOK
  <2>2. NextTaskId' \in 0..MaxTasks
    BY <1>4, <1>7, <1>9, SMTT(30), SMTT(40) DEF TaskIds
  <2>3. /\ user' \in [TaskIds -> Accounts] /\ pool_of' \in [TaskIds -> PoolIds]
        /\ submitted_at' \in [TaskIds -> 0..MaxBlock] /\ reward' \in [TaskIds -> Nat]
    BY <1>4 DEF TypeOK
  <2>4. status' \in [TaskIds -> Statuses] /\ escrow' \in [TaskIds -> {"None", "Held", "Claimed"}]
    BY <1>4 DEF TypeOK, Statuses, Undecided
  <2>5. PoolTasks' \in [PoolIds -> SUBSET TaskIds] /\ ActiveTaskCount' \in [PoolIds -> Nat]
    BY <1>4, SMTT(30), SMTT(40) DEF TypeOK
  <2> QED BY <1>6, <2>1, <2>2, <2>3, <2>4, <2>5 DEF TypeOK
<1>11. /\ user'[t] = who /\ pool_of'[t] = q /\ status'[t] = "Computing" /\ submitted_at'[t] = now
       /\ reward'[t] = amount /\ escrow'[t] = "Held"
       /\ \A i \in TaskIds : i # t =>
             /\ user'[i] = user[i] /\ pool_of'[i] = pool_of[i] /\ status'[i] = status[i]
             /\ submitted_at'[i] = submitted_at[i] /\ reward'[i] = reward[i] /\ escrow'[i] = escrow[i]
    BY <1>4 DEF TypeOK
<1>12. PoolsKnown' /\ ReputationMirrored'
    BY <1>6 DEF PoolsKnown, ReputationMirrored
<1>13. TasksKnown'
  <2>1. \A i \in TaskIds : i >= NextTaskId' => i >= NextTaskId /\ i # t
    BY <1>1, <1>4, <1>7, SMTT(30), SMTT(40) DEF TaskIds
  <2> QED BY <1>6, <1>11, <2>1 DEF TasksKnown
<1>14. ActivityExact'
  <2>1. ASSUME NEW p \in PoolIds
        PROVE  /\ PoolTasks'[p] = {i \in TaskIds : pool_of'[i] = p /\ status'[i] \in Undecided}
               /\ ActiveTaskCount'[p] = Cardinality(PoolTasks'[p])
               /\ ActiveTaskCount'[p] <= MaxTasksPerPool
               /\ PoolTasks'[p] # {} => p \in Pools'
    <3> DEFINE T == PoolTasks[p]
    <3>1. /\ T = {i \in TaskIds : pool_of[i] = p /\ status[i] \in Undecided}
          /\ ActiveTaskCount[p] = Cardinality(T) /\ ActiveTaskCount[p] <= MaxTasksPerPool
          /\ T # {} => p \in Pools
      BY DEF ActivityExact
    <3>2. t \notin T
      BY <1>7, <3>1 DEF Undecided
    <3>3. "Computing" \in Undecided
      BY DEF Undecided
    <3>4. CASE p = q
      <4>1. PoolTasks'[p] = T \cup {t} /\ ActiveTaskCount'[p] = ActiveTaskCount[p] + 1
        BY <1>4, <3>4 DEF TypeOK
      <4>2. T \cup {t} = {i \in TaskIds : pool_of'[i] = p /\ status'[i] \in Undecided}
        BY <1>11, <3>1, <3>2, <3>3, <3>4, SMTT(30), SMTT(40)
      <4>3. IsFiniteSet(T)
        BY <3>1, IdsFinite, FS_Subset
      <4> HIDE DEF T
      <4>4. Cardinality(T \cup {t}) = Cardinality(T) + 1 /\ Cardinality(T) \in Nat
        BY <3>2, <4>3, FS_AddElement, FS_CardinalityType
      <4>5. ActiveTaskCount'[p] = Cardinality(T \cup {t}) /\ ActiveTaskCount'[p] <= MaxTasksPerPool
        BY <1>3, <1>9, <3>1, <3>4, <4>1, <4>4, SMTT(30), SMTT(40)
      <4> QED BY <1>3, <1>6, <3>4, <4>1, <4>2, <4>5
    <3>5. CASE p # q
      <4>1. PoolTasks'[p] = T /\ ActiveTaskCount'[p] = ActiveTaskCount[p]
        BY <1>4, <3>5 DEF TypeOK
      <4>2. T = {i \in TaskIds : pool_of'[i] = p /\ status'[i] \in Undecided}
        BY <1>11, <3>1, <3>2, <3>5
      <4> QED BY <1>6, <3>1, <4>1, <4>2
    <3> QED BY <3>4, <3>5
  <2> QED BY <2>1 DEF ActivityExact
<1>15. HookExact'
  <2>1. to_verify = {} /\ to_fail = {}
    BY DEF submit_task, HookDone
  <2>2. ~ (now > now + TaskTimeout)
    <3>1. now \in Int /\ TaskTimeout \in Nat
      BY TimeTypes
    <3>2. \A m \in Int, d \in Nat : ~ (m > m + d)
      BY SMTT(30), SMTT(40)
    <3> QED BY <3>1, <3>2
  <2>3. ASSUME NEW i \in TaskIds
        PROVE  /\ status'[i] = "ProofSubmitted" /\ now' > ProofSubmittedAt'[i] + VerificationTimeout =>
                       i \in to_verify'
               /\ status'[i] \in Undecided /\ now' > submitted_at'[i] + TaskTimeout =>
                       i \in to_verify' \cup to_fail'
    <3>1. CASE i = t
      BY <1>6, <1>11, <2>2, <3>1
    <3>2. CASE i # t
      BY <1>6, <1>11, <3>2 DEF HookExact
    <3> QED BY <3>1, <3>2
  <2> QED BY <1>6, <2>1, <2>3 DEF HookExact
<1>16. ASSUME NEW a \in Accounts
       PROVE  /\ reserved'[a] <= Due(a)'
              /\ (\A i \in released_twice' : user'[i] # a) => reserved'[a] = Due(a)'
  <2>1. PICK x \in Nat : x = IF a = who THEN amount + TaskDeposit ELSE 0
    BY <1>9, SMTT(30), SMTT(40)
  <2> DEFINE d == SumOver(Deposits(a), PoolIds)
             e == SumOver(Escrows(a), TaskIds)
             ee == SumOver(Escrows(a)', TaskIds)
             k == SumOver(StakesBy(a), PoolIds)
  <2>2. \A i \in TaskIds \ {t} : Escrows(a)'[i] = Escrows(a)[i]
    BY <1>11 DEF Escrows
  <2>3. Escrows(a)[t] = 0 /\ Escrows(a)'[t] = x
    BY <1>8, <1>11, <2>1 DEF Escrows
  <2>4. ee + Escrows(a)[t] = e + Escrows(a)'[t]
    BY <1>10, <2>2, EscrowsStep
  <2>5. Due(a) = d + e + k /\ Due(a)' = d + ee + k
    <3>1. Deposits(a)' = Deposits(a) /\ StakesBy(a)' = StakesBy(a)
      BY <1>6 DEF Deposits, StakesBy
    <3> QED BY <3>1 DEF Due
  <2>6. d \in Nat /\ ee \in Nat /\ e \in Nat /\ k \in Nat
    BY <1>10, DueType, DueTypeNext
  <2> HIDE DEF d, ee, e, k
  <2>7. Due(a)' = Due(a) + x
    BY <2>3, <2>4, <2>5, <2>6, SMTT(30), SMTT(40)
  <2>8. reserved'[a] = reserved[a] + x
    BY <1>5, <1>9, <2>1, BalancesType, SMTT(30), SMTT(40)
  <2>9. (\A i \in released_twice' : user'[i] # a) => (\A i \in released_twice : user[i] # a)
    BY <1>6, <1>8, <1>11 DEF TypeOK
  <2> QED BY <2>7, <2>8, <2>9, ReserveMoved
<1>17. ReserveIsDue'
    BY <1>16 DEF ReserveIsDue
<1> QED BY <1>10, <1>12, <1>13, <1>14, <1>15, <1>17

(* submit_proof: within the timeout of the task, and the timeout of the     *)
(* verification starts now.                                                 *)
LEMMA ProofStep ==
    ASSUME PInv, NEW t \in TaskIds, submit_proof(t)
    PROVE  PInv'
<1> USE DEF PInv
<1>1. /\ status[t] = "Computing" /\ now <= submitted_at[t] + TaskTimeout
      /\ to_verify = {} /\ to_fail = {}
      /\ status' = [status EXCEPT ![t] = "ProofSubmitted"]
      /\ ProofSubmittedAt' = [ProofSubmittedAt EXCEPT ![t] = now]
    BY DEF submit_proof, can_prove, HookDone
<1>2. UNCHANGED <<now, to_verify, to_fail, NextPoolId, Pools, owner, config, deposit_held,
                  reputation, total_tasks, completed_tasks, failed_tasks, MinerReputation,
                  PoolTasks, ActiveTaskCount, PoolStakes, TotalPoolStake, NextTaskId, user, pool_of,
                  submitted_at, reward, disputed, Rewards, escrow, released_twice, free, reserved>>
    BY DEF submit_proof, hook, pool, standing, activity, stakes, taskinfo, payment, money
<1>3. /\ status'[t] = "ProofSubmitted" /\ ProofSubmittedAt'[t] = now
      /\ \A i \in TaskIds : i # t => status'[i] = status[i] /\ ProofSubmittedAt'[i] = ProofSubmittedAt[i]
    BY <1>1 DEF TypeOK
<1>4. TypeOK'
  <2>1. status' \in [TaskIds -> Statuses] /\ ProofSubmittedAt' \in [TaskIds -> 0..MaxBlock]
    BY <1>1 DEF TypeOK, Statuses, Undecided
  <2> QED BY <1>2, <2>1 DEF TypeOK
<1>5. PoolsKnown' /\ ReputationMirrored'
    BY <1>2 DEF PoolsKnown, ReputationMirrored
<1>6. TasksKnown'
    BY <1>1, <1>2, <1>3 DEF TasksKnown
<1>7. ActivityExact'
  <2>1. \A i \in TaskIds : status'[i] \in Undecided <=> status[i] \in Undecided
    BY <1>1, <1>3 DEF Undecided
  <2>2. \A p \in PoolIds : {i \in TaskIds : pool_of'[i] = p /\ status'[i] \in Undecided} =
                           {i \in TaskIds : pool_of[i] = p /\ status[i] \in Undecided}
    BY <1>2, <2>1
  <2> QED BY <1>2, <2>2 DEF ActivityExact
<1>8. HookExact'
  <2>1. /\ ~ (now > now + VerificationTimeout)
        /\ ~ (now > submitted_at[t] + TaskTimeout)
    <3>1. now \in Int /\ VerificationTimeout \in Nat /\ TaskTimeout \in Nat /\ submitted_at[t] \in Int
      BY PoolParams, SMTT(30), SMTT(40) DEF TypeOK
    <3>2. ~ (now > now + VerificationTimeout)
      BY <3>1, SMTT(30), SMTT(40)
    <3>3. ~ (now > submitted_at[t] + TaskTimeout)
      BY <1>1, <3>1, SMTT(30), SMTT(40)
    <3> QED BY <3>2, <3>3
  <2>2. ASSUME NEW i \in TaskIds
        PROVE  /\ status'[i] = "ProofSubmitted" /\ now' > ProofSubmittedAt'[i] + VerificationTimeout =>
                       i \in to_verify'
               /\ status'[i] \in Undecided /\ now' > submitted_at'[i] + TaskTimeout =>
                       i \in to_verify' \cup to_fail'
    <3>1. CASE i = t
      BY <1>2, <1>3, <2>1, <3>1
    <3>2. CASE i # t
      BY <1>2, <1>3, <3>2 DEF HookExact
    <3> QED BY <3>1, <3>2
  <2> QED BY <1>1, <1>2, <2>2 DEF HookExact
<1>9. ReserveIsDue'
    BY <1>2, ReserveKept
<1> QED BY <1>4, <1>5, <1>6, <1>7, <1>8, <1>9

(* verify_proof decides a task whose proof nobody has verified yet.         *)
LEMMA VerifyStep ==
    ASSUME PInv, NEW who \in Accounts, NEW t \in TaskIds, NEW result \in BOOLEAN,
           verify_proof(who, t, result)
    PROVE  PInv'
<1>1. /\ status[t] \in Undecided /\ finalize_verification(t, result)
      /\ to_verify = {} /\ to_fail = {} /\ to_verify' = {} /\ to_fail' = {}
    BY DEF verify_proof, HookDone, hook, Undecided
<1>2. to_verify' = to_verify \ {t} /\ to_fail' = to_fail \ {t}
    BY <1>1
<1>3. to_verify' \subseteq TaskIds /\ to_fail' \subseteq TaskIds
    BY <1>1
<1>4. (TypeOK /\ PoolsKnown /\ TasksKnown /\ ActivityExact /\ ReputationMirrored /\ ReserveIsDue)'
    BY <1>1, <1>3, FinalStep
<1>5. HookExact'
    BY <1>1, <1>2, HookStep
<1> QED BY <1>4, <1>5 DEF PInv

(* on_initialize approves a proof nobody verified in time.                  *)
LEMMA AutoVerifyStep ==
    ASSUME PInv, NEW t \in TaskIds, auto_verify(t)
    PROVE  PInv'
<1>1. finalize_verification(t, TRUE) /\ t \in to_verify /\ to_verify' = to_verify \ {t} /\ to_fail' = to_fail
    BY DEF auto_verify
<1>2. status[t] \in Undecided /\ t \notin to_fail
    BY <1>1 DEF PInv, HookExact, Undecided
<1>3. to_fail' = to_fail \ {t}
    BY <1>1, <1>2
<1>4. to_verify' \subseteq TaskIds /\ to_fail' \subseteq TaskIds
    BY <1>1 DEF PInv, TypeOK
<1>5. (TypeOK /\ PoolsKnown /\ TasksKnown /\ ActivityExact /\ ReputationMirrored /\ ReserveIsDue)'
    BY <1>1, <1>2, <1>4, FinalStep
<1>6. HookExact'
    BY <1>1, <1>2, <1>3, HookStep
<1> QED BY <1>5, <1>6 DEF PInv

(* on_initialize fails a task whose time is up (mark_task_failed).          *)
LEMMA ExpireStep ==
    ASSUME PInv, NEW t \in TaskIds, expire(t)
    PROVE  PInv'
<1>1. finalize_verification(t, FALSE)
    BY DEF expire, mark_task_failed, finalize_verification
<1>2. t \in to_fail /\ to_fail' = to_fail \ {t} /\ to_verify = {} /\ to_verify' = to_verify
    BY DEF expire
<1>3. status[t] \in Undecided
    BY <1>2 DEF PInv, HookExact
<1>4. to_verify' = to_verify \ {t} /\ to_verify' \subseteq TaskIds /\ to_fail' \subseteq TaskIds
    BY <1>2 DEF PInv, TypeOK
<1>5. (TypeOK /\ PoolsKnown /\ TasksKnown /\ ActivityExact /\ ReputationMirrored /\ ReserveIsDue)'
    BY <1>1, <1>3, <1>4, FinalStep
<1>6. HookExact'
    BY <1>1, <1>2, <1>3, <1>4, HookStep
<1> QED BY <1>5, <1>6 DEF PInv

(* claim_reward takes the reward and the deposit of one task out of the     *)
(* reserve, and neither is due any longer.                                  *)
LEMMA ClaimStep ==
    ASSUME PInv, NEW t \in TaskIds, claim_reward(t)
    PROVE  PInv'
<1> USE DEF PInv
<1>1. PICK u \in Accounts, o \in Accounts, w \in Nat : u = user[t] /\ o = owner[pool_of[t]] /\ w = reward[t]
    BY DEF TypeOK
<1>2. TaskDeposit \in Nat
    BY PoolParams
<1>3. PICK back \in Nat : back = Least(TaskDeposit, reserved[u] - w) /\ back <= reserved[u] - w
                        /\ w <= reserved[u]
  <2>1. w <= reserved[u]
    BY <1>1 DEF claim_reward
  <2>2. reserved[u] - w \in Nat
    BY <2>1, SMTT(30), SMTT(40) DEF TypeOK
  <2> QED BY <1>2, <2>1, <2>2, SMTT(30), SMTT(40) DEF Least
<1>4. /\ status[t] = "Completed" /\ escrow[t] = "Held"
      /\ escrow' = [escrow EXCEPT ![t] = "Claimed"] /\ Rewards' = Rewards \ {t}
      /\ reserved' = [[reserved EXCEPT ![u] = @ - w] EXCEPT ![u] =
                          @ - Least(TaskDeposit, [reserved EXCEPT ![u] = @ - w][u])]
      /\ free' = [[free EXCEPT ![o] = @ + w] EXCEPT ![u] =
                          @ + Least(TaskDeposit, [reserved EXCEPT ![u] = @ - w][u])]
    BY <1>1 DEF claim_reward
<1>5. UNCHANGED <<now, to_verify, to_fail, NextPoolId, Pools, owner, config, deposit_held,
                  reputation, total_tasks, completed_tasks, failed_tasks, MinerReputation,
                  PoolTasks, ActiveTaskCount, PoolStakes, TotalPoolStake, NextTaskId, user, pool_of,
                  submitted_at, reward, status, disputed, ProofSubmittedAt, released_twice>>
    BY DEF claim_reward, hook, pool, standing, activity, stakes, taskinfo, verdict
<1>6. [reserved EXCEPT ![u] = @ - w][u] = reserved[u] - w
    BY DEF TypeOK
<1>7. /\ reserved' \in [Accounts -> Nat] /\ reserved'[u] = reserved[u] - w - back
      /\ \A a \in Accounts : a # u => reserved'[a] = reserved[a]
  <2>1. reserved' = [[reserved EXCEPT ![u] = @ - w] EXCEPT ![u] = @ - back]
    BY <1>3, <1>4, <1>6
  <2>2. reserved[u] - w - back \in Nat
    BY <1>3, SMTT(30), SMTT(40) DEF TypeOK
  <2> QED BY <2>1, <2>2 DEF TypeOK
<1>8. free' \in [Accounts -> Nat]
  <2>1. free' = [[free EXCEPT ![o] = @ + w] EXCEPT ![u] = @ + back]
    BY <1>3, <1>4, <1>6
  <2> QED BY <2>1, SMTT(30), SMTT(40) DEF TypeOK
<1>9. TypeOK'
  <2>1. escrow' \in [TaskIds -> {"None", "Held", "Claimed"}] /\ Rewards' \subseteq TaskIds
    BY <1>4 DEF TypeOK
  <2> QED BY <1>5, <1>7, <1>8, <2>1 DEF TypeOK
<1>10. escrow'[t] = "Claimed" /\ \A i \in TaskIds : i # t => escrow'[i] = escrow[i]
    BY <1>4 DEF TypeOK
<1>11. PoolsKnown' /\ ReputationMirrored' /\ ActivityExact'
    BY <1>5 DEF PoolsKnown, ReputationMirrored, ActivityExact
<1>12. TasksKnown'
    BY <1>4, <1>5, <1>10 DEF TasksKnown
<1>13. HookExact'
    BY <1>5, HookKept
<1>14. ASSUME NEW a \in Accounts
       PROVE  /\ reserved'[a] <= Due(a)'
              /\ (\A i \in released_twice' : user'[i] # a) => reserved'[a] = Due(a)'
  <2>1. PICK x \in Nat : x = IF a = u THEN w + TaskDeposit ELSE 0
    BY <1>2, SMTT(30), SMTT(40)
  <2> DEFINE d == SumOver(Deposits(a), PoolIds)
             e == SumOver(Escrows(a), TaskIds)
             ee == SumOver(Escrows(a)', TaskIds)
             k == SumOver(StakesBy(a), PoolIds)
  <2>2. \A i \in TaskIds \ {t} : Escrows(a)'[i] = Escrows(a)[i]
    BY <1>5, <1>10 DEF Escrows
  <2>3. Escrows(a)[t] = x /\ Escrows(a)'[t] = 0
    BY <1>1, <1>4, <1>10, <2>1 DEF Escrows
  <2>4. ee + Escrows(a)[t] = e + Escrows(a)'[t]
    BY <1>9, <2>2, EscrowsStep
  <2>5. Due(a) = d + e + k /\ Due(a)' = d + ee + k
    <3>1. Deposits(a)' = Deposits(a) /\ StakesBy(a)' = StakesBy(a)
      BY <1>5 DEF Deposits, StakesBy
    <3> QED BY <3>1 DEF Due
  <2>6. d \in Nat /\ ee \in Nat /\ e \in Nat /\ k \in Nat
    BY <1>9, DueType, DueTypeNext
  <2> HIDE DEF d, ee, e, k
  <2>7. Due(a)' + x = Due(a) /\ Due(a)' \in Nat
    BY <2>3, <2>4, <2>5, <2>6, SMTT(30), SMTT(40)
  <2>8. reserved'[a] = IF x <= reserved[a] THEN reserved[a] - x ELSE 0
    <3>0. reserved[a] \in Nat /\ reserved[u] \in Nat
      BY DEF TypeOK
    <3>1. CASE a = u
      BY <1>2, <1>3, <1>7, <2>1, <3>0, <3>1, SMTT(30), SMTT(40) DEF Least
    <3>2. CASE a # u
      BY <1>7, <2>1, <3>0, <3>2, SMTT(30), SMTT(40)
    <3> QED BY <3>1, <3>2
  <2>9. (\A i \in released_twice' : user'[i] # a) => (\A i \in released_twice : user[i] # a)
    BY <1>5
  <2> QED BY <2>7, <2>8, <2>9, ReserveMoved
<1>15. ReserveIsDue'
    BY <1>14 DEF ReserveIsDue
<1> QED BY <1>9, <1>11, <1>12, <1>13, <1>15

(* dispute_verification turns a verdict round.  The task was decided before *)
(* and is decided after, so neither lists nor hook are concerned.           *)
LEMMA DisputeStep ==
    ASSUME PInv, NEW t \in TaskIds, dispute_verification(t)
    PROVE  PInv'
<1> USE DEF PInv
<1>1. PICK s \in {"Completed", "Failed"}, success \in BOOLEAN :
          /\ status' = [status EXCEPT ![t] = s] /\ update_reputation(t, success)
          /\ \/ release_and_slash(t)
             \/ Rewards' = Rewards \cup {t} /\ UNCHANGED <<escrow, released_twice, free, reserved, deposit_held>>
    BY DEF dispute_verification, money
<1>2. /\ status[t] \in {"Completed", "Failed"} /\ to_verify = {} /\ to_fail = {}
      /\ disputed' = [disputed EXCEPT ![t] = TRUE]
    BY DEF dispute_verification, can_dispute, HookDone
<1>3. UNCHANGED <<now, to_verify, to_fail, NextPoolId, Pools, owner, config, PoolTasks,
                  ActiveTaskCount, PoolStakes, TotalPoolStake, NextTaskId, user, pool_of,
                  submitted_at, reward, ProofSubmittedAt>>
    BY DEF dispute_verification, hook, pool, activity, stakes, taskinfo
<1>4. /\ ReputationMirrored'
      /\ reputation' \in [PoolIds -> 0..100]
      /\ \A f \in {total_tasks', completed_tasks', failed_tasks'} : f \in [PoolIds -> Nat]
      /\ MinerReputation' \in [Accounts -> [reputation : 0..100, total : Nat, successful : Nat, failed : Nat]]
      /\ \A p \in PoolIds : p >= NextPoolId =>
             total_tasks'[p] = 0 /\ completed_tasks'[p] = 0 /\ failed_tasks'[p] = 0
    BY <1>1, <1>3, ReputationStep
<1>5. /\ Rewards' \subseteq TaskIds
      /\ escrow' \in [TaskIds -> {"None", "Held", "Claimed"}]
      /\ released_twice' \subseteq TaskIds
      /\ free' \in [Accounts -> Nat] /\ reserved' \in [Accounts -> Nat]
      /\ deposit_held' \in [PoolIds -> 0..PoolDeposit]
      /\ \A p \in PoolIds : p \notin Pools => deposit_held'[p] = 0
  <2>1. CASE release_and_slash(t)
    BY <2>1, ReleaseTypes
  <2>2. CASE Rewards' = Rewards \cup {t} /\ UNCHANGED <<escrow, released_twice, free, reserved, deposit_held>>
    BY <2>2 DEF TypeOK, PoolsKnown
  <2> QED BY <1>1, <2>1, <2>2
<1>6. TypeOK'
  <2>1. status' \in [TaskIds -> Statuses] /\ disputed' \in [TaskIds -> BOOLEAN]
    BY <1>1, <1>2 DEF TypeOK, Statuses
  <2> QED BY <1>3, <1>4, <1>5, <2>1 DEF TypeOK
<1>7. PoolsKnown'
    BY <1>3, <1>4, <1>5 DEF PoolsKnown
<1>8. /\ status'[t] = s
      /\ \A i \in TaskIds : i # t => status'[i] = status[i] /\ disputed'[i] = disputed[i]
    BY <1>1, <1>2 DEF TypeOK
<1>9. TasksKnown'
  <2>1. \A i \in TaskIds : i # t => escrow'[i] = escrow[i] /\ (i \in released_twice' => i \in released_twice)
    BY <1>1, SMTT(30), SMTT(40) DEF release_and_slash, TypeOK
  <2>2. ~ (t >= NextTaskId)
    BY <1>2 DEF TasksKnown
  <2> QED BY <1>3, <1>8, <2>1, <2>2 DEF TasksKnown
<1>10. \A i \in TaskIds : /\ status'[i] \in Undecided <=> status[i] \in Undecided
                          /\ status'[i] = "ProofSubmitted" => status[i] = "ProofSubmitted"
    BY <1>2, <1>8 DEF Undecided
<1>11. ActivityExact'
  <2>1. \A p \in PoolIds : {i \in TaskIds : pool_of'[i] = p /\ status'[i] \in Undecided} =
                           {i \in TaskIds : pool_of[i] = p /\ status[i] \in Undecided}
    BY <1>3, <1>10
  <2> QED BY <1>3, <2>1 DEF ActivityExact
<1>12. HookExact'
    BY <1>2, <1>3, <1>10 DEF HookExact
<1>13. ReserveIsDue'
  <2>1. CASE release_and_slash(t)
    BY <1>3, <1>6, <2>1, ReleaseStep
  <2>2. CASE UNCHANGED <<escrow, released_twice, free, reserved, deposit_held>>
    BY <1>3, <2>2, ReserveKept
  <2> QED BY <1>1, <2>1, <2>2
<1> QED BY <1>4, <1>6, <1>7, <1>9, <1>11, <1>12, <1>13

(* A new block: on_initialize scans the lists of the pools, and because the *)
(* lists are exact it finds every task whose time is up.                    *)
LEMMA NextBlockStep ==
    ASSUME PInv, next_block
    PROVE  PInv'
<1> USE DEF PInv
<1>1. /\ now < MaxBlock /\ now' = now + 1
      /\ to_verify' = unverified(now + 1) /\ to_fail' = overdue(now + 1)
    BY DEF next_block
<1>2. UNCHANGED <<NextPoolId, Pools, owner, config, deposit_held,
                  reputation, total_tasks, completed_tasks, failed_tasks, MinerReputation,
                  PoolTasks, ActiveTaskCount, PoolStakes, TotalPoolStake, NextTaskId, user, pool_of,
                  submitted_at, reward, status, disputed, ProofSubmittedAt, Rewards, escrow,
                  released_twice, free, reserved>>
    BY DEF next_block, pool, standing, activity, stakes, taskinfo, verdict, payment, money
<1>3. Active = {i \in TaskIds : status[i] \in Undecided}
  <2>1. \A i \in Active : \E p \in PoolIds : i \in PoolTasks[p]
    BY DEF Active
  <2>2. \A i \in Active : i \in TaskIds /\ status[i] \in Undecided
    BY <2>1 DEF ActivityExact
  <2>3. ASSUME NEW i \in TaskIds, status[i] \in Undecided
        PROVE  i \in Active
    <3>1. pool_of[i] \in PoolIds
      BY DEF TypeOK
    <3>2. i \in PoolTasks[pool_of[i]]
      BY <2>3, <3>1 DEF ActivityExact
    <3> QED BY <3>1, <3>2 DEF Active
  <2> QED BY <2>2, <2>3
<1>4. /\ to_verify' = {i \in TaskIds : status[i] = "ProofSubmitted" /\ now' > ProofSubmittedAt[i] + VerificationTimeout}
      /\ to_fail' = {i \in TaskIds : status[i] \in Undecided /\ now' > submitted_at[i] + TaskTimeout} \ to_verify'
    BY <1>1, <1>3 DEF unverified, overdue, Undecided
<1>5. TypeOK'
  <2>1. now' \in 0..MaxBlock
    BY <1>1, ReserveParams, SMTT(30), SMTT(40) DEF TypeOK
  <2>2. to_verify' \subseteq TaskIds /\ to_fail' \subseteq TaskIds
    BY <1>4
  <2> QED BY <1>2, <2>1, <2>2 DEF TypeOK
<1>6. PoolsKnown' /\ ReputationMirrored' /\ ActivityExact' /\ TasksKnown'
    BY <1>2 DEF PoolsKnown, ReputationMirrored, ActivityExact, TasksKnown
<1>7. HookExact'
    BY <1>2, <1>4 DEF HookExact
<1>8. ReserveIsDue'
    BY <1>2, ReserveKept
<1> QED BY <1>5, <1>6, <1>7, <1>8

-----------------------------------------------------------------------------
(* Nothing is registered, submitted, staked or reserved at the start.       *)
LEMMA InitPInv == Init => PInv
<1> SUFFICES ASSUME Init PROVE PInv
    OBVIOUS
<1>1. PICK anyone \in Accounts : anyone = CHOOSE a \in Accounts : TRUE
    BY PoolParams
<1>2. PICK c \in Configs : c = CHOOSE x \in Configs : TRUE
    BY PoolParams
<1>3. /\ PoolDeposit \in Nat /\ MaxTasks \in Nat /\ MaxPools \in Nat \ {0} /\ MaxBlock \in Nat
      /\ Endowment \in Nat /\ MaxTasksPerPool \in Nat /\ TaskTimeout \in Nat /\ VerificationTimeout \in Nat
    BY PoolParams, ReserveParams
<1>4. TypeOK
  <2>1. owner \in [PoolIds -> Accounts] /\ user \in [TaskIds -> Accounts] /\ config \in [PoolIds -> Configs]
    BY <1>1, <1>2 DEF Init
  <2>2. /\ deposit_held \in [PoolIds -> 0..PoolDeposit] /\ reputation \in [PoolIds -> 0..100]
        /\ \A f \in {total_tasks, completed_tasks, failed_tasks} : f \in [PoolIds -> Nat]
        /\ ActiveTaskCount \in [PoolIds -> Nat] /\ TotalPoolStake \in [PoolIds -> Nat]
        /\ PoolTasks \in [PoolIds -> SUBSET TaskIds] /\ PoolStakes \in [PoolIds -> [Accounts -> Nat]]
    <3>1. 0 \in 0..PoolDeposit /\ 0 \in 0..100 /\ 0 \in Nat
      BY <1>3, SMTT(30), SMTT(40)
    <3> QED BY <3>1 DEF Init
  <2>3. MinerReputation \in [Accounts -> [reputation : 0..100, total : Nat, successful : Nat, failed : Nat]]
    <3>1. MinerReputation = [a \in Accounts |->
                                [reputation |-> 80, total |-> 0, successful |-> 0, failed |-> 0]]
      BY DEF Init
    <3> QED BY <3>1, SMTT(30), SMTT(40)
  <2>4. /\ pool_of \in [TaskIds -> PoolIds] /\ status \in [TaskIds -> Statuses]
        /\ submitted_at \in [TaskIds -> 0..MaxBlock] /\ ProofSubmittedAt \in [TaskIds -> 0..MaxBlock]
        /\ reward \in [TaskIds -> Nat] /\ disputed \in [TaskIds -> BOOLEAN]
        /\ escrow \in [TaskIds -> {"None", "Held", "Claimed"}]
    <3>1. 0 \in PoolIds /\ 0 \in 0..MaxBlock /\ 0 \in Nat
      BY <1>3, SMTT(30), SMTT(40) DEF PoolIds
    <3> QED BY <3>1 DEF Init, Statuses
  <2>5. /\ now \in 0..MaxBlock /\ to_verify \subseteq TaskIds /\ to_fail \subseteq TaskIds
        /\ NextPoolId \in 0..MaxPools /\ Pools \subseteq 0..NextPoolId - 1 /\ NextTaskId \in 0..MaxTasks
        /\ Rewards \subseteq TaskIds /\ released_twice \subseteq TaskIds
        /\ free \in [Accounts -> Nat] /\ reserved \in [Accounts -> Nat]
    BY <1>3, SMTT(30), SMTT(40) DEF Init
  <2> QED BY <2>1, <2>2, <2>3, <2>4, <2>5 DEF TypeOK
<1>5. PoolsKnown /\ TasksKnown /\ ReputationMirrored
    BY DEF Init, PoolsKnown, TasksKnown, ReputationMirrored
<1>6. ActivityExact
  <2>1. \A p \in PoolIds : {i \in TaskIds : pool_of[i] = p /\ status[i] \in Undecided} = {}
    BY DEF Init, Undecided
  <2>2. \A p \in PoolIds : PoolTasks[p] = {} /\ ActiveTaskCount[p] = 0
    BY DEF Init
  <2>3. 0 <= MaxTasksPerPool
    BY <1>3, SMTT(30), SMTT(40)
  <2> QED BY <2>1, <2>2, <2>3, FS_EmptySet DEF ActivityExact
<1>7. HookExact
    BY DEF Init, HookExact, Undecided
<1>8. ReserveIsDue
  <2>0. 0 <= 0 /\ 0 + 0 + 0 = 0
    BY SMTT(30), SMTT(40)
  <2> SUFFICES ASSUME NEW a \in Accounts PROVE reserved[a] = 0 /\ Due(a) = 0
    BY <2>0 DEF ReserveIsDue
  <2>1. /\ \A p \in PoolIds : Deposits(a)[p] = 0 /\ StakesBy(a)[p] = 0
        /\ \A i \in TaskIds : Escrows(a)[i] = 0
    BY DEF Init, Deposits, StakesBy, Escrows
  <2>2. SumOver(Deposits(a), PoolIds) = 0 /\ SumOver(StakesBy(a), PoolIds) = 0 /\ SumOver(Escrows(a), TaskIds) = 0
    BY <1>4, <2>1, DueType, IdsFinite, SumZero
  <2>3. reserved[a] = 0
    BY DEF Init
  <2> QED BY <2>0, <2>2, <2>3 DEF Due
<1> QED BY <1>4, <1>5, <1>6, <1>7, <1>8 DEF PInv

(* Every step keeps the invariant, one case for each call and hook.         *)
LEMMA NextPInv == PInv /\ [Next]_vars => PInv'
<1> SUFFICES ASSUME PInv, [Next]_vars PROVE PInv'
    OBVIOUS
<1>1. CASE Next
  <2>1. ASSUME NEW who \in Accounts, NEW c \in Configs, register_pool(who, c)
        PROVE  PInv'
    BY <2>1, RegisterStep
  <2>2. ASSUME NEW who \in Accounts, NEW dim \in Dimensions, NEW p \in PoolIds,
               NEW preferred \in BOOLEAN, submit_task(who, dim, p, preferred)
        PROVE  PInv'
    BY <2>2, TaskStep
  <2>3. ASSUME NEW who \in Accounts, NEW id \in TaskIds, NEW result \in BOOLEAN,
               verify_proof(who, id, result)
        PROVE  PInv'
    BY <2>3, VerifyStep
  <2>4. ASSUME NEW who \in Accounts, NEW p \in PoolIds, NEW amount \in StakeAmounts,
               stake_to_pool(who, p, amount) \/ unstake_from_pool(who, p, amount)
        PROVE  PInv'
    BY <2>4, StakeStep, UnstakeStep
  <2>5. ASSUME NEW p \in PoolIds, deregister_pool(p) \/ \E c \in Configs : update_pool_config(p, c)
        PROVE  PInv'
    BY <2>5, DeregisterStep, ConfigStep
  <2>6. ASSUME NEW id \in TaskIds, submit_proof(id) \/ claim_reward(id) \/ dispute_verification(id)
        PROVE  PInv'
    BY <2>6, ProofStep, ClaimStep, DisputeStep
  <2>7. ASSUME NEW id \in TaskIds, auto_verify(id) \/ expire(id)
        PROVE  PInv'
    BY <2>7, AutoVerifyStep, ExpireStep
  <2>8. CASE next_block
    BY <2>8, NextBlockStep
  <2> QED BY <1>1, <2>1, <2>2, <2>3, <2>4, <2>5, <2>6, <2>7, <2>8 DEF Next, on_initialize
<1>2. CASE UNCHANGED vars
  <2>1. UNCHANGED <<now, to_verify, to_fail, NextPoolId, Pools, owner, config, deposit_held,
                    reputation, total_tasks, completed_tasks, failed_tasks, MinerReputation,
                    PoolTasks, ActiveTaskCount, PoolStakes, TotalPoolStake, NextTaskId, user, pool_of,
                    submitted_at, reward, status, disputed, ProofSubmittedAt, Rewards, escrow,
                    released_twice, free, reserved>>
    BY <1>2 DEF vars, hook, pool, standing, activity, stakes, taskinfo, verdict, payment, money
  <2>2. TypeOK' /\ PoolsKnown' /\ TasksKnown' /\ ActivityExact' /\ ReputationMirrored'
    BY <2>1 DEF PInv, TypeOK, PoolsKnown, TasksKnown, ActivityExact, ReputationMirrored
  <2>3. HookExact'
    BY <2>1, HookKept DEF PInv
  <2>4. ReserveIsDue'
    BY <2>1, ReserveKept DEF PInv
  <2> QED BY <2>2, <2>3, <2>4 DEF PInv
<1> QED BY <1>1, <1>2

(* The invariant holds in every state of the scheduler.                     *)
LEMMA AlwaysPInv == Spec => []PInv
BY InitPInv, NextPInv, PTL DEF Spec

(* Every variable of the scheduler keeps its type: counters and balances    *)
(* never go below zero, a deposit never exceeds PoolDeposit, reputations    *)
(* stay within 0..100.                                                      *)
THEOREM PoolTyped == Spec => []TypeOK
<1>1. PInv => TypeOK
    BY DEF PInv
<1> QED BY <1>1, AlwaysPInv, PTL

(* The list and the counter of a pool are exactly its undecided tasks, the  *)
(* pool of an undecided task is there, and the miner's record and the       *)
(* pool's agree: increment_pool_activity, decrement_pool_activity and       *)
(* update_reputation never miss a verdict and never count one twice.        *)
THEOREM PoolBooksExact == Spec => []PoolRecords
<1>1. PInv => PoolRecords
    BY DEF PInv, PoolRecords
<1> QED BY <1>1, AlwaysPInv, PTL

(* The one reserve of an account never exceeds the deposits, escrows and    *)
(* stakes it stands for, and equals their sum unless release_escrow has     *)
(* returned an escrow a second time.                                        *)
THEOREM ReserveSharedExactly == Spec => []ReserveIsDue
<1>1. PInv => ReserveIsDue
    BY DEF PInv
<1> QED BY <1>1, AlwaysPInv, PTL

(* Once on_initialize has run, no task is undecided beyond TaskTimeout and  *)
(* no proof unverified beyond VerificationTimeout.                          *)
THEOREM NoTaskOverdue == Spec => []NothingOverdue
<1>1. PInv => NothingOverdue
  <2> SUFFICES ASSUME PInv, HookDone, NEW id \in TaskIds
               PROVE  /\ status[id] \in Undecided => now <= submitted_at[id] + TaskTimeout
                      /\ status[id] = "ProofSubmitted" => now <= ProofSubmittedAt[id] + VerificationTimeout
    BY DEF NothingOverdue
  <2>1. /\ now \in Int /\ submitted_at[id] \in Int /\ ProofSubmittedAt[id] \in Int
        /\ TaskTimeout \in Nat /\ VerificationTimeout \in Nat
    BY TimeTypes DEF PInv
  <2>2. /\ status[id] \in Undecided => ~ (now > submitted_at[id] + TaskTimeout)
        /\ status[id] = "ProofSubmitted" => ~ (now > ProofSubmittedAt[id] + VerificationTimeout)
    BY DEF PInv, HookExact, HookDone
  <2> QED BY <2>1, <2>2, SMTT(30), SMTT(40)
<1> QED BY <1>1, AlwaysPInv, PTL

(* What a step may do to the verdict and the escrow of one task.            *)
VerdictKept(id) ==
    /\ status[id] \in {"Completed", "Failed"} /\ status'[id] # status[id] =>
           ~disputed[id] /\ disputed'[id]
    /\ disputed[id] /\ escrow[id] = "None" => escrow'[id] = "None"

(* Deciding an undecided task keeps the verdicts of the others, and opens   *)
(* no escrow.                                                               *)
LEMMA FinalKeeps ==
    ASSUME PInv, NEW t \in TaskIds, NEW result \in BOOLEAN, status[t] \in Undecided,
           finalize_verification(t, result), NEW id \in TaskIds
    PROVE  VerdictKept(id)
<1>1. \A i \in TaskIds : i # t => status'[i] = status[i]
    BY DEF finalize_verification, PInv, TypeOK
<1>2. escrow' = escrow \/ escrow' = [escrow EXCEPT ![t] = "None"]
    BY DEF finalize_verification, release_and_slash
<1>3. escrow[id] = "None" => escrow'[id] = "None"
    BY <1>2 DEF PInv, TypeOK
<1>4. id = t => status[id] \notin {"Completed", "Failed"}
    BY DEF Undecided
<1> QED BY <1>1, <1>3, <1>4 DEF VerdictKept

(* A verdict of verify_proof or of the hook changes only through the one    *)
(* dispute_verification of its user, and once the escrow of a disputed task *)
(* is released nothing opens it again.                                      *)
THEOREM VerdictsStable == Spec => VerdictStable
<1>1. ASSUME PInv, [Next]_vars, NEW id \in TaskIds
      PROVE  VerdictKept(id)
  <2>1. CASE status' = status /\ escrow' = escrow
    BY <2>1 DEF VerdictKept
  <2>2. CASE \E who \in Accounts, dim \in Dimensions, p \in PoolIds, preferred \in BOOLEAN :
                submit_task(who, dim, p, preferred)
    <3>1. PICK t \in TaskIds : /\ t = NextTaskId /\ status' = [status EXCEPT ![t] = "Computing"]
                               /\ escrow' = [escrow EXCEPT ![t] = "Held"]
      BY <2>2 DEF submit_task
    <3>2. t >= NextTaskId
      BY <3>1, SMTT(30), SMTT(40) DEF TaskIds
    <3>3. status[t] = "None" /\ ~disputed[t]
      BY <1>1, <3>2 DEF PInv, TasksKnown
    <3>4. id # t => status'[id] = status[id] /\ escrow'[id] = escrow[id]
      BY <1>1, <3>1 DEF PInv, TypeOK
    <3> QED BY <3>3, <3>4 DEF VerdictKept
  <2>3. ASSUME NEW t \in TaskIds, NEW result \in BOOLEAN, status[t] \in Undecided,
               finalize_verification(t, result)
        PROVE  VerdictKept(id)
    BY <1>1, <2>3, FinalKeeps
  <2>4. ASSUME NEW t \in TaskIds, dispute_verification(t)
        PROVE  VerdictKept(id)
    <3>1. /\ ~disputed[t] /\ disputed' = [disputed EXCEPT ![t] = TRUE]
          /\ \E s \in {"Completed", "Failed"} : status' = [status EXCEPT ![t] = s]
          /\ escrow' = escrow \/ escrow' = [escrow EXCEPT ![t] = "None"]
      BY <2>4 DEF dispute_verification, can_dispute, release_and_slash
    <3>2. escrow[id] = "None" => escrow'[id] = "None"
      BY <1>1, <3>1 DEF PInv, TypeOK
    <3>3. id = t => ~disputed[id] /\ disputed'[id]
      BY <1>1, <3>1 DEF PInv, TypeOK
    <3>4. id # t => status'[id] = status[id]
      BY <1>1, <3>1 DEF PInv, TypeOK
    <3> QED BY <3>2, <3>3, <3>4 DEF VerdictKept
  <2>5. ASSUME NEW t \in TaskIds, submit_proof(t)
        PROVE  VerdictKept(id)
    <3>1. status[t] = "Computing" /\ status' = [status EXCEPT ![t] = "ProofSubmitted"] /\ escrow' = escrow
      BY <2>5 DEF submit_proof, can_prove, payment
    <3>2. id # t => status'[id] = status[id]
      BY <1>1, <3>1 DEF PInv, TypeOK
    <3> QED BY <3>1, <3>2 DEF VerdictKept
  <2>6. ASSUME NEW t \in TaskIds, claim_reward(t)
        PROVE  VerdictKept(id)
    <3>1. escrow[t] = "Held" /\ escrow' = [escrow EXCEPT ![t] = "Claimed"] /\ status' = status
      BY <2>6 DEF claim_reward, verdict
    <3>2. id # t => escrow'[id] = escrow[id]
      BY <1>1, <3>1 DEF PInv, TypeOK
    <3> QED BY <3>1, <3>2 DEF VerdictKept
  <2>7. ASSUME NEW who \in Accounts, NEW t \in TaskIds, NEW result \in BOOLEAN, verify_proof(who, t, result)
        PROVE  VerdictKept(id)
    <3>1. status[t] \in Undecided /\ finalize_verification(t, result)
      BY <2>7 DEF verify_proof, Undecided
    <3> QED BY <2>3, <3>1
  <2>8. ASSUME NEW t \in TaskIds, auto_verify(t) \/ expire(t)
        PROVE  VerdictKept(id)
    <3>1. CASE auto_verify(t)
      <4>1. status[t] \in Undecided /\ finalize_verification(t, TRUE)
        BY <1>1, <3>1 DEF auto_verify, PInv, HookExact, Undecided
      <4> QED BY <2>3, <4>1
    <3>2. CASE expire(t)
      <4>1. status[t] \in Undecided
        BY <1>1, <3>2 DEF expire, PInv, HookExact
      <4>2. finalize_verification(t, FALSE)
        BY <3>2 DEF expire, mark_task_failed, finalize_verification
      <4> QED BY <2>3, <4>1, <4>2
    <3> QED BY <2>8, <3>1, <3>2
  <2>9. CASE UNCHANGED vars
    BY <2>1, <2>9 DEF vars, verdict, payment
  <2>10. ASSUME NEW who \in Accounts, NEW c \in Configs, register_pool(who, c)
         PROVE  VerdictKept(id)
    BY <2>1, <2>10 DEF register_pool, verdict, payment
  <2>11. ASSUME NEW who \in Accounts, NEW p \in PoolIds, NEW amount \in StakeAmounts,
                stake_to_pool(who, p, amount) \/ unstake_from_pool(who, p, amount)
         PROVE  VerdictKept(id)
    BY <2>1, <2>11 DEF stake_to_pool, unstake_from_pool, verdict, payment
  <2>12. ASSUME NEW p \in PoolIds, deregister_pool(p) \/ \E c \in Configs : update_pool_config(p, c)
         PROVE  VerdictKept(id)
    BY <2>1, <2>12 DEF deregister_pool, update_pool_config, verdict, payment
  <2>13. CASE next_block
    BY <2>1, <2>13 DEF next_block, verdict, payment
  <2>14. CASE Next
    BY <2>2, <2>4, <2>5, <2>6, <2>7, <2>8, <2>10, <2>11, <2>12, <2>13, <2>14 DEF Next, on_initialize
  <2> QED BY <1>1, <2>9, <2>14
<1>2. PInv /\ [Next]_vars => [\A id \in TaskIds : VerdictKept(id)]_vars
    BY <1>1
<1>3. (\A id \in TaskIds : VerdictKept(id)) <=>
         \A id \in TaskIds :
            /\ status[id] \in {"Completed", "Failed"} /\ status'[id] # status[id] =>
                   ~disputed[id] /\ disputed'[id]
            /\ disputed[id] /\ escrow[id] = "None" => escrow'[id] = "None"
    BY DEF VerdictKept
<1> QED BY <1>2, <1>3, AlwaysPInv, PTL DEF Spec, VerdictStable
=============================================================================
