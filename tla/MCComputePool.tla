---------------------------- MODULE MCComputePool ----------------------------
(* Instance of ComputePool for TLC: a plain pool and a linked one, a task    *)
(* that fits both and one that only fits the second.                        *)
EXTENDS ComputePool

Plain == [gpu_memory |-> 1, has_nvlink |-> FALSE, nvlink_efficiency |-> 100, price_per_task |-> 2]
Linked == [gpu_memory |-> 2, has_nvlink |-> TRUE, nvlink_efficiency |-> 150, price_per_task |-> 1]
MCConfigs == {Plain, Linked}

Small == [k |-> 1, complexity |-> 1]
Large == [k |-> 2, complexity |-> 2000000]
MCDimensions == {Small, Large}

(* Two slices in one graph: one plain pool with several tasks and stakes,    *)
(* or two pools of either kind with one task, for fewer blocks.             *)
Slices ==
    \/ /\ NextPoolId = 1 => config[0] = Plain
       /\ NextPoolId <= 1
       /\ \A t \in TaskIds : reward[t] \in {0, Plain.price_per_task}
    \/ /\ NextTaskId <= 1
       /\ now <= 1
       /\ \A p \in PoolIds : TotalPoolStake[p] = 0
==============================================================================
