----------------------------- MODULE MCZkCompute -----------------------------
(* Instance of ZkCompute for TLC: one proof that verifies, one that does    *)
(* not; rewards of one unit, so that one claim empties the pallet's         *)
(* account.                                                                 *)
EXTENDS ZkCompute

CONSTANTS Guest,        \* a miner who submits one proof
          MaxForeign    \* bound: verdicts that no worker made

MCProofs == {[valid |-> v, volume |-> 1, multiplier_q100 |-> 120] : v \in BOOLEAN}

(* A foreign verdict is one that disagrees with the verifier: one that      *)
(* agrees differs from a worker's in nothing.                               *)
Slices ==
    /\ Cardinality(UsedNonces'[Guest]) <= 1
    /\ Cardinality(foreign') <= MaxForeign
    /\ \A id \in foreign' : (zk_status'[id] = "Verified") # proof'[id].valid

MCSpec == Init /\ [][Next /\ Slices]_vars /\ Fairness

=============================================================================
