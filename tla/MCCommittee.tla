---------------------------- MODULE MCCommittee ----------------------------
(* Instance of Committee for TLC: a few units of coins, two parameter       *)
(* records that differ in the baseline and in the free share, a review that *)
(* costs more than an order.                                                *)
EXTENDS Committee

CONSTANT Guests     \* members that only join, chill and leave

MCParams ==
    {[stake_baseline |-> 4, stake_per_order |-> 1, min_free_stake_percent |-> 40],
     [stake_baseline |-> 3, stake_per_order |-> 1, min_free_stake_percent |-> 50]}

(* No operation relates two members except through the lists: one does       *)
(* everything, the other only comes and goes.                                *)
Slices ==
    \A c \in Guests :
        /\ c \notin unbalanced' /\ used_stake'[c] = 0 /\ can_claim_reward'[c] = 0
        /\ staked_amount'[c] # staked_amount[c] => 0 \in {staked_amount[c], staked_amount'[c]}

MCSpec == Init /\ [][Next /\ Slices]_vars
=============================================================================
