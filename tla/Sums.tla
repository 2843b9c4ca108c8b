-------------------------------- MODULE Sums --------------------------------
(* Totals over finite sets of ids or accounts.                              *)
EXTENDS Integers, FiniteSets

(* The sum of the function w over the finite set S. *)
SumOver(w, S) ==
    LET sum[T \in SUBSET S] ==
            IF T = {} THEN 0
            ELSE LET x == CHOOSE x \in T : TRUE IN w[x] + sum[T \ {x}]
    IN  sum[S]
=============================================================================
