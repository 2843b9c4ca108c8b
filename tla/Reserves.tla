------------------------------ MODULE Reserves ------------------------------
(***************************************************************************)
(* What the pallets that hold users' money share (x402-settlement,         *)
(* agent-attestation, task-mode, compute-pool-scheduler): the clock, and   *)
(* the balances of pallet_balances with its one unnamed reserve for each   *)
(* account.                                                                *)
(***************************************************************************)
EXTENDS Integers, FiniteSets, Sums

CONSTANTS
    Accounts,
    Endowment,      \* the free balance of an account at genesis
    MaxBlock        \* bound: the last block

ASSUME ReserveParams == Endowment \in Nat /\ MaxBlock \in Nat

VARIABLES
    now,            \* frame_system::block_number
    free,           \* Currency: free balance
    reserved        \* Currency: reserved balance

balances == <<free, reserved>>

(* Currency::unreserve and repatriate_reserved move what is there, if less. *)
Available(who, amount) == IF amount <= reserved[who] THEN amount ELSE reserved[who]

unreserve(who, amount) ==
    /\ reserved' = [reserved EXCEPT ![who] = @ - Available(who, amount)]
    /\ free' = [free EXCEPT ![who] = @ + Available(who, amount)]

reserve(who, amount) ==
    /\ free[who] >= amount
    /\ free' = [free EXCEPT ![who] = @ - amount]
    /\ reserved' = [reserved EXCEPT ![who] = @ + amount]

repatriate_reserved(from, to, amount) ==
    /\ reserved' = [reserved EXCEPT ![from] = @ - Available(from, amount)]
    /\ free' = [free EXCEPT ![to] = @ + Available(from, amount)]

(* Percent and Perbill times a balance round to the nearest unit, ties      *)
(* downwards.                                                               *)
PercentOf(p, a) == (2 * p * a + 99) \div 200
=============================================================================
