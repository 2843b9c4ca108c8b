--------------------------- MODULE PaymentEscrow ---------------------------
(***************************************************************************)
(* What the x402-settlement pallet promises to merchants and miners: the   *)
(* amount of a signed payment is held in the merchant's reserve from the   *)
(* moment it is accepted, and leaves it once, whole, for the miner or back *)
(* to the merchant.  The rest of the chain moves balances as it likes, but *)
(* never what is held.                                                     *)
(***************************************************************************)
EXTENDS Integers

CONSTANTS Accounts, Signed, Endowment

VARIABLES
    open, paid, refunded,   \* sets of signed payments
    held,                   \* the part of each reserve that open payments are in
    free, reserved          \* balances

payments == <<open, paid, refunded, held>>
vars == <<payments, free, reserved>>

Init ==
    /\ open = {} /\ paid = {} /\ refunded = {}
    /\ held = [a \in Accounts |-> 0]
    /\ free = [a \in Accounts |-> Endowment]
    /\ reserved = [a \in Accounts |-> 0]

(* The signed payment p is accepted: it never has been before. *)
Accept(p) ==
    /\ p \notin open \cup paid \cup refunded
    /\ p.amount <= free[p.merchant]
    /\ open' = open \cup {p}
    /\ held' = [held EXCEPT ![p.merchant] = @ + p.amount]
    /\ free' = [free EXCEPT ![p.merchant] = @ - p.amount]
    /\ reserved' = [reserved EXCEPT ![p.merchant] = @ + p.amount]
    /\ UNCHANGED <<paid, refunded>>

(* The whole amount leaves the reserve of the merchant for the account to. *)
Release(p, to) ==
    /\ p \in open
    /\ open' = open \ {p}
    /\ held' = [held EXCEPT ![p.merchant] = @ - p.amount]
    /\ reserved' = [reserved EXCEPT ![p.merchant] = @ - p.amount]
    /\ free' = [free EXCEPT ![to] = @ + p.amount]

Pay(p) ==
    /\ Release(p, p.miner)
    /\ paid' = paid \cup {p}
    /\ UNCHANGED refunded

Refund(p) ==
    /\ Release(p, p.merchant)
    /\ refunded' = refunded \cup {p}
    /\ UNCHANGED paid

(* Any other pallet; what is held stays in the reserve. *)
Elsewhere ==
    /\ UNCHANGED payments
    /\ \A a \in Accounts : held[a] <= reserved'[a]

Next ==
    \/ \E p \in Signed : Accept(p) \/ Pay(p) \/ Refund(p)
    \/ Elsewhere

Spec == Init /\ [][Next]_vars
=============================================================================
