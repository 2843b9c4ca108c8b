--------------------------- MODULE AgentServices ---------------------------
(***************************************************************************)
(* The three pallets that agents are paid through, on one chain: payments  *)
(* (x402-settlement), attestations (agent-attestation) and orders          *)
(* (task-mode, with the price oracle).  They share the clock and, since    *)
(* each of them uses the unnamed reserve of Balances, one reserve for each *)
(* account.                                                                *)
(***************************************************************************)
EXTENDS AgentAttestation, TaskMode

servicevars == <<agentvars, taskvars>>

ServicesInit == AgentInit /\ TaskInit

(* task_next_block leaves the balances alone and moves the same clock. *)
ServicesNext ==
    \/ SettlementCall /\ UNCHANGED <<attvars, taskvars>>
    \/ AgentCall /\ UNCHANGED taskvars
    \/ HookDone /\ TaskCall /\ UNCHANGED <<settlement, attvars>>
    \/ HookDone /\ OracleStep /\ UNCHANGED <<settlement, attvars>>
    \/ HookDone /\ next_block /\ task_next_block /\ UNCHANGED attvars
    \/ \E id \in IntentIds : on_initialize(id) /\ UNCHANGED <<attvars, taskvars>>

ServicesSpec == ServicesInit /\ [][ServicesNext]_servicevars

-----------------------------------------------------------------------------
(* The one reserve of an account holds exactly its open payment intents,    *)
(* the deposits of its undecided attestations and its open orders: no       *)
(* pallet returns, slashes or pays out of what another one has put there.   *)
ReserveIsShared ==
    \A a \in Accounts :
        reserved[a] = Owed(a) + AttestationDeposit * Cardinality(PendingOf(a)) + Charged(a)
=============================================================================
