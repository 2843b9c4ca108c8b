-------------------------- MODULE AgentAttestation --------------------------
(***************************************************************************)
(* The agent-attestation pallet (pallets/agent-attestation), composed with *)
(* the x402-settlement pallet, which it calls when an attestation is       *)
(* confirmed (Config::OnAttestationConfirmed = X402Settlement) and with    *)
(* which it shares the reserve of every account.                           *)
(*                                                                         *)
(* An attestation is Pending while its deposit is reserved.  It can be     *)
(* challenged up to challenge_end, confirmed after it, and root decides a  *)
(* challenge.                                                              *)
(***************************************************************************)
EXTENDS X402Settlement

CONSTANTS
    Agents,             \* accounts that attest or challenge
    Tasks,              \* task ids attested to
    Models,             \* model ids an agent may offer
    NoAccount,          \* challenger: None
    AttestationDeposit, \* Config::AttestationDeposit
    ChallengeWindow,    \* Config::ChallengeWindow
    SlashPercent,       \* Config::SlashPercent
    HeartbeatInterval,  \* Config::HeartbeatInterval
    MaxModelsPerAgent,  \* Config::MaxModelsPerAgent
    MaxAttestations     \* bound: attestation ids ever handed out

ASSUME AttestationParams ==
    /\ AttestationDeposit \in Nat /\ ChallengeWindow \in Nat
    /\ SlashPercent \in 0..100 /\ HeartbeatInterval \in Nat
    /\ MaxModelsPerAgent \in Nat /\ MaxAttestations \in Nat
    /\ Agents \subseteq Accounts /\ NoAccount \notin Accounts
    /\ Tasks # {}

VARIABLES
    nodes,              \* registered accounts (every one has is_active)
    last_heartbeat,     \* NodeRegistration.last_heartbeat, by account
    models,             \* AgentCapabilities.model_ids, by account
    ModelProviders,     \* pairs of model and account
    NextAttestationId,
    attester,           \* Attestations: attester, by id
    task_of,            \* Attestations: task_id, by id
    att_status,         \* Attestations: status, by id ("None": no such id)
    challenge_end,      \* Attestations: challenge_end, by id
    challenger,         \* Attestations: challenger, by id
    AttesterTaskCount,  \* by account and task
    completed           \* external: tasks the compute pool scheduler completed

node == <<nodes, last_heartbeat, models, ModelProviders>>
attestation == <<attester, task_of, att_status, challenge_end, challenger>>
attvars == <<node, NextAttestationId, attestation, AttesterTaskCount, completed>>
settlement == <<NextIntentId, payment, status, verified_at, expires_at,
                PendingIntentIds, NonceUsed, FingerprintUsed, receipts, expiring>>
agentvars == <<now, settlement, balances, attvars>>

AttestationIds == 0..MaxAttestations - 1

-----------------------------------------------------------------------------
AgentInit ==
    /\ Init
    /\ nodes = {}
    /\ last_heartbeat = [a \in Accounts |-> 0]
    /\ models = [a \in Accounts |-> {}]
    /\ ModelProviders = {}
    /\ NextAttestationId = 0
    /\ attester = [id \in AttestationIds |-> NoAccount]
    /\ task_of = [id \in AttestationIds |-> CHOOSE t \in Tasks : TRUE]
    /\ att_status = [id \in AttestationIds |-> "None"]
    /\ challenge_end = [id \in AttestationIds |-> 0]
    /\ challenger = [id \in AttestationIds |-> NoAccount]
    /\ AttesterTaskCount = [a \in Accounts |-> [t \in Tasks |-> 0]]
    /\ completed = {}

register_node(who) ==
    /\ who \notin nodes
    /\ nodes' = nodes \cup {who}
    /\ last_heartbeat' = [last_heartbeat EXCEPT ![who] = now]
    /\ UNCHANGED <<now, settlement, balances, models, ModelProviders, NextAttestationId,
                   attestation, AttesterTaskCount, completed>>

heartbeat(who) ==
    /\ who \in nodes
    /\ now >= last_heartbeat[who] + HeartbeatInterval
    /\ last_heartbeat' = [last_heartbeat EXCEPT ![who] = now]
    /\ UNCHANGED <<now, settlement, balances, nodes, models, ModelProviders,
                   NextAttestationId, attestation, AttesterTaskCount, completed>>

(* The attestation that both submit_attestation and on_task_completed write. *)
insert_attestation(who, task) ==
    LET id == NextAttestationId IN
    /\ reserve(who, AttestationDeposit)
    /\ attester' = [attester EXCEPT ![id] = who]
    /\ task_of' = [task_of EXCEPT ![id] = task]
    /\ att_status' = [att_status EXCEPT ![id] = "Pending"]
    /\ challenge_end' = [challenge_end EXCEPT ![id] = now + ChallengeWindow]
    /\ AttesterTaskCount' = [AttesterTaskCount EXCEPT ![who][task] = @ + 1]
    /\ UNCHANGED challenger

submit_attestation(who, task) ==
    /\ NextAttestationId \in AttestationIds
    /\ who \in nodes
    /\ AttesterTaskCount[who][task] = 0
    /\ insert_attestation(who, task)
    /\ NextAttestationId' = NextAttestationId + 1
    /\ UNCHANGED <<now, settlement, node, completed>>

(***************************************************************************)
(* TaskCompletionHandler::on_task_completed, called by the compute pool    *)
(* scheduler for the owner of the pool, once per task.  The id is taken    *)
(* before the deposit can fail, and the caller ignores the error.          *)
(***************************************************************************)
on_task_completed(who, task) ==
    /\ task \notin completed
    /\ completed' = completed \cup {task}
    /\ NextAttestationId \in AttestationIds
    /\ NextAttestationId' = NextAttestationId + 1
    /\ \/ insert_attestation(who, task)
       \/ /\ free[who] < AttestationDeposit
          /\ UNCHANGED <<balances, attestation, AttesterTaskCount>>
    /\ UNCHANGED <<now, settlement, node>>

challengeable(id) ==
    /\ challenger[id] = NoAccount
    /\ now <= challenge_end[id]

challenge_attestation(who, id) ==
    /\ att_status[id] = "Pending"
    /\ challengeable(id)
    /\ challenger' = [challenger EXCEPT ![id] = who]
    /\ UNCHANGED <<now, settlement, balances, node, NextAttestationId, attester, task_of,
                   att_status, challenge_end, AttesterTaskCount, completed>>

window_over(id) == now > challenge_end[id]

(* Mistake: a challenged attestation can be confirmed too. *)
confirmable_challenged(id) == att_status[id] = "Pending" /\ window_over(id)

confirmable(id) ==
    /\ att_status[id] = "Pending"
    /\ challenger[id] = NoAccount
    /\ window_over(id)

(* The deposit is returned, then the settlement triggered with the attester *)
(* on both sides.                                                           *)
confirm_attestation(id) ==
    LET who == attester[id]
        back == Available(who, AttestationDeposit)
    IN
    /\ confirmable(id)
    /\ att_status' = [att_status EXCEPT ![id] = "Confirmed"]
    /\ reserved' = [reserved EXCEPT ![who] = @ - back]
    /\ settle_for_attestation([free EXCEPT ![who] = @ + back], who, who, AttestationDeposit)
    /\ UNCHANGED <<now, payment, status, verified_at, expires_at, PendingIntentIds,
                   NonceUsed, FingerprintUsed, expiring, node, NextAttestationId, attester, task_of,
                   challenge_end, challenger, AttesterTaskCount, completed>>

(* Mistake: only the slashed share leaves the reserve. *)
resolve_keeps_rest(id, guilty) ==
    LET who == attester[id]
        slashed == IF guilty THEN PercentOf(SlashPercent, AttestationDeposit) ELSE 0
    IN /\ reserved' = [reserved EXCEPT ![who] = @ - slashed]
       /\ UNCHANGED free

(* slash_reserved, then unreserve of the remainder. *)
resolve_deposit(id, guilty) ==
    LET who == attester[id]
        slashed == IF guilty THEN PercentOf(SlashPercent, AttestationDeposit) ELSE 0
        taken == Available(who, slashed)
        rest == AttestationDeposit - slashed
        back == IF rest <= reserved[who] - taken THEN rest ELSE reserved[who] - taken
    IN /\ reserved' = [reserved EXCEPT ![who] = @ - taken - back]
       /\ free' = [free EXCEPT ![who] = @ + back]

resolve_challenge(id, attester_is_guilty) ==
    /\ att_status[id] = "Pending"
    /\ challenger[id] # NoAccount
    /\ resolve_deposit(id, attester_is_guilty)
    /\ att_status' = [att_status EXCEPT ![id] = IF attester_is_guilty THEN "Slashed" ELSE "Defended"]
    /\ UNCHANGED <<now, settlement, node, NextAttestationId, attester, task_of,
                   challenge_end, challenger, AttesterTaskCount, completed>>

(* ModelProviders after the old models of who are replaced by the new ones. *)
reindex(who, new) == (ModelProviders \ (models[who] \X {who})) \cup (new \X {who})

update_capability(who, new) ==
    /\ who \in nodes
    /\ Cardinality(new) <= MaxModelsPerAgent
    /\ models' = [models EXCEPT ![who] = new]
    /\ ModelProviders' = reindex(who, new)
    /\ UNCHANGED <<now, settlement, balances, nodes, last_heartbeat, NextAttestationId,
                   attestation, AttesterTaskCount, completed>>

(* get_providers_for_model: the runtime query over the index. *)
get_providers_for_model(model) == {a \in nodes : <<model, a>> \in ModelProviders}

-----------------------------------------------------------------------------
AgentCall ==
    /\ HookDone
    /\ \/ \E who \in Agents :
             \/ register_node(who)
             \/ heartbeat(who)
             \/ \E task \in Tasks : submit_attestation(who, task)
             \/ \E task \in Tasks : on_task_completed(who, task)
             \/ \E id \in AttestationIds : challenge_attestation(who, id)
             \/ \E new \in SUBSET Models : update_capability(who, new)
       \/ \E id \in AttestationIds :
             \/ confirm_attestation(id)
             \/ \E guilty \in BOOLEAN : resolve_challenge(id, guilty)

AgentNext ==
    \/ Next /\ UNCHANGED attvars
    \/ AgentCall

AgentSpec == AgentInit /\ [][AgentNext]_agentvars

-----------------------------------------------------------------------------
AttestationStatuses == {"None", "Pending", "Confirmed", "Slashed", "Defended"}

(* Every variable of the two pallets keeps its type. *)
AgentTypeOK ==
    /\ TypeOK
    /\ nodes \subseteq Accounts
    /\ last_heartbeat \in [Accounts -> 0..MaxBlock]
    /\ models \in [Accounts -> SUBSET Models]
    /\ ModelProviders \subseteq Models \X Accounts
    /\ NextAttestationId \in 0..MaxAttestations
    /\ attester \in [AttestationIds -> Accounts \cup {NoAccount}]
    /\ task_of \in [AttestationIds -> Tasks]
    /\ att_status \in [AttestationIds -> AttestationStatuses]
    /\ challenge_end \in [AttestationIds -> Nat]
    /\ challenger \in [AttestationIds -> Accounts \cup {NoAccount}]
    /\ AttesterTaskCount \in [Accounts -> [Tasks -> Nat]]
    /\ completed \subseteq Tasks

PendingOf(a) == {id \in AttestationIds : att_status[id] = "Pending" /\ attester[id] = a}

(* The one reserve of an account holds exactly its open payment intents and *)
(* the deposits of its undecided attestations: neither pallet returns,      *)
(* slashes or pays out of what the other one has put there.                 *)
DepositsAndIntents ==
    \A a \in Accounts :
        reserved[a] = Owed(a) + AttestationDeposit * Cardinality(PendingOf(a))

(* An attestation is confirmed only when its whole challenge window has     *)
(* passed without a challenge; the last block for a challenge is the one    *)
(* before the first for a confirmation.                                     *)
ConfirmedUnchallenged ==
    [][\A id \in AttestationIds :
          /\ att_status[id] # "Confirmed" /\ att_status'[id] = "Confirmed" =>
                 challenger[id] = NoAccount /\ now > challenge_end[id]
          /\ challenger[id] # challenger'[id] => now <= challenge_end[id]]_agentvars

(* The index by model that schedulers query says what the capability        *)
(* records say, after any number of updates.                                *)
ProvidersMatchCapabilities ==
    \A model \in Models : get_providers_for_model(model) = {a \in Accounts : model \in models[a]}

(* Ids are never shared: an id of the settlement pallet is a payment intent *)
(* or the receipt of an attestation, not both, so the receipts without an   *)
(* intent are as many as the confirmed attestations.                        *)
ReceiptPerConfirmation ==
    Cardinality({id \in receipts : status[id] = "None"})
        = Cardinality({id \in AttestationIds : att_status[id] = "Confirmed"})
=============================================================================
