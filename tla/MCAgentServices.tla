-------------------------- MODULE MCAgentServices --------------------------
(* Instance of AgentServices for TLC: two accounts that pay each other,    *)
(* attest and order tasks, and the treasury; payments that share a nonce   *)
(* or a fingerprint and one that nobody has signed; two task definitions   *)
(* whose orders cost 3 and 10 at the first price.                          *)
EXTENDS AgentServices

CONSTANTS a1, a2, treasury

Pay(from, to, amount, nonce, fp) ==
    [merchant |-> from, miner |-> to, amount |-> amount, nonce |-> nonce,
     replay_fingerprint |-> fp]

FirstPay == Pay(a1, a2, 5, 1, 2)

MCSigned == {FirstPay, Pay(a1, a2, 10, 1, 1), Pay(a2, a1, 5, 1, 2), Pay(a1, a1, 5, 3, 4)}

MCPayments == MCSigned \cup {Pay(a2, a1, 10, 2, 5)}

Cheap == [input_price |-> 1000, output_price |-> 2000, max_tokens |-> 2]

MCDefinitions == {Cheap, [input_price |-> 4000, output_price |-> 6000, max_tokens |-> 2]}

NoPayments == NextIntentId = 0
OnePayment == NextIntentId <= 2 /\ \A id \in IntentIds : payment[id] \in {NoPayment, FirstPay}
NoAgents == nodes = {} /\ NextAttestationId = 0
StillAgents == ModelProviders = {} /\ \A a \in Accounts : last_heartbeat[a] = 0
QuietOracle == PriceURL = << >> /\ price_tx = NoPrice /\ PriceUpdateFrequency = 10
NoTasks == NextTaskId = 0
NoOracle == QuietOracle /\ samples = << >>
FirstCustomer == admin[0] # a2 /\ order[0].customer # a2

(* Six slices in one graph: each pallet with what it calls, and all three   *)
(* with one payment, one attestation and one order.                         *)
Slices ==
    \/ NoAgents /\ NoTasks /\ NoOracle /\ now <= 3
    \/ OnePayment /\ StillAgents /\ nodes \subseteq {a1} /\ NoTasks /\ NoOracle /\ now <= 2
    \/ NoPayments /\ NextAttestationId = 0 /\ NoTasks /\ NoOracle /\ now <= 3
    \/ NoPayments /\ NoAgents /\ NoTasks /\ now <= 2
    \/ /\ NoPayments /\ NoAgents /\ QuietOracle /\ FirstCustomer /\ now <= 2
       /\ samples \in {<<10>>, <<10, 10>>, <<10, 20>>}
    \/ /\ OnePayment /\ NextIntentId <= 1 /\ StillAgents /\ NextAttestationId <= 1 /\ nodes = {}
       /\ QuietOracle /\ samples \in {<<10>>, <<10, 10>>}
       /\ FirstCustomer /\ NextOrderId <= 1 /\ definition[0] = Cheap
       /\ is_active[0] = (NextTaskId = 1) /\ now <= 2

MCSpec == ServicesInit /\ [][ServicesNext /\ Slices']_servicevars
=============================================================================
