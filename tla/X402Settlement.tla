--------------------------- MODULE X402Settlement ---------------------------
(***************************************************************************)
(* The x402-settlement pallet (pallets/x402-settlement): a merchant        *)
(* reserves the amount of a payment that the facilitator has signed, the   *)
(* facilitator verifies the payment, and after a delay the amount goes to  *)
(* the miner.  Unverified intents expire in on_initialize.                 *)
(*                                                                         *)
(* A payment is a record of what the facilitator's signature covers.  The  *)
(* signature check itself is the membership test p \in Signed.             *)
(***************************************************************************)
EXTENDS Reserves

CONSTANTS
    Payments,           \* the payments merchants submit
    Signed,             \* those of them the facilitator has signed
    NoPayment,          \* stands for a payment where there is no intent
    SettlementDelay,    \* Config::SettlementDelay
    PaymentIntentTTL,   \* Config::PaymentIntentTTL
    MaxPending,         \* capacity of PendingIntentIds (10000 in the code)
    MaxIds              \* bound: intent ids ever handed out

ASSUME PaymentsType ==
    /\ Payments \subseteq [merchant : Accounts, miner : Accounts, amount : Nat,
                           nonce : Nat, replay_fingerprint : Nat]
    /\ Signed \subseteq Payments
    /\ NoPayment \notin Payments

ASSUME SettlementParams ==
    /\ SettlementDelay \in Nat /\ PaymentIntentTTL \in Nat \ {0}
    /\ MaxPending \in Nat /\ MaxIds \in Nat

IntentIds == 0..MaxIds - 1

VARIABLES
    NextIntentId,   \* NextIntentId
    payment,        \* PaymentIntents: what the intent is for, by id
    status,         \* PaymentIntents: status, by id ("None": no such intent)
    verified_at,    \* PaymentIntents: verified_at, by id
    expires_at,     \* PaymentIntents: expires_at, by id
    PendingIntentIds,
    NonceUsed,      \* pairs of merchant and nonce
    FingerprintUsed,
    receipts,       \* ids with a SettlementReceipt
    expiring        \* the intents on_initialize still has to expire in this block

intent == <<payment, status, verified_at, expires_at>>
replay == <<NonceUsed, FingerprintUsed>>
vars == <<now, NextIntentId, intent, PendingIntentIds, replay, receipts, expiring, balances>>

Statuses == {"None", "Pending", "Verified", "Settled", "Failed"}

Open == {"Pending", "Verified"}

-----------------------------------------------------------------------------
Init ==
    /\ now = 0
    /\ NextIntentId = 0
    /\ payment = [id \in IntentIds |-> NoPayment]
    /\ status = [id \in IntentIds |-> "None"]
    /\ verified_at = [id \in IntentIds |-> 0]
    /\ expires_at = [id \in IntentIds |-> 0]
    /\ PendingIntentIds = {}
    /\ NonceUsed = {} /\ FingerprintUsed = {}
    /\ receipts = {}
    /\ expiring = {}
    /\ free = [a \in Accounts |-> Endowment]
    /\ reserved = [a \in Accounts |-> 0]

(* Mistake: the nonce is not recorded, only the fingerprint. *)
mark_fingerprint_only(p) ==
    /\ FingerprintUsed' = FingerprintUsed \cup {p.replay_fingerprint}
    /\ UNCHANGED NonceUsed

mark_used(p) ==
    /\ NonceUsed' = NonceUsed \cup {<<p.merchant, p.nonce>>}
    /\ FingerprintUsed' = FingerprintUsed \cup {p.replay_fingerprint}

(* Mistake: the new intent is not put on the list that the hook goes over. *)
track_nothing(id) == UNCHANGED PendingIntentIds

track(id) ==
    /\ Cardinality(PendingIntentIds) < MaxPending
    /\ PendingIntentIds' = PendingIntentIds \cup {id}

untrack(id) == PendingIntentIds' = PendingIntentIds \ {id}

submit_payment_intent(p) ==
    LET id == NextIntentId IN
    /\ id \in IntentIds
    /\ <<p.merchant, p.nonce>> \notin NonceUsed
    /\ p.replay_fingerprint \notin FingerprintUsed
    /\ p \in Signed
    /\ reserve(p.merchant, p.amount)
    /\ NextIntentId' = id + 1
    /\ mark_used(p)
    /\ track(id)
    /\ payment' = [payment EXCEPT ![id] = p]
    /\ status' = [status EXCEPT ![id] = "Pending"]
    /\ expires_at' = [expires_at EXCEPT ![id] = now + PaymentIntentTTL]
    /\ UNCHANGED <<now, verified_at, receipts, expiring>>

(* By the facilitator. *)
verify_settlement(id) ==
    /\ status[id] = "Pending"
    /\ now < expires_at[id]
    /\ status' = [status EXCEPT ![id] = "Verified"]
    /\ verified_at' = [verified_at EXCEPT ![id] = now]
    /\ untrack(id)
    /\ UNCHANGED <<now, NextIntentId, payment, expires_at, replay, receipts, expiring,
                   balances>>

delay_met(id) == now >= verified_at[id] + SettlementDelay

(* By the merchant, the miner or the facilitator. *)
finalize_settlement(id) ==
    LET p == payment[id] IN
    /\ status[id] = "Verified"
    /\ now < expires_at[id]
    /\ delay_met(id)
    /\ repatriate_reserved(p.merchant, p.miner, p.amount)
    /\ status' = [status EXCEPT ![id] = "Settled"]
    /\ receipts' = receipts \cup {id}
    /\ UNCHANGED <<now, NextIntentId, payment, verified_at, expires_at, PendingIntentIds, replay,
                   expiring>>

(* Mistake: whatever is not yet failed can be failed. *)
not_yet_failed(id) == status[id] \in Open \cup {"Settled"}

can_fail(id) == status[id] \in Open

(* By the facilitator. *)
fail_payment_intent(id) ==
    /\ can_fail(id)
    /\ unreserve(payment[id].merchant, payment[id].amount)
    /\ status' = [status EXCEPT ![id] = "Failed"]
    /\ untrack(id)
    /\ UNCHANGED <<now, NextIntentId, payment, verified_at, expires_at, replay, receipts,
                   expiring>>

take_id == NextIntentId' = NextIntentId + 1

(***************************************************************************)
(* AttestationSettler::settle_for_attestation, called with the given free  *)
(* balances.  The id is taken before the transfer can fail, and the caller *)
(* ignores the error.  A transfer to oneself moves nothing.                *)
(***************************************************************************)
settle_for_attestation(balance, merchant, miner, amount) ==
    LET paid == merchant = miner \/ balance[merchant] >= amount IN
    /\ NextIntentId \in IntentIds
    /\ take_id
    /\ receipts' = IF paid THEN receipts \cup {NextIntentId} ELSE receipts
    /\ free' = IF paid /\ merchant # miner
                 THEN [balance EXCEPT ![merchant] = @ - amount, ![miner] = @ + amount]
                 ELSE balance

(* The intents that on_initialize finds expired. *)
expired(block) == {id \in PendingIntentIds : status[id] = "Pending" /\ block >= expires_at[id]}

(* A new block begins with on_initialize going over the pending intents. *)
next_block ==
    /\ now < MaxBlock
    /\ now' = now + 1
    /\ expiring' = expired(now + 1)
    /\ UNCHANGED <<NextIntentId, intent, PendingIntentIds, replay, receipts, balances>>

(* One round of its loop. *)
on_initialize(id) ==
    /\ id \in expiring
    /\ unreserve(payment[id].merchant, payment[id].amount)
    /\ status' = [status EXCEPT ![id] = "Failed"]
    /\ untrack(id)
    /\ expiring' = expiring \ {id}
    /\ UNCHANGED <<now, NextIntentId, payment, verified_at, expires_at, replay, receipts>>

(* Calls are executed only after the hooks of the block. *)
HookDone == expiring = {}

-----------------------------------------------------------------------------
SettlementCall ==
    /\ HookDone
    /\ \/ \E p \in Payments : submit_payment_intent(p)
       \/ \E id \in IntentIds :
             \/ verify_settlement(id)
             \/ finalize_settlement(id)
             \/ fail_payment_intent(id)

Next ==
    \/ SettlementCall
    \/ HookDone /\ next_block
    \/ \E id \in IntentIds : on_initialize(id)

Spec == Init /\ [][Next]_vars

-----------------------------------------------------------------------------
(* Every variable of the pallet keeps its type. *)
TypeOK ==
    /\ now \in 0..MaxBlock
    /\ NextIntentId \in 0..MaxIds
    /\ payment \in [IntentIds -> Payments \cup {NoPayment}]
    /\ status \in [IntentIds -> Statuses]
    /\ verified_at \in [IntentIds -> Nat]
    /\ expires_at \in [IntentIds -> Nat]
    /\ PendingIntentIds \subseteq IntentIds
    /\ NonceUsed \subseteq Accounts \X Nat
    /\ FingerprintUsed \subseteq Nat
    /\ receipts \subseteq IntentIds
    /\ expiring \subseteq IntentIds
    /\ free \in [Accounts -> Nat]
    /\ reserved \in [Accounts -> Nat]

OpenIntents == {id \in IntentIds : status[id] \in Open}

(* What the merchant a has in reserve for the intent id. *)
OwedFor(a, id) ==
    IF status[id] \in Open /\ payment[id].merchant = a THEN payment[id].amount ELSE 0

Owed(a) == SumOver([id \in IntentIds |-> OwedFor(a, id)], IntentIds)

(* What a merchant has in reserve is the sum of its open intents: no intent *)
(* is paid or refunded twice, and no reserve is left behind by one.         *)
ReserveIsOwed == \A a \in Accounts : reserved[a] = Owed(a)

(* A signed payment gives rise to one intent at most, however often the     *)
(* merchant submits it and whatever became of the first intent: merchant    *)
(* with nonce, and fingerprint, each identify an intent.                    *)
NoReplay ==
    \A i, j \in IntentIds :
        status[i] # "None" /\ status[j] # "None" /\ i # j =>
            /\ payment[i].replay_fingerprint # payment[j].replay_fingerprint
            /\ <<payment[i].merchant, payment[i].nonce>> # <<payment[j].merchant, payment[j].nonce>>

(* No pending intent outlives its time to live: once the hook of a block    *)
(* has run, every intent still pending is on the list the hook goes over    *)
(* and has not expired, so its reserve is freed within PaymentIntentTTL     *)
(* blocks unless the facilitator acts before.                               *)
PendingExpires ==
    HookDone => \A id \in IntentIds :
        status[id] = "Pending" => id \in PendingIntentIds /\ now < expires_at[id]

(* The pallet as an escrow of signed payments.                              *)
E == INSTANCE PaymentEscrow WITH
        open <- {payment[id] : id \in OpenIntents},
        paid <- {payment[id] : id \in {i \in IntentIds : status[i] = "Settled"}},
        refunded <- {payment[id] : id \in {i \in IntentIds : status[i] = "Failed"}},
        held <- [a \in Accounts |-> Owed(a)]

(* Every behaviour of the pallet is one of the escrow: each signed payment  *)
(* is opened at most once, then paid in full to the miner or refunded in    *)
(* full to the merchant, once, out of its own reserve.                      *)
EscrowSpec == E!Spec
=============================================================================
