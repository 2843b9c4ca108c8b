------------------------------- MODULE Assets -------------------------------
(***************************************************************************)
(* The assets pallet: one class of fungible tokens, from its creation to   *)
(* its destruction and the reuse of its id.  Holders have accounts,        *)
(* approvals and, in this fork, locked transfers; the pallet takes         *)
(* deposits in the chain's currency and references on the accounts of the  *)
(* system.                                                                 *)
(***************************************************************************)
EXTENDS Integers, FiniteSets, FiniteSetsExt

CONSTANTS
    Accounts, None, Root,
    AssetDeposit, AssetAccountDeposit, ApprovalDeposit, MetadataDepositBase, MetadataDepositPerByte,
    RemoveItemsLimit, AssetLockLimit, MinLockAmount, MaxLockDuration,
    MaxBalance,             \* the largest u128
    MaxConsumers,           \* of frame_system
    Engaged,                \* accounts whose consumer references other pallets use
    Amounts, MinBalances, Lengths,      \* inputs
    Wealth, MaxBlock, MaxCreated        \* bounds

VARIABLES
    now,
    Asset,                  \* None, or the details of the class
    Account,                \* who holds what: None, or an account
    Approvals,              \* a function on some pairs of owner and delegate
    Metadata,               \* None, or its deposit and whether it is frozen
    AssetLocks, Locked,     \* the locked transfers to an account, and their sum
    written,                \* whose locks were written in this block
    created,                \* how often the id was used
    consumers, free, reserved

asset_vars == <<Asset, Account, Approvals, Metadata, AssetLocks, Locked, written, created, consumers>>
vars == <<now, asset_vars, free, reserved>>

AssetInit ==
    /\ Asset = None /\ Account = [a \in Accounts |-> None] /\ Approvals = <<>> /\ Metadata = None
    /\ AssetLocks = [a \in Accounts |-> <<>>] /\ Locked = [a \in Accounts |-> 0] /\ written = {}
    /\ created = 0
    /\ consumers = [a \in Accounts |-> IF a \in Engaged THEN MaxConsumers - 1 ELSE 0]
Init ==
    /\ now = 1 /\ AssetInit
    /\ free = [a \in Accounts |-> Wealth] /\ reserved = [a \in Accounts |-> 0]

storage ==
    [now |-> now, asset |-> Asset, account |-> Account, approvals |-> Approvals, meta |-> Metadata,
     locks |-> AssetLocks, locked |-> Locked, written |-> written, created |-> created,
     consumers |-> consumers, free |-> free, reserved |-> reserved, ok |-> TRUE]

(* A call: what it wrote is kept only if it returned Ok.                    *)
Dispatch(s) ==
    /\ s.ok /\ now' = s.now
    /\ Asset' = s.asset /\ Account' = s.account /\ Approvals' = s.approvals /\ Metadata' = s.meta
    /\ AssetLocks' = s.locks /\ Locked' = s.locked /\ written' = s.written /\ created' = s.created
    /\ consumers' = s.consumers /\ free' = s.free /\ reserved' = s.reserved

Check(s, condition) == [s EXCEPT !.ok = @ /\ condition]
Put(f, key, value) == [x \in DOMAIN f \cup {key} |-> IF x = key THEN value ELSE f[x]]
Without(f, keys) == [x \in DOMAIN f \ keys |-> f[x]]
Less(a, x) == IF a >= x THEN a - x ELSE 0
Lower(a, x) == IF a <= x THEN a ELSE x

(* The currency.                                                            *)
reserve(s, who, amount) ==
    [Check(s, s.free[who] >= amount) EXCEPT !.free[who] = @ - amount, !.reserved[who] = @ + amount]
unreserve(s, who, amount) ==
    LET moved == Lower(amount, s.reserved[who]) IN
    [s EXCEPT !.reserved[who] = @ - moved, !.free[who] = @ + moved]
repatriate_reserved(s, from, to, amount) ==
    LET moved == Lower(amount, s.reserved[from]) IN
    [s EXCEPT !.reserved = [@ EXCEPT ![from] = @ - moved, ![to] = @ + moved]]

-----------------------------------------------------------------------------
(* Accounts: why they exist, and how they come and go.                      *)
Because(kind, by, deposit) == [kind |-> kind, by |-> by, deposit |-> deposit]
Refunded == Because("DepositRefunded", None, 0)

is_frozen(account) == account.status \in {"Frozen", "Blocked"}
Live(s) == s.asset # None /\ s.asset.status = "Live"
NotDestroying(s) == s.asset # None /\ s.asset.status \in {"Live", "Frozen"}

(* An account without a deposit leaves one more reference free.             *)
new_account(s, who, balance, depositor) ==
    LET sufficient == depositor = None /\ s.asset.is_sufficient
        consumer == depositor = None /\ ~s.asset.is_sufficient
        reason == CASE depositor = who -> Because("DepositHeld", who, AssetAccountDeposit)
                    [] sufficient -> Because("Sufficient", None, 0)
                    [] consumer -> Because("Consumer", None, 0)
                    [] OTHER -> Because("DepositFrom", depositor, AssetAccountDeposit)
    IN [Check(s, consumer => s.consumers[who] + 2 <= MaxConsumers) EXCEPT
            !.account[who] = [balance |-> balance, status |-> "Liquid", reason |-> reason],
            !.asset.accounts = @ + 1,
            !.asset.sufficients = IF sufficient THEN @ + 1 ELSE @,
            !.consumers[who] = IF consumer THEN @ + 1 ELSE @]

(* An account with a deposit is kept, unless it is removed by force.        *)
dead_account(s, who, reason, force) ==
    IF ~force /\ reason.kind \in {"DepositHeld", "DepositFrom"} THEN s
    ELSE [s EXCEPT !.account[who] = None, !.asset.accounts = Less(@, 1),
                   !.asset.sufficients = IF reason.kind = "Sufficient" THEN Less(@, 1) ELSE @,
                   !.consumers[who] = IF reason.kind = "Consumer" THEN @ - 1 ELSE @]

can_increase(s, who, amount, increase_supply) ==
    /\ s.asset # None
    /\ increase_supply => s.asset.supply + amount <= MaxBalance
    /\ IF s.account[who] # None
       THEN s.account[who].status # "Blocked" /\ s.account[who].balance + amount <= MaxBalance
       ELSE /\ amount >= s.asset.min_balance
            /\ s.asset.is_sufficient \/ s.consumers[who] + 2 <= MaxConsumers

(* What is left of an account goes with it: None, or how much that is.      *)
can_decrease(s, who, amount, keep_alive) ==
    LET account == s.account[who]
        rest == account.balance - amount
    IN IF s.asset = None THEN None
       ELSE IF s.asset.supply < amount \/ s.asset.status = "Frozen" THEN None
       ELSE IF amount = 0 THEN 0
       ELSE IF account = None THEN None
       ELSE IF is_frozen(account) \/ rest < 0 THEN None
       ELSE IF rest >= s.asset.min_balance THEN 0
       ELSE IF keep_alive THEN None ELSE rest

reducible_balance(s, who, keep_alive) ==
    IF ~Live(s) \/ s.account[who] = None THEN None
    ELSE IF is_frozen(s.account[who]) THEN None
    ELSE Lower(IF keep_alive THEN Less(s.account[who].balance, s.asset.min_balance)
               ELSE s.account[who].balance, s.asset.supply)

(* What a debit takes: None, or at least the amount, or less if the caller  *)
(* makes do with it.                                                        *)
prep_debit(s, who, amount, keep_alive, best_effort) ==
    LET reducible == reducible_balance(s, who, keep_alive)
        actual == Lower(reducible, amount)
        dust == can_decrease(s, who, actual, keep_alive)
    IN IF reducible = None THEN None
       ELSE IF ~best_effort /\ actual < amount THEN None
       ELSE IF dust = None THEN None ELSE actual + dust

do_touch(s, who, depositor, check_depositor) ==
    IF ~Live(s) \/ s.account[who] # None THEN Check(s, FALSE)
    ELSE reserve(new_account(Check(s, check_depositor => depositor \in {s.asset.admin, s.asset.freezer}),
                             who, 0, depositor), depositor, AssetAccountDeposit)

do_refund(s, who, allow_burn) ==
    LET account == s.account[who]
        reason == IF account.reason.kind = "DepositHeld" THEN Refunded ELSE account.reason
    IN IF account = None \/ ~NotDestroying(s) THEN Check(s, FALSE)
       ELSE dead_account(unreserve(Check(s, /\ account.reason.kind \in {"Consumer", "DepositHeld"}
                                            /\ account.balance = 0 \/ allow_burn),
                                   who, account.reason.deposit), who, reason, FALSE)

do_refund_other(s, who, caller) ==
    LET account == s.account[who] IN
    IF account = None \/ ~Live(s) THEN Check(s, FALSE)
    ELSE IF account.reason.kind # "DepositFrom" THEN Check(s, FALSE)
    ELSE dead_account(unreserve(Check(s, /\ ~is_frozen(account) /\ account.balance = 0
                                         /\ caller \in {account.reason.by, s.asset.admin}),
                                account.reason.by, account.reason.deposit), who, Refunded, FALSE)

-----------------------------------------------------------------------------
(* Supply and transfers.                                                    *)

(* Mistake: the supply is not raised.                                       *)
do_mint_unsupplied(s, to, amount, issuer) ==
    IF amount = 0 THEN s
    ELSE IF ~can_increase(s, to, amount, TRUE) \/ ~Live(s) THEN Check(s, FALSE)
    ELSE LET t == Check(s, s.asset.issuer = issuer) IN
         IF t.account[to] # None THEN [t EXCEPT !.account[to].balance = @ + amount]
         ELSE new_account(t, to, amount, None)

do_mint(s, to, amount, issuer) ==
    IF amount = 0 THEN s
    ELSE IF ~can_increase(s, to, amount, TRUE) \/ ~Live(s) THEN Check(s, FALSE)
    ELSE LET t == [Check(s, s.asset.issuer = issuer) EXCEPT !.asset.supply = @ + amount] IN
         IF t.account[to] # None THEN [t EXCEPT !.account[to].balance = @ + amount]
         ELSE new_account(t, to, amount, None)

(* An account below the minimum is removed, or kept empty for its deposit.  *)
Debit(s, who, debit) ==
    LET t == [s EXCEPT !.account[who].balance = @ - debit] IN
    IF t.account[who].balance < t.asset.min_balance THEN dead_account(t, who, t.account[who].reason, FALSE)
    ELSE t

do_burn(s, from, amount, admin) ==
    LET actual == prep_debit(s, from, amount, FALSE, TRUE) IN
    IF ~NotDestroying(s) THEN Check(s, FALSE)
    ELSE IF amount = 0 THEN s
    ELSE IF actual = None THEN Check(s, FALSE)
    ELSE Debit([Check(s, s.asset.admin = admin) EXCEPT !.asset.supply = @ - actual], from, actual)

(* What all transfers have in common before anything is written.            *)
Movable(s, source, dest, amount, need_admin, keep_alive) ==
    LET debit == prep_debit(s, source, amount, keep_alive, FALSE) IN
    /\ Live(s) /\ debit # None
    /\ can_increase(s, dest, debit, FALSE)
    /\ need_admin # None => s.asset.admin = need_admin

transfer_and_die(s, source, dest, amount, need_admin, keep_alive) ==
    LET debit == prep_debit(s, source, amount, keep_alive, FALSE)
        t == IF s.account[dest] # None THEN [s EXCEPT !.account[dest].balance = @ + debit]
             ELSE new_account(s, dest, debit, None)
    IN IF amount = 0 THEN s
       ELSE IF ~Movable(s, source, dest, amount, need_admin, keep_alive) THEN Check(s, FALSE)
       ELSE IF source = dest THEN s
       ELSE Debit(t, source, debit)

do_transfer(s, source, dest, amount, need_admin, keep_alive) ==
    Check(transfer_and_die(s, source, dest, amount, need_admin, keep_alive), Live(s))

-----------------------------------------------------------------------------
(* Locked transfers.                                                        *)
get_new_lock_id(s, who) ==
    LET unused == (0 .. AssetLockLimit - 1) \ DOMAIN s.locks[who] IN
    IF unused = {} THEN None ELSE Min(unused)

(* The tokens leave the source; the destination gets a lock, and an account *)
(* only when it unlocks.                                                    *)
transfer_and_die2(s, source, dest, amount, duration, keep_alive) ==
    LET debit == prep_debit(s, source, amount, keep_alive, FALSE)
        id == get_new_lock_id(s, dest)
        lock == [from |-> source, balance |-> debit, unlock_time |-> s.now + duration]
    IN IF amount < MinLockAmount \/ ~Movable(s, source, dest, amount, None, keep_alive) THEN Check(s, FALSE)
       ELSE IF source = dest THEN s
       ELSE IF id = None THEN Check(s, FALSE)
       ELSE Debit([s EXCEPT !.locks[dest] = Put(@, id, lock), !.locked[dest] = Lower(@ + debit, MaxBalance),
                            !.written = @ \cup {dest}], source, debit)

DropLock(s, who, id) ==
    LET rest == Without(s.locks[who], {id}) IN
    [s EXCEPT !.locks[who] = rest, !.written = @ \cup {who},
              !.locked[who] = IF rest = <<>> THEN 0 ELSE Less(@, s.locks[who][id].balance)]

do_unlock(s, who, id) ==
    LET amount == s.locks[who][id].balance
        t == IF s.account[who] # None THEN [s EXCEPT !.account[who].balance = @ + amount]
             ELSE new_account(s, who, amount, None)
    IN IF ~Live(s) \/ id \notin DOMAIN s.locks[who] THEN Check(s, FALSE)
       ELSE IF s.locks[who][id].unlock_time > s.now \/ ~can_increase(s, who, amount, TRUE) THEN Check(s, FALSE)
       ELSE DropLock(t, who, id)

do_force_remove_lock(s, who, id) ==
    IF id \notin DOMAIN s.locks[who] THEN Check(s, FALSE) ELSE DropLock(s, who, id)

remove_account_asset_locks(s, accounts) ==
    [s EXCEPT !.locks = [a \in Accounts |-> IF a \in accounts THEN <<>> ELSE @[a]],
              !.locked = [a \in Accounts |-> IF a \in accounts THEN 0 ELSE @[a]]]

(* clear_prefix with a limit of 0 reaches only what this block wrote.       *)
remove_asset_locks(s) == remove_account_asset_locks(s, s.written)

-----------------------------------------------------------------------------
(* The life of the class.                                                   *)
NewAsset(owner, team, deposit, min_balance, is_sufficient) ==
    [owner |-> owner, issuer |-> team, admin |-> team, freezer |-> team, supply |-> 0, deposit |-> deposit,
     min_balance |-> min_balance, is_sufficient |-> is_sufficient, accounts |-> 0, sufficients |-> 0,
     approvals |-> 0, status |-> "Live"]

do_create(s, owner, admin, min_balance) ==
    [reserve(Check(s, s.asset = None /\ min_balance # 0), owner, AssetDeposit) EXCEPT
        !.asset = NewAsset(owner, admin, AssetDeposit, min_balance, FALSE), !.created = @ + 1]
do_force_create(s, owner, is_sufficient, min_balance) ==
    [Check(s, s.asset = None /\ min_balance # 0) EXCEPT
        !.asset = NewAsset(owner, owner, 0, min_balance, is_sufficient), !.created = @ + 1]

do_start_destroy(s, check_owner) ==
    IF s.asset = None THEN Check(s, FALSE)
    ELSE [Check(s, check_owner # None => s.asset.owner = check_owner) EXCEPT !.asset.status = "Destroying"]

Destroying(s) == s.asset # None /\ s.asset.status = "Destroying"

(* The accounts in S, as many as the limit allows; their deposits stay      *)
(* reserved.                                                                *)
do_destroy_accounts(s, S) ==
    LET holders == {a \in Accounts : s.account[a] # None}
        forced(t, a) == dead_account(t, a, t.account[a].reason, TRUE)
    IN IF ~Destroying(s) \/ ~(S \subseteq holders /\ Cardinality(S) = Lower(RemoveItemsLimit, Cardinality(holders)))
       THEN Check(s, FALSE)
       ELSE remove_account_asset_locks(FoldSet(LAMBDA a, t : forced(t, a), s, S), S)

do_destroy_approvals(s, S) ==
    IF ~Destroying(s) \/ ~(/\ S \subseteq DOMAIN s.approvals
                           /\ Cardinality(S) = Lower(RemoveItemsLimit, Cardinality(DOMAIN s.approvals)))
    THEN Check(s, FALSE)
    ELSE [FoldSet(LAMBDA p, t : unreserve(t, p[1], t.approvals[p].deposit), s, S) EXCEPT
             !.asset.approvals = Less(@, Cardinality(S)), !.approvals = Without(@, S)]

do_finish_destroy(s) ==
    IF ~Destroying(s) THEN Check(s, FALSE)
    ELSE LET t == remove_asset_locks(Check(s, s.asset.accounts = 0 /\ s.asset.approvals = 0))
             d == s.asset.deposit + (IF s.meta = None THEN 0 ELSE s.meta.deposit)
         IN [unreserve(t, s.asset.owner, d) EXCEPT !.asset = None, !.meta = None]

-----------------------------------------------------------------------------
(* Approvals and metadata.                                                  *)
do_approve_transfer(s, owner, delegate, amount) ==
    LET p == <<owner, delegate>>
        old == IF p \in DOMAIN s.approvals THEN s.approvals[p] ELSE [amount |-> 0, deposit |-> 0]
    IN IF ~Live(s) THEN Check(s, FALSE)
       ELSE [reserve(s, owner, ApprovalDeposit - old.deposit) EXCEPT
                !.approvals = Put(@, p, [amount |-> Lower(old.amount + amount, MaxBalance),
                                         deposit |-> ApprovalDeposit]),
                !.asset.approvals = IF p \in DOMAIN s.approvals THEN @ ELSE @ + 1]

DropApproval(s, p) ==
    [unreserve(s, p[1], s.approvals[p].deposit) EXCEPT !.approvals = Without(@, {p}),
                                                       !.asset.approvals = Less(@, 1)]

(* Mistake: a spent approval is not counted off.                            *)
do_transfer_approved_counted(s, owner, delegate, dest, amount) ==
    LET p == <<owner, delegate>>
        t == transfer_and_die(s, owner, dest, amount, None, FALSE)
    IN IF ~Live(s) \/ p \notin DOMAIN s.approvals THEN Check(s, FALSE)
       ELSE IF s.approvals[p].amount < amount THEN Check(s, FALSE)
       ELSE IF s.approvals[p].amount = amount
            THEN [unreserve(t, owner, s.approvals[p].deposit) EXCEPT !.approvals = Without(@, {p})]
       ELSE [t EXCEPT !.approvals[p].amount = @ - amount]

do_transfer_approved(s, owner, delegate, dest, amount) ==
    LET p == <<owner, delegate>>
        t == transfer_and_die(s, owner, dest, amount, None, FALSE)
    IN IF ~Live(s) \/ p \notin DOMAIN s.approvals THEN Check(s, FALSE)
       ELSE IF s.approvals[p].amount < amount THEN Check(s, FALSE)
       ELSE IF s.approvals[p].amount = amount THEN DropApproval(t, p)
       ELSE [t EXCEPT !.approvals[p].amount = @ - amount]

do_cancel_approval(s, owner, delegate) ==
    IF ~Live(s) \/ <<owner, delegate>> \notin DOMAIN s.approvals THEN Check(s, FALSE)
    ELSE DropApproval(s, <<owner, delegate>>)

calc_metadata_deposit(length) == MetadataDepositPerByte * length + MetadataDepositBase

do_set_metadata(s, from, length) ==
    LET old == IF s.meta = None THEN 0 ELSE s.meta.deposit
        new == calc_metadata_deposit(length)
        t == IF new > old THEN reserve(s, from, new - old) ELSE unreserve(s, from, old - new)
    IN IF ~Live(s) THEN Check(s, FALSE)
       ELSE [Check(t, s.asset.owner = from /\ (s.meta = None \/ ~s.meta.is_frozen)) EXCEPT
                !.meta = [deposit |-> new, is_frozen |-> FALSE]]

(* A frozen asset keeps its metadata; root takes it from any.               *)
do_clear_metadata(s, check_owner) ==
    IF s.asset = None \/ s.meta = None THEN Check(s, FALSE)
    ELSE [unreserve(Check(s, check_owner # None => Live(s) /\ s.asset.owner = check_owner),
                    s.asset.owner, s.meta.deposit) EXCEPT !.meta = None]

do_force_set_metadata(s, frozen) ==
    IF s.asset = None THEN Check(s, FALSE)
    ELSE [s EXCEPT !.meta = [deposit |-> IF @ = None THEN 0 ELSE @.deposit, is_frozen |-> frozen]]

-----------------------------------------------------------------------------
(* Who runs the class, and in which state it and its accounts are.          *)
SetStatus(s, allowed, who, status) ==
    IF s.account[who] = None THEN Check(s, FALSE)
    ELSE [Check(s, NotDestroying(s) /\ allowed) EXCEPT !.account[who].status = status]

do_transfer_ownership(s, from, to) ==
    LET deposit == s.asset.deposit + (IF s.meta = None THEN 0 ELSE s.meta.deposit) IN
    IF ~Live(s) THEN Check(s, FALSE)
    ELSE IF from = to THEN Check(s, s.asset.owner = from)
    ELSE [repatriate_reserved(Check(s, s.asset.owner = from), from, to, deposit) EXCEPT !.asset.owner = to]

WithTeam(s, team) == [s EXCEPT !.asset.issuer = team, !.asset.admin = team, !.asset.freezer = team]

do_force_asset_status(s, owner, min_balance, is_sufficient, frozen) ==
    IF ~NotDestroying(s) THEN Check(s, FALSE)
    ELSE [WithTeam(s, owner) EXCEPT
             !.asset.owner = owner, !.asset.min_balance = min_balance, !.asset.is_sufficient = is_sufficient,
             !.asset.status = IF frozen THEN "Frozen" ELSE "Live"]

do_set_min_balance(s, from, min_balance) ==
    IF s.asset = None THEN Check(s, FALSE)
    ELSE [Check(s, /\ s.asset.owner = from /\ ~s.asset.is_sufficient
                   /\ min_balance < s.asset.min_balance \/ s.asset.accounts = 0) EXCEPT
             !.asset.min_balance = min_balance]

-----------------------------------------------------------------------------
(* The calls.  Root stands for ForceOrigin.                                 *)
create(a, admin, m) == Dispatch(do_create(storage, a, admin, m))
force_create(owner, sufficient, m) == Dispatch(do_force_create(storage, owner, sufficient, m))
start_destroy(by) == Dispatch(do_start_destroy(storage, IF by = Root THEN None ELSE by))
destroy_accounts(S) == Dispatch(do_destroy_accounts(storage, S))
destroy_approvals(S) == Dispatch(do_destroy_approvals(storage, S))
finish_destroy == Dispatch(do_finish_destroy(storage))
mint(a, to, n) == Dispatch(do_mint(storage, to, n, a))
burn(a, who, n) == Dispatch(do_burn(storage, who, n, a))
transfer(a, to, n) == Dispatch(do_transfer(storage, a, to, n, None, FALSE))
transfer_keep_alive(a, to, n) == Dispatch(do_transfer(storage, a, to, n, None, TRUE))
force_transfer(a, from, to, n) == Dispatch(do_transfer(storage, from, to, n, a, FALSE))
freeze(a, who) == Asset # None /\ Dispatch(SetStatus(storage, Asset.freezer = a, who, "Frozen"))
block(a, who) == Asset # None /\ Dispatch(SetStatus(storage, Asset.freezer = a, who, "Blocked"))
thaw(a, who) == Asset # None /\ Dispatch(SetStatus(storage, Asset.admin = a, who, "Liquid"))
freeze_asset(a) ==
    Live(storage) /\ Asset.freezer = a /\ Dispatch([storage EXCEPT !.asset.status = "Frozen"])
thaw_asset(a) ==
    /\ Asset # None
    /\ Asset.admin = a /\ Asset.status = "Frozen" /\ Dispatch([storage EXCEPT !.asset.status = "Live"])
transfer_ownership(a, to) == Dispatch(do_transfer_ownership(storage, a, to))
set_team(a, team) == Live(storage) /\ Asset.owner = a /\ Dispatch(WithTeam(storage, team))
set_metadata(a, length) == Dispatch(do_set_metadata(storage, a, length))
clear_metadata(a) == Dispatch(do_clear_metadata(storage, a))
force_set_metadata(frozen) == Dispatch(do_force_set_metadata(storage, frozen))
force_clear_metadata == Dispatch(do_clear_metadata(storage, None))
force_asset_status(owner, m, sufficient, frozen) ==
    Dispatch(do_force_asset_status(storage, owner, m, sufficient, frozen))
approve_transfer(a, delegate, n) == Dispatch(do_approve_transfer(storage, a, delegate, n))
cancel_approval(a, delegate) == Dispatch(do_cancel_approval(storage, a, delegate))
force_cancel_approval(by, owner, delegate) ==
    /\ Live(storage) /\ by \in {Root, Asset.admin}
    /\ Dispatch(do_cancel_approval(storage, owner, delegate))
transfer_approved(a, owner, to, n) == Dispatch(do_transfer_approved(storage, owner, a, to, n))
touch(a) == Dispatch(do_touch(storage, a, a, FALSE))
refund(a, allow_burn) == Dispatch(do_refund(storage, a, allow_burn))
set_min_balance(a, m) == Dispatch(do_set_min_balance(storage, a, m))
touch_other(a, who) == Dispatch(do_touch(storage, who, a, TRUE))
refund_other(a, who) == Dispatch(do_refund_other(storage, who, a))
transfer_and_lock(a, to, n, duration) ==
    duration <= MaxLockDuration /\ Live(storage)
        /\ Dispatch(transfer_and_die2(storage, a, to, n, duration, FALSE))
transfer_and_lock_keep_alive(a, to, n, duration) ==
    duration <= MaxLockDuration /\ Live(storage)
        /\ Dispatch(transfer_and_die2(storage, a, to, n, duration, TRUE))
unlock(a, id) == Dispatch(do_unlock(storage, a, id))
force_remove_lock(who, id) == Dispatch(do_force_remove_lock(storage, who, id))

next_block == now < MaxBlock /\ Dispatch([storage EXCEPT !.now = @ + 1, !.written = {}])
=============================================================================
