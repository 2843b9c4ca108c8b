-------------------------------- MODULE Nfts --------------------------------
(***************************************************************************)
(* The nfts pallet: collections of items, their settings and roles, the    *)
(* deposits that metadata and attributes cost, and trade by approval,      *)
(* price and atomic swap.  An item is a pair of its collection and its id. *)
(***************************************************************************)
EXTENDS Integers, FiniteSets, FiniteSetsExt

CONSTANTS
    Accounts, None, Root,
    CollectionDeposit, ItemDeposit, ItemMetadataDeposit, AttributeDepositBase, DepositPerByte,
    ApprovalsLimit, AttributesApprovalsLimit, MaxDeadlineDuration,
    MaxConsumers,
    MaxCollections, ItemIds         \* bounds

VARIABLES
    now,
    Collection, CollectionConfigOf, CollectionRoleOf, CollectionAccount, CollectionMetadataOf,
    Item, ItemAccount, ItemConfigOf, ItemMetadataOf, ItemPriceOf, PendingSwapOf,
    Attribute, ItemAttributesApprovalsOf,
    OwnershipAcceptance, NextCollectionId,
    consumers, free, reserved

collection_vars == <<Collection, CollectionConfigOf, CollectionRoleOf, CollectionAccount, CollectionMetadataOf,
                     OwnershipAcceptance, NextCollectionId>>
item_vars == <<Item, ItemAccount, ItemConfigOf, ItemMetadataOf, ItemPriceOf, PendingSwapOf,
               Attribute, ItemAttributesApprovalsOf>>
nft_vars == <<collection_vars, item_vars>>

Collections == 0 .. MaxCollections - 1
Items == Collections \X ItemIds

NftInit ==
    /\ Collection = [c \in Collections |-> None] /\ CollectionConfigOf = [c \in Collections |-> None]
    /\ CollectionRoleOf = [c \in Collections |-> {}] /\ CollectionAccount = {}
    /\ CollectionMetadataOf = [c \in Collections |-> None]
    /\ Item = [x \in Items |-> None] /\ ItemAccount = {} /\ ItemConfigOf = [x \in Items |-> None]
    /\ ItemMetadataOf = [x \in Items |-> None] /\ ItemPriceOf = [x \in Items |-> None]
    /\ PendingSwapOf = [x \in Items |-> None]
    /\ Attribute = <<>> /\ ItemAttributesApprovalsOf = [x \in Items |-> {}]
    /\ OwnershipAcceptance = [a \in Accounts |-> None] /\ NextCollectionId = 0

storage ==
    [now |-> now, collection |-> Collection, config |-> CollectionConfigOf, roles |-> CollectionRoleOf,
     owned |-> CollectionAccount, collmeta |-> CollectionMetadataOf,
     item |-> Item, account |-> ItemAccount, itemconfig |-> ItemConfigOf, itemmeta |-> ItemMetadataOf,
     price |-> ItemPriceOf, swap |-> PendingSwapOf, attr |-> Attribute, delegates |-> ItemAttributesApprovalsOf,
     accept |-> OwnershipAcceptance, next |-> NextCollectionId,
     consumers |-> consumers, free |-> free, reserved |-> reserved, ok |-> TRUE]

(* A call: what it wrote is kept only if it returned Ok.                    *)
Dispatch(s) ==
    /\ s.ok /\ now' = s.now
    /\ Collection' = s.collection /\ CollectionConfigOf' = s.config /\ CollectionRoleOf' = s.roles
    /\ CollectionAccount' = s.owned /\ CollectionMetadataOf' = s.collmeta
    /\ Item' = s.item /\ ItemAccount' = s.account /\ ItemConfigOf' = s.itemconfig
    /\ ItemMetadataOf' = s.itemmeta /\ ItemPriceOf' = s.price /\ PendingSwapOf' = s.swap
    /\ Attribute' = s.attr /\ ItemAttributesApprovalsOf' = s.delegates
    /\ OwnershipAcceptance' = s.accept /\ NextCollectionId' = s.next
    /\ consumers' = s.consumers /\ free' = s.free /\ reserved' = s.reserved

Check(s, condition) == [s EXCEPT !.ok = @ /\ condition]
Fail(s) == Check(s, FALSE)
Put(f, key, value) == [x \in DOMAIN f \cup {key} |-> IF x = key THEN value ELSE f[x]]
Without(f, keys) == [x \in DOMAIN f \ keys |-> f[x]]
Less(a, x) == IF a >= x THEN a - x ELSE 0
Lower(a, x) == IF a <= x THEN a ELSE x
Given(a, default) == IF a = None THEN default ELSE a

(* The currency.                                                            *)
reserve(s, who, amount) ==
    [Check(s, s.free[who] >= amount) EXCEPT !.free[who] = @ - amount, !.reserved[who] = @ + amount]
unreserve(s, who, amount) ==
    LET moved == Lower(amount, s.reserved[who]) IN
    [s EXCEPT !.reserved[who] = @ - moved, !.free[who] = @ + moved]
repatriate_reserved(s, from, to, amount) ==
    LET moved == Lower(amount, s.reserved[from]) IN
    [s EXCEPT !.reserved = [@ EXCEPT ![from] = @ - moved, ![to] = @ + moved]]
Pay(s, from, to, amount) ==
    [Check(s, s.free[from] >= amount) EXCEPT !.free = [@ EXCEPT ![from] = @ - amount, ![to] = @ + amount]]

(* From the deposit an account has made to the one it has to make.          *)
AdjustReserve(s, who, old, new) ==
    IF new > old THEN reserve(s, who, new - old) ELSE unreserve(s, who, old - new)

-----------------------------------------------------------------------------
(* Settings are the sets of what is disabled; a role is held by at most one *)
(* account.                                                                 *)
Known(s, c) == s.collection[c] # None
Enabled(s, c, setting) == setting \notin s.config[c].disabled
ItemEnabled(s, x, setting) == setting \notin s.itemconfig[x]
has_role(s, c, a, role) == <<a, role>> \in s.roles[c]
(* Root, or the holder of a role.                                           *)
May(s, c, by, role) == by = Root \/ has_role(s, c, by, role)
ByOwner(s, c, by) == by = Root \/ s.collection[c].owner = by
find_account_by_role(s, c, role) ==
    IF \E a \in Accounts : has_role(s, c, a, role)
    THEN CHOOSE a \in Accounts : has_role(s, c, a, role) ELSE None

NoMintSettings == [type |-> "Issuer", holder_of |-> None, price |-> None, start |-> None, end |-> None,
                   items_disabled |-> {}]
Roles == {"Issuer", "Freezer", "Admin"}

do_create_collection(s, owner, admin, disabled, deposit) ==
    LET c == s.next IN
    IF Known(s, c) THEN Fail(s)
    ELSE [reserve(s, owner, deposit) EXCEPT
            !.collection[c] = [owner |-> owner, owner_deposit |-> deposit, items |-> 0,
                               item_metadatas |-> 0, item_configs |-> 0, attributes |-> 0],
            !.roles[c] = {admin} \X Roles,
            !.config[c] = [disabled |-> disabled, max_supply |-> None, mint |-> NoMintSettings],
            !.owned = @ \cup {<<owner, c>>},
            !.next = @ + 1]

do_set_team(s, by, c, team) ==
    IF ~Known(s, c) THEN Fail(s)
    ELSE [Check(s, /\ ByOwner(s, c, by)
                   /\ by # Root => \A r \in Roles : team[r] # None => find_account_by_role(s, c, r) # None)
          EXCEPT !.roles[c] = {<<team[r], r>> : r \in {q \in Roles : team[q] # None}}]

do_force_collection_config(s, c, disabled, max_supply) ==
    [Check(s, Known(s, c)) EXCEPT !.config[c] =
        [disabled |-> disabled, max_supply |-> max_supply, mint |-> NoMintSettings]]

do_set_collection_max_supply(s, by, c, max_supply) ==
    IF ~Known(s, c) THEN Fail(s)
    ELSE [Check(s, /\ Enabled(s, c, "UnlockedMaxSupply") /\ ByOwner(s, c, by)
                   /\ s.collection[c].items <= max_supply) EXCEPT !.config[c].max_supply = max_supply]

do_update_mint_settings(s, by, c, settings) ==
    IF s.config[c] = None THEN Fail(s)
    ELSE [Check(s, May(s, c, by, "Issuer")) EXCEPT !.config[c].mint = settings]

do_lock_collection(s, a, c, disabled) ==
    IF ~Known(s, c) THEN Fail(s)
    ELSE [Check(s, s.collection[c].owner = a /\ "DepositRequired" \notin disabled) EXCEPT
             !.config[c].disabled = @ \cup disabled]

-----------------------------------------------------------------------------
(* Who owns a collection.                                                   *)
MoveCollection(s, c, to) ==
    LET from == s.collection[c].owner IN
    [repatriate_reserved(s, from, to, s.collection[c].owner_deposit) EXCEPT
        !.owned = (@ \ {<<from, c>>}) \cup {<<to, c>>}, !.collection[c].owner = to]

(* The reference that the acceptance took is not given back.                *)
do_transfer_ownership(s, a, c, to) ==
    IF ~Known(s, c) \/ s.accept[to] # c THEN Fail(s)
    ELSE IF to = a THEN Check(s, s.collection[c].owner = a)
    ELSE [MoveCollection(Check(s, s.collection[c].owner = a), c, to) EXCEPT !.accept[to] = None]

do_force_collection_owner(s, c, to) ==
    IF ~Known(s, c) THEN Fail(s)
    ELSE IF s.collection[c].owner = to THEN s
    ELSE MoveCollection(s, c, to)

do_set_accept_ownership(s, a, c) ==
    LET takes == s.accept[a] = None /\ c # None
        gives == s.accept[a] # None /\ c = None
    IN [Check(s, takes => s.consumers[a] < MaxConsumers) EXCEPT
            !.consumers[a] = IF takes THEN @ + 1 ELSE IF gives THEN @ - 1 ELSE @,
            !.accept[a] = c]

-----------------------------------------------------------------------------
(* Minting.                                                                 *)
UsedToClaim(x, c) == <<x[1], x[2], "Pallet", None, <<"UsedToClaim", c>>>>

(* What the settings ask of the caller of mint; an item is claimed with     *)
(* once.                                                                    *)
MintSettingsMet(s, c, a, owned) ==
    LET m == s.config[c].mint
        claim == UsedToClaim(<<m.holder_of, owned>>, c)
        within == (m.start # None => m.start <= s.now) /\ (m.end # None => m.end >= s.now)
        t == CASE m.type = "Issuer" -> Check(s, has_role(s, c, a, "Issuer"))
               [] m.type = "HolderOf" ->
                    [Check(s, /\ owned # None /\ <<a, m.holder_of, owned>> \in s.account
                              /\ claim \notin DOMAIN s.attr)
                     EXCEPT !.attr = Put(@, claim, [value |-> None, account |-> None, amount |-> 0])]
               [] OTHER -> s
    IN IF m.price = None THEN Check(t, within) ELSE Pay(Check(t, within), a, s.collection[c].owner, m.price)

do_mint(s, x, depositor, to, disabled) ==
    LET c == x[1]
        amount == IF Enabled(s, c, "DepositRequired") THEN ItemDeposit ELSE 0
        payer == Given(depositor, s.collection[c].owner)
        t == Check(s, /\ s.item[x] = None
                      /\ s.config[c].max_supply # None => s.collection[c].items < s.config[c].max_supply
                      /\ s.itemconfig[x] # None => s.itemconfig[x] = disabled)
    IN IF ~Known(s, c) THEN Fail(s)
       ELSE [reserve(t, payer, amount) EXCEPT
                !.collection[c].items = @ + 1,
                !.collection[c].item_configs = IF s.itemconfig[x] = None THEN @ + 1 ELSE @,
                !.itemconfig[x] = disabled,
                !.account = @ \cup {<<to, c, x[2]>>},
                !.item[x] = [owner |-> to, approvals |-> <<>>, account |-> payer, amount |-> amount]]

(* The metadata that is not locked goes with the item; a config with locks  *)
(* stays, for the item that takes the id again.                             *)
BurnMetadata(s, x) ==
    LET m == s.itemmeta[x]
        owner == s.collection[x[1]].owner
        payer == Given(m.account, owner)
    IN IF m = None \/ ~ItemEnabled(s, x, "UnlockedMetadata") THEN s
       ELSE [unreserve(s, payer, m.amount) EXCEPT
                !.itemmeta[x] = None,
                !.collection[x[1]].item_metadatas = Less(@, 1),
                !.collection[x[1]].owner_deposit = IF payer = owner THEN Less(@, m.amount) ELSE @]

do_burn(s, x, by) ==
    LET c == x[1]
        remove_config == s.itemconfig[x] = {}
        t == unreserve(BurnMetadata(s, x), s.item[x].account, s.item[x].amount)
    IN IF s.itemconfig[x] = None \/ s.item[x] = None THEN Fail(s)
       ELSE [Check(t, by = Root \/ s.item[x].owner = by) EXCEPT
                !.collection[c].items = Less(@, 1),
                !.collection[c].item_configs = IF remove_config THEN Less(@, 1) ELSE @,
                !.item[x] = None, !.account = @ \ {<<s.item[x].owner, c, x[2]>>},
                !.price[x] = None, !.swap[x] = None, !.delegates[x] = {},
                !.itemconfig[x] = IF remove_config THEN None ELSE @]

-----------------------------------------------------------------------------
(* Moving items.                                                            *)
TransferDisabled(x) == <<x[1], x[2], "Pallet", None, <<"TransferDisabled", None>>>>

Transferable(s, x) ==
    /\ Known(s, x[1]) /\ s.itemconfig[x] # None /\ s.item[x] # None
    /\ TransferDisabled(x) \notin DOMAIN s.attr
    /\ Enabled(s, x[1], "TransferableItems") /\ ItemEnabled(s, x, "Transferable")

(* Mistake: a swap that the old owner offered stays.                        *)
do_transfer_swapped(s, x, dest) ==
    IF ~Transferable(s, x) THEN Fail(s)
    ELSE [s EXCEPT !.account = (@ \ {<<s.item[x].owner, x[1], x[2]>>}) \cup {<<dest, x[1], x[2]>>},
                   !.item[x].owner = dest, !.item[x].approvals = <<>>, !.price[x] = None]

do_transfer(s, x, dest) ==
    IF ~Transferable(s, x) THEN Fail(s)
    ELSE [s EXCEPT !.account = (@ \ {<<s.item[x].owner, x[1], x[2]>>}) \cup {<<dest, x[1], x[2]>>},
                   !.item[x].owner = dest, !.item[x].approvals = <<>>,
                   !.price[x] = None, !.swap[x] = None]

(* The owner, or a delegate whose approval has not expired.                 *)
MayMove(s, x, a) ==
    /\ s.item[x] # None
    /\ \/ s.item[x].owner = a
       \/ /\ a \in DOMAIN s.item[x].approvals
          /\ s.item[x].approvals[a].deadline # None => s.now <= s.item[x].approvals[a].deadline

do_approve_transfer(s, by, x, delegate, duration) ==
    IF s.item[x] = None THEN Fail(s)
    ELSE LET approvals == Put(s.item[x].approvals, delegate,
                              [deadline |-> IF duration = None THEN None ELSE s.now + duration,
                               by |-> s.item[x].owner])
         IN [Check(s, /\ Enabled(s, x[1], "TransferableItems")
                      /\ by \in {Root, s.item[x].owner}
                      /\ Cardinality(DOMAIN approvals) <= ApprovalsLimit) EXCEPT !.item[x].approvals = approvals]

(* An approval that has expired is anyone's to remove.                      *)
do_cancel_approval(s, by, x, delegate) ==
    IF s.item[x] = None THEN Fail(s)
    ELSE IF delegate \notin DOMAIN s.item[x].approvals THEN Fail(s)
    ELSE LET deadline == s.item[x].approvals[delegate].deadline IN
         [Check(s, \/ deadline # None /\ s.now > deadline
                   \/ by \in {Root, s.item[x].owner}) EXCEPT !.item[x].approvals = Without(@, {delegate})]

do_clear_all_transfer_approvals(s, by, x) ==
    IF s.item[x] = None THEN Fail(s)
    ELSE [Check(s, by \in {Root, s.item[x].owner}) EXCEPT !.item[x].approvals = <<>>]

do_set_price(s, x, a, price, buyer) ==
    IF s.item[x] = None THEN Fail(s)
    ELSE [Check(s, /\ s.item[x].owner = a /\ Enabled(s, x[1], "TransferableItems")
                   /\ ItemEnabled(s, x, "Transferable")) EXCEPT
             !.price[x] = IF price = None THEN None ELSE [price |-> price, buyer |-> buyer, by |-> a]]

do_buy_item(s, x, a, bid) ==
    IF s.item[x] = None \/ s.price[x] = None THEN Fail(s)
    ELSE do_transfer(Pay(Check(s, /\ s.item[x].owner # a /\ bid >= s.price[x].price
                                  /\ s.price[x].buyer \in {None, a}), a, s.item[x].owner, s.price[x].price), x, a)

do_create_swap(s, a, x, c, desired, price, duration) ==
    IF s.item[x] = None THEN Fail(s)
    ELSE [Check(s, /\ duration <= MaxDeadlineDuration /\ s.item[x].owner = a
                   /\ IF desired = None THEN Known(s, c) ELSE s.item[<<c, desired>>] # None) EXCEPT
             !.swap[x] = [collection |-> c, item |-> desired, price |-> price, deadline |-> s.now + duration,
                          by |-> a]]

do_cancel_swap(s, a, x) ==
    IF s.swap[x] = None THEN Fail(s)
    ELSE IF s.swap[x].deadline > s.now /\ (s.item[x] = None \/ s.item[x].owner # a) THEN Fail(s)
    ELSE [s EXCEPT !.swap[x] = None]

(* The price goes to the owner who sends, or comes from there.              *)
do_claim_swap(s, a, sent, received, price) ==
    IF s.item[sent] = None \/ s.item[received] = None \/ s.swap[received] = None THEN Fail(s)
    ELSE LET swap == s.swap[received]
             sender == s.item[sent].owner
             receiver == s.item[received].owner
             t == Check(s, /\ sender = a /\ swap.collection = sent[1] /\ swap.price = price
                           /\ swap.item \in {None, sent[2]} /\ s.now <= swap.deadline)
             u == IF price = None THEN t
                  ELSE IF price.direction = "Send" THEN Pay(t, receiver, sender, price.amount)
                  ELSE Pay(t, sender, receiver, price.amount)
         IN do_transfer(do_transfer(u, sent, receiver), received, sender)

do_pay_tips(s, a, tips) == FoldSet(LAMBDA tip, t : Pay(t, a, tip[1], tip[2]), s, tips)

-----------------------------------------------------------------------------
(* Locks on items.                                                          *)
do_lock_item_transfer(s, a, x) ==
    IF s.itemconfig[x] = None THEN Fail(s)
    ELSE [Check(s, has_role(s, x[1], a, "Freezer")) EXCEPT !.itemconfig[x] = @ \cup {"Transferable"}]
do_unlock_item_transfer(s, a, x) ==
    IF s.itemconfig[x] = None THEN Fail(s)
    ELSE [Check(s, has_role(s, x[1], a, "Freezer")) EXCEPT !.itemconfig[x] = @ \ {"Transferable"}]
do_lock_item_properties(s, by, x, lock_metadata, lock_attributes) ==
    IF s.itemconfig[x] = None THEN Fail(s)
    ELSE [Check(s, May(s, x[1], by, "Admin")) EXCEPT
             !.itemconfig[x] = @ \cup (IF lock_metadata THEN {"UnlockedMetadata"} ELSE {})
                                 \cup (IF lock_attributes THEN {"UnlockedAttributes"} ELSE {})]

(* Metadata: `length` bytes, paid by the owner of the collection or by the  *)
(* account that minted with a signature.  Root pays nothing.                *)
MetadataCost(s, c, by, length) ==
    IF Enabled(s, c, "DepositRequired") /\ by # Root THEN ItemMetadataDeposit + DepositPerByte * length ELSE 0

do_set_item_metadata(s, by, x, length, depositor) ==
    LET c == x[1]
        old == IF s.itemmeta[x] = None THEN [account |-> None, amount |-> 0] ELSE s.itemmeta[x]
        amount == MetadataCost(s, c, by, length)
        payer == Given(depositor, s.collection[c].owner)
        before == Given(old.account, s.collection[c].owner)
        t == IF payer # before THEN reserve(unreserve(s, before, old.amount), payer, amount)
             ELSE AdjustReserve(s, payer, old.amount, amount)
    IN IF ~Known(s, c) \/ s.itemconfig[x] = None THEN Fail(s)
       ELSE [Check(t, May(s, c, by, "Admin") /\ (by = Root \/ ItemEnabled(s, x, "UnlockedMetadata"))) EXCEPT
                !.collection[c].item_metadatas = IF s.itemmeta[x] = None THEN @ + 1 ELSE @,
                !.collection[c].owner_deposit = IF depositor = None THEN Less(@ + amount, old.amount) ELSE @,
                !.itemmeta[x] = [account |-> depositor, amount |-> amount]]

do_clear_item_metadata(s, by, x) ==
    LET c == x[1]
        m == s.itemmeta[x]
        payer == Given(m.account, s.collection[c].owner)
        locked == s.itemconfig[x] # None /\ ~ItemEnabled(s, x, "UnlockedMetadata")
    IN IF m = None \/ ~Known(s, c) THEN Fail(s)
       ELSE [unreserve(Check(s, May(s, c, by, "Admin") /\ (by = Root \/ ~locked)), payer, m.amount) EXCEPT
                !.itemmeta[x] = None,
                !.collection[c].item_metadatas = Less(@, 1),
                !.collection[c].owner_deposit =
                    IF payer = s.collection[c].owner THEN Less(@, m.amount) ELSE @]

do_set_collection_metadata(s, by, c, length) ==
    IF ~Known(s, c) THEN Fail(s)
    ELSE LET old == Given(s.collmeta[c], 0)
             new == MetadataCost(s, c, by, length)
         IN [AdjustReserve(Check(s, /\ May(s, c, by, "Admin")
                                    /\ by = Root \/ Enabled(s, c, "UnlockedMetadata")),
                           s.collection[c].owner, old, new) EXCEPT
                !.collection[c].owner_deposit = Less(@, old) + new, !.collmeta[c] = new]

(* The deposit goes back, and is still part of owner_deposit.               *)
do_clear_collection_metadata(s, by, c) ==
    IF ~Known(s, c) \/ s.collmeta[c] = None THEN Fail(s)
    ELSE [unreserve(Check(s, /\ May(s, c, by, "Admin")
                             /\ by = Root \/ Enabled(s, c, "UnlockedMetadata")),
                    s.collection[c].owner, s.collmeta[c]) EXCEPT !.collmeta[c] = None]

-----------------------------------------------------------------------------
(* Attributes.  The key of an attribute is <<collection, item or None,      *)
(* namespace, account of the namespace, key>>; a value is a number or       *)
(* something else.                                                          *)
Key(c, item, ns, who, key) == <<c, item, ns, who, <<key, None>>>>
Size(value) == IF value = None THEN 1 ELSE IF value < 10 THEN 1 ELSE 2

is_valid_namespace(s, a, k) ==
    CASE k[3] = "CollectionOwner" -> has_role(s, k[1], a, "Admin")
      [] k[3] = "ItemOwner" -> IF k[2] = None THEN FALSE
                               ELSE IF s.item[<<k[1], k[2]>>] = None THEN FALSE
                               ELSE s.item[<<k[1], k[2]>>].owner = a
      [] k[3] = "Account" -> k[2] # None /\ k[4] = a /\ a \in s.delegates[<<k[1], k[2]>>]
      [] OTHER -> FALSE

(* Attributes of the collection's owner can be locked.                      *)
AttributeUnlocked(s, k) ==
    k[3] = "CollectionOwner" =>
        IF k[2] = None THEN Enabled(s, k[1], "UnlockedAttributes")
        ELSE s.itemconfig[<<k[1], k[2]>>] # None /\ ItemEnabled(s, <<k[1], k[2]>>, "UnlockedAttributes")

do_set_attribute(s, a, k, value, depositor) ==
    LET c == k[1]
        owner == s.collection[c].owner
        exists == k \in DOMAIN s.attr
        old == IF exists THEN s.attr[k] ELSE [account |-> None, amount |-> 0]
        byowner == k[3] = "CollectionOwner"
        amount == IF Enabled(s, c, "DepositRequired") \/ ~byowner
                  THEN AttributeDepositBase + DepositPerByte * Size(value) ELSE 0
        before == IF byowner /\ old.account = None /\ exists THEN owner ELSE old.account
        payback == IF before = None THEN s ELSE unreserve(s, before, old.amount)
        t == IF before # depositor THEN reserve(payback, depositor, amount)
             ELSE AdjustReserve(s, depositor, old.amount, amount)
        ownerpays == byowner /\ owner = depositor
    IN IF ~Known(s, c) \/ ~is_valid_namespace(s, a, k) THEN Fail(s)
       ELSE [Check(t, AttributeUnlocked(s, k)) EXCEPT
                !.collection[c].attributes = IF exists THEN @ ELSE @ + 1,
                !.collection[c].owner_deposit =
                    IF ownerpays THEN (IF before = depositor THEN Less(@, old.amount) ELSE @) + amount ELSE @,
                !.attr = Put(@, k, [value |-> value, account |-> IF ownerpays THEN None ELSE depositor,
                                    amount |-> amount])]

do_force_set_attribute(s, set_as, k, value) ==
    LET old == s.attr[k]
        t == IF k \notin DOMAIN s.attr THEN [s EXCEPT !.collection[k[1]].attributes = @ + 1]
             ELSE IF old.account \in {set_as, None} THEN s ELSE unreserve(s, old.account, old.amount)
    IN IF ~Known(s, k[1]) THEN Fail(s)
       ELSE [t EXCEPT !.attr = Put(@, k, [value |-> value, account |-> set_as, amount |-> 0])]

do_clear_attribute(s, by, k) ==
    LET c == k[1]
        old == s.attr[k]
        gone == k[2] # None /\ s.itemconfig[<<k[1], k[2]>>] = None
        allowed == \/ by = Root
                   \/ /\ old.account = by \/ is_valid_namespace(s, by, k)
                      /\ gone \/ AttributeUnlocked(s, k)
                      /\ (k[3] = "CollectionOwner" /\ k[2] # None /\ ~gone) => has_role(s, c, by, "Admin")
        byowner == old.account = None /\ k[3] = "CollectionOwner"
        payer == IF byowner THEN s.collection[c].owner ELSE old.account
        t == IF payer = None THEN s ELSE unreserve(s, payer, old.amount)
    IN IF k \notin DOMAIN s.attr \/ ~Known(s, c) THEN Fail(s)
       ELSE [Check(t, allowed) EXCEPT
                !.attr = Without(@, {k}), !.collection[c].attributes = Less(@, 1),
                !.collection[c].owner_deposit = IF byowner THEN Less(@, old.amount) ELSE @]

do_approve_item_attributes(s, a, x, delegate) ==
    IF s.item[x] = None THEN Fail(s)
    ELSE [Check(s, s.item[x].owner = a /\ Cardinality(s.delegates[x] \cup {delegate}) <= AttributesApprovalsLimit)
          EXCEPT !.delegates[x] = @ \cup {delegate}]

(* The delegate gets the deposits of the attributes, whoever made them.     *)
do_cancel_item_attributes_approval(s, a, x, delegate, witness) ==
    LET K == {k \in DOMAIN s.attr : k[1] = x[1] /\ k[2] = x[2] /\ k[3] = "Account" /\ k[4] = delegate}
        deposited == FoldSet(LAMBDA k, n : n + s.attr[k].amount, 0, K)
    IN IF s.item[x] = None THEN Fail(s)
       ELSE [unreserve(Check(s, s.item[x].owner = a /\ Cardinality(K) <= witness), delegate, deposited) EXCEPT
                !.delegates[x] = @ \ {delegate}, !.attr = Without(@, K)]

(* An issuer has signed for the mint; the item's owner pays for what the    *)
(* admin would write.                                                       *)
do_mint_pre_signed(s, a, x, value, length, only_account, deadline, signer) ==
    LET c == x[1]
        admin == find_account_by_role(s, c, "Admin")
        t == do_mint(Check(s, only_account \in {None, a} /\ deadline >= s.now /\ has_role(s, c, signer, "Issuer")),
                     x, a, a, s.config[c].mint.items_disabled)
        u == IF value = None THEN t
             ELSE do_set_attribute(t, admin, Key(c, x[2], "CollectionOwner", None, "kind"), value, a)
    IN IF ~Known(s, c) THEN Fail(s)
       ELSE IF admin = None \/ ~t.ok THEN t
       ELSE IF length = 0 \/ ~u.ok THEN u ELSE do_set_item_metadata(u, admin, x, length, a)

do_set_attributes_pre_signed(s, a, x, ns, value, deadline, signer) ==
    LET k == Key(x[1], x[2], ns, IF ns = "Account" THEN signer ELSE None, "kind")
        t == IF ns = "Account" /\ signer \notin s.delegates[x]
             THEN do_approve_item_attributes(s, a, x, signer) ELSE s
    IN IF s.item[x] = None THEN Fail(s)
       ELSE do_set_attribute(Check(t, deadline >= s.now /\ s.item[x].owner = a
                                      /\ ns \in {"CollectionOwner", "Account"}), signer, k, value, a)

(* The item starts to count down the period of its collection.  A period    *)
(* that is not a number stops the call with a panic.                        *)
do_active(s, a, x) ==
    LET period == Key(x[1], None, "CollectionOwner", None, "validPeriod")
        expires == Key(x[1], x[2], "CollectionOwner", None, "validPeriod")
    IN IF s.item[x] = None \/ period \notin DOMAIN s.attr \/ expires \in DOMAIN s.attr THEN Fail(s)
       ELSE IF s.attr[period].value = None THEN Fail(s)
       ELSE do_force_set_attribute(Check(s, s.item[x].owner = a), None, expires, s.now + s.attr[period].value)

-----------------------------------------------------------------------------
(* The end of a collection: its counters are the witness of the caller.     *)

do_destroy_collection(s, c, by) ==
    LET K == {k \in DOMAIN s.attr : k[1] = c}
        X == {x \in Items : x[1] = c}
        payback(t, who, amount) == IF who = None THEN t ELSE unreserve(t, who, amount)
        t == FoldSet(LAMBDA x, acc : payback(acc, s.itemmeta[x].account, s.itemmeta[x].amount), s,
                     {x \in X : s.itemmeta[x] # None})
        u == FoldSet(LAMBDA k, acc : payback(acc, s.attr[k].account, s.attr[k].amount), t, K)
        d == s.collection[c]
    IN IF ~Known(s, c) THEN Fail(s)
       ELSE [unreserve(Check(u, ByOwner(s, c, by) /\ d.items = 0), d.owner, d.owner_deposit) EXCEPT
                !.collection[c] = None, !.config[c] = None, !.collmeta[c] = None, !.roles[c] = {},
                !.owned = @ \ {<<d.owner, c>>}, !.attr = Without(@, K),
                !.itemmeta = [x \in Items |-> IF x \in X THEN None ELSE @[x]],
                !.itemconfig = [x \in Items |-> IF x \in X THEN None ELSE @[x]]]

(* The deposits of items after the setting has changed; an account that     *)
(* cannot pay is passed over.                                               *)
do_redeposit(s, a, c, ids) ==
    LET amount == IF Enabled(s, c, "DepositRequired") THEN ItemDeposit ELSE 0
        one(x, t) ==
            LET d == t.item[x]
                u == AdjustReserve(t, d.account, d.amount, amount)
            IN IF d = None THEN t
               ELSE IF u.ok THEN [u EXCEPT !.item[x].amount = amount] ELSE t
    IN IF ~Known(s, c) THEN Fail(s)
       ELSE IF s.collection[c].owner # a THEN Fail(s)
       ELSE FoldSet(one, s, {c} \X ids)

-----------------------------------------------------------------------------
(* The calls.  Root stands for ForceOrigin.                                 *)
create(a, admin, disabled) ==
    /\ NextCollectionId < MaxCollections /\ "DepositRequired" \notin disabled
    /\ Dispatch(do_create_collection(storage, a, admin, disabled, CollectionDeposit))
force_create(owner, disabled) ==
    /\ NextCollectionId < MaxCollections
    /\ Dispatch(do_create_collection(storage, owner, owner, disabled, 0))
destroy(by, c) == Dispatch(do_destroy_collection(storage, c, by))
mint(a, x, to, owned) ==
    /\ Known(storage, x[1])
    /\ Dispatch(do_mint(MintSettingsMet(storage, x[1], a, owned), x, a, to,
                        CollectionConfigOf[x[1]].mint.items_disabled))
force_mint(by, x, to, disabled) ==
    May(storage, x[1], by, "Issuer") /\ Dispatch(do_mint(storage, x, None, to, disabled))
burn(by, x) == Dispatch(do_burn(storage, x, by))
transfer(a, x, dest) == MayMove(storage, x, a) /\ Dispatch(do_transfer(storage, x, dest))
redeposit(a, c, ids) == Dispatch(do_redeposit(storage, a, c, ids))
lock_item_transfer(a, x) == Dispatch(do_lock_item_transfer(storage, a, x))
unlock_item_transfer(a, x) == Dispatch(do_unlock_item_transfer(storage, a, x))
lock_collection(a, c, disabled) == Dispatch(do_lock_collection(storage, a, c, disabled))
transfer_ownership(a, c, to) == Dispatch(do_transfer_ownership(storage, a, c, to))
set_team(by, c, team) == Dispatch(do_set_team(storage, by, c, team))
force_collection_owner(c, to) == Dispatch(do_force_collection_owner(storage, c, to))
force_collection_config(c, disabled, n) == Dispatch(do_force_collection_config(storage, c, disabled, n))
approve_transfer(by, x, delegate, duration) ==
    Dispatch(do_approve_transfer(storage, by, x, delegate, duration))
cancel_approval(by, x, delegate) == Dispatch(do_cancel_approval(storage, by, x, delegate))
clear_all_transfer_approvals(by, x) == Dispatch(do_clear_all_transfer_approvals(storage, by, x))
lock_item_properties(by, x, m, a) == Dispatch(do_lock_item_properties(storage, by, x, m, a))
set_attribute(a, k, value) ==
    /\ Known(storage, k[1])
    /\ Dispatch(do_set_attribute(storage, a, k, value,
                                 IF k[3] = "CollectionOwner" THEN Collection[k[1]].owner ELSE a))
force_set_attribute(set_as, k, value) == Dispatch(do_force_set_attribute(storage, set_as, k, value))
clear_attribute(by, k) == Dispatch(do_clear_attribute(storage, by, k))
approve_item_attributes(a, x, delegate) == Dispatch(do_approve_item_attributes(storage, a, x, delegate))
cancel_item_attributes_approval(a, x, delegate, witness) ==
    Dispatch(do_cancel_item_attributes_approval(storage, a, x, delegate, witness))
set_metadata(by, x, length) == Dispatch(do_set_item_metadata(storage, by, x, length, None))
clear_metadata(by, x) == Dispatch(do_clear_item_metadata(storage, by, x))
set_collection_metadata(by, c, length) == Dispatch(do_set_collection_metadata(storage, by, c, length))
clear_collection_metadata(by, c) == Dispatch(do_clear_collection_metadata(storage, by, c))
set_accept_ownership(a, c) == Dispatch(do_set_accept_ownership(storage, a, c))
set_collection_max_supply(by, c, n) == Dispatch(do_set_collection_max_supply(storage, by, c, n))
update_mint_settings(by, c, settings) == Dispatch(do_update_mint_settings(storage, by, c, settings))
set_price(a, x, price, buyer) == Dispatch(do_set_price(storage, x, a, price, buyer))
buy_item(a, x, bid) == Dispatch(do_buy_item(storage, x, a, bid))
pay_tips(a, tips) == Dispatch(do_pay_tips(storage, a, tips))
create_swap(a, x, c, desired, price, duration) ==
    Dispatch(do_create_swap(storage, a, x, c, desired, price, duration))
cancel_swap(a, x) == Dispatch(do_cancel_swap(storage, a, x))
claim_swap(a, sent, received, price) == Dispatch(do_claim_swap(storage, a, sent, received, price))
mint_pre_signed(a, x, value, length, only_account, deadline, signer) ==
    Dispatch(do_mint_pre_signed(storage, a, x, value, length, only_account, deadline, signer))
set_attributes_pre_signed(a, x, ns, value, deadline, signer) ==
    Dispatch(do_set_attributes_pre_signed(storage, a, x, ns, value, deadline, signer))
active(a, x) == Dispatch(do_active(storage, a, x))
=============================================================================
