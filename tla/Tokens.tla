------------------------------- MODULE Tokens -------------------------------
(***************************************************************************)
(* The assets and the nfts pallet side by side: they reserve deposits from *)
(* the same balances and count their references on the same accounts.      *)
(***************************************************************************)
EXTENDS Integers, FiniteSets, FiniteSetsExt

CONSTANTS
    Accounts, None, Root,
    AssetDeposit, AssetAccountDeposit, ApprovalDeposit, MetadataDepositBase, MetadataDepositPerByte,
    RemoveItemsLimit, AssetLockLimit, MinLockAmount, MaxLockDuration, MaxBalance, MaxConsumers, Engaged,
    CollectionDeposit, ItemDeposit, ItemMetadataDeposit, AttributeDepositBase, DepositPerByte,
    ApprovalsLimit, AttributesApprovalsLimit, MaxDeadlineDuration,
    Amounts, MinBalances, Lengths, Durations, Values,       \* inputs
    Wealth, MaxBlock, MaxCreated, MaxCollections, ItemIds   \* bounds

VARIABLES
    now, Asset, Account, Approvals, Metadata, AssetLocks, Locked, written, created,
    Collection, CollectionConfigOf, CollectionRoleOf, CollectionAccount, CollectionMetadataOf,
    Item, ItemAccount, ItemConfigOf, ItemMetadataOf, ItemPriceOf, PendingSwapOf,
    Attribute, ItemAttributesApprovalsOf, OwnershipAcceptance, NextCollectionId,
    consumers, free, reserved

Fungible == INSTANCE Assets
Unique == INSTANCE Nfts

asset_vars == <<Asset, Account, Approvals, Metadata, AssetLocks, Locked, written, created>>
nft_vars == <<Collection, CollectionConfigOf, CollectionRoleOf, CollectionAccount, CollectionMetadataOf,
              Item, ItemAccount, ItemConfigOf, ItemMetadataOf, ItemPriceOf, PendingSwapOf,
              Attribute, ItemAttributesApprovalsOf, OwnershipAcceptance, NextCollectionId>>
vars == <<now, asset_vars, nft_vars, consumers, free, reserved>>

Init == Fungible!Init /\ Unique!NftInit

-----------------------------------------------------------------------------
(* Assets, grouped by what they change.                                     *)
AssetLives ==
    /\ UNCHANGED nft_vars
    /\ \/ /\ created < MaxCreated
          /\ \E a, admin \in Accounts, m \in MinBalances : Fungible!create(a, admin, m)
       \/ /\ created < MaxCreated
          /\ \E a \in Accounts, sufficient \in BOOLEAN, m \in MinBalances : Fungible!force_create(a, sufficient, m)
       \/ \E by \in Accounts \cup {Root} : Fungible!start_destroy(by)
       \/ \E S \in SUBSET Accounts : Fungible!destroy_accounts(S)
       \/ \E S \in SUBSET DOMAIN Approvals : Fungible!destroy_approvals(S)
       \/ Fungible!finish_destroy

AssetMinted == UNCHANGED nft_vars /\ \E a, to \in Accounts, n \in Amounts : Fungible!mint(a, to, n)

AssetMoves ==
    /\ UNCHANGED nft_vars
    /\ \E a, to \in Accounts, n \in Amounts :
        \/ Fungible!burn(a, to, n)
        \/ Fungible!transfer(a, to, n)
        \/ Fungible!transfer_keep_alive(a, to, n)
        \/ \E from \in Accounts : Fungible!force_transfer(a, from, to, n)

AssetLocked ==
    /\ UNCHANGED nft_vars
    /\ \/ \E a, to \in Accounts, n \in Amounts, d \in Durations : Fungible!transfer_and_lock(a, to, n, d)
       \/ \E a, to \in Accounts, n \in Amounts, d \in Durations : Fungible!transfer_and_lock_keep_alive(a, to, n, d)
       \/ \E a \in Accounts, id \in 0 .. AssetLockLimit - 1 : Fungible!unlock(a, id)
       \/ \E a \in Accounts, id \in 0 .. AssetLockLimit - 1 : Fungible!force_remove_lock(a, id)

AssetHeld ==
    /\ UNCHANGED nft_vars
    /\ \/ \E a \in Accounts : Fungible!touch(a)
       \/ \E a \in Accounts, allow_burn \in BOOLEAN : Fungible!refund(a, allow_burn)
       \/ \E a, who \in Accounts : \/ Fungible!touch_other(a, who)
                                   \/ Fungible!refund_other(a, who)
                                   \/ Fungible!freeze(a, who)
                                   \/ Fungible!block(a, who)
                                   \/ Fungible!thaw(a, who)

AssetApproved ==
    /\ UNCHANGED nft_vars
    /\ \E a, b \in Accounts :
        \/ \E n \in Amounts : Fungible!approve_transfer(a, b, n)
        \/ Fungible!cancel_approval(a, b)
        \/ \E by \in {Root, 1} : Fungible!force_cancel_approval(by, a, b)
        \/ \E to \in Accounts, n \in Amounts : Fungible!transfer_approved(b, a, to, n)

AssetGoverned ==
    /\ UNCHANGED nft_vars
    /\ \/ \E a \in Accounts : Fungible!freeze_asset(a)
       \/ \E a \in Accounts : Fungible!thaw_asset(a)
       \/ \E a, to \in Accounts : Fungible!transfer_ownership(a, to)
       \/ \E a, team \in Accounts : Fungible!set_team(a, team)
       \/ \E a \in Accounts, length \in Lengths : Fungible!set_metadata(a, length)
       \/ \E a \in Accounts : Fungible!clear_metadata(a)
       \/ \E frozen \in BOOLEAN : Fungible!force_set_metadata(frozen)
       \/ Fungible!force_clear_metadata
       \/ \E a \in Accounts, m \in MinBalances, sufficient, frozen \in BOOLEAN :
              Fungible!force_asset_status(a, m, sufficient, frozen)
       \/ \E a \in Accounts, m \in MinBalances \cup {0} : Fungible!set_min_balance(a, m)

-----------------------------------------------------------------------------
(* Collections and items.                                                   *)
Origins == Accounts \cup {Root}
Collections == Unique!Collections
Items == Unique!Items

CollectionLives ==
    /\ UNCHANGED asset_vars
    /\ \/ \E a, admin \in Accounts : Unique!create(a, admin, {})
       \/ \E a \in Accounts, disabled \in {{}, {"DepositRequired"}} : Unique!force_create(a, disabled)
       \/ \E by \in Origins, c \in Collections : Unique!destroy(by, c)

ItemLives ==
    /\ UNCHANGED asset_vars
    /\ \E x \in Items :
        \/ \E a, to \in Accounts, owned \in ItemIds \cup {None} : Unique!mint(a, x, to, owned)
        \/ \E by \in Origins, to \in Accounts, disabled \in {{}, {"Transferable"}} :
               Unique!force_mint(by, x, to, disabled)
        \/ \E by \in Origins : Unique!burn(by, x)

ItemTraded ==
    /\ UNCHANGED asset_vars
    /\ \E x \in Items :
        \/ \E a, dest \in Accounts : Unique!transfer(a, x, dest)
        \/ \E by \in Origins, a \in Accounts, d \in Durations \cup {None} : Unique!approve_transfer(by, x, a, d)
        \/ \E by \in Origins, a \in Accounts : Unique!cancel_approval(by, x, a)
        \/ \E by \in Origins : Unique!clear_all_transfer_approvals(by, x)
        \/ \E a \in Accounts, price \in Amounts \cup {None}, buyer \in {1, None} : Unique!set_price(a, x, price, buyer)
        \/ \E a \in Accounts, bid \in Amounts : Unique!buy_item(a, x, bid)
        \/ \E a, to \in Accounts, n \in Amounts : Unique!pay_tips(a, {<<to, n>>})

Price(n, direction) == [amount |-> n, direction |-> direction]

ItemSwapped ==
    /\ UNCHANGED asset_vars
    /\ \E a \in Accounts, x \in Items :
        \/ \E y \in Items, any \in BOOLEAN, price \in {None, Price(1, "Send"), Price(1, "Receive")}, d \in Durations :
               Unique!create_swap(a, x, y[1], IF any THEN None ELSE y[2], price, d)
        \/ Unique!cancel_swap(a, x)
        \/ \E y \in Items, price \in {None, Price(1, "Send"), Price(1, "Receive")} : Unique!claim_swap(a, y, x, price)

ItemLocked ==
    /\ UNCHANGED asset_vars
    /\ \E x \in Items :
        \/ \E a \in Accounts : Unique!lock_item_transfer(a, x)
        \/ \E a \in Accounts : Unique!unlock_item_transfer(a, x)
        \/ \E by \in Origins, m, t \in BOOLEAN : Unique!lock_item_properties(by, x, m, t)

MintedBy(type, c, price, start, end, disabled) ==
    [type |-> type, holder_of |-> c, price |-> price, start |-> start, end |-> end, items_disabled |-> disabled]

CollectionConfigured ==
    /\ UNCHANGED asset_vars
    /\ \E c \in Collections :
        \/ \E a \in Accounts, setting \in {"TransferableItems", "UnlockedMetadata", "UnlockedAttributes",
                                           "UnlockedMaxSupply"} : Unique!lock_collection(a, c, {setting})
        \/ \E disabled \in {{}, {"DepositRequired"}}, n \in {None, 1} : Unique!force_collection_config(c, disabled, n)
        \/ \E by \in Origins, n \in {0, 1} : Unique!set_collection_max_supply(by, c, n)
        \/ \E by \in Origins : \/ Unique!update_mint_settings(by, c, MintedBy("Public", None, 1, 1, 2, {}))
                               \/ Unique!update_mint_settings(by, c, MintedBy("HolderOf", 0, None, None, None, {}))
        \/ \E a \in Accounts, ids \in SUBSET ItemIds : Unique!redeposit(a, c, ids)

CollectionOwned ==
    /\ UNCHANGED asset_vars
    /\ \/ \E by \in Origins, c \in Collections, a \in Accounts, member \in Accounts \cup {None} :
              Unique!set_team(by, c, [Issuer |-> a, Admin |-> member, Freezer |-> member])
       \/ \E a, to \in Accounts, c \in Collections : Unique!transfer_ownership(a, c, to)
       \/ \E c \in Collections, to \in Accounts : Unique!force_collection_owner(c, to)
       \/ \E a \in Accounts, c \in Collections \cup {None} : Unique!set_accept_ownership(a, c)

MetadataSet ==
    /\ UNCHANGED asset_vars
    /\ \/ \E by \in Origins, x \in Items, length \in Lengths : Unique!set_metadata(by, x, length)
       \/ \E by \in Origins, x \in Items : Unique!clear_metadata(by, x)
       \/ \E by \in Origins, c \in Collections, length \in Lengths : Unique!set_collection_metadata(by, c, length)
       \/ \E by \in Origins, c \in Collections : Unique!clear_collection_metadata(by, c)

Keys(c) ==
    LET K(item, ns, who, key) == Unique!Key(c, item, ns, who, key) IN
    {K(None, "CollectionOwner", None, "validPeriod")}
        \cup {K(i, "CollectionOwner", None, "kind") : i \in ItemIds}
        \cup {K(i, "ItemOwner", None, "kind") : i \in ItemIds}
        \cup {K(i, "Account", a, "kind") : i \in ItemIds, a \in Accounts}

AttributeSet ==
    /\ UNCHANGED asset_vars
    /\ \/ \E a \in Accounts, c \in Collections : \E k \in Keys(c), v \in Values : Unique!set_attribute(a, k, v)
       \/ \E a \in Accounts \cup {None}, c \in Collections : \E k \in Keys(c), v \in Values :
              Unique!force_set_attribute(a, k, v)
       \/ \E x \in Items : Unique!force_set_attribute(None, Unique!TransferDisabled(x), None)
       \/ \E by \in Origins, k \in DOMAIN Attribute : Unique!clear_attribute(by, k)
       \/ \E a, b \in Accounts, x \in Items : Unique!approve_item_attributes(a, x, b)
       \/ \E a, b \in Accounts, x \in Items : Unique!cancel_item_attributes_approval(a, x, b, 1)
       \/ \E a \in Accounts, x \in Items : Unique!active(a, x)

Signed ==
    /\ UNCHANGED asset_vars
    /\ \E a, signer \in Accounts, x \in Items :
        \/ \E v \in Values \cup {None}, length \in Lengths, only \in {None, 1} :
               Unique!mint_pre_signed(a, x, v, length, only, 1, signer)
        \/ \E ns \in {"CollectionOwner", "Account"}, v \in Values :
               Unique!set_attributes_pre_signed(a, x, ns, v, 1, signer)

next_block == Fungible!next_block /\ UNCHANGED nft_vars

Next ==
    \/ AssetLives \/ AssetMinted \/ AssetMoves \/ AssetLocked \/ AssetHeld \/ AssetApproved \/ AssetGoverned
    \/ CollectionLives \/ ItemLives \/ ItemTraded \/ ItemSwapped \/ ItemLocked \/ CollectionConfigured
    \/ CollectionOwned \/ MetadataSet \/ AttributeSet \/ Signed
    \/ next_block

Spec == Init /\ [][Next]_vars

-----------------------------------------------------------------------------
Total(f, S) == FoldSet(LAMBDA x, n : n + f[x], 0, S)
Holders == {a \in Accounts : Account[a] # None}

(* The supply of a class covers what its holders own and what is locked for *)
(* them (mint, burn, the transfers, transfer_and_lock, unlock, refund),     *)
(* until its id is used a second time: the locks of a destroyed class can   *)
(* outlive it.                                                              *)
SupplyCovers ==
    Asset # None /\ created = 1 =>
        Total([a \in Holders |-> Account[a].balance], Holders) + Total(Locked, Accounts) <= Asset.supply

References(a) ==
    (IF a \in Engaged THEN MaxConsumers - 1 ELSE 0)
        + (IF a \notin Holders THEN 0 ELSE IF Account[a].reason.kind = "Consumer" THEN 1 ELSE 0)
        + (IF OwnershipAcceptance[a] = None THEN 0 ELSE 1)

(* The counters by which finish_destroy and set_min_balance decide are the  *)
(* numbers of what is stored, the sum kept beside the locks of an account   *)
(* is their sum, a class that is gone leaves no account and no approval,    *)
(* and every account that needs one has its reference in frame_system,      *)
(* though the nfts pallet takes and returns references on it as well.       *)
AssetCounters ==
    /\ IF Asset = None THEN Holders = {} /\ Approvals = <<>> /\ Metadata = None
       ELSE /\ Asset.accounts = Cardinality(Holders)
            /\ Asset.sufficients = Cardinality({a \in Holders : Account[a].reason.kind = "Sufficient"})
            /\ Asset.approvals = Cardinality(DOMAIN Approvals)
    /\ \A a \in Accounts :
        /\ Locked[a] = Total([id \in DOMAIN AssetLocks[a] |-> AssetLocks[a][id].balance], DOMAIN AssetLocks[a])
        /\ consumers[a] \in References(a) .. MaxConsumers

(* The indexes by owner name exactly the owners that the collections and    *)
(* the items record, the counters that destroy checks are the numbers of    *)
(* what is stored, every item has a config, and a collection that is gone   *)
(* leaves nothing of its own behind (mint, burn, transfer, set_metadata,    *)
(* transfer_ownership, force_collection_owner, destroy).                    *)
ItemCounters ==
    LET Of(f, c) == {x \in Items : x[1] = c /\ f[x] # None} IN
    /\ CollectionAccount = {<<Collection[c].owner, c>> : c \in {d \in Collections : Collection[d] # None}}
    /\ ItemAccount = {<<Item[x].owner, x[1], x[2]>> : x \in {y \in Items : Item[y] # None}}
    /\ \A x \in Items : Item[x] # None => ItemConfigOf[x] # None
    /\ \A c \in Collections :
        IF Collection[c] = None
        THEN /\ Of(Item, c) = {} /\ Of(ItemConfigOf, c) = {} /\ Of(ItemMetadataOf, c) = {}
             /\ CollectionConfigOf[c] = None /\ CollectionRoleOf[c] = {} /\ CollectionMetadataOf[c] = None
             /\ \A k \in DOMAIN Attribute : k[1] # c
        ELSE /\ Collection[c].items = Cardinality(Of(Item, c))
             /\ Collection[c].item_configs = Cardinality(Of(ItemConfigOf, c))
             /\ Collection[c].item_metadatas = Cardinality(Of(ItemMetadataOf, c))

(* The books of both pallets are exact: what finish_destroy, destroy and    *)
(* set_min_balance decide by is what is stored.                             *)
CountersExact == AssetCounters /\ ItemCounters

(* An approval, a price and a swap are offers of the account that owns the  *)
(* item now: a transfer by any path (transfer, buy_item, claim_swap) and a  *)
(* burn end the offers of the owner before.                                 *)
OffersByOwner ==
    \A x \in Items :
        /\ Item[x] # None => \A d \in DOMAIN Item[x].approvals : Item[x].approvals[d].by = Item[x].owner
        /\ \A offer \in {ItemPriceOf[x], PendingSwapOf[x]} \ {None} : Item[x] # None /\ offer.by = Item[x].owner
=============================================================================
