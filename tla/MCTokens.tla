------------------------------ MODULE MCTokens ------------------------------
(***************************************************************************)
(* Tokens, one scenario at a time: each behaviour uses some of the groups  *)
(* of calls, so that each group meets the ones it interacts with.          *)
(***************************************************************************)
EXTENDS Tokens

CONSTANTS Scenarios, MaxSupply, MaxOwnerDeposit
VARIABLE scenario

MCInit == Init /\ scenario \in Scenarios

In(S) == scenario \in S

MCNext ==
    /\ UNCHANGED scenario
    /\ \/ In({"locks", "held", "approved", "governed", "shared"}) /\ AssetLives
       \/ In({"locks", "held", "approved", "governed", "shared"}) /\ AssetMinted
       \/ In({"held"}) /\ AssetMoves
       \/ In({"locks"}) /\ AssetLocked
       \/ In({"held"}) /\ AssetHeld
       \/ In({"approved"}) /\ AssetApproved
       \/ In({"governed"}) /\ AssetGoverned
       \/ In({"traded", "swapped", "locked", "configured", "owned", "metadata", "attributes", "signed",
              "shared"}) /\ CollectionLives
       \/ In({"traded", "swapped", "locked", "configured", "metadata", "attributes", "signed"}) /\ ItemLives
       \/ In({"traded"}) /\ ItemTraded
       \/ In({"swapped"}) /\ ItemSwapped
       \/ In({"locked"}) /\ ItemLocked
       \/ In({"configured"}) /\ CollectionConfigured
       \/ In({"owned", "shared"}) /\ CollectionOwned
       \/ In({"metadata"}) /\ MetadataSet
       \/ In({"attributes"}) /\ AttributeSet
       \/ In({"signed"}) /\ Signed
       \/ In({"locks", "traded", "swapped", "configured", "attributes", "signed"}) /\ next_block

Live(f) == {x \in DOMAIN f : f[x] # None}

(* owner_deposit has no bound of its own: clear_collection_metadata does    *)
(* not lower it.                                                            *)
Bounds ==
    /\ Asset # None => Asset.supply <= MaxSupply
    /\ \A c \in Live(Collection) : Collection[c].owner_deposit <= MaxOwnerDeposit
    /\ Cardinality(DOMAIN Attribute) <= 2

(* What a scenario does not need.                                           *)
Slices ==
    /\ In({"held", "approved", "governed", "shared"}) => created <= 1
    /\ In({"approved"}) => \A p \in DOMAIN Approvals : Approvals[p].amount <= 2
    /\ In({"locks", "held"}) /\ Asset # None => Asset.supply <= 2
    /\ In({"approved", "governed"}) /\ Asset # None => Asset.supply <= 2 /\ Asset.min_balance <= 1
    /\ In({"governed", "shared"}) /\ Asset # None => Asset.supply <= 1 /\ Asset.issuer = 1
    /\ In({"locks", "shared"}) /\ Asset # None => Asset.min_balance <= 1 /\ Asset.owner = 1
    /\ In({"shared"}) => \A c \in Collections : CollectionRoleOf[c] \in {{}, {1} \X {"Issuer", "Admin", "Freezer"}}
    /\ ~In({"swapped", "configured"}) => \A x \in Live(Item) : x[2] = 0
    /\ In({"traded", "swapped", "configured", "attributes"}) => \A a \in Accounts :
           LET n == IF In({"traded"}) THEN 2 ELSE 1 IN free[a] + reserved[a] \in Wealth - n .. Wealth + n
    /\ In({"swapped"}) => Cardinality(Live(PendingSwapOf)) <= 1 /\ \A x \in Items : ItemConfigOf[x] \in {None, {}}
    /\ In({"traded", "swapped", "configured", "attributes"}) => \A c \in Live(Collection) :
           Collection[c].owner = 1 /\ \A r \in CollectionRoleOf[c] : r[1] = 1
    /\ In({"configured"}) => \A c \in Live(Collection) :
           LET given == CollectionConfigOf[c] IN
           /\ Cardinality(given.disabled) <= IF now = 1 THEN 1 ELSE 0
           /\ given.max_supply # None => now = 1 /\ given.disabled \subseteq {"UnlockedMaxSupply"} /\ given.mint.type = "Issuer"
    /\ In({"signed"}) /\ now = 2 => DOMAIN Attribute = {}
    /\ In({"attributes", "configured"}) => /\ \A x \in Items : ItemConfigOf[x] \in {None, {}}
                                           /\ \A x \in Live(Item) : Item[x].owner = 2
    /\ In({"attributes"}) => \A k \in DOMAIN Attribute : k[2] \in {None, 0} /\ k[4] \in {None, 2}
    /\ In({"attributes"}) => \A c \in Live(Collection) :
           Collection[c].attributes <= (IF now = 1 THEN 2 ELSE 1) /\ Collection[c].owner_deposit <= 3 /\ CollectionConfigOf[c].disabled = {}

MCSpec == MCInit /\ [][MCNext /\ Bounds' /\ Slices']_<<vars, scenario>>
=============================================================================
