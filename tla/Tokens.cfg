SPECIFICATION MCSpec
CONSTANTS
    Accounts = {1, 2}
    None = None
    Root = Root
    AssetDeposit = 2
    AssetAccountDeposit = 1
    ApprovalDeposit = 1
    MetadataDepositBase = 1
    MetadataDepositPerByte = 1
    RemoveItemsLimit = 1
    AssetLockLimit = 2
    MinLockAmount = 1
    MaxLockDuration = 1
    MaxBalance = 6
    MaxConsumers = 2
    Engaged = {}
    CollectionDeposit = 1
    ItemDeposit = 1
    ItemMetadataDeposit = 1
    AttributeDepositBase = 1
    DepositPerByte = 1
    ApprovalsLimit = 1
    AttributesApprovalsLimit = 1
    MaxDeadlineDuration = 1
    Amounts = {1, 2}
    MinBalances = {1, 2}
    Lengths = {1}
    Durations = {1}
    Values = {1}
    Wealth = 5
    MaxBlock = 2
    MaxCreated = 2
    MaxCollections = 1
    ItemIds = {0, 1}
    MaxSupply = 3
    MaxOwnerDeposit = 6
    Scenarios = {"locks", "held", "approved", "governed", "traded", "swapped", "locked", "configured", "owned", "metadata", "attributes", "signed", "shared"}
INVARIANTS
    SupplyCovers
    CountersExact
    OffersByOwner
CHECK_DEADLOCK FALSE
