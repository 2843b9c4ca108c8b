SPECIFICATION MCSpec
CONSTANTS
    Members = {1, 2, 3}
    Reporters = {4}
    Renter = 4
    Stash = 90
    Treasury = 0
    None = None
    StakeBaseline = 30
    StakePerOrder = 20
    MinFreeStakePercent = 40
    ReporterBaseline = 60
    StakePerReport = 10
    ReporterMinFree = 40
    FixedTxFee = 1
    FIVE_MINUTES = 1
    TEN_MINUTES = 2
    HALF_HOUR = 1
    ONE_HOUR = 2
    THREE_HOURS = 3
    FOUR_HOURS = 4
    TWO_DAYS = 5
    MemberStake = 100
    MemberFree = 12
    ReporterFree = 76
    StashFree = 10
    Amounts = {15}
    MaxBlock = 11
    LastReport = 1
    MaxReports = 1
CHECK_DEADLOCK FALSE
INVARIANTS
    
    DecidedInTime
PROPERTIES
    OfflineByVerdict
