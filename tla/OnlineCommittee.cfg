SPECIFICATION MCSpec
CONSTANTS
    Members = {1, 2, 3}
    Machines = {11, 12}
    Stash = 90
    Treasury = 0
    ControllerStash <- MCControllers
    Infos = {A, B}
    Oppose = Oppose
    None = None
    StakeBaseline = 30
    StakePerOrder = 20
    MinFreeStakePercent = 70
    SUBMIT_RAW_START = 1
    SUBMIT_RAW_END = 2
    TWO_DAYS = 2
    FixedTxFee = 1
    MemberStake = 100
    MemberFree = 20
    StashFree = 160
    BondStake = 40
    ExtraStake = 40
    ReonlineFee = 10
    OfflineSlash = 3
    MaxBlock = 5
    LastArrival = 2
SYMMETRY MCSymmetry
CHECK_DEADLOCK FALSE
INVARIANTS
    OrdersCovered
PROPERTIES
    ConfirmedByMajority
    OnlyFaultySlashed
