SPECIFICATION MCSpec
CONSTANTS
    Members = {1, 2, 3}
    Machine = 11
    Renters = {5, 6}
    Reporters = {7}
    Stash = 90
    Controller = 91
    Pot = 92
    Treasury = 0
    None = None
    Infos = {a}
    Oppose = Oppose
    GpuNum = 2
    OnlineDeposit = 40
    StakePerGPU = 100
    GpuValue = 90
    GpuPrice = 100
    GpuPoint = 10
    CalcPoint = 10
    OneDbc = 1
    DbcPrice = 1
    StakeBaseline = 30
    StakePerOrder = 20
    MinFreeStakePercent = 40
    ReporterBaseline = 60
    StakePerReport = 10
    ReporterMinFree = 40
    FixedTxFee = 1
    SUBMIT_RAW_START = 1
    SUBMIT_RAW_END = 2
    WAITING_CONFIRMING_DELAY = 1
    MIN_RELET = 1
    HALF_HOUR = 1
    ONE_HOUR = 2
    THREE_HOURS = 3
    FOUR_HOURS = 4
    ONE_DAY = 1
    TWO_DAYS = 5
    TEN_DAYS = 3
    SIXTY_DAYS = 3
    ONE_YEAR = 5
    MAX_RENTAL = 3
    MemberStake = 100
    Wealth = 300
    Durations = {1, 2}
    Amounts = {15}
    MaxBlock = 11
    MaxOrders = 2
    MaxReports = 1
CHECK_DEADLOCK FALSE
INVARIANTS
    
    GpusCounted
    
    ClosedOnTime
