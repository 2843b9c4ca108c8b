SPECIFICATION MCSpec
CONSTANTS
    Machines = {1, 2}
    Accounts = {"s", "t", "c", "d", "r", "q", "v", "w", "treasury", "pot"}
    Stashes = {"s", "t"}
    Controllers = {"c", "d"}
    Treasury = "treasury"
    None = None
    GpuNums = {1, 2}
    StakePerGpuV2 = 10
    StakePrices = {10, 15}
    FixedTxFee = 1
    ReonlineStake = 3
    ReviewStake = 2
    Verifiers <- MCVerifiers
    Faults = {"RentedInaccessible"}
    SEVEN_MINUTES = 1
    FOUR_HOURS = 1
    ONE_DAY = 1
    EraLength = 4
    EraOffset = 0
    SnapOffset = 1
    FirstPayOffset = 2
    LastPayOffset = 3
    ReleaseParts = 4
    CalcPoint = 5000
    PhaseRewards <- MCPhaseRewards
    FirstPhase = 2
    SecondPhase = 2
    GalaxyDays = 3
    RewardStart = 3
    GalaxyGpus = 4
    DestroyGpus = 6
    REWARD_DURATION = 4
    StartEra = 2
    TWO_DAYS = 2
    FIVE_DAYS = 3
    TEN_DAYS = 3
    YEAR = 3
    ReporterBaseline = 5
    StakePerReport = 2
    ReporterMinFree = 20
    Endowment = 40
    Starts <- MCListed
    MaxBlock = 24
    MaxSlashes = 1
    Renters = {"r", "q"}
    rent_fee_pot = "pot"
    Durations = {2, 6}
    ReletDurations = {1}
    GpuPrice = 2
    GpuPoint = 5000
    OneDbc = 4
    DbcPrice = 2
    Destroyers = {"pot"}
    Frequencies = {0, 2}
    DestroyAmounts = {36}
    WAITING_CONFIRMING_DELAY = 1
    MaximumRental = 4
    MaximumRelet = 4
    MaxOrders = 2
    SliceNames = {"return"}
INVARIANT
    OnlineIsIdle
CHECK_DEADLOCK FALSE
