SPECIFICATION MCSpec
CONSTANTS
    None = None
    ED = 2
    BondingDuration = 2
    Accounts = {1, 2, 3}
    Treasury = 9
    SessionsPerEra = 2
    HistoryDepth = 2
    SlashDeferDuration = 1
    MaxUnlockingChunks = 2
    MaxNominations = 1
    MaxWinners = 2
    MaxNominatorRewardedPerValidator = 1
    OffendingValidatorsThreshold = 170000
    SlashRewardFraction = 500000
    Year = 1
    ReleasePeriod = 2
    Amounts = {2, 5}
    Fractions = {0, 250000, 750000}
    Commissions = {0, 500000}
    Counts = {1}
    MaxSession = 9
    MaxPoints = 1
    Scenarios = {"bonds", "legacy", "roles", "payouts", "slashes", "offenders", "releases", "forcing", "issuance"}
INVARIANTS
    
    ErasPaid
    SlashedByLargest
CONSTRAINT Bounds
CHECK_DEADLOCK FALSE
