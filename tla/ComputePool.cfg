SPECIFICATION Spec
CONSTANTS
    Accounts = {a, b}
    Configs <- MCConfigs
    Dimensions <- MCDimensions
    StakeAmounts = {1}
    Endowment = 8
    PoolDeposit = 2
    TaskDeposit = 1
    FailureSlash = 2
    TaskTimeout = 2
    VerificationTimeout = 1
    MaxTasksPerPool = 2
    InitialReputation = 100
    MaxScanned = 1
    MaxPools = 2
    MaxTasks = 2
    MaxStake = 1
    MaxBlock = 4
CONSTRAINT Slices
CHECK_DEADLOCK FALSE
INVARIANTS
    PoolRecords
    ReserveIsDue
    NothingOverdue
PROPERTIES
    VerdictStable
