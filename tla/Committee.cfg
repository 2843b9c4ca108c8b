SPECIFICATION MCSpec
CONSTANTS
    Accounts = {c1, c2}
    Guests = {c2}
    StakeParams <- MCParams
    Amounts = {1, 2}
    Endowment = 6
    OrderStake = 1
    StakePerReport = 2
    MaxUsed = 3
    MaxStake = 6
    MaxReward = 1
INVARIANTS
    StakeIsReserved
    UsedWithinStake
    OutsiderOwesNothing
PROPERTIES
    NormalIsHealthy
