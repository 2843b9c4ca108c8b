SPECIFICATION MCSpec
CONSTANTS
    a1 = a1
    a2 = a2
    treasury = treasury
    NoAccount = NoAccount
    Accounts = {a1, a2, treasury}
    Payments <- MCPayments
    Signed <- MCSigned
    NoPayment = NoPayment
    Endowment = 12
    SettlementDelay = 1
    PaymentIntentTTL = 2
    MaxPending = 2
    MaxIds = 3
    MaxBlock = 3
    Agents = {a1, a2}
    Tasks = {1}
    Models = {llm, vision}
    AttestationDeposit = 7
    ChallengeWindow = 1
    SlashPercent = 50
    HeartbeatInterval = 2
    MaxModelsPerAgent = 2
    MaxAttestations = 2
    Prices = {10, 20}
    URLs = {u1}
    Frequencies = {0, 1}
    NoPrice = NoPrice
    MAX_LEN = 2
    MaxUrls = 1
    OneDbc = 10
    Treasury = treasury
    Definitions <- MCDefinitions
    TokenCounts = {1}
    BurnPercentage = 15
    MinerPayoutPercentage = 85
    TaskModeRewardPercentage = 70
    EraDuration = 1
    OrderTimeout = 0
    EraRewards = 10
    MaxTaskIds = 1
    MaxOrders = 2
CHECK_DEADLOCK FALSE
INVARIANTS
    ReserveIsShared
    NoReplay
    PendingExpires
    SharesWithinPool
PROPERTIES
    ConfirmedUnchallenged
    EscrowSpec
