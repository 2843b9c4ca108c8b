SPECIFICATION MCSpec
CONSTANTS
    Miners = {m1, m2}
    Nonces = {1, 2}
    Proofs <- MCProofs
    NoProof = NoProof
    Endowment = 2
    PotEndowment = 1
    BaseReward = 1000000
    SubmissionDeposit = 1
    VerificationTimeout = 0
    MaxPendingTasks = 2
    MaxVerifiedTasks = 1
    MaxPendingPerMiner = 2
    InitialMinerScore = 2
    MinMinerScoreToSubmit = 1
    MaxMinerScore = 3
    ScoreOnSuccess = 2
    ScorePenaltyOnFailure = 2
    MaxTasks = 3
    MaxBlock = 1
    Guest = m2
    MaxForeign = 1
CHECK_DEADLOCK FALSE
INVARIANTS
    PendingExact
    DepositHeld
    PotAccounted
    VerdictSound
PROPERTIES
    EveryTaskDecided
