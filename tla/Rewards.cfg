\* Liquidity: two users who stake and leave, over twice the duration of the
\* program.  Fees: two stakers, minutes of two ticks, a rate that halves each
\* minute, three borrowings or redemptions.
CONSTANTS
    Users = {a, b}
    PRECISION = 10
    duration = 3
    Amounts = {1, 2}
    initialReward = 10
    MaxTime = 6
    MaxStaked = 3
    Stakers = {a, b}
    DECIMAL_PRECISION = 1000
    MAX_MINUTES = 525600000
    SECONDS_IN_ONE_MINUTE = 2
    MINUTE_DECAY_FACTOR = 500
    BETA = 2
    REDEMPTION_FEE_FLOOR = 5
    BORROWING_FEE_FLOOR = 5
    MAX_BORROWING_FEE = 50
    Borrowings = {300}
    Redemptions <- MCRedemptions
    StakeAmounts = {0, 1, 2}
    DeploymentTime = 5
    MaxFeeTime = 11
    MaxFeeOperations = 3
    MaxTokensStaked = 3
SPECIFICATION RewardsSpec
SYMMETRY UserSymmetry
CHECK_DEADLOCK FALSE
INVARIANTS
    PeriodIsKept
    RewardsCovered
    FeesCovered
    DecayKeepsPace
