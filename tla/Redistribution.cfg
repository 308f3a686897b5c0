\* Liquidations that redistribute and redemptions, with top-ups between them.
CONSTANTS
    u1 = u1
    u2 = u2
    u3 = u3
    Users = {u1, u2, u3}
    DECIMAL_PRECISION = 10
    NICR_PRECISION = 100
    MAX_UINT = 1000000
    MCR = 11
    CCR = 15
    PERCENT_DIVISOR = 10
    GAS_COMPENSATION = 1
    MIN_NET_DEBT = 8
    MaxTxs = 8
    BorrowingRates = {0}
    Prices = {5, 7, 10}
    OpenColls = {20, 35}
    OpenDebts = {9, 17}
    CollChanges = {6}
    DebtChanges = {}
    Deposits = {}
    RedeemAmounts = {8, 11}
    Iterations = {0, 1}
    SequenceLengths = {2}
    TroveArrays <- SingleTroves

SPECIFICATION Spec
\* Users are interchangeable in every input.
SYMMETRY Symmetry
\* The bound on transactions stops the system.
CHECK_DEADLOCK FALSE

INVARIANTS
    ActivePoolMatchesTroves
    DefaultPoolCoversPendingFIL
    StakesMatch
    RegistryConsistent
    TroveDebtAboveMinimum
    RedistributionHasBearer

PROPERTIES
    RedemptionKeepsNetWorth
    LastTroveStays
