\* Liquidations against the stability pool, in both modes.
CONSTANTS
    u1 = u1
    u2 = u2
    u3 = u3
    Users = {u1, u2, u3}
    DECIMAL_PRECISION = 10
    NICR_PRECISION = 100
    MAX_UINT = 1000000
    MCR = 11
    CCR = 15
    PERCENT_DIVISOR = 10
    GAS_COMPENSATION = 1
    MIN_NET_DEBT = 8
    MaxTxs = 9
    BorrowingRates = {0}
    Prices = {5, 6, 10}
    OpenColls = {20, 35}
    OpenDebts = {9, 14}
    CollChanges = {}
    DebtChanges = {}
    Deposits = {9, 25}
    RedeemAmounts = {}
    Iterations = {0}
    SequenceLengths = {1, 3}
    TroveArrays <- Pairs

SPECIFICATION Spec
\* Users are interchangeable in every input.
SYMMETRY Symmetry
\* The bound on transactions stops the system.
CHECK_DEADLOCK FALSE

INVARIANTS
    TypeOK
    DebtBacked
    GasPoolCoversReserves
    SurplusBacked
    SettlementFunded
    RecoveryTrackersExact

PROPERTIES
    LossIsCapped
    SettlementConserves
