\* A debt increase in recovery mode whose ICR falls within a floor.
CONSTANTS
    u1 = u1
    u2 = u2
    u3 = u3
    Users = {u1, u2}
    DECIMAL_PRECISION = 10
    NICR_PRECISION = 100
    MAX_UINT = 1000000
    MCR = 11
    CCR = 15
    PERCENT_DIVISOR = 10
    GAS_COMPENSATION = 1
    MIN_NET_DEBT = 8
    MaxTxs = 6
    BorrowingRates = {0}
    Prices = {5, 10}
    OpenColls = {20, 37}
    OpenDebts = {9}
    CollChanges = {5}
    DebtChanges = {2}
    Deposits = {}
    RedeemAmounts = {}
    Iterations = {0}
    SequenceLengths = {}
    TroveArrays <- NoArrays

SPECIFICATION Spec
\* Users are interchangeable in every input.
SYMMETRY Symmetry
\* The bound on transactions stops the system.
CHECK_DEADLOCK FALSE

PROPERTIES
    DebtIncreaseImprovesTCR
