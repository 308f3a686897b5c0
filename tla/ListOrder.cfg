\* A redistribution whose floors swap two neighbours.
CONSTANTS
    u1 = u1
    u2 = u2
    u3 = u3
    Users = {u1, u2, u3}
    DECIMAL_PRECISION = 10
    NICR_PRECISION = 1000
    MAX_UINT = 1000000
    MCR = 11
    CCR = 15
    PERCENT_DIVISOR = 10
    GAS_COMPENSATION = 1
    MIN_NET_DEBT = 8
    MaxTxs = 6
    BorrowingRates = {0}
    Prices = {5, 10}
    OpenColls = {20, 29, 30}
    OpenDebts = {9}
    CollChanges = {}
    DebtChanges = {}
    Deposits = {}
    RedeemAmounts = {}
    Iterations = {0}
    SequenceLengths = {}
    TroveArrays <- SingleTroves

SPECIFICATION Spec
\* Users are interchangeable in every input.
SYMMETRY Symmetry
\* The bound on transactions stops the system.
CHECK_DEADLOCK FALSE

INVARIANTS
    SortedByNICR
