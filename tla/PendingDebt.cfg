\* A redistribution too small to raise L_FIL.
CONSTANTS
    u1 = u1
    u2 = u2
    u3 = u3
    Users = {u1, u2, u3}
    DECIMAL_PRECISION = 10
    NICR_PRECISION = 100
    MAX_UINT = 1000000
    MCR = 11
    CCR = 15
    PERCENT_DIVISOR = 10
    GAS_COMPENSATION = 1
    MIN_NET_DEBT = 8
    MaxTxs = 6
    BorrowingRates = {0}
    Prices = {30, 50}
    OpenColls = {3, 40}
    OpenDebts = {9}
    CollChanges = {}
    DebtChanges = {}
    Deposits = {}
    RedeemAmounts = {}
    Iterations = {0}
    SequenceLengths = {}
    TroveArrays <- SingleTroves

SPECIFICATION Spec
\* Users are interchangeable in every input.
SYMMETRY Symmetry
\* The bound on transactions stops the system.
CHECK_DEADLOCK FALSE

INVARIANTS
    PendingDebtNoticed
