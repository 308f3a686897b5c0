\* Borrowers adjust in both modes; every transaction that begins ends.
CONSTANTS
    u1 = u1
    u2 = u2
    u3 = u3
    Users = {u1, u2, u3}
    DECIMAL_PRECISION = 10
    NICR_PRECISION = 100
    MAX_UINT = 1000000
    MCR = 11
    CCR = 15
    PERCENT_DIVISOR = 10
    GAS_COMPENSATION = 1
    MIN_NET_DEBT = 8
    MaxTxs = 5
    BorrowingRates = {0, 1}
    Prices = {5, 7, 10}
    OpenColls = {20, 35}
    OpenDebts = {9}
    CollChanges = {5, 17}
    DebtChanges = {2, 10}
    Deposits = {}
    RedeemAmounts = {9}
    Iterations = {0}
    SequenceLengths = {2}
    TroveArrays <- NoArrays

SPECIFICATION FairSpec
\* The bound on transactions stops the system.
CHECK_DEADLOCK FALSE

PROPERTIES
    TransactionsEnd
    UsersCannotTripRecovery
    RecoveryNeverWorsens
