\* The scripts of src/gasTest: FIL in fortieths, debt tokens in halves, and ratios in
\* fifths of a percent.
CONSTANTS
    FIL_UNITS = 40
    TOKEN_UNITS = 2
    Users <- Signers
    DECIMAL_PRECISION = 500
    NICR_PRECISION = 1000
    MAX_UINT = 2000000000
    MCR = 550
    CCR = 750
    PERCENT_DIVISOR = 200
    GAS_COMPENSATION = 4
    MIN_NET_DEBT = 36
    MaxTxs = 200
    BorrowingRates = {0}
    Prices = {5000}
    OpenColls = {}
    OpenDebts = {}
    CollChanges = {}
    DebtChanges = {}
    Deposits = {}
    RedeemAmounts = {}
    Iterations = {}
    SequenceLengths = {}
    TroveArrays = {}

SPECIFICATION ScriptSpec
\* A script stops at its end.
CHECK_DEADLOCK FALSE

PROPERTIES
    ScriptsFinish
