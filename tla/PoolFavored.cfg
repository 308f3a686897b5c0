\* Deposits much larger than the precision of P: what is left of them.
CONSTANTS
    DECIMAL_PRECISION = 10
    MAX_MINUTES = 100
    SCALE_FACTOR = 3
    ISSUANCE_FACTOR = 5
    Users = {a, b}
    NoFrontEnd = none
    KickbackRates = {}
    Provided = {7, 15}
    Withdrawn = {7, 30}
    Debts = {4, 9}
    Colls = {5}
    Supplies = {}
    MaxOffsets = 3
    MaxDeposits = 30
    MaxFIL = 15
    MaxEpoch = 1
    MaxScale = 2
    MaxMinutes = 0
    MaxSupply = 0
SPECIFICATION Spec
SYMMETRY UserSymmetry
CHECK_DEADLOCK FALSE
INVARIANTS
    DepositsCovered
