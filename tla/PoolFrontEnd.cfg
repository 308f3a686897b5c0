\* Two depositors with the same tag.
CONSTANTS
    DECIMAL_PRECISION = 10
    MAX_MINUTES = 100
    SCALE_FACTOR = 3
    ISSUANCE_FACTOR = 5
    Users = {a, b}
    NoFrontEnd = none
    KickbackRates = {}
    Provided = {13}
    Withdrawn = {0, 30}
    Debts = {4, 9}
    Colls = {5}
    Supplies = {}
    MaxOffsets = 3
    MaxDeposits = 26
    MaxFIL = 15
    MaxEpoch = 1
    MaxScale = 2
    MaxMinutes = 0
    MaxSupply = 0
SPECIFICATION Spec
SYMMETRY UserSymmetry
CHECK_DEADLOCK FALSE
INVARIANTS
    FrontEndStakeCoversDeposits
