\* The cap set to a balance of which a part is issued and not sent.
CONSTANTS
    DECIMAL_PRECISION = 10
    MAX_MINUTES = 100
    SCALE_FACTOR = 4
    ISSUANCE_FACTOR = 2
    Users = {a, b}
    NoFrontEnd = none
    KickbackRates = {4}
    Provided = {13}
    Withdrawn = {30}
    Debts = {9}
    Colls = {0}
    Supplies = {20}
    MaxOffsets = 2
    MaxDeposits = 26
    MaxFIL = 0
    MaxEpoch = 1
    MaxScale = 2
    MaxMinutes = 3
    MaxSupply = 20
SPECIFICATION Spec
SYMMETRY UserSymmetry
CHECK_DEADLOCK FALSE
INVARIANTS
    TokenGainsAreHeld
