\* Both oracles break, freeze and disagree at any time.
CONSTANTS
    DECIMAL_PRECISION = 100
    MAX_PRICE_DEVIATION_FROM_PREVIOUS_ROUND = 50
    MAX_PRICE_DIFFERENCE_BETWEEN_ORACLES = 5
    TARGET_DIGITS = 1
    TIMEOUT = 2
    DISPUTE_BUFFER = 1
    Answers = {25}
    WrongAnswers = {0}
    Digits = {1, 2}
    Values = {2, 26}
    MaxTime = 4
    MaxReports = 2
SPECIFICATION FairSpec
INVARIANTS
    DisputedValueIsNotRead
PROPERTIES
    StoredPriceIsFresh
    LargeChangeIsConfirmed
    TrustReturns
