\* Four troves with three ratios, any hints.
CONSTANTS
    Ids = {a, b, c, d}
    Null = null
    NICRs = {1, 2, 3}
    Infinite = 9
    MaxSize = 4
SPECIFICATION Spec
PROPERTIES
    ImplementsSequence
    OperationsKeepOrder
