\* A deployment that is interrupted once and resumed.
CONSTANTS
    NoAddress = NoAddress
    UniswapExists = TRUE
    AdminNonces = 1
    MaxInterruptions = 1
SPECIFICATION FairSpec
INVARIANTS
    ResumedIsWired
CHECK_DEADLOCK FALSE
