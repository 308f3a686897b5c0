\* The deployment script, interrupted twice at most.
CONSTANTS
    NoAddress = NoAddress
    UniswapExists = TRUE
    AdminNonces = 1
    MaxInterruptions = 2
SPECIFICATION FairSpec
CHECK_DEADLOCK FALSE
INVARIANTS
    ResumedWithoutLossIsWired
    CheckedDeploymentIsWired
    MismatchMeansInterference
PROPERTIES
    DeploymentCompletes
