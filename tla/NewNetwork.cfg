\* A deployment on a network the plugin has no ProxyAdmin of.
CONSTANTS
    NoAddress = NoAddress
    UniswapExists = TRUE
    AdminNonces = 1
    MaxInterruptions = 0
SPECIFICATION FairSpec
INVARIANTS
    NewNetworkMismatchMeansInterference
CHECK_DEADLOCK FALSE
