\* Hand-over, upgrades and the mock price feed, with faults between.
CONSTANTS
    contractNames <- ThreeContracts
    UpgradeNames <- TwoUpgrades
    BatchSize = 2
    MaxUpgrades = 3
    MaxFaults = 3
SPECIFICATION FairSpec
\* The bound on the upgrades stops the system.
CHECK_DEADLOCK FALSE
INVARIANTS
    ProxyAdminLast
PROPERTIES
    HandoverCompletes
