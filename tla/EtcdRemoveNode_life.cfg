SPECIFICATION LifeSpec
CONSTANTS
    Hosts <- FourHosts
    Foundings <- AnyFounding
    Matches <- DistinctAddresses
    ResetNodes = TRUE
    HostTypes = {FALSE}
    IgnoreAsserts = TRUE
    Interrupts = TRUE
    Careful = TRUE
    MaxAdd = 3
    MaxRuns = 3
    MaxCrashes = 1
INVARIANTS
    OneCluster
    JoinConfigAgrees
    DoneMeansMember
    DoneMeansExisting
    RemovedIsGone
PROPERTIES
    RemovesOnlyTarget
    ResetKeepsQuorum
    ImplementsMembership
CHECK_DEADLOCK FALSE
