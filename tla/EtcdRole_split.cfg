SPECIFICATION Spec
CONSTANTS
    Hosts <- ThreeHosts
    Foundings <- OnlyOne
    Matches <- DistinctAddresses
    HostTypes = {TRUE}
    IgnoreAsserts = FALSE
    Interrupts = TRUE
    Careful = FALSE
    MaxAdd = 2
    MaxRuns = 2
    MaxCrashes = 0
INVARIANTS
    OneServingCluster
CHECK_DEADLOCK FALSE
