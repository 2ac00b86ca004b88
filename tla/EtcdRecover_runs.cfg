SPECIFICATION RecoverFairSpec
CONSTANTS
    Hosts <- FiveHosts
    Foundings <- Three
    Matches <- DistinctAddresses
    HostTypes = {TRUE}
    IgnoreAsserts = TRUE
    Interrupts = TRUE
    Careful = TRUE
    MaxAdd = 2
    MaxRuns = 2
    MaxCrashes = 1
INVARIANTS
    DataSurvives
    RecoveredCluster
PROPERTIES
    ServingKeptFirst
    RecoveryCompletes
CHECK_DEADLOCK FALSE
