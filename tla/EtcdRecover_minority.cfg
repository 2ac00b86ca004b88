SPECIFICATION RecoverFairSpec
CONSTANTS
    Hosts <- SixHosts
    Foundings <- Five
    Matches <- DistinctAddresses
    HostTypes = {TRUE}
    IgnoreAsserts = FALSE
    Interrupts = FALSE
    Careful = TRUE
    MaxAdd = 1
    MaxRuns = 1
    MaxCrashes = 0
PROPERTIES
    RecoveryCompletes
CHECK_DEADLOCK FALSE
