SPECIFICATION FairSpec
CONSTANTS
    Hosts <- FourHosts
    Foundings <- OneOrThree
    Matches <- DistinctAddresses
    HostTypes = {TRUE, FALSE}
    IgnoreAsserts = TRUE
    Interrupts = TRUE
    Careful = FALSE
    MaxAdd = 2
    MaxRuns = 2
    MaxCrashes = 1
PROPERTIES
    JoinCompletes
CHECK_DEADLOCK FALSE
