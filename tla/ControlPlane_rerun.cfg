SPECIFICATION Spec
CONSTANTS
    Hosts <- TwoHosts
    Tries = 2
    MaxRuns = 2
INVARIANTS
    DoneMeansInCluster
CHECK_DEADLOCK FALSE
