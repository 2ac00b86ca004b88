SPECIFICATION Spec
CONSTANTS
    Hosts <- AllHosts
    Nodes <- SomeNodes
    Founders <- TwoFounders
    Limits <- AllOrWorker
    MaxRuns = 3
    MaxCuts = 1
    MaxLost = 1
INVARIANTS
    AuthorityMadeOnce
    DoneMeansTrusted
    FailsOnlyForKey
CHECK_DEADLOCK FALSE
