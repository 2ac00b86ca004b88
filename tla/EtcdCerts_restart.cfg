SPECIFICATION Spec
CONSTANTS
    Hosts <- AllHosts
    Nodes <- SomeNodes
    Founders <- TwoFounders
    Limits <- AllOrWorker
    MaxRuns = 3
    MaxCuts = 1
    MaxLost = 1
INVARIANT RestartedIfChanged
CHECK_DEADLOCK FALSE
