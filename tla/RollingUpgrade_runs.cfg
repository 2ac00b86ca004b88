SPECIFICATION FairSpec
CONSTANTS
    Masters <- TwoMasters
    Workers <- ThreeWorkers
    Serial = 2
    MayFail <- AnyTask
    Renamed = {3}
    Immutable = FALSE
    Meddles = FALSE
    MaxRuns = 2
INVARIANTS
    TypeOK
    MastersFirst
    DrainedBeforeUpgrade
    AdminCordonKept
    CapacityKept
    DoneMeansUpgraded
PROPERTIES
    UpgradeCompletes
CHECK_DEADLOCK FALSE
