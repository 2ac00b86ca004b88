SPECIFICATION ToolSpec
CONSTANTS
    Arguments <- SomeArguments
    MaxArguments = 4
    MaxRuns = 1
    Documents <- OneDocument
    ControlHosts = 2
    ScaleThreshold = 5
    MassiveThreshold = 6
    Contents <- SomeContents
    Walks <- BothWalks
    Queries <- SomeQueries
    MaxApplies = 2
    Instances = {i1, i2}
    Clustered = {i1}
    Roles <- SomeRoles
    Addresses = {a1, a2}
    NoAddress = none
    MaxChanges = 2
    Objects = {"o1", "o2", "o3"}
    Labelled = {"o2", "o3"}
    TaskArgs <- SomeTasks
    Attempts = 2
    MaxFaults = 2
    MaxMeddling = 1
    Resources <- SomeResources
    Given <- GivenResources
    Protected <- GivenResources
    Kind <- KindOf
    Uses <- UsesOf
    RouterPorts = {"rp"}
    Hours = 1
    UtcOffset = 0
    LastCreation = 2
    LastHour = 4
    ConditionMap <- SomeKeys
    BeginsWith <- SomeAlerts
    Offered <- SomeCharts
    MaxSyncs = 1
INVARIANTS
    ToolTypeOK
    RolesSound
    EveryAddressListed
    TfReport
    AwsReport
    SuccessMeansDone
    EveryAlertWrapped
PROPERTIES
    OrphansGo
CHECK_DEADLOCK FALSE
