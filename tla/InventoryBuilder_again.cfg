SPECIFICATION BuilderSpec
CONSTANTS
    Arguments <- JustAddresses
    MaxArguments = 2
    MaxRuns = 2
    Documents <- OneDocument
    ControlHosts = 2
    ScaleThreshold = 5
    MassiveThreshold = 6
PROPERTIES
    AdditionKeepsHosts
CHECK_DEADLOCK FALSE
