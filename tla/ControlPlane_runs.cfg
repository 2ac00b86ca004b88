SPECIFICATION FairSpec
CONSTANTS
    Hosts <- ThreeHosts
    Tries = 2
    MaxRuns = 3
INVARIANTS
    TypeOK
    OneAuthority
    DoneMeansJoined
    CertificatesCover
PROPERTIES
    ResetKeepsMembers
    SetupCompletes
CHECK_DEADLOCK FALSE
