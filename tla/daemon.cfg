SPECIFICATION FairDaemonSpec
CONSTANTS
    confA = confA
    confB = confB
    broken = broken
    r1 = r1
    NoConfig = NoConfig
    Configs <- MCConfigs
    Parsable <- MCParsable
    Requests <- MCRequests
    MaxEdits = 2
INVARIANTS
    OutputOpen
    CredentialsPaired
PROPERTIES
    LogFollowsPath
    ConfigFollows
    Stops
