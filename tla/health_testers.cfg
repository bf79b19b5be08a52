SPECIFICATION FairSpec
CONSTANTS
    h1 = h1
    h2 = h2
    None = None
    Broken = Broken
    Hosts <- MCHosts
    FileMaps <- MCFileMaps
    Strata <- MCStrata
    MaxStratum = 3
    MaxOps = 3
    MaxChanges = 3
CHECK_DEADLOCK FALSE
INVARIANTS
    SkipsOnlyWhatItRead
PROPERTIES
    OutageKeepsHosts
    HostsFollow
