SPECIFICATION FairQueryStatsSpec
CONSTANTS
    www = www
    mail = mail
    k1 = k1
    k2 = k2
    Empty = Empty
    Garbled = Garbled
    Labels <- MCLabels
    Keys <- MCKeys
    Size = 3
    MaxServing = 2
    MaxLines = 2
    MaxFiles = 3
INVARIANTS
    TopCountsComplete
    CountsLines
PROPERTIES
    RefinesRecentLabels
    LogCounted
CHECK_DEADLOCK FALSE
