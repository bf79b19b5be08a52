SPECIFICATION FairSpec
CONSTANTS
    Types <- AllTypes
    Weights <- AnyInteger
    Distances <- SomeDistances
    MaxDistance = 22
    MaxServers = 3
    MaxHosts <- UpToTwo
INVARIANTS
    ResultSound
    DrawProportional
    ClosestCluster
PROPERTIES
    Finishes
CHECK_DEADLOCK FALSE
