SPECIFICATION ServingSpec
CONSTANTS
    example = example
    Pgeodns = pgeodns
    a = a
    b = b
    bad = bad
    q1 = q1
    q2 = q2
    Builtin = Builtin
    None = None
    Zones <- MCZones
    Contents <- MCContents
    Valid <- MCValid
    Queries <- MCQueries
    EnvOps <- AllOps
    MaxTime = 2
SYMMETRY QuerySymmetry
INVARIANTS
    ServedWasOnDisk
    InFlightSharesStats
    RegisteredRingOpen
PROPERTIES
    OnlyMissingFilesDrop
CHECK_DEADLOCK FALSE
