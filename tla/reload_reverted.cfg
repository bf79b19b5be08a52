SPECIFICATION FairSpec
CONSTANTS
    example = example
    Pgeodns = pgeodns
    a = a
    b = b
    bad = bad
    Builtin = Builtin
    None = None
    Zones <- MCZones
    Contents <- MCContents
    Valid <- MCValid
    EnvOps <- RevertingUpdates
    MaxTime = 3
INVARIANT
    RecordsCurrent
