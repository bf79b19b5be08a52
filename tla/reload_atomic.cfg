SPECIFICATION FairSpec
CONSTANTS
    example = example
    Pgeodns = pgeodns
    a = a
    b = b
    bad = bad
    Builtin = Builtin
    None = None
    Zones <- MCZones
    Contents <- MCContents
    Valid <- MCValid
    EnvOps <- AtomicUpdates
    MaxTime = 3
INVARIANTS
    RecordsCurrent
    ServedFromStart
PROPERTIES
    Converges
