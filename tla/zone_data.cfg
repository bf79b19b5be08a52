SPECIFICATION Spec
CONSTANTS
    None = None
    Keys <- MCKeys
    RawLabels <- MCRawLabels
    Options <- MCOptions
INVARIANTS
    ZoneIsFile
    WeightsConsistent
    AllOrNothing
    ClosestAndTested
CHECK_DEADLOCK FALSE
