SPECIFICATION Spec
CONSTANTS
    None = None
    Cases <- MCCases
    Names <- MCNames
    Debug <- MCDebug
    QTypes <- MCQTypes
    MaxFlips = 1
INVARIANTS
    SteadyServersAnswer
    MostSpecificFirst
    NegativeSound
    PanicsOnlyWithoutDB
    ShowsTargets
CHECK_DEADLOCK FALSE
