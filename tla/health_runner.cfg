SPECIFICATION FairSpec
CONSTANTS
    local = local
    shared = shared
    c1 = c1
    c2 = c2
    None = None
    Keys <- MCKeys
    Globals <- MCGlobals
    Timed <- MCTimed
    Clients <- MCClients
    Retries = 2
    MaxOps = 3
    MaxFlips = 2
CHECK_DEADLOCK FALSE
INVARIANTS
    PollHasReceiver
    RunningIffReferenced
PROPERTIES
    DownOnlyAfterRetries
    StopsEnd
    HealthFollows
