SPECIFICATION DrainFairSpec
CONSTANTS
    Items = {c1, c2, j1, e1, r1}
    c1 = c1
    c2 = c2
    j1 = j1
    e1 = e1
    r1 = r1
    none = none
    Kind <- MCKind
    After <- MCAfter
    Feeds <- MCFeeds
    Present = {c2, j1}
    Requested = {c1}
    RunAttempts = 1
    Deadline = 2
    MaxClock = 3
    DrainFaults = 1
INVARIANTS
    QuiescentLeftNothing
    NeverOversleeps
PROPERTIES
    LoopsForWork
    DrainEnds
CHECK_DEADLOCK FALSE
