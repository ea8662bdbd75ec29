SPECIFICATION FairSpec
CONSTANTS
    Callers = {c1, c2, c3}
    Paths = {p1}
    MaxDatabases = 2
    MayFail = TRUE
INVARIANTS OneInstance UsableHandles NoLeakedConnection
PROPERTIES EveryCallAnswered
CHECK_DEADLOCK FALSE
