SPECIFICATION Spec
CONSTANTS
    Callers = {c1}
    Paths = {p1}
    MaxDatabases = 1
    MayFail = FALSE
INVARIANTS DeleteIsFinal
CHECK_DEADLOCK FALSE
