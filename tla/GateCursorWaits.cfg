SPECIFICATION Spec
CONSTANTS
    Clients = {c1, c2}
    MaxCalls = 3
    MaxRestarts = 0
    Calls = {"transaction", "cursor"}
    Faults = {}
    RollbackOnOpen = TRUE
SYMMETRY Symmetry
INVARIANTS NoSelfBlocking
CHECK_DEADLOCK FALSE
