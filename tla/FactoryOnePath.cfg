SPECIFICATION FairSpec
CONSTANTS
    u1 = u1
    u2 = u2
    p1 = p1
    p2 = p2
    Users = {u1}
    Paths = {p1}
    PathOf <- OnePath
    MaxHandles = 3
    MaxCloses = 2
    Calls = {"delete", "multiple"}
    OpenMayFail = TRUE
INVARIANTS NoLeakedConnection
PROPERTIES DeleteClosesConnections EveryOperationEnds
CHECK_DEADLOCK FALSE
