SPECIFICATION Spec
CONSTANTS
    u1 = u1
    u2 = u2
    p1 = p1
    p2 = p2
    Users = {u1, u2}
    Paths = {p1, p2}
    PathOf <- TwoPaths
    MaxHandles = 3
    MaxCloses = 1
    Calls = {"multiple"}
    OpenMayFail = TRUE
INVARIANTS TypeOK OneInstance UsableHandles NoSharedConnection
CHECK_DEADLOCK FALSE
