SPECIFICATION Spec
CONSTANTS
    Clients = {c1, c2}
    MaxCalls = 3
    MaxRestarts = 1
    Calls = {"write", "batch", "txnBatch", "transaction", "cursor", "restart", "late", "manual"}
    Faults = {"write", "commit", "conflict"}
    RollbackOnOpen = TRUE
SYMMETRY Symmetry
INVARIANTS TypeOK  SuccessIsDurable
CONSTRAINT FewRestarts
CHECK_DEADLOCK FALSE
