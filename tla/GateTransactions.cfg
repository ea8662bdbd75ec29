SPECIFICATION FairSpec
CONSTANTS
    Clients = {c1, c2}
    MaxCalls = 4
    MaxRestarts = 0
    Calls = {"write", "txnBatch", "transaction", "late"}
    Faults = {"begin"}
    RollbackOnOpen = TRUE
INVARIANTS Isolated Atomic HeldByLiveTransaction
PROPERTIES EveryCallAnswered ImplementsSerialTransactions
CHECK_DEADLOCK FALSE
