SPECIFICATION FairSpec
CONSTANTS
    Clients = {c1, c2}
    MaxCalls = 3
    MaxRestarts = 1
    Calls = {"write", "transaction", "cursor", "restart", "manual"}
    Faults = {"begin", "commit"}
    RollbackOnOpen = TRUE
    AwaitCalls = TRUE
INVARIANTS Isolated VerdictsHold OpenGateMeansNoTransaction
PROPERTIES EveryCallAnswered ImplementsSerialTransactions
CONSTRAINT NoRestartByHand
CHECK_DEADLOCK FALSE
