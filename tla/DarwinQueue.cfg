SPECIFICATION FairSpec
CONSTANTS
    MaxBlocks = 3
    MaxSavePoints = 2
    Faults = {"open", "begin", "savepoint", "commit", "conflict"}
INVARIANTS FlagHidesNothing AtomicBlocks SavePointsUndone
PROPERTIES EveryCallReturns
CHECK_DEADLOCK FALSE
