SPECIFICATION FairSpec
CONSTANTS
    Workers = {w1, w2}
    Databases = {d1, d2}
    NoDatabase = NoDatabase
    NoWorker = NoWorker
    NoTask = NoTask
    MaxTasks = 4
    MayQuit = TRUE
INVARIANTS TypeOK NoOverlap FifoPerDatabase NoIdleWorkerLeftBehind
PROPERTIES TransactionOnOneWorker ImplementsSerialExecutor EveryTaskRuns
CHECK_DEADLOCK FALSE
