----------------------------- MODULE WorkerPool -----------------------------
(***************************************************************************)
(* The Android worker pool: DatabaseWorkerPoolImpl and DatabaseWorker      *)
(* (sqflite_android, DatabaseWorkerPool.java and DatabaseWorker.java).     *)
(*                                                                         *)
(* The plugin posts tasks; a fixed set of threads runs them.  A task       *)
(* belongs to a database (or to none).  The comment of                     *)
(* DatabaseWorkerPool.post promises that the tasks of a database run in    *)
(* FIFO order without overlap, that the tasks of a transaction run on one  *)
(* worker, and that different databases may run in parallel.               *)
(*                                                                         *)
(* Every operation of the pool is `synchronized'.  post and onWorkerIdle   *)
(* loop over a copy of idleWorkers in an unspecified (HashSet) order: the  *)
(* loop is modelled by the set `trying' of workers that the thread inside  *)
(* the monitor has still to try, and the monitor is free iff it is empty.  *)
(* The worker threads themselves run outside of the monitor.               *)
(***************************************************************************)
EXTENDS Integers, Sequences, SequencesExt

CONSTANTS
    Workers,      \* the worker threads (THREAD_COUNT of them)
    Databases,    \* database ids
    NoDatabase,   \* "null": a task that runs on no database
    NoWorker,     \* "null" worker
    NoTask,       \* "null" task
    MaxTasks,     \* bound: number of tasks posted in a behaviour
    MayQuit       \* TRUE when the plugin may call quit()

ASSUME NullAssumption ==
    /\ NoDatabase \notin Databases
    /\ NoWorker \notin Workers
ASSUME BoundAssumption == MaxTasks \in Nat /\ MayQuit \in BOOLEAN

\* What the runnable of a task does to Database.transactionDepth if the
\* statement it executes succeeds: BEGIN, COMMIT/ROLLBACK, anything else.
Changes == {"none", "enter", "leave"}

\* A DatabaseTask; `id' is the order in which the tasks were posted.
Task == [id : 1..MaxTasks, database : Databases \cup {NoDatabase}, change : Changes]

VARIABLES
    waitingList,          \* tasks posted and not given to a worker yet
    idleWorkers,
    busyWorkers,
    onlyEligibleWorkers,  \* database id -> its only eligible worker
    trying,               \* workers the current monitor section still tries
    phase,                \* what the thread of each worker is doing
    task,                 \* the task in the worker's handler, then lastTask
    transactionDepth,     \* Database.transactionDepth
    transactionWorker,    \* history: the worker that ran the outermost BEGIN
    posted,               \* number of tasks posted
    status                \* the pool: running, quit() called, process dead

vars == <<waitingList, idleWorkers, busyWorkers, onlyEligibleWorkers, trying,
          phase, task, transactionDepth, transactionWorker, posted, status>>

poolVars   == <<waitingList, idleWorkers, busyWorkers, onlyEligibleWorkers>>
threadVars == <<phase, task>>
dbVars     == <<transactionDepth, transactionWorker>>

\* "free": waiting for a message; "given": handler.post was called;
\* "started": inside task.runnable.run(); "done": about to call onIdle.
Phases == {"free", "given", "started", "done"}

-----------------------------------------------------------------------------
(* Helpers *)

MonitorFree == trying = {}

\* Indexes of the waiting tasks worker w may run under the map `eligible'.
Candidates(w, eligible) ==
    {i \in 1..Len(waitingList) :
       \/ waitingList[i].database = NoDatabase
       \/ eligible[waitingList[i].database] \in {NoWorker, w}}

\* Mutant: the list is searched from its end.
LastIsFound(i, w, eligible) ==
    i \in Candidates(w, eligible) /\ \A j \in Candidates(w, eligible) : j <= i

\* findTaskForWorker returns the first of them and removes it.
IsFound(i, w, eligible) ==
    i \in Candidates(w, eligible) /\ \A j \in Candidates(w, eligible) : i <= j

\* Mutant: the depth is not looked at.
OnADatabase(t) == t.database # NoDatabase

\* Database.isInTransaction, through the task's delegate.
InTransaction(t) == t.database # NoDatabase /\ transactionDepth[t.database] > 0

\* Mutant: the worker does not become the only eligible one.
GiveUnregistered(w, i, idle, busy, eligible) ==
    /\ waitingList' = RemoveAt(waitingList, i)
    /\ busyWorkers' = busy \cup {w}
    /\ idleWorkers' = idle \ {w}
    /\ onlyEligibleWorkers' = eligible
    /\ task' = [task EXCEPT ![w] = waitingList[i]]
    /\ phase' = [phase EXCEPT ![w] = "given"]

\* tryPostingTaskToWorker(w) when the task at index i is found, on top of
\* the sets `idle' and `busy' and of the map `eligible'.
Give(w, i, idle, busy, eligible) ==
    LET t == waitingList[i] IN
    /\ waitingList' = RemoveAt(waitingList, i)
    /\ busyWorkers' = busy \cup {w}
    /\ idleWorkers' = idle \ {w}
    /\ onlyEligibleWorkers' =
         IF t.database = NoDatabase THEN eligible
         ELSE [eligible EXCEPT ![t.database] = w]
    /\ task' = [task EXCEPT ![w] = t]
    /\ phase' = [phase EXCEPT ![w] = "given"]

-----------------------------------------------------------------------------
Init ==
    /\ waitingList = <<>>
    /\ idleWorkers = Workers
    /\ busyWorkers = {}
    /\ onlyEligibleWorkers = [d \in Databases |-> NoWorker]
    /\ trying = {}
    /\ phase = [w \in Workers |-> "free"]
    /\ task = [w \in Workers |-> NoTask]
    /\ transactionDepth = [d \in Databases |-> 0]
    /\ transactionWorker = [d \in Databases |-> NoWorker]
    /\ posted = 0
    /\ status = "running"

\* Mutant: the task waits until some worker gets idle.
PostAndWait(d, c) ==
    /\ status = "running"
    /\ MonitorFree
    /\ posted < MaxTasks
    /\ waitingList' = Append(waitingList,
                             [id |-> posted + 1, database |-> d, change |-> c])
    /\ posted' = posted + 1
    /\ UNCHANGED <<idleWorkers, busyWorkers, onlyEligibleWorkers, trying, status>>
    /\ UNCHANGED threadVars
    /\ UNCHANGED dbVars

\* post: append the task, then try every worker that is idle now.  The
\* plugin forgets the pool in the critical section that quits it.
Post(d, c) ==
    /\ status = "running"
    /\ MonitorFree
    /\ posted < MaxTasks
    /\ waitingList' = Append(waitingList,
                             [id |-> posted + 1, database |-> d, change |-> c])
    /\ posted' = posted + 1
    /\ trying' = idleWorkers
    /\ UNCHANGED <<idleWorkers, busyWorkers, onlyEligibleWorkers, status>>
    /\ UNCHANGED threadVars
    /\ UNCHANGED dbVars

\* One turn of the loop of post or of onWorkerIdle that finds a task.  (Once
\* the pool has quit no turn does: NoIdleWorkerLeftBehind.)
TryGive(w) ==
    /\ w \in trying
    /\ trying' = trying \ {w}
    /\ \E i \in 1..Len(waitingList) :
         /\ IsFound(i, w, onlyEligibleWorkers)
         /\ Give(w, i, idleWorkers, busyWorkers, onlyEligibleWorkers)
    /\ UNCHANGED <<posted, status>>
    /\ UNCHANGED dbVars

\* One turn of the loop that finds none.
TrySkip(w) ==
    /\ w \in trying
    /\ Candidates(w, onlyEligibleWorkers) = {}
    /\ trying' = trying \ {w}
    /\ UNCHANGED poolVars
    /\ UNCHANGED threadVars
    /\ UNCHANGED dbVars
    /\ UNCHANGED <<posted, status>>

\* The looper thread takes the message: work(task) begins.
Start(w) ==
    /\ status = "running"
    /\ phase[w] = "given"
    /\ phase' = [phase EXCEPT ![w] = "started"]
    /\ UNCHANGED poolVars
    /\ UNCHANGED dbVars
    /\ UNCHANGED <<trying, task, posted, status>>

\* The runnable returns and lastTask is set.  A BEGIN that succeeded
\* incremented transactionDepth, a COMMIT or ROLLBACK that succeeded
\* decremented it; one outside of a transaction fails and changes nothing,
\* and any statement may fail.
Finish(w) ==
    LET t == task[w] IN
    /\ phase[w] = "started"
    /\ phase' = [phase EXCEPT ![w] = "done"]
    /\ \/ UNCHANGED dbVars
       \/ /\ t.database # NoDatabase
          /\ t.change = "enter"
          /\ transactionDepth' = [transactionDepth EXCEPT ![t.database] = @ + 1]
          /\ transactionWorker' = IF InTransaction(t) THEN transactionWorker
                                  ELSE [transactionWorker EXCEPT ![t.database] = w]
       \/ /\ t.change = "leave"
          /\ InTransaction(t)
          /\ transactionDepth' = [transactionDepth EXCEPT ![t.database] = @ - 1]
          /\ UNCHANGED transactionWorker
    /\ UNCHANGED poolVars
    /\ UNCHANGED <<trying, task, posted, status>>

\* Mutant: the database is released even if a transaction is open on it.
AlwaysReleasedBy(w) ==
    IF task[w].database # NoDatabase
    THEN [onlyEligibleWorkers EXCEPT ![task[w].database] = NoWorker]
    ELSE onlyEligibleWorkers

\* The map of onWorkerIdle once the database of the last task is released,
\* which happens only when that task left no transaction open.
ReleasedBy(w) ==
    IF ~InTransaction(task[w]) /\ task[w].database # NoDatabase
    THEN [onlyEligibleWorkers EXCEPT ![task[w].database] = NoWorker]
    ELSE onlyEligibleWorkers

\* Mutant: only the worker itself is tried.
NoOthers(w) == {}

\* The other workers onWorkerIdle tries: those idle before w is.
Others(w) == idleWorkers

\* onWorkerIdle: mark the worker idle, release its database and try the
\* worker itself; the loop over the other idle workers follows.  After
\* quit() the handler of a worker is null: posting to it throws on the
\* worker's thread, outside of any try block, and the process dies.
OnWorkerIdle(w) ==
    /\ status # "dead"
    /\ MonitorFree
    /\ phase[w] = "done"
    /\ \/ /\ Candidates(w, ReleasedBy(w)) = {}
          /\ idleWorkers' = idleWorkers \cup {w}
          /\ busyWorkers' = busyWorkers \ {w}
          /\ onlyEligibleWorkers' = ReleasedBy(w)
          /\ phase' = [phase EXCEPT ![w] = "free"]
          /\ trying' = Others(w)
          /\ UNCHANGED <<waitingList, task, status>>
       \/ /\ status = "running"
          /\ \E i \in 1..Len(waitingList) :
               /\ IsFound(i, w, ReleasedBy(w))
               /\ Give(w, i, idleWorkers \cup {w}, busyWorkers \ {w}, ReleasedBy(w))
          /\ trying' = Others(w)
          /\ UNCHANGED status
       \/ /\ status = "quit"
          /\ Candidates(w, ReleasedBy(w)) # {}
          /\ status' = "dead"
          /\ UNCHANGED <<poolVars, threadVars, trying>>
    /\ UNCHANGED posted
    /\ UNCHANGED dbVars

\* quit: every HandlerThread drops the messages it has not taken yet.  A
\* task that is running goes on; the thread ends when it returns.  quit is
\* synchronized too, and is called from outside or from a running task.
Quit ==
    /\ MayQuit
    /\ status = "running"
    /\ MonitorFree
    /\ status' = "quit"
    /\ UNCHANGED poolVars
    /\ UNCHANGED threadVars
    /\ UNCHANGED dbVars
    /\ UNCHANGED <<trying, posted>>

\* Only the tasks of a database execute statements.
Next ==
    \/ \E d \in Databases, c \in Changes : Post(d, c)
    \/ Post(NoDatabase, "none")
    \/ \E w \in Workers :
         TryGive(w) \/ TrySkip(w) \/ Start(w) \/ Finish(w) \/ OnWorkerIdle(w)
    \/ Quit

Spec == Init /\ [][Next]_vars

\* Each thread keeps running its messages, and a thread that waits for the
\* monitor enters it: at most MaxTasks calls of post compete with it.
WorkerFairness(w) ==
    /\ WF_vars(TryGive(w) \/ TrySkip(w))
    /\ WF_vars(Start(w))
    /\ WF_vars(Finish(w))
    /\ WF_vars(OnWorkerIdle(w))

FairSpec == Spec /\ \A w \in Workers : WorkerFairness(w)

-----------------------------------------------------------------------------
(* Properties *)

TypeOK ==
    /\ waitingList \in Seq(Task)
    /\ idleWorkers \in SUBSET Workers
    /\ busyWorkers \in SUBSET Workers
    /\ onlyEligibleWorkers \in [Databases -> Workers \cup {NoWorker}]
    /\ trying \in SUBSET Workers
    /\ phase \in [Workers -> Phases]
    /\ task \in [Workers -> Task \cup {NoTask}]
    /\ \A w \in Workers : phase[w] # "free" => task[w] \in Task
    /\ transactionDepth \in [Databases -> Nat]
    /\ transactionWorker \in [Databases -> Workers \cup {NoWorker}]
    /\ posted \in 0..MaxTasks
    /\ status \in {"running", "quit", "dead"}

\* Worker w has a task of database d that the pool gave it and that it has
\* not reported idle for yet.
Holds(w, d) == phase[w] # "free" /\ task[w].database = d

\* "No overlapping between any two tasks" of a database: two workers never
\* hold tasks of the same database, whatever the order of the idle loops.
NoOverlap ==
    \A d \in Databases : \A v, w \in Workers :
        Holds(v, d) /\ Holds(w, d) => v = w

\* "All tasks belonging to the same database run in FIFO manner": a task a
\* worker holds was posted before every waiting task of its database.  With
\* NoOverlap this orders the executions of each database.
FifoPerDatabase ==
    \A d \in Databases : \A w \in Workers : Holds(w, d) =>
        \A i \in 1..Len(waitingList) :
            waitingList[i].database = d => task[w].id < waitingList[i].id

\* "All tasks in a transaction go to the same worker": while a transaction
\* of d is open, a task of d only ever starts on the worker that began it.
TransactionOnOneWorker ==
    [][\A w \in Workers, d \in Databases :
         (/\ phase[w] = "given" /\ phase'[w] = "started"
          /\ task[w].database = d /\ transactionDepth[d] > 0)
         => w = transactionWorker[d]]_vars

\* No lost wakeup: an idle worker that no loop has still to try has no task
\* it could run, so a task only waits for a worker that is busy.  This is
\* what the second loop of onWorkerIdle is for.
NoIdleWorkerLeftBehind ==
    status # "dead" =>
        \A w \in idleWorkers \ trying : Candidates(w, onlyEligibleWorkers) = {}

\* Every task posted to a pool that is not quit is eventually run, although
\* it may have to wait for the one worker that is eligible for it.
Unfinished(k) ==
    \/ \E i \in 1..Len(waitingList) : waitingList[i].id = k
    \/ \E w \in Workers : phase[w] \in {"given", "started"} /\ task[w].id = k

EveryTaskRuns ==
    \A k \in 1..MaxTasks : (posted >= k) ~> (~Unfinished(k) \/ status # "running")

-----------------------------------------------------------------------------
(* Refinement of SerialExecutor *)

\* Which tasks of d are not finished.
IdsWaiting(d) ==
    {waitingList[i].id : i \in {j \in 1..Len(waitingList) : waitingList[j].database = d}}

IdsGiven(d) ==
    {task[w].id : w \in {v \in Workers :
                           phase[v] \in {"given", "started"} /\ task[v].database = d}}

QueueOf(d) == IdsGiven(d) \cup IdsWaiting(d)
CurrentOf(w) == IF phase[w] = "started" THEN task[w].database ELSE NoDatabase
OwnerOf(d) == IF transactionDepth[d] > 0 THEN transactionWorker[d] ELSE NoWorker

Promise == INSTANCE SerialExecutor WITH
    Ids     <- 1..MaxTasks,
    Nothing <- NoDatabase,
    Nobody  <- NoWorker,
    queue   <- [d \in Databases |-> QueueOf(d)],
    current <- [w \in Workers |-> CurrentOf(w)],
    owner   <- [d \in Databases |-> OwnerOf(d)]

\* The pool keeps the promise of the comment of DatabaseWorkerPool.post: its
\* behaviours are behaviours of one serial executor per database.
ImplementsSerialExecutor == Promise!Spec
=============================================================================
