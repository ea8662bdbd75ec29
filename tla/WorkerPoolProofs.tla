-------------------------- MODULE WorkerPoolProofs --------------------------
(***************************************************************************)
(* Proofs about WorkerPool, for any set of workers and of databases and    *)
(* any number of tasks.  The inductive invariant says where the tasks of a *)
(* database can be: waiting in the order of their ids, or at the one       *)
(* worker that onlyEligibleWorkers names, with a smaller id.  With it each *)
(* step of the pool is one of SerialExecutor, or none that it sees.        *)
(***************************************************************************)
EXTENDS WorkerPool, SequenceTheorems, TLAPS

-----------------------------------------------------------------------------
(* The inductive invariant *)

\* The idle workers are those whose thread is free, and the loops of the
\* monitor only try idle workers.
IdleIsFree ==
    /\ \A w \in Workers : w \in idleWorkers <=> phase[w] = "free"
    /\ trying \subseteq idleWorkers

\* waitingList is ordered by id, and no id is ahead of `posted'.
OrderedByPost ==
    /\ \A i, j \in 1..Len(waitingList) : i < j => waitingList[i].id < waitingList[j].id
    /\ \A i \in 1..Len(waitingList) : waitingList[i].id <= posted
    /\ \A w \in Workers : phase[w] # "free" => task[w].id <= posted

\* A worker that holds a task of a database is its only eligible worker.
HolderIsEligible ==
    \A w \in Workers : \A d \in Databases : Holds(w, d) => onlyEligibleWorkers[d] = w

\* A database in transaction stays with the worker that began it.
TransactionPinned ==
    \A d \in Databases : transactionDepth[d] > 0 =>
        /\ transactionWorker[d] \in Workers
        /\ onlyEligibleWorkers[d] = transactionWorker[d]

Inv ==
    /\ TypeOK
    /\ IdleIsFree
    /\ OrderedByPost
    /\ HolderIsEligible
    /\ TransactionPinned
    /\ FifoPerDatabase
    /\ NoIdleWorkerLeftBehind

-----------------------------------------------------------------------------
(* Sequences *)

\* What findTaskForWorker leaves when it removes the task at index i.
LEMMA RemoveAtProperties ==
    ASSUME NEW S, NEW s \in Seq(S), NEW i \in 1..Len(s)
    PROVE  /\ RemoveAt(s, i) \in Seq(S)
           /\ Len(RemoveAt(s, i)) = Len(s) - 1
           /\ \A j \in 1..(Len(s) - 1) :
                RemoveAt(s, i)[j] = IF j < i THEN s[j] ELSE s[j + 1]
<1> DEFINE l == SubSeq(s, 1, i - 1)
           r == SubSeq(s, i + 1, Len(s))
<1>1. l \in Seq(S) /\ Len(l) = i - 1 /\ \A j \in 1..(i - 1) : l[j] = s[j]
  OBVIOUS
<1>2. r \in Seq(S) /\ Len(r) = Len(s) - i /\ \A j \in 1..(Len(s) - i) : r[j] = s[i + j]
  OBVIOUS
<1>3. RemoveAt(s, i) = l \o r
  BY DEF RemoveAt
<1> HIDE DEF l, r
<1>4. l \o r \in Seq(S) /\ Len(l \o r) = Len(s) - 1
  <2>1. l \o r \in Seq(S) /\ Len(l \o r) = Len(l) + Len(r)
    BY <1>1, <1>2, ConcatProperties
  <2> QED
    BY <2>1, <1>1, <1>2
<1>5. ASSUME NEW j \in 1..(Len(s) - 1)
      PROVE  (l \o r)[j] = IF j < i THEN s[j] ELSE s[j + 1]
  <2>1. CASE j < i
    BY <2>1, <1>1, <1>2
  <2>2. CASE ~(j < i)
    <3>1. (l \o r)[j] = r[j - (i - 1)]
      BY <2>2, <1>1, <1>2
    <3>2. j - (i - 1) \in 1..(Len(s) - i) /\ i + (j - (i - 1)) = j + 1
      BY <2>2
    <3> QED
      BY <3>1, <3>2, <1>2, <2>2
  <2> QED
    BY <2>1, <2>2
<1> QED
  BY <1>3, <1>4, <1>5

-----------------------------------------------------------------------------
(* What the pool does when it gives a task to a worker *)

\* What Give establishes, once the map it starts from satisfies what follows
\* for the workers other than w: both post and onWorkerIdle call it.
LEMMA GiveKeepsOrder ==
    ASSUME TypeOK, OrderedByPost, FifoPerDatabase,
           NEW w \in Workers, NEW i \in 1..Len(waitingList),
           NEW idle, NEW busy, NEW eligible \in [Databases -> Workers \cup {NoWorker}],
           IsFound(i, w, eligible), Give(w, i, idle, busy, eligible),
           \A v \in Workers \ {w} : \A d \in Databases : Holds(v, d) => eligible[d] = v,
           \A d \in Databases : transactionDepth[d] > 0 =>
               transactionWorker[d] \in Workers /\ eligible[d] = transactionWorker[d],
           UNCHANGED dbVars, UNCHANGED posted
    PROVE  /\ waitingList' \in Seq(Task)
           /\ onlyEligibleWorkers' \in [Databases -> Workers \cup {NoWorker}]
           /\ task'[w] \in Task
           /\ OrderedByPost'
           /\ HolderIsEligible'
           /\ FifoPerDatabase'
           /\ TransactionPinned'
<1> DEFINE t == waitingList[i]
           n == Len(waitingList)
<1>1. /\ waitingList \in Seq(Task) /\ t \in Task
      /\ t.database \in Databases \cup {NoDatabase}
      /\ posted \in Nat
      /\ task \in [Workers -> Task \cup {NoTask}]
      /\ phase \in [Workers -> Phases]
  <2>1. /\ waitingList \in Seq(Task) /\ posted \in Nat
        /\ task \in [Workers -> Task \cup {NoTask}]
        /\ phase \in [Workers -> Phases]
    BY BoundAssumption DEF TypeOK
  <2>2. t \in Task
    BY <2>1
  <2>3. t.database \in Databases \cup {NoDatabase}
    BY <2>2 DEF Task
  <2> QED
    BY <2>1, <2>2, <2>3
<1>2. /\ waitingList' \in Seq(Task)
      /\ Len(waitingList') = n - 1
      /\ \A j \in 1..(n - 1) :
           waitingList'[j] = IF j < i THEN waitingList[j] ELSE waitingList[j + 1]
  BY <1>1, RemoveAtProperties DEF Give
<1>3. /\ task' = [task EXCEPT ![w] = t]
      /\ phase' = [phase EXCEPT ![w] = "given"]
      /\ task'[w] = t /\ phase'[w] = "given"
      /\ \A v \in Workers \ {w} : task'[v] = task[v] /\ phase'[v] = phase[v]
  BY <1>1 DEF Give
<1>4. t.database \in Databases => eligible[t.database] \in {NoWorker, w}
  BY NullAssumption DEF IsFound, Candidates
<1>5. /\ onlyEligibleWorkers' \in [Databases -> Workers \cup {NoWorker}]
      /\ \A d \in Databases : d # t.database => onlyEligibleWorkers'[d] = eligible[d]
      /\ t.database \in Databases => onlyEligibleWorkers'[t.database] = w
  BY <1>1, NullAssumption DEF Give
\* No other worker holds a task of the database of t.
<1>6. ASSUME NEW v \in Workers \ {w}, NEW d \in Databases, Holds(v, d)
      PROVE  d # t.database
  BY <1>4, <1>6, NullAssumption
<1>7. HolderIsEligible'
  <2> SUFFICES ASSUME NEW v \in Workers, NEW d \in Databases, Holds(v, d)'
               PROVE  onlyEligibleWorkers'[d] = v
    BY DEF HolderIsEligible
  <2>1. CASE v = w
    BY <2>1, <1>3, <1>5 DEF Holds
  <2>2. CASE v # w
    BY <2>2, <1>3, <1>5, <1>6 DEF Holds
  <2> QED
    BY <2>1, <2>2
\* The waiting tasks are some of those that were waiting, in their order.
<1>8. PICK old \in [1..(n - 1) -> 1..n] :
        /\ \A j \in 1..(n - 1) : waitingList'[j] = waitingList[old[j]] /\ old[j] # i
        /\ \A j, k \in 1..(n - 1) : j < k => old[j] < old[k]
  <2> DEFINE old == [j \in 1..(n - 1) |-> IF j < i THEN j ELSE j + 1]
  <2>1. n \in Nat
    BY <1>1
  <2>2. old \in [1..(n - 1) -> 1..n]
    BY <2>1
  <2>3. \A j \in 1..(n - 1) : waitingList'[j] = waitingList[old[j]] /\ old[j] # i
    BY <2>1, <1>2
  <2>4. \A j, k \in 1..(n - 1) : j < k => old[j] < old[k]
    BY <2>1
  <2> HIDE DEF old
  <2> QED
    BY <2>2, <2>3, <2>4
<1>9. OrderedByPost'
  <2>1. ASSUME NEW j \in 1..(n - 1), NEW k \in 1..(n - 1), j < k
        PROVE  waitingList'[j].id < waitingList'[k].id
    <3>1. old[j] \in 1..n /\ old[k] \in 1..n /\ old[j] < old[k]
      BY <1>8, <2>1
    <3> QED
      BY <3>1, <1>8 DEF OrderedByPost
  <2>2. \A j \in 1..(n - 1) : waitingList'[j].id <= posted'
    BY <1>8 DEF OrderedByPost
  <2>3. \A v \in Workers : phase'[v] # "free" => task'[v].id <= posted'
    BY <1>3 DEF OrderedByPost
  <2> QED
    BY <2>1, <2>2, <2>3, <1>2 DEF OrderedByPost
\* t is the first waiting task of its database: the others come later.
<1>10. FifoPerDatabase'
  <2> SUFFICES ASSUME NEW d \in Databases, NEW v \in Workers, Holds(v, d)',
                      NEW j \in 1..(n - 1), waitingList'[j].database = d
               PROVE  task'[v].id < waitingList'[j].id
    BY <1>2 DEF FifoPerDatabase
  <2>1. waitingList'[j] = waitingList[old[j]] /\ old[j] # i /\ old[j] \in 1..n
    BY <1>8
  <2>2. CASE v = w
    <3>1. t.database = d /\ task'[v] = t
      BY <2>2, <1>3 DEF Holds
    <3>2. old[j] \in Candidates(w, eligible)
      BY <3>1, <2>1, <1>4 DEF Candidates
    <3>3. i < old[j]
      BY <3>2, <2>1 DEF IsFound
    <3> QED
      BY <3>1, <3>3, <2>1 DEF OrderedByPost
  <2>3. CASE v # w
    BY <2>3, <2>1, <1>3 DEF FifoPerDatabase, Holds
  <2> QED
    BY <2>2, <2>3
<1>11. TransactionPinned'
  <2> SUFFICES ASSUME NEW d \in Databases, transactionDepth'[d] > 0
               PROVE  /\ transactionWorker'[d] \in Workers
                      /\ onlyEligibleWorkers'[d] = transactionWorker'[d]
    BY DEF TransactionPinned
  <2>1. /\ transactionWorker'[d] \in Workers
        /\ eligible[d] = transactionWorker'[d]
    BY DEF dbVars
  <2> QED
    BY <2>1, <1>4, <1>5, NullAssumption
<1> QED
  BY <1>1, <1>2, <1>3, <1>5, <1>7, <1>9, <1>10, <1>11

-----------------------------------------------------------------------------
(* The invariant is inductive: one lemma per action *)

LEMMA InitInv == Init => Inv
<1> SUFFICES ASSUME Init PROVE Inv
  OBVIOUS
<1>1. TypeOK
  BY BoundAssumption DEF Init, TypeOK, Phases
<1>2. IdleIsFree /\ OrderedByPost /\ TransactionPinned
  BY BoundAssumption DEF Init, IdleIsFree, OrderedByPost, TransactionPinned
<1>3. HolderIsEligible /\ FifoPerDatabase
  BY DEF Init, HolderIsEligible, FifoPerDatabase, Holds
<1>4. NoIdleWorkerLeftBehind
  BY DEF Init, NoIdleWorkerLeftBehind, Candidates
<1> QED
  BY <1>1, <1>2, <1>3, <1>4 DEF Inv

\* A new task goes behind the others, and every idle worker will be tried.
LEMMA PostInv ==
    ASSUME Inv, NEW d \in Databases \cup {NoDatabase}, NEW c \in Changes, Post(d, c)
    PROVE  Inv'
<1> DEFINE t == [id |-> posted + 1, database |-> d, change |-> c]
           n == Len(waitingList)
<1> USE DEF Inv
<1>1. /\ waitingList \in Seq(Task) /\ n \in Nat
      /\ posted \in Nat /\ MaxTasks \in Nat /\ posted + 1 \in 1..MaxTasks
  BY BoundAssumption DEF TypeOK, Post
<1>2. t \in Task
  BY <1>1 DEF Task
<1>3. /\ waitingList' \in Seq(Task)
      /\ Len(waitingList') = n + 1
      /\ \A i \in 1..n : waitingList'[i] = waitingList[i]
      /\ waitingList'[n + 1] = t
  BY <1>1, <1>2, AppendProperties DEF Post
<1>4. TypeOK'
  BY <1>1, <1>3 DEF TypeOK, Post, threadVars, dbVars
<1>5. IdleIsFree'
  BY DEF IdleIsFree, Post, threadVars
<1>6. OrderedByPost'
  <2>0. \A i \in 1..n : waitingList[i] \in Task
    BY <1>1
  <2>1. \A i \in 1..n : waitingList[i].id <= posted /\ waitingList[i].id \in Nat
    BY <2>0, <1>1 DEF OrderedByPost, Task
  <2>2. ASSUME NEW i \in 1..(n + 1), NEW j \in 1..(n + 1), i < j
        PROVE  waitingList'[i].id < waitingList'[j].id
    <3>1. CASE j \in 1..n
      BY <3>1, <2>2, <1>1, <1>3 DEF OrderedByPost
    <3>2. CASE j = n + 1
      BY <3>2, <2>1, <2>2, <1>1, <1>3
    <3> QED
      BY <3>1, <3>2, <1>1
  <2>3. \A i \in 1..(n + 1) : waitingList'[i].id <= posted'
    BY <2>1, <1>1, <1>3 DEF Post
  <2>4. \A w \in Workers : phase'[w] # "free" => task'[w].id <= posted'
    BY <1>1, BoundAssumption DEF OrderedByPost, Post, threadVars, TypeOK, Task
  <2> QED
    BY <2>2, <2>3, <2>4, <1>3 DEF OrderedByPost
<1>7. HolderIsEligible' /\ TransactionPinned'
  BY DEF HolderIsEligible, TransactionPinned, Holds, Post, threadVars, dbVars
<1>8. FifoPerDatabase'
  <2> SUFFICES ASSUME NEW e \in Databases, NEW w \in Workers, Holds(w, e)',
                      NEW i \in 1..(n + 1), waitingList'[i].database = e
               PROVE  task'[w].id < waitingList'[i].id
    BY <1>3 DEF FifoPerDatabase
  <2>1. Holds(w, e) /\ task' = task
    BY DEF Holds, Post, threadVars
  <2>2. CASE i \in 1..n
    BY <2>1, <2>2, <1>3 DEF FifoPerDatabase
  <2>3. CASE i = n + 1
    <3>1. task[w].id <= posted /\ task[w].id \in Nat
      BY <2>1, BoundAssumption DEF OrderedByPost, Holds, TypeOK, Task
    <3> QED
      BY <3>1, <2>1, <2>3, <1>1, <1>3
  <2> QED
    BY <2>2, <2>3, <1>1
<1>9. NoIdleWorkerLeftBehind'
  BY DEF NoIdleWorkerLeftBehind, Post
<1> QED
  BY <1>4, <1>5, <1>6, <1>7, <1>8, <1>9

\* Removing a task and giving its database to w only shrinks what the other
\* workers could run.
LEMMA GiveKeepsOthersIdle ==
    ASSUME TypeOK, NEW w \in Workers, NEW v \in Workers, NEW i \in 1..Len(waitingList),
           NEW idle, NEW busy, NEW eligible \in [Databases -> Workers \cup {NoWorker}],
           IsFound(i, w, eligible), Give(w, i, idle, busy, eligible),
           v # w, Candidates(v, eligible) = {}
    PROVE  Candidates(v, onlyEligibleWorkers)' = {}
<1> DEFINE t == waitingList[i]
           n == Len(waitingList)
<1>1. waitingList \in Seq(Task) /\ n \in Nat
  BY DEF TypeOK
<1>2. /\ Len(waitingList') = n - 1
      /\ \A j \in 1..(n - 1) :
           waitingList'[j] = IF j < i THEN waitingList[j] ELSE waitingList[j + 1]
  BY <1>1, RemoveAtProperties DEF Give
<1> SUFFICES ASSUME NEW j \in 1..(n - 1), j \in Candidates(v, onlyEligibleWorkers)'
             PROVE  FALSE
  BY <1>2 DEF Candidates
<1>3. PICK k \in 1..n : waitingList'[j] = waitingList[k]
  BY <1>1, <1>2
<1>4. /\ waitingList[k].database # NoDatabase
      /\ eligible[waitingList[k].database] \notin {NoWorker, v}
  BY DEF Candidates
<1>5. waitingList[k].database \in Databases
  <2>1. waitingList[k] \in Task
    BY <1>1
  <2> QED
    BY <2>1, <1>4 DEF Task
<1>6. onlyEligibleWorkers'[waitingList[k].database] \in {NoWorker, v}
  BY <1>3, <1>4 DEF Candidates
<1>7. onlyEligibleWorkers'[waitingList[k].database]
        \in {eligible[waitingList[k].database], w}
  BY <1>5 DEF Give
<1> QED
  BY <1>4, <1>6, <1>7, NullAssumption

\* One turn of the loop of post or of onWorkerIdle: w is idle, so it holds
\* nothing, and it leaves the idle workers.
LEMMA TryGiveInv ==
    ASSUME Inv, NEW w \in Workers, TryGive(w)
    PROVE  Inv'
<1> USE DEF Inv
<1>1. PICK i \in 1..Len(waitingList) :
        /\ IsFound(i, w, onlyEligibleWorkers)
        /\ Give(w, i, idleWorkers, busyWorkers, onlyEligibleWorkers)
  BY DEF TryGive
<1>2. /\ UNCHANGED dbVars /\ UNCHANGED posted /\ UNCHANGED status
      /\ trying' = trying \ {w}
      /\ idleWorkers' = idleWorkers \ {w}
      /\ busyWorkers' = busyWorkers \cup {w}
      /\ task' = [task EXCEPT ![w] = waitingList[i]]
      /\ phase' = [phase EXCEPT ![w] = "given"]
  BY <1>1 DEF TryGive, Give
<1>3. onlyEligibleWorkers \in [Databases -> Workers \cup {NoWorker}]
  BY DEF TypeOK
<1>4. /\ waitingList' \in Seq(Task)
      /\ onlyEligibleWorkers' \in [Databases -> Workers \cup {NoWorker}]
      /\ task'[w] \in Task
      /\ OrderedByPost' /\ HolderIsEligible' /\ FifoPerDatabase' /\ TransactionPinned'
  <2>1. \A v \in Workers \ {w} : \A d \in Databases :
          Holds(v, d) => onlyEligibleWorkers[d] = v
    BY DEF HolderIsEligible
  <2>2. \A d \in Databases : transactionDepth[d] > 0 =>
          /\ transactionWorker[d] \in Workers
          /\ onlyEligibleWorkers[d] = transactionWorker[d]
    BY DEF TransactionPinned
  <2> QED
    BY <1>1, <1>2, <1>3, <2>1, <2>2, GiveKeepsOrder
<1>5. TypeOK'
  <2>1. /\ task' \in [Workers -> Task \cup {NoTask}]
        /\ phase' \in [Workers -> Phases]
        /\ \A v \in Workers : phase'[v] # "free" => task'[v] \in Task
    BY <1>2, <1>4 DEF TypeOK, Phases
  <2> QED
    BY <2>1, <1>2, <1>4 DEF TypeOK, dbVars
<1>6. IdleIsFree'
  BY <1>2 DEF IdleIsFree, TypeOK
<1>7. NoIdleWorkerLeftBehind'
  <2> SUFFICES ASSUME status' # "dead", NEW v \in idleWorkers' \ trying'
               PROVE  Candidates(v, onlyEligibleWorkers)' = {}
    BY DEF NoIdleWorkerLeftBehind
  <2>1. v \in Workers /\ v # w /\ v \in idleWorkers \ trying
    BY <1>2 DEF TypeOK
  <2>2. Candidates(v, onlyEligibleWorkers) = {}
    BY <2>1, <1>2 DEF NoIdleWorkerLeftBehind
  <2> QED
    BY <2>1, <2>2, <1>1, <1>3, GiveKeepsOthersIdle
<1> QED
  BY <1>4, <1>5, <1>6, <1>7

\* The loop goes on: w has been tried and has nothing to run.
LEMMA TrySkipInv ==
    ASSUME Inv, NEW w \in Workers, TrySkip(w)
    PROVE  Inv'
<1> USE DEF Inv, TrySkip, poolVars, threadVars, dbVars
<1>1. TypeOK'
  BY DEF TypeOK
<1>2. IdleIsFree'
  BY DEF IdleIsFree
<1>3. OrderedByPost'
  BY DEF OrderedByPost
<1>4. HolderIsEligible' /\ TransactionPinned' /\ FifoPerDatabase'
  BY DEF HolderIsEligible, TransactionPinned, FifoPerDatabase, Holds
<1>5. NoIdleWorkerLeftBehind'
  <2> SUFFICES ASSUME status' # "dead", NEW v \in idleWorkers' \ trying'
               PROVE  Candidates(v, onlyEligibleWorkers)' = {}
    BY DEF NoIdleWorkerLeftBehind
  <2>1. Candidates(v, onlyEligibleWorkers) = {}
    BY DEF NoIdleWorkerLeftBehind
  <2> QED
    BY <2>1 DEF Candidates
<1> QED
  BY <1>1, <1>2, <1>3, <1>4, <1>5

LEMMA StartInv ==
    ASSUME Inv, NEW w \in Workers, Start(w)
    PROVE  Inv'
<1> USE DEF Inv, Start, poolVars, dbVars
<1>1. /\ phase \in [Workers -> Phases]
      /\ \A v \in Workers : phase'[v] # "free" <=> phase[v] # "free"
  BY DEF TypeOK
<1>2. TypeOK'
  BY <1>1 DEF TypeOK, Phases
<1>3. IdleIsFree' /\ OrderedByPost'
  BY <1>1 DEF IdleIsFree, OrderedByPost
<1>4. HolderIsEligible' /\ TransactionPinned' /\ FifoPerDatabase'
  BY <1>1 DEF HolderIsEligible, TransactionPinned, FifoPerDatabase, Holds
<1>5. NoIdleWorkerLeftBehind'
  BY DEF NoIdleWorkerLeftBehind, Candidates
<1> QED
  BY <1>2, <1>3, <1>4, <1>5

\* The statement of a task changes the depth of its own database only, and
\* the worker that runs it is the one that database is pinned to.
LEMMA FinishInv ==
    ASSUME Inv, NEW w \in Workers, Finish(w)
    PROVE  Inv'
<1> DEFINE t == task[w]
           d == t.database
<1> USE DEF Inv
<1>1. /\ phase[w] = "started"
      /\ phase' = [phase EXCEPT ![w] = "done"]
      /\ UNCHANGED poolVars /\ UNCHANGED <<trying, task, posted, status>>
  BY DEF Finish
<1>2. /\ phase \in [Workers -> Phases]
      /\ \A v \in Workers : phase'[v] # "free" <=> phase[v] # "free"
      /\ t \in Task /\ d \in Databases \cup {NoDatabase}
      /\ transactionDepth \in [Databases -> Nat]
      /\ transactionWorker \in [Databases -> Workers \cup {NoWorker}]
  BY <1>1 DEF TypeOK, Task
<1>3. \/ UNCHANGED dbVars
      \/ /\ d \in Databases
         /\ transactionDepth' = [transactionDepth EXCEPT ![d] = @ + 1]
         /\ transactionWorker' = IF transactionDepth[d] > 0 THEN transactionWorker
                                 ELSE [transactionWorker EXCEPT ![d] = w]
      \/ /\ d \in Databases
         /\ transactionDepth[d] > 0
         /\ transactionDepth' = [transactionDepth EXCEPT ![d] = @ - 1]
         /\ UNCHANGED transactionWorker
  BY <1>2 DEF Finish, InTransaction
<1>4. /\ transactionDepth' \in [Databases -> Nat]
      /\ transactionWorker' \in [Databases -> Workers \cup {NoWorker}]
  BY <1>2, <1>3 DEF dbVars
<1>5. TypeOK'
  BY <1>1, <1>2, <1>4 DEF TypeOK, Phases, poolVars
<1>6. IdleIsFree' /\ OrderedByPost'
  BY <1>1, <1>2 DEF IdleIsFree, OrderedByPost, poolVars
<1>7. HolderIsEligible' /\ FifoPerDatabase'
  BY <1>1, <1>2 DEF HolderIsEligible, FifoPerDatabase, Holds, poolVars
<1>8. TransactionPinned'
  <2> SUFFICES ASSUME NEW e \in Databases, transactionDepth'[e] > 0
               PROVE  /\ transactionWorker'[e] \in Workers
                      /\ onlyEligibleWorkers'[e] = transactionWorker'[e]
    BY DEF TransactionPinned
  <2>1. onlyEligibleWorkers' = onlyEligibleWorkers
    BY <1>1 DEF poolVars
  <2>2. d = e => onlyEligibleWorkers[e] = w
    BY <1>1 DEF HolderIsEligible, Holds
  <2>3. CASE transactionDepth[e] > 0
    <3>1. transactionWorker'[e] = transactionWorker[e]
      BY <1>2, <1>3, <2>3 DEF dbVars
    <3> QED
      BY <2>1, <2>3, <3>1 DEF TransactionPinned
  <2>4. CASE ~(transactionDepth[e] > 0)
    <3>1. d = e /\ transactionWorker'[e] = w
      BY <1>2, <1>3, <2>4 DEF dbVars
    <3> QED
      BY <2>1, <2>2, <3>1
  <2> QED
    BY <2>3, <2>4
<1>9. NoIdleWorkerLeftBehind'
  BY <1>1 DEF NoIdleWorkerLeftBehind, Candidates, poolVars
<1> QED
  BY <1>5, <1>6, <1>7, <1>8, <1>9

\* onWorkerIdle: the map it goes on with pins no database the worker may
\* have released, unless a transaction is open on it.
LEMMA OnWorkerIdleInv ==
    ASSUME Inv, NEW w \in Workers, OnWorkerIdle(w)
    PROVE  Inv'
<1> DEFINE released == ReleasedBy(w)
           d == task[w].database
<1> USE DEF Inv
<1>1. /\ phase[w] = "done" /\ trying = {} /\ w \notin idleWorkers
      /\ UNCHANGED posted /\ UNCHANGED dbVars
  BY DEF OnWorkerIdle, MonitorFree, IdleIsFree
<1>2. /\ task[w] \in Task /\ d \in Databases \cup {NoDatabase}
      /\ phase \in [Workers -> Phases]
      /\ task \in [Workers -> Task \cup {NoTask}]
      /\ onlyEligibleWorkers \in [Databases -> Workers \cup {NoWorker}]
  BY <1>1 DEF TypeOK, Task
<1>3. /\ released \in [Databases -> Workers \cup {NoWorker}]
      /\ \A e \in Databases : e # d => released[e] = onlyEligibleWorkers[e]
      /\ \A e \in Databases : transactionDepth[e] > 0 =>
           released[e] = onlyEligibleWorkers[e]
  BY <1>2, NullAssumption DEF ReleasedBy, InTransaction
<1>4. ASSUME NEW v \in Workers \ {w}, NEW e \in Databases, Holds(v, e)
      PROVE  released[e] = v
  <2>1. onlyEligibleWorkers[e] = v
    BY <1>4 DEF HolderIsEligible
  <2>2. e = d => onlyEligibleWorkers[e] = w
    BY <1>1 DEF HolderIsEligible, Holds
  <2> QED
    BY <1>3, <2>1, <2>2
<1>5. \A e \in Databases : transactionDepth[e] > 0 =>
        transactionWorker[e] \in Workers /\ released[e] = transactionWorker[e]
  BY <1>3 DEF TransactionPinned
<1> HIDE DEF released
<1>6. CASE /\ Candidates(w, released) = {}
           /\ idleWorkers' = idleWorkers \cup {w}
           /\ busyWorkers' = busyWorkers \ {w}
           /\ onlyEligibleWorkers' = released
           /\ phase' = [phase EXCEPT ![w] = "free"]
           /\ trying' = idleWorkers
           /\ UNCHANGED <<waitingList, task, status>>
  <2>1. /\ phase'[w] = "free"
        /\ \A v \in Workers \ {w} : phase'[v] = phase[v]
    BY <1>2, <1>6
  <2>2. TypeOK'
    BY <1>1, <1>2, <1>3, <1>6, <2>1 DEF TypeOK, Phases, dbVars
  <2>3. IdleIsFree' /\ OrderedByPost'
    BY <1>1, <1>6, <2>1 DEF IdleIsFree, OrderedByPost
  <2>4. HolderIsEligible'
    BY <1>4, <1>6, <2>1 DEF HolderIsEligible, Holds
  <2>5. TransactionPinned'
    BY <1>1, <1>5, <1>6 DEF TransactionPinned, dbVars
  <2>6. FifoPerDatabase'
    BY <1>6, <2>1 DEF FifoPerDatabase, Holds
  <2>7. NoIdleWorkerLeftBehind'
    <3> SUFFICES ASSUME NEW v \in idleWorkers' \ trying'
                 PROVE  Candidates(v, onlyEligibleWorkers)' = {}
      BY DEF NoIdleWorkerLeftBehind
    <3>1. v = w
      BY <1>6
    <3> QED
      BY <3>1, <1>6 DEF Candidates
  <2> QED
    BY <2>2, <2>3, <2>4, <2>5, <2>6, <2>7
<1>7. CASE /\ \E i \in 1..Len(waitingList) :
                /\ IsFound(i, w, released)
                /\ Give(w, i, idleWorkers \cup {w}, busyWorkers \ {w}, released)
           /\ trying' = idleWorkers
           /\ UNCHANGED status
  <2>1. PICK i \in 1..Len(waitingList) :
          /\ IsFound(i, w, released)
          /\ Give(w, i, idleWorkers \cup {w}, busyWorkers \ {w}, released)
    BY <1>7
  <2>2. /\ waitingList' \in Seq(Task)
        /\ onlyEligibleWorkers' \in [Databases -> Workers \cup {NoWorker}]
        /\ task'[w] \in Task
        /\ OrderedByPost' /\ HolderIsEligible' /\ FifoPerDatabase' /\ TransactionPinned'
    BY <1>1, <1>3, <1>4, <1>5, <2>1, GiveKeepsOrder
  <2>3. /\ idleWorkers' = idleWorkers
        /\ busyWorkers' = busyWorkers \cup {w}
        /\ task' = [task EXCEPT ![w] = waitingList[i]]
        /\ phase' = [phase EXCEPT ![w] = "given"]
    BY <1>1, <2>1 DEF Give
  <2>4. /\ task' \in [Workers -> Task \cup {NoTask}]
        /\ phase' \in [Workers -> Phases]
        /\ \A v \in Workers : phase'[v] # "free" => task'[v] \in Task
    BY <1>2, <2>2, <2>3 DEF TypeOK, Phases
  <2>5. TypeOK'
    BY <1>1, <1>7, <2>2, <2>3, <2>4 DEF TypeOK, dbVars
  <2>6. IdleIsFree'
    BY <1>1, <1>2, <1>7, <2>3 DEF IdleIsFree
  <2>7. NoIdleWorkerLeftBehind'
    BY <1>7, <2>3 DEF NoIdleWorkerLeftBehind
  <2> QED
    BY <2>2, <2>5, <2>6, <2>7
<1>8. CASE /\ status' = "dead"
           /\ UNCHANGED <<poolVars, threadVars, trying>>
  <2>1. TypeOK'
    BY <1>1, <1>8 DEF TypeOK, poolVars, threadVars, dbVars
  <2>2. IdleIsFree' /\ OrderedByPost'
    BY <1>1, <1>8 DEF IdleIsFree, OrderedByPost, poolVars, threadVars
  <2>3. HolderIsEligible' /\ TransactionPinned' /\ FifoPerDatabase'
    BY <1>1, <1>8 DEF HolderIsEligible, TransactionPinned, FifoPerDatabase, Holds,
                      poolVars, threadVars, dbVars
  <2>4. NoIdleWorkerLeftBehind'
    BY <1>8 DEF NoIdleWorkerLeftBehind
  <2> QED
    BY <2>1, <2>2, <2>3, <2>4
<1> QED
  BY <1>6, <1>7, <1>8 DEF OnWorkerIdle, Others, released

LEMMA QuitInv ==
    ASSUME Inv, Quit
    PROVE  Inv'
<1> USE DEF Inv, Quit, poolVars, threadVars, dbVars
<1>1. TypeOK'
  BY DEF TypeOK
<1>2. IdleIsFree' /\ OrderedByPost'
  BY DEF IdleIsFree, OrderedByPost
<1>3. HolderIsEligible' /\ TransactionPinned' /\ FifoPerDatabase'
  BY DEF HolderIsEligible, TransactionPinned, FifoPerDatabase, Holds
<1>4. NoIdleWorkerLeftBehind'
  BY DEF NoIdleWorkerLeftBehind, Candidates
<1> QED
  BY <1>1, <1>2, <1>3, <1>4

LEMMA StutterInv ==
    ASSUME Inv, UNCHANGED vars
    PROVE  Inv'
<1> USE DEF Inv, vars
<1>1. TypeOK' /\ IdleIsFree' /\ OrderedByPost'
  BY DEF TypeOK, IdleIsFree, OrderedByPost
<1>2. HolderIsEligible' /\ TransactionPinned' /\ FifoPerDatabase'
  BY DEF HolderIsEligible, TransactionPinned, FifoPerDatabase, Holds
<1>3. NoIdleWorkerLeftBehind'
  BY DEF NoIdleWorkerLeftBehind, Candidates
<1> QED
  BY <1>1, <1>2, <1>3

\* The invariant holds in every reachable state of the pool.
THEOREM Invariance == Spec => []Inv
<1>1. Init => Inv
  BY InitInv
<1>2. Inv /\ [Next]_vars => Inv'
  <2> SUFFICES ASSUME Inv, [Next]_vars PROVE Inv'
    OBVIOUS
  <2>1. ASSUME NEW d \in Databases, NEW c \in Changes, Post(d, c) PROVE Inv'
    BY <2>1, PostInv
  <2>2. CASE Post(NoDatabase, "none")
    BY <2>2, PostInv DEF Changes
  <2>3. ASSUME NEW w \in Workers, TryGive(w) PROVE Inv'
    BY <2>3, TryGiveInv
  <2>4. ASSUME NEW w \in Workers, TrySkip(w) PROVE Inv'
    BY <2>4, TrySkipInv
  <2>5. ASSUME NEW w \in Workers, Start(w) PROVE Inv'
    BY <2>5, StartInv
  <2>6. ASSUME NEW w \in Workers, Finish(w) PROVE Inv'
    BY <2>6, FinishInv
  <2>7. ASSUME NEW w \in Workers, OnWorkerIdle(w) PROVE Inv'
    BY <2>7, OnWorkerIdleInv
  <2>8. CASE Quit
    BY <2>8, QuitInv
  <2>9. CASE UNCHANGED vars
    BY <2>9, StutterInv
  <2> QED
    BY <2>1, <2>2, <2>3, <2>4, <2>5, <2>6, <2>7, <2>8, <2>9 DEF Next
<1> QED
  BY <1>1, <1>2, PTL DEF Spec

-----------------------------------------------------------------------------
(* The promises of the pool *)

\* The pool, its threads and the transaction depths are always well typed.
THEOREM TypeCorrect == Spec => []TypeOK
<1>1. Inv => TypeOK
  BY DEF Inv
<1> QED
  BY <1>1, Invariance, PTL

\* No two workers ever hold tasks of one database.
THEOREM TasksDoNotOverlap == Spec => []NoOverlap
<1>1. Inv => NoOverlap
  BY DEF Inv, HolderIsEligible, NoOverlap
<1> QED
  BY <1>1, Invariance, PTL

\* The task a worker holds is older than the waiting ones of its database.
THEOREM TasksRunInOrder == Spec => []FifoPerDatabase
<1>1. Inv => FifoPerDatabase
  BY DEF Inv
<1> QED
  BY <1>1, Invariance, PTL

\* No idle worker is left behind with a task it could run.
THEOREM NoLostWakeup == Spec => []NoIdleWorkerLeftBehind
<1>1. Inv => NoIdleWorkerLeftBehind
  BY DEF Inv
<1> QED
  BY <1>1, Invariance, PTL

\* In a transaction, a task only starts on the worker that began it.
THEOREM TransactionStaysOnWorker == Spec => TransactionOnOneWorker
<1> DEFINE OnOneWorker ==
             \A w \in Workers, d \in Databases :
               (/\ phase[w] = "given" /\ phase'[w] = "started"
                /\ task[w].database = d /\ transactionDepth[d] > 0)
               => w = transactionWorker[d]
<1>1. Inv => [OnOneWorker]_vars
  BY DEF Inv, HolderIsEligible, TransactionPinned, Holds
<1> QED
  BY <1>1, Invariance, PTL DEF TransactionOnOneWorker

-----------------------------------------------------------------------------
(* Refinement of SerialExecutor *)

\* What is in the queue of a database.
LEMMA Queued ==
    \A d, k : k \in QueueOf(d) <=>
        \/ \E v \in Workers :
             phase[v] \in {"given", "started"} /\ task[v].database = d /\ task[v].id = k
        \/ \E j \in 1..Len(waitingList) : waitingList[j].database = d /\ waitingList[j].id = k
<1> QED BY DEF QueueOf, IdsGiven, IdsWaiting

\* A step that the promise does not see.
LEMMA UnseenStep ==
    ASSUME \A d \in Databases : QueueOf(d)' = QueueOf(d),
           \A w \in Workers : CurrentOf(w)' = CurrentOf(w),
           \A d \in Databases : OwnerOf(d)' = OwnerOf(d)
    PROVE  UNCHANGED Promise!vars
<1> QED BY DEF Promise!vars

\* The pool has a new task for w: it is as unfinished as before.
LEMMA GiveIsUnseen ==
    ASSUME TypeOK, NEW w \in Workers, NEW i \in 1..Len(waitingList),
           NEW idle, NEW busy, NEW eligible, Give(w, i, idle, busy, eligible),
           phase[w] \in {"free", "done"}, UNCHANGED dbVars
    PROVE  UNCHANGED Promise!vars
<1> DEFINE t == waitingList[i]
           n == Len(waitingList)
<1>1. waitingList \in Seq(Task) /\ n \in Nat
  BY DEF TypeOK
<1>2. /\ Len(waitingList') = n - 1
      /\ \A j \in 1..(n - 1) :
           waitingList'[j] = IF j < i THEN waitingList[j] ELSE waitingList[j + 1]
  BY <1>1, RemoveAtProperties DEF Give
<1>3. /\ task'[w] = t /\ phase'[w] = "given"
      /\ \A v \in Workers \ {w} : task'[v] = task[v] /\ phase'[v] = phase[v]
  BY DEF Give, TypeOK
<1>4. ASSUME NEW d \in Databases
      PROVE  QueueOf(d)' = QueueOf(d)
  <2>1. ASSUME NEW k, k \in QueueOf(d)' PROVE k \in QueueOf(d)
    <3>1. CASE \E v \in Workers : /\ phase'[v] \in {"given", "started"}
                                  /\ task'[v].database = d /\ task'[v].id = k
      <4>1. PICK v \in Workers : /\ phase'[v] \in {"given", "started"}
                                 /\ task'[v].database = d /\ task'[v].id = k
        BY <3>1
      <4>2. CASE v = w
        BY <1>3, <4>1, <4>2, Queued
      <4>3. CASE v # w
        BY <1>3, <4>1, <4>3, Queued
      <4> QED BY <4>2, <4>3
    <3>2. CASE \E j \in 1..Len(waitingList') :
                 waitingList'[j].database = d /\ waitingList'[j].id = k
      <4>1. PICK j \in 1..(n - 1) : waitingList'[j].database = d /\ waitingList'[j].id = k
        BY <1>2, <3>2
      <4>2. \E m \in 1..n : waitingList'[j] = waitingList[m]
        BY <1>1, <1>2
      <4> QED BY <4>1, <4>2, Queued
    <3> QED BY <2>1, <3>1, <3>2 DEF QueueOf, IdsGiven, IdsWaiting
  <2>2. ASSUME NEW k, k \in QueueOf(d) PROVE k \in QueueOf(d)'
    <3>1. CASE \E v \in Workers : /\ phase[v] \in {"given", "started"}
                                  /\ task[v].database = d /\ task[v].id = k
      BY <1>3, <3>1 DEF QueueOf, IdsGiven
    <3>2. CASE \E j \in 1..n : waitingList[j].database = d /\ waitingList[j].id = k
      <4>1. PICK j \in 1..n : waitingList[j].database = d /\ waitingList[j].id = k
        BY <3>2
      <4>2. CASE j = i
        BY <1>3, <4>1, <4>2 DEF QueueOf, IdsGiven
      <4>3. CASE j # i
        <5>1. \E m \in 1..Len(waitingList') : waitingList'[m] = waitingList[j]
          <6>1. CASE j < i
            BY <1>1, <1>2, <6>1
          <6>2. CASE i < j
            <7>1. j - 1 \in 1..(n - 1) /\ ~(j - 1 < i) /\ (j - 1) + 1 = j
              BY <1>1, <6>2
            <7> QED BY <1>2, <7>1
          <6> QED BY <1>1, <4>3, <6>1, <6>2
        <5> QED BY <4>1, <5>1 DEF QueueOf, IdsWaiting
      <4> QED BY <4>2, <4>3
    <3> QED BY <2>2, <3>1, <3>2, Queued
  <2> QED BY <2>1, <2>2
<1>5. \A v \in Workers : CurrentOf(v)' = CurrentOf(v)
  BY <1>3 DEF CurrentOf
<1>6. \A d \in Databases : OwnerOf(d)' = OwnerOf(d)
  BY DEF OwnerOf, dbVars
<1> QED BY <1>4, <1>5, <1>6, UnseenStep

\* A task of a database is posted behind all that are not finished.
LEMMA PostIsSubmit ==
    ASSUME Inv, NEW d \in Databases \cup {NoDatabase}, NEW c \in Changes, Post(d, c)
    PROVE  Promise!Next \/ UNCHANGED Promise!vars
<1> DEFINE t == [id |-> posted + 1, database |-> d, change |-> c]
           n == Len(waitingList)
<1>1. /\ waitingList \in Seq(Task) /\ n \in Nat /\ posted \in Nat
      /\ posted + 1 \in 1..MaxTasks
      /\ t.id = posted + 1 /\ t.database = d
      /\ \A w \in Workers : phase[w] # "free" => task[w] \in Task
  BY BoundAssumption DEF Inv, TypeOK, Post
<1>2. /\ Len(waitingList') = n + 1
      /\ \A i \in 1..n : waitingList'[i] = waitingList[i]
      /\ waitingList'[n + 1] = t
      /\ task' = task /\ phase' = phase
  BY <1>1, AppendProperties DEF Post, threadVars
<1>3. ASSUME NEW e \in Databases
      PROVE  QueueOf(e)' = IF e = d THEN QueueOf(e) \cup {posted + 1} ELSE QueueOf(e)
  <2>1. IdsGiven(e)' = IdsGiven(e)
    BY <1>2 DEF IdsGiven
  <2>2. IdsWaiting(e)' = IF e = d THEN IdsWaiting(e) \cup {posted + 1} ELSE IdsWaiting(e)
    <3> HIDE DEF t
    <3>1. 1..(n + 1) = 1..n \cup {n + 1}
      BY <1>1
    <3>2. \A k : k \in IdsWaiting(e)' <=>
            \E i \in 1..(n + 1) : waitingList'[i].database = e /\ k = waitingList'[i].id
      BY <1>2 DEF IdsWaiting
    <3>3. \A k : k \in IdsWaiting(e) <=>
            \E i \in 1..n : waitingList[i].database = e /\ k = waitingList[i].id
      BY DEF IdsWaiting
    <3>4. \A k : k \in IdsWaiting(e)' <=> k \in IdsWaiting(e) \/ (d = e /\ k = posted + 1)
      BY <1>1, <1>2, <3>1, <3>2, <3>3
    <3> QED BY <3>4
  <2> QED BY <2>1, <2>2 DEF QueueOf
<1>4. \A w \in Workers : CurrentOf(w)' = CurrentOf(w)
  BY <1>2 DEF CurrentOf
<1>5. \A e \in Databases : OwnerOf(e)' = OwnerOf(e)
  BY DEF OwnerOf, Post, dbVars
<1>6. CASE d \in Databases
  <2>1. \A e \in Databases : \A k \in QueueOf(e) : k < posted + 1
    <3> SUFFICES ASSUME NEW e \in Databases, NEW k \in QueueOf(e) PROVE k < posted + 1
      OBVIOUS
    <3>1. CASE \E v \in Workers : phase[v] # "free" /\ task[v].id = k
      <4>1. PICK v \in Workers : phase[v] # "free" /\ task[v].id = k
        BY <3>1
      <4>2. task[v].id <= posted /\ task[v].id \in Int
        BY <1>1, <4>1 DEF Inv, OrderedByPost, Task
      <4> QED BY <1>1, <4>1, <4>2
    <3>2. CASE \E j \in 1..n : waitingList[j].id = k
      <4>1. PICK j \in 1..n : waitingList[j].id = k
        BY <3>2
      <4>2. waitingList[j] \in Task /\ waitingList[j].id <= posted
        BY <1>1 DEF Inv, OrderedByPost
      <4> QED BY <1>1, <4>1, <4>2 DEF Task
    <3> QED BY <3>1, <3>2, Queued
  <2>2. Promise!Submit(d, posted + 1)
    BY <1>3, <1>4, <1>5, <1>6, <2>1 DEF Promise!Submit
  <2> QED BY <1>1, <1>6, <2>2 DEF Promise!Next
<1>7. CASE d = NoDatabase
  BY <1>3, <1>4, <1>5, <1>7, NullAssumption, UnseenStep
<1> QED BY <1>6, <1>7

\* The first task of a database begins on the worker that owns its
\* transaction.
LEMMA StartIsExecute ==
    ASSUME Inv, NEW w \in Workers, Start(w)
    PROVE  Promise!Next \/ UNCHANGED Promise!vars
<1> PICK d : d = task[w].database
  OBVIOUS
<1>1. /\ phase[w] = "given" /\ phase'[w] = "started" /\ task' = task
      /\ \A v \in Workers \ {w} : phase'[v] = phase[v]
      /\ waitingList' = waitingList
      /\ task[w] \in Task /\ d \in Databases \cup {NoDatabase}
  BY DEF Start, Inv, TypeOK, Task, poolVars
<1>2. \A e \in Databases : QueueOf(e)' = QueueOf(e)
  <2> SUFFICES ASSUME NEW e \in Databases PROVE QueueOf(e)' = QueueOf(e)
    OBVIOUS
  <2>1. \A v \in Workers : phase'[v] \in {"given", "started"} <=> phase[v] \in {"given", "started"}
    BY <1>1
  <2>2. IdsGiven(e)' = IdsGiven(e) /\ IdsWaiting(e)' = IdsWaiting(e)
    BY <1>1, <2>1 DEF IdsGiven, IdsWaiting
  <2> QED BY <2>2 DEF QueueOf
<1>3. \A e \in Databases : OwnerOf(e)' = OwnerOf(e)
  BY DEF OwnerOf, Start, dbVars
<1>4. /\ CurrentOf(w) = NoDatabase /\ CurrentOf(w)' = d
      /\ \A v \in Workers \ {w} : CurrentOf(v)' = CurrentOf(v)
  BY <1>1 DEF CurrentOf
<1>5. CASE d \in Databases
  <2>1. task[w].id \in QueueOf(d)
    BY <1>1, Queued
  <2>2. \A v \in Workers : CurrentOf(v) # d
    <3> SUFFICES ASSUME NEW v \in Workers, CurrentOf(v) = d PROVE FALSE
      OBVIOUS
    <3>1. phase[v] = "started" /\ task[v].database = d
      BY <1>5, NullAssumption DEF CurrentOf
    <3>2. v = w
      BY <1>1, <1>5, <3>1 DEF Inv, HolderIsEligible, Holds
    <3> QED BY <1>1, <3>1, <3>2
  <2>3. OwnerOf(d) \in {NoWorker, w}
    <3>1. onlyEligibleWorkers[d] = w
      BY <1>1, <1>5 DEF Inv, HolderIsEligible, Holds
    <3> QED BY <1>5, <3>1 DEF Inv, TransactionPinned, OwnerOf
  <2>4. Promise!Execute(d, w)
    <3> QED BY <1>2, <1>3, <1>4, <1>5, <2>1, <2>2, <2>3 DEF Promise!Execute
  <2> QED BY <1>5, <2>4 DEF Promise!Next
<1>6. CASE d = NoDatabase
  <2>1. \A v \in Workers : CurrentOf(v)' = CurrentOf(v)
    BY <1>4, <1>6
  <2> QED BY <1>2, <1>3, <2>1, UnseenStep
<1> QED BY <1>1, <1>5, <1>6

\* It ends, and the transaction, if there is one, is that of its worker.
LEMMA FinishIsComplete ==
    ASSUME Inv, NEW w \in Workers, Finish(w)
    PROVE  Promise!Next \/ UNCHANGED Promise!vars
<1> PICK d : d = task[w].database
  OBVIOUS
<1> PICK id : id = task[w].id
  OBVIOUS
<1>1. /\ phase[w] = "started" /\ phase'[w] = "done" /\ task' = task
      /\ \A v \in Workers \ {w} : phase'[v] = phase[v]
      /\ waitingList' = waitingList
      /\ task[w] \in Task /\ d \in Databases \cup {NoDatabase}
  BY DEF Finish, Inv, TypeOK, Task, poolVars
<1>2. /\ CurrentOf(w) = d /\ CurrentOf(w)' = NoDatabase
      /\ \A v \in Workers \ {w} : CurrentOf(v)' = CurrentOf(v)
  BY <1>1 DEF CurrentOf
<1>3. \A e \in Databases : e # d => QueueOf(e)' = QueueOf(e)
  <2> SUFFICES ASSUME NEW e \in Databases, e # d PROVE QueueOf(e)' = QueueOf(e)
    OBVIOUS
  <2>1. IdsGiven(e)' = IdsGiven(e) /\ IdsWaiting(e)' = IdsWaiting(e)
    BY <1>1 DEF IdsGiven, IdsWaiting
  <2> QED BY <2>1 DEF QueueOf
<1>4. \A e \in Databases : e # d => OwnerOf(e)' = OwnerOf(e)
  BY DEF OwnerOf, Finish, dbVars, Inv, TypeOK
<1>5. CASE d \in Databases
  <2>1. \A v \in Workers : phase[v] # "free" /\ task[v].database = d => v = w
    BY <1>1, <1>5 DEF Inv, HolderIsEligible, Holds
  <2>2. \A j \in 1..Len(waitingList) :
          waitingList[j].database = d => id < waitingList[j].id /\ waitingList[j].id \in Int
    <3>1. \A j \in 1..Len(waitingList) : waitingList[j] \in Task
      BY DEF Inv, TypeOK
    <3> QED BY <1>1, <1>5, <3>1 DEF Inv, FifoPerDatabase, Holds, Task
  <2>3. id \in Int
    BY <1>1 DEF Task
  <2>4. id \in QueueOf(d) /\ \A k \in QueueOf(d) : k = id \/ (id < k /\ k \in Int)
    BY <1>1, <2>1, <2>2, Queued
  <2>5. QueueOf(d)' = QueueOf(d) \ {id}
    <3>1. IdsGiven(d)' = {}
      BY <1>1, <2>1 DEF IdsGiven
    <3>2. IdsGiven(d) = {id}
      BY <1>1, <2>1 DEF IdsGiven
    <3>3. IdsWaiting(d)' = IdsWaiting(d) /\ id \notin IdsWaiting(d)
      BY <1>1, <2>2, <2>3 DEF IdsWaiting
    <3> QED BY <3>1, <3>2, <3>3 DEF QueueOf
  <2>6. OwnerOf(d)' \in {NoWorker, w}
    <3>1. transactionDepth[d] > 0 => transactionWorker[d] = w
      BY <1>1, <1>5 DEF Inv, HolderIsEligible, TransactionPinned, Holds
    <3>2. /\ transactionDepth \in [Databases -> Nat]
          /\ transactionWorker \in [Databases -> Workers \cup {NoWorker}]
      BY DEF Inv, TypeOK
    <3>3. CASE UNCHANGED dbVars
      BY <3>1, <3>3 DEF OwnerOf, dbVars
    <3>4. CASE /\ transactionDepth' = [transactionDepth EXCEPT ![d] = @ + 1]
               /\ transactionWorker' = IF InTransaction(task[w]) THEN transactionWorker
                                       ELSE [transactionWorker EXCEPT ![d] = w]
      <4>1. InTransaction(task[w]) <=> transactionDepth[d] > 0
        BY <1>5, NullAssumption DEF InTransaction
      <4>2. transactionWorker'[d] = w
        BY <1>5, <3>1, <3>2, <3>4, <4>1
      <4> QED BY <4>2 DEF OwnerOf
    <3>5. CASE /\ InTransaction(task[w])
               /\ transactionWorker' = transactionWorker
      <4>1. transactionDepth[d] > 0
        BY <3>5 DEF InTransaction
      <4> QED BY <3>1, <3>5, <4>1 DEF OwnerOf
    <3> QED BY <3>3, <3>4, <3>5 DEF Finish
  <2>7. Promise!Complete(d, w)
    <3>1. [v \in Workers |-> CurrentOf(v)'] = [[v \in Workers |-> CurrentOf(v)] EXCEPT ![w] = NoDatabase]
      BY <1>2
    <3>2. [e \in Databases |-> QueueOf(e)'] =
            [[e \in Databases |-> QueueOf(e)] EXCEPT ![d] = @ \ {id}]
      BY <1>3, <1>5, <2>5
    <3>3. [e \in Databases |-> OwnerOf(e)'] =
            [[e \in Databases |-> OwnerOf(e)] EXCEPT ![d] = OwnerOf(d)']
      BY <1>4, <1>5
    <3>4. \A k \in QueueOf(d) : id <= k
      BY <2>3, <2>4
    <3>5. PICK o \in {NoWorker, w} : o = OwnerOf(d)'
      BY <2>6
    <3>6. [v \in Workers |-> CurrentOf(v)][w] = d
      BY <1>2
    <3>7. /\ id \in [e \in Databases |-> QueueOf(e)][d]
          /\ \A k \in [e \in Databases |-> QueueOf(e)][d] : id <= k
      BY <1>5, <2>4, <3>4
    <3>8. \E first \in [e \in Databases |-> QueueOf(e)][d] :
            /\ \A k \in [e \in Databases |-> QueueOf(e)][d] : first <= k
            /\ [e \in Databases |-> QueueOf(e)'] =
                 [[e \in Databases |-> QueueOf(e)] EXCEPT ![d] = @ \ {first}]
      BY <3>2, <3>7
    <3>9. \E p \in {NoWorker, w} :
            [e \in Databases |-> OwnerOf(e)'] = [[e \in Databases |-> OwnerOf(e)] EXCEPT ![d] = p]
      BY <3>3, <3>5
    <3> QED BY <3>1, <3>6, <3>8, <3>9 DEF Promise!Complete
  <2> QED BY <1>5, <2>7 DEF Promise!Next
<1>6. CASE d = NoDatabase
  <2>1. \A v \in Workers : CurrentOf(v)' = CurrentOf(v)
    BY <1>2, <1>6
  <2>2. \A e \in Databases : e # d
    BY <1>6, NullAssumption
  <2> QED BY <1>3, <1>4, <2>1, <2>2, UnseenStep
<1> QED BY <1>1, <1>5, <1>6

\* Everything else is bookkeeping.
LEMMA OtherIsUnseen ==
    ASSUME waitingList' = waitingList, task' = task, UNCHANGED dbVars,
           \A v \in Workers : \A s \in {"given", "started"} : phase'[v] = s <=> phase[v] = s
    PROVE  UNCHANGED Promise!vars
<1>1. \A e : IdsGiven(e)' = IdsGiven(e) /\ IdsWaiting(e)' = IdsWaiting(e)
  BY DEF IdsGiven, IdsWaiting
<1>2. \A e \in Databases : QueueOf(e)' = QueueOf(e)
  BY <1>1 DEF QueueOf
<1>3. \A v \in Workers : CurrentOf(v)' = CurrentOf(v)
  BY DEF CurrentOf
<1>4. \A e \in Databases : OwnerOf(e)' = OwnerOf(e)
  BY DEF OwnerOf, dbVars
<1> QED BY <1>2, <1>3, <1>4, UnseenStep

LEMMA OnWorkerIdleIsUnseen ==
    ASSUME Inv, NEW w \in Workers, OnWorkerIdle(w)
    PROVE  UNCHANGED Promise!vars
<1>1. phase[w] = "done" /\ UNCHANGED dbVars /\ TypeOK
  BY DEF OnWorkerIdle, Inv
<1>2. CASE /\ waitingList' = waitingList /\ task' = task
           /\ phase' = [phase EXCEPT ![w] = "free"]
  BY <1>1, <1>2, OtherIsUnseen DEF TypeOK
<1>3. CASE \E i \in 1..Len(waitingList) :
             Give(w, i, idleWorkers \cup {w}, busyWorkers \ {w}, ReleasedBy(w))
  BY <1>1, <1>3, GiveIsUnseen
<1>4. CASE UNCHANGED <<poolVars, threadVars, trying>>
  BY <1>1, <1>4, OtherIsUnseen DEF poolVars, threadVars
<1> QED BY <1>2, <1>3, <1>4 DEF OnWorkerIdle

\* Every step of the pool is a step of the executors of its databases, or
\* one that they do not see: what the comment of post promises holds for any
\* workers, databases and tasks, in whatever order the loops try the workers.
THEOREM KeepsPromise == Spec => ImplementsSerialExecutor
<1>1. Init => Promise!Init
  <2> SUFFICES ASSUME Init PROVE Promise!Init
    OBVIOUS
  <2>1. \A d \in Databases : QueueOf(d) = {} /\ OwnerOf(d) = NoWorker
    BY DEF Init, QueueOf, IdsGiven, IdsWaiting, OwnerOf
  <2>2. \A w \in Workers : CurrentOf(w) = NoDatabase
    BY DEF Init, CurrentOf
  <2> QED BY <2>1, <2>2 DEF Promise!Init
<1>2. Inv /\ [Next]_vars => [Promise!Next]_(Promise!vars)
  <2> SUFFICES ASSUME Inv, [Next]_vars PROVE Promise!Next \/ UNCHANGED Promise!vars
    OBVIOUS
  <2>1. ASSUME NEW d \in Databases, NEW c \in Changes, Post(d, c)
        PROVE  Promise!Next \/ UNCHANGED Promise!vars
    BY <2>1, PostIsSubmit
  <2>2. CASE Post(NoDatabase, "none")
    BY <2>2, PostIsSubmit DEF Changes
  <2>3. ASSUME NEW w \in Workers, TryGive(w) PROVE UNCHANGED Promise!vars
    <3>1. phase[w] = "free" /\ TypeOK
      BY <2>3 DEF TryGive, Inv, IdleIsFree
    <3> QED BY <2>3, <3>1, GiveIsUnseen DEF TryGive
  <2>4. ASSUME NEW w \in Workers, TrySkip(w) PROVE UNCHANGED Promise!vars
    BY <2>4, OtherIsUnseen DEF TrySkip, poolVars, threadVars
  <2>5. ASSUME NEW w \in Workers, Start(w) PROVE Promise!Next \/ UNCHANGED Promise!vars
    BY <2>5, StartIsExecute
  <2>6. ASSUME NEW w \in Workers, Finish(w) PROVE Promise!Next \/ UNCHANGED Promise!vars
    BY <2>6, FinishIsComplete
  <2>7. ASSUME NEW w \in Workers, OnWorkerIdle(w) PROVE UNCHANGED Promise!vars
    BY <2>7, OnWorkerIdleIsUnseen
  <2>8. CASE Quit
    BY <2>8, OtherIsUnseen DEF Quit, poolVars, threadVars
  <2>9. CASE UNCHANGED vars
    BY <2>9, OtherIsUnseen DEF vars, dbVars
  <2> QED
    BY <2>1, <2>2, <2>3, <2>4, <2>5, <2>6, <2>7, <2>8, <2>9 DEF Next
<1> QED
  BY <1>1, <1>2, Invariance, PTL DEF Spec, ImplementsSerialExecutor, Promise!Spec
=============================================================================
