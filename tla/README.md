# sqflite in TLA+

sqflite gives Dart and Flutter programs access to SQLite. A program sees a
*database object* and *transactions*; below them a plugin (Android, iOS/macOS)
or an isolate (ffi) owns the connections and runs the statements on threads of
its own. What is hard in it is not SQL but the traffic: several isolates may
share one native connection, calls are sent without awaiting the previous ones,
statements of a transaction must not mix with anybody else's, a hot restart
removes the Dart side while the native side goes on, and connections are opened,
closed and deleted while all this is under way.

The modules here model the Dart layer (`sqflite_common`) together with the
Android implementation (`sqflite_android`), from the thread pool up to
`openDatabase`, and the iOS/macOS implementation (`sqflite_darwin`), from the
statements of a connection up to the plugin. Paths in this file are relative to the repository; *Java* names
are those of `sqflite_android/android/src/main/java/com/tekartik/sqflite/`, *Dart*
names those of `sqflite_common/lib/src/`, *Darwin* files those of
`sqflite_darwin/darwin/sqflite_darwin/Sources/sqflite_darwin/`.

| File | Contents |
| --- | --- |
| `WorkerPool.tla` | the Android worker pool with its monitor and threads |
| `SerialExecutor.tla` | what the pool promises: one serial executor per database |
| `TransactionGate.tla` | transactions: Dart clients, native gate, SQLite |
| `SerialTransactions.tla` | what both gates promise: transactions that are executed one by one |
| `DatabaseFactory.tla` | open, close, delete: open helpers, plugin maps, pool life |
| `SqlConnection.tla` | what the Darwin headers declare of a connection and its result sets |
| `DarwinConnection.tla` | the connection: statements, their cache, result sets |
| `DarwinQueue.tla` | the serial queue of a connection: transactions and save points |
| `DarwinGate.tla` | transactions on iOS and macOS: the Dart clients of `TransactionGate`, the native gate |
| `DarwinPlugin.tla` | open, close, delete on iOS and macOS: the plugin's maps and blocks |
| `*Proofs.tla` | theorems and their proofs, one module for each module they are about |
| `TransactionOutcomeProofs.tla` | more theorems about `TransactionGate`, on top of `TransactionGateProofs` |
| `MC*.tla`, `*.cfg` | instances for TLC |
| `PROJECT.json` | components, runs, mutants, source map, findings, hazards, theorems |

## 1. Inventory

### Android worker pool (`DatabaseWorkerPool.java`, `DatabaseWorker.java`, `DatabaseTask.java`)

* State: `waitingList`, `idleWorkers`, `busyWorkers`, `onlyEligibleWorkers`
  (database id → the one worker that may run its tasks); per worker a
  `HandlerThread`, its handler and `lastTask`.
* Operations: `start`, `quit`, `post`, and `onWorkerIdle` called by the workers.
  All are `synchronized`; the threads run the tasks outside of the monitor.
* Interactions: the plugin posts; the tasks read `Database.transactionDepth`
  through a delegate, which decides whether the worker keeps the database.
* Hard: two workers and one database; a task search that skips over tasks;
  wakeups (who looks at the list when a database is released); the depth read
  on another thread; posting to a worker whose handler `quit` has removed.
* Correct when: tasks of a database are FIFO and never overlap, those of a
  transaction stay on one thread (Android binds transactions to threads), and no
  task waits while an idle worker could run it.

### Android database (`Database.java`, `operation/*`)

* State: the SQLite connection (in a transaction or not), the Java
  `SQLiteSession`, `transactionDepth`, `currentTransactionId`,
  `lastTransactionId`, `noTransactionOperationQueue`, the open cursors.
* Operations: `execute`, `insert`, `update`, `query`, `queryCursorNext`,
  `batch`, `wrapSqlOperationHandler` around all but `batch`, and
  `runQueuedOperations`.
* Hard: BEGIN, COMMIT and ROLLBACK that fail; SQLite leaving the transaction by
  itself; the order of queued and new calls; calls that bypass the gate.
* Correct when: nothing but the transaction's own statements runs inside it, the
  gate is closed exactly while a transaction of `transaction()` is open (it knows of none that is begun
  by hand), and what was queued runs.

### Android plugin (`SqflitePlugin.java`)

* State: `databaseMap`, `_singleInstancesByPath`, `databaseId`,
  `databaseWorkerPool`, under `databaseMapLocker` (not everywhere).
* Operations: open, close, delete, exists, options, debug, databases path, and
  the dispatch of statements to the pool.
* Hard: handlers that leave the locker between changing the map and posting;
  a pool that quits with the last database; open tasks that register the database
  only when they run.
* Correct when: an id that was returned finds an open connection, no connection is
  forgotten, and every call is answered.

### Dart database object and transactions (`database_mixin.dart`, `transaction.dart`, `batch.dart`)

* State: `_rawLock`, `id`, `txn`/`openTransaction`, `transactionId`, `isOpen`,
  `readOnly`.
* Operations: `transaction`, statements and batches in and outside of it, cursors,
  `doOpen` with its callbacks, `closeDatabase`.
* Hard: statements not awaited, which may arrive after the end of their transaction; failing
  ends of transactions; BEGIN sent by hand, as a statement; recovery after a hot restart; closing while calls wait for the lock; the downgrade that deletes.
* Correct when: a transaction is all or nothing and its result is reported
  truthfully, every call returns, and the object is usable afterwards.

### Dart factory and open helpers (`factory_mixin.dart`, `database.dart`)

* State: `databaseOpenHelpers` by path, a named reentrant lock per path, the
  databases path.
* Operations: `openDatabase`, `closeDatabase`, `deleteDatabase`,
  `databaseExists`, reading and writing the bytes of a database file.
* Hard: a failing open; a close that comes late or twice; opens from callbacks.
* Correct when: one open object per path (as a single instance), and the path is
  never left locked or bound to an object that is gone.

### Cursors (`cursor.dart`, `database_executor_iterate_ext.dart`, `SqfliteCursor.java`)

* State: the cursor id and page on the Dart side, the map of cursors on the other.
* Hard: a cursor that outlives its transaction; cancelling it.
* Correct when: rows arrive once and in order, and every cursor is closed.

### ffi implementation (`sqflite_common_ffi`: `sqflite_ffi_impl.dart`, `sqflite_ffi_handler.dart`, `isolate*.dart`)

* State: as the Android database (`_currentTransactionId`,
  `_noTransactionHandlers`), a lock per file, and an isolate with a port that
  several isolates share under a registered name.
* Hard: a second gate, with awaits in the middle; queued handlers run unawaited;
  automatic rollbacks are detected here, but not on Android; two isolates that
  register a port at once.

### Darwin connection and result sets (`SqfliteDarwinDatabase.m`, `SqfliteDarwinResultSet.m`)

* State: the SQLite connection, the cache of statement objects by SQL, the list of open
  result sets (not retained), `isInTransaction`; per statement object its handle, `inUse`;
  per result set its statement and whether it closes itself.
* Operations: open, close, queries and updates, `prepare`, binding, stepping, closing result
  sets, clearing and switching the cache, transactions and save points.
* Hard: statement objects shared by the cache and result sets, handles finalized below
  them, pointers to result sets that may be freed, flags set only on success.
* Correct when: every handle is finalized once, no two open result sets share one, a result
  set stands on rows of its own.

### Darwin database queue (`SqfliteDarwinDatabaseQueue.m`)

* State: the connection object and its serial dispatch queue; callers that wait.
* Operations: `inDatabase`, `inTransaction` and its variants, `inSavePoint`, `close`.
* Hard: results of BEGIN and COMMIT that nobody looks at; reopening what was closed;
  nested save points; what a block leaves to the next.
* Correct when: a block is all or nothing and does what it asks for, and its caller returns.

### Darwin database gate (`SqfliteDatabase.m`)

* State: as the Android database, with `inTransaction` in place of the depth.
* Operations: as the Android database; queued operations run in the block that ended the
  transaction.
* Hard: each call goes through a concurrent queue before it reaches the serial one; a flag
  and an id that are reset under different conditions.
* Correct when: as the Android database, whatever the order of the blocks.

### Darwin plugin (`SqflitePlugin.m`)

* State: `databaseMap`, `singleInstanceDatabaseMap` under `mapLock`, the last id; per database its gate.
* Operations: open, close, delete, exists, options, and the dispatch of statements.
* Hard: blocks that run long after their handler, on connections that are closed, reopened or
  whose path belongs to another database by then; operations that wait in the gate of a closed database.
* Correct when: the maps agree, what is in them is connected, nothing else stays open, a
  deleted file stays deleted.

### The rest

The ffi async and web implementations (message passing to implementations listed
above or to third-party packages), the SQL builder, the conversions of values and
arguments, the logger, the sandbox factory and the file system, the platform
interface and the method channel, tests, examples and support packages. They keep
no state that the components above share, except where `PROJECT.json` says so.

### How they interact

    application
       |  calls, futures
    factory (helper and lock per path)  ---- database object (_rawLock, txn)
       |  method channel: call -> answer, in order of sending
    plugin (databaseMap, singleInstancesByPath)
       |  post
    worker pool  ------------------------ transactionDepth
       |  runs tasks on threads                |
    native Database: gate, queue, cursors -- SQLite session and connection

On iOS and macOS the plugin gives blocks to a concurrent queue instead, from which each
takes its turn on the serial queue of its connection:

    plugin (databaseMap, singleInstanceDatabaseMap)
       |  dispatch_async: any order
    SqfliteDatabase: gate, queued operations, cursors
       |  inDatabase: one by one
    SqfliteDarwinDatabaseQueue (reopens a closed connection)
       |
    SqfliteDarwinDatabase: statements, cache, result sets -- SQLite

`PROJECT.json` lists under `hazards` what can go wrong here, each at its line, with
the properties that catch it or the reason why none does yet.
## 2. Modules and code

### WorkerPool

| Model | Code |
| --- | --- |
| `waitingList`, `idleWorkers`, `busyWorkers`, `onlyEligibleWorkers` | the fields of `DatabaseWorkerPoolImpl` |
| `trying` | the copy of `idleWorkers` a loop of `post` or `onWorkerIdle` runs over: the workers it has still to try, in any order (it is a `HashSet`). The monitor is free iff it is empty |
| `phase`, `task` | per worker: waiting for a message, message posted, in `runnable.run()`, about to call `onIdle`; the task, then `lastTask` |
| `transactionDepth` | `Database.transactionDepth`, which `DatabaseTask.isInTransaction` reads |
| `transactionWorker` | history only: the worker that ran the outermost BEGIN |
| `Post`, then `TryGive`/`TrySkip` per worker | `post` |
| `Start`, `Finish` | the looper takes the message; the runnable returns |
| `OnWorkerIdle`, then `TryGive`/`TrySkip` | `onWorkerIdle`: the worker itself first, then the other idle ones |
| `Quit` | `quit`: loopers drop the messages not taken yet |

A task is a database (or none) and what its statement does to the transaction
depth when it succeeds; any statement may fail. `SerialExecutor` is the comment of
`DatabaseWorkerPool.post` as a specification: per database the ids of the tasks that are
not finished, which are in the order of their posting; the first of them executes on one
worker, the owner of its transaction if there is one. `WorkerPool` refines it: the
unfinished tasks are the one at a worker and the waiting ones.

### TransactionGate

| Model | Code |
| --- | --- |
| a client, `pc`, `txnId` | a Dart `Database` object that holds its `_rawLock` for a call or a transaction; `SqfliteTransaction.transactionId` |
| `tasks` | the tasks of this database in the worker pool, run one by one in order: what `WorkerPool` establishes |
| `currentTransactionId`, `lastTransactionId`, `noTransactionOperationQueue`, `transactionDepth` | the fields of `Database.java` |
| `sessionOpen`, `sqliteOpen` | `SQLiteSession` has a transaction; SQLite is not in autocommit mode. They differ after SQLite rolled back by itself |
| `uncommitted`, `committed`, `lost` | what became of writes, told apart by client and transaction |
| `succeeded`, `failed` | the outcome `transaction()` reported |
| `CallWrite`, `CallBatch`, `BeginTransaction`, `TxnWrite`, `TxnBatch`, `TxnCloseCursor`, `EndTransaction` | the Dart calls; those in a transaction may be sent before the previous one is answered |
| `TxnCall` | the check of `txnSynchronized`: a transaction refuses calls when its end was *answered* (`closed` is set then), so a call may be sent after COMMIT or ROLLBACK: it is *late* |
| `ExecuteByHand` | BEGIN, COMMIT or ROLLBACK by `db.execute` or in a batch, or by `txn.execute`: `inTransaction` is set, a null id is not |
| `OnReply` | the future completes: `_txnTransaction`, `endTransaction` |
| `Restart`, `Reopen` | hot restart; `openDatabase` that finds the native database and sends a forced ROLLBACK |
| `RunBatch`, `RunFree`, `RunInTransaction`, `EnqueueOperation` | `onBatchCall` (not wrapped) and the branches of `wrapSqlOperationHandler` |
| `RunNextQueued`, `EndRunQueued` | `runQueuedOperations`, which is a task of its own |
| `ExecBegin`, `ExecEnd`, `ExecWrite`, `ExecBatch`, `ExecCancel` | `execute`, `insert`/`update`, `batch`, the cancel of a cursor, with their failures |
| `ExecBeginByHand`, `ExecEndInBatch` | `executeOrError` with `inTransaction` and no id: the depth and the session follow, the id of the gate does not |
| `begunByHand`, `late`, `byHand` | history: how the open transaction began; which clients made late calls; whether anything was sent by hand |

The constants `Calls` and `Faults` say what clients do and what may fail: BEGIN; a
write without effect; COMMIT alone (`SQLITE_BUSY`, a deferred constraint), which
leaves SQLite in the transaction although the session has left it; and an automatic
rollback (conflict algorithm ROLLBACK, disk full).

The documentation allows two things that strain the gate: a transaction may be begun by hand
(`sqlite_api.dart:591`, and a test of batches does so), and nothing makes an action await its calls. Then
the promise of `transaction()` does not hold: a late write is durable although its transaction was rolled back, a late
batch runs inside the transaction of another client, and everybody's statements run inside a
transaction begun by hand. `Excused(c)` names those clients: one that made a late call, and all of them once
somebody sent BEGIN, COMMIT or ROLLBACK by hand. `Isolated`, `Atomic` and `SuccessIsDurable` are claimed of the others, in the presence of these.

`SerialTransactions` is the promise of `transaction()` without gate, queue, pool and replies: one transaction is
open at a time; while it is, all writes are its own (`WriteInTransaction`) and nobody else's
(`Write`); they become durable together or are undone together (`Commit`, `Rollback`), and its client is told success only
of what is durable, failure only of what is not (`Succeed`, `Fail`). `TransactionGate` and `DarwinGate`
refine it by the same mapping, `DarwinGate` until a client restarts: `holder` is `currentTransactionId`, `lastId` is `lastTransactionId`, `pending`, `durable` and
`undone` are what became of the writes. Sending calls, queueing, answering and running what was queued are stutters. The refinement is claimed until
somebody makes a late call or sends BEGIN, COMMIT or ROLLBACK by hand: a write with the id of a transaction that is over
is none of the steps of the promise. A batch of several statements is one write:
its statements have the same client and id, and nothing runs between them.

### DatabaseFactory

| Model | Code |
| --- | --- |
| a user | one path in one isolate: isolates share nothing on the Dart side |
| `busy` | the operation that holds the lock of the path |
| `helper`, `helperOpen` | `databaseOpenHelpers[path]`, `SqfliteDatabaseOpenHelper.isOpen` |
| a handle: `owner`, `single`, `phase`, `nativeId`, `closes` | a helper and the one database object it opens |
| `databaseMap`, `singleInstancesByPath`, `lastDatabaseId`, `instance` | the maps of the plugin, and whether each native database is open |
| `handling` | a handler between the end of its critical section and its `post` |
| `pool`, `poolStarted` | the messages of the single-thread pool (the default `THREAD_COUNT` is 1); `databaseWorkerPool != null` |
| `StartOpen`, `OnOpened`, `OnConfigured`, `OnCallbackError`, `OnOpenFailed` | `openDatabase` and `doOpen`, with an error of the native open or of a callback |
| `StartClose`, `OnClosed`, `StartDelete`, `OnDeleted` | `closeDatabase`, again or for the first time; `deleteDatabase` |
| `PluginOpen`, `PluginClose`, `PluginDelete`, `PostTask` | the handlers of the plugin |
| `ToBeClosed`, `Wanted` | in the properties: a native database whose close is posted, and one that an object has or is about to receive |
| `OpenTask`, `CloseTask` | the tasks; the last close quits the pool and drops its messages |

### SqlConnection and DarwinConnection

| Model | Code |
| --- | --- |
| `isOpen`, `shouldCacheStatements`, `cachedStatements`, `openResultSets` | the fields of `SqfliteDarwinDatabase` |
| `statementOf`, `shouldAutoClose` | the fields of the open result sets |
| `pointer`, `inUse` | statement objects whose `_statement` is not nil, and whose `_inUse` is set |
| `handles`, `row` | SQLite: `sqlite3_stmt`s not finalized, and the row each stands on |
| `Take` in `ExecuteQuery`, `Prepare` | `executeQuery:...shouldBind:`: cached or new statement, result set, list |
| `MisbindCached`, `Bind` | `bindStatement` that fails for a cached statement; `bindWithArray` |
| `ExecuteUpdate`, `NextRow`, `NoMoreRows`, `CloseResultSet`, `CloseOpenResultSets`, `ClearCachedStatements`, `SetShouldCacheStatements`, `Open`, `Close` | the methods of these names; `NoMoreRows` is `internalStepWithError` that finds no row |
| `Detach` | `resultSetDidClose` for a set that stays open: how `SqfliteDatabase` keeps a cursor |
| `Free` | reference counting: `dealloc` of a statement object finalizes its handle |

`Calls` says which of the less usual things the callers do. `SqlConnection` is the interface the
headers declare, without statements, cache and handles; `DarwinConnection` refines it: a
result set can give rows as long as its statement object has a handle.

### DarwinQueue

| Model | Code |
| --- | --- |
| `queue`, `received` | the callers that wait in `dispatch_sync`, in order |
| `running`, `frames`, `saved` | the block that runs, its kind, and the `inSavePoint` calls it is in |
| `isOpen`, `isInTransaction` | the fields of the connection |
| `levels` | SQLite: the open transaction, one level for BEGIN and one for each save point, with the writes made in each; the name of the first tells BEGIN of `beginTransaction` from BEGIN by `executeUpdate` (`ByHand`) |
| `durable`, `lost`, `undone`, `ended`, `hurt` | history of the block: what became of its writes, what it asked for, and whether SQLite let it down without the block being told, or the block ended by hand what was not its own |
| `StartInDatabase`, `StartInTransaction`, `StartInSavePoint`, `Close` | the part of `inDatabase`, `beginTransaction:withBlock:`, `inSavePoint`, `close` before the block |
| `Write`, `StartSavePoint`, `EndSavePoint` | what the block does on the connection |
| `BeginByHand`, `EndByHand` | `executeUpdate` of BEGIN, COMMIT or ROLLBACK: how `SqfliteDatabase` runs every transaction (`SqfliteDatabase.m:155-160`), over several plain blocks |
| `EndInDatabase`, `EndInTransaction`, `EndSavePoint` | the part after it |

### DarwinGate

The Dart clients are those of `TransactionGate`, by `INSTANCE`, with `inTransaction` for the
depth and the session. Native: `RunBlock`, `EnqueueOperation` are the branches of
`wrapSqlOperationHandler`; `RunNextQueued` is one turn of `dbRunQueuedOperations`, which runs within the
block that ended the transaction (`draining`); `ExecBegin`, `ExecEnd` are `dbExecute` and
`dbExecuteOrError`, with `ExecBeginByHand` and `ExecEndInBatch` as on Android. Any element of `tasks` may run next. `AwaitCalls` says whether actions of
transactions await each of their calls, as the documentation asks for.

### DarwinPlugin

| Model | Code |
| --- | --- |
| `database`, `databaseMap`, `singleInstanceDatabaseMap` | path and kind per id, and the maps of `SqflitePlugin` |
| `blocks` | what was given to `dispatch_async` and did not run: prepare, statement, close, delete, delete the file |
| `held`, `waiting` | ids whose gate a transaction holds; the statements that wait there (`noTransactionOperationQueue` of each database) |
| `connections`, `files` | ids whose connection is open; paths that exist |
| `call`, `deleted` | what each caller waits for; history: paths deleted and not opened since |
| `OpenDatabase`, `Statement`, `CloseDatabase`, `DeleteDatabase` | the handlers |
| `RunInDatabase`, `RunClose`, `RunDelete`, `RunDeleteFile` | the blocks; `RunInDatabase` reopens a connection as `database` of the queue does |
| `RunStatement`, `EndTransaction` | `wrapSqlOperationHandler`: the statement runs, and may be the BEGIN of a transaction; or it is enqueued, unanswered; or it ends the transaction, and what waits runs until one of it begins the next. `DarwinGate` has whose statement does what |
| `ReleaseConnections` | reference counting: a queue nobody has any more closes its connection. An operation that waits has a handler that has the database, which has the operation: it keeps the connection |

A database object that `openDatabase` finds is answered at once and changes nothing: no action.

Definitions whose comment begins with *Mutant* are not part of a specification:
each is a plausible mistake in the definition that follows, and `PROJECT.json` names
the property that TLC finds violated when it takes that definition's place.

## 3. What the runs show

Passing runs:

| Run | Instance | Shows |
| --- | --- | --- |
| `WorkerPoolPromise` | 2 workers, 2 databases, 4 tasks, `quit` at any time, fairness | `NoOverlap`, `FifoPerDatabase`, `TransactionOnOneWorker`, `NoIdleWorkerLeftBehind` and types, for any order of the loops; `ImplementsSerialExecutor` and `EveryTaskRuns` |
| `GateTransactions` | 2 clients of 4 calls; writes, transactions, batches in them, late calls; failing BEGIN; fairness | transactions are `Isolated` and `Atomic`, the gate is `HeldByLiveTransaction`, `ImplementsSerialTransactions` until the first late call, and `EveryCallAnswered` |
| `GateHostile` | 2 clients of 3 calls, one restart each; every call, late ones and transactions by hand included; failing writes and COMMIT, automatic rollback | `GateMatchesSqlite` and `SuccessIsDurable` even so, and types |
| `FactoryPaths` | one isolate, 2 paths, 3 handles, single instances and others, failing opens, one close each | `OneInstance`, `UsableHandles` (no path stays bound to an object that failed or was closed), `NoSharedConnection` and types |
| `FactoryOnePath` | one path, 3 handles, two closes each, delete, failing opens, fairness | `NoLeakedConnection` (none stays open, in the map even, that nobody has), `DeleteClosesConnections`, `EveryOperationEnds` |
| `DarwinConnectionPromise` | 2 queries, 3 result sets, 4 statement objects, 2 rows; cache and prepared statements | `NoDanglingStatement`, `ExclusiveStatements`, `ImplementsConnection` |
| `DarwinConnectionHostile` | 2 queries, 2 result sets, 4 statement objects; also rebinding, binds that fail, cursors | `NoLeakedStatement`, `ListedSetsAreOpen` even so |
| `DarwinQueue` | 3 blocks, 2 save points in each, transactions of the queue and by hand, every fault, fairness | `FlagHidesNothing`, `AtomicBlocks`, `SavePointsUndone`, `EveryCallReturns` |
| `DarwinGate` | 2 clients of 3 calls, one restart; writes, transactions, cursors, BEGIN, COMMIT and ROLLBACK by hand; failing BEGIN and COMMIT; blocks in any order; fairness | `OpenGateMeansNoTransaction` (but one begun by hand), `EveryCallAnswered`; until somebody acts by hand `Isolated` and `VerdictsHold`, and until the restart `ImplementsSerialTransactions` |
| `DarwinPlugin` | 3 callers, one path, 2 databases, statements that wait in the gate, reopening may fail; fairness | `OneInstance`, `UsableHandles`, `NoLeakedConnection`, `EveryCallAnswered` |

Runs that find a violation, each of something the repository says:

| Run | Property | What the code does |
| --- | --- | --- |
| `GateCursorWaits` | `NoSelfBlocking` | closing a cursor in a transaction sends its cancel without the transaction's id; it is queued behind the transaction that awaits it |
| `DarwinDeleteUndone` | `DeleteIsFinal` | the block that prepares a connection runs after the close and the delete of its database, opens the connection again and creates the file that was deleted |

The texts they contradict are quoted under `findings` in `PROJECT.json`.

Where a property holds only for some of the constants, the runs choose those, and TLC finds it
violated with others. The reader can see it by changing a configuration:

| Module, property | Constants | What the code does |
| --- | --- | --- |
| `TransactionGate`, `Isolated` | `Calls = {"batch", "transaction"}`, no fault, 3 calls | `Database.batch` does not go through `wrapSqlOperationHandler`: a batch of one isolate runs inside the open transaction of another (iOS and macOS too) |
| `TransactionGate`, `Atomic` | `Calls = {"transaction", "txnBatch"}`, `Faults = {"conflict"}`, 4 calls | after an automatic rollback the rest of the transaction runs in autocommit mode |
| `TransactionGate`, `UsableAtRest` | `Calls = {"write", "transaction"}`, `Faults = {"conflict"}`, 3 calls | COMMIT and ROLLBACK both fail then, the id stays set, later calls are queued for ever |
| the same with `FALSE` for `Excused`: `Isolated`, `Atomic`, `SuccessIsDurable` | `Calls = {"transaction", "txnBatch", "late"}`, no fault, 3 calls | a batch sent while COMMIT is under way runs in the next transaction; a write sent while ROLLBACK is under way is durable |
| the same: `Isolated` | `Calls = {"write", "manual"}`, no fault, 3 calls | everybody's statements run inside a transaction that was begun by hand, which nobody has an id of |
| `DatabaseFactory`, `OneInstance` | one user, `MaxHandles = 4`, `MaxCloses = 2` | a second `close()` of an object removes the helper of the object opened since |
| `DatabaseFactory`, `EveryOperationEnds` | two users on two paths, `MaxHandles = 2`, one close | closing the last *registered* database quits the pool with the tasks another path has posted |
| `DarwinConnection`, `NoDanglingStatement` | `"misbind"` or `"detach"` in `Calls` | a failing bind, or `close`, finalizes the handle below a statement object that keeps it |
| `DarwinConnection`, `ExclusiveStatements` | `Calls = {"cache", "prepare", "bind"}` | binding marks the statement as not in use, and the cache gives it away |
| `DarwinGate`, `VerdictsHold` | `AwaitCalls = FALSE` | a COMMIT overtakes the writes that were sent before it |

### Bounds, and why they are enough

* `WorkerPool`: two workers and two databases are the least with which a database that one
  worker releases is served by another, and a worker searches past tasks it may not run; four
  tasks let two of each database wait while others run. `MaxTasks` only bounds `Post`. What more
  workers could add, a wakeup lost among them, the theorems exclude for any number.
* `TransactionGate`: two clients are the least that can disturb each other, and what
  a third could do, be in the queue behind another, is what more calls of the second
  do. Three calls are BEGIN, one statement, end; the fourth is a second statement, so
  that a failure has a predecessor and a successor in its transaction, or a call that
  follows the transaction. `MaxCalls` keeps one call to end a transaction, so the
  bound never leaves one open. One restart is the least that leaves calls of a former
  life in the pool. A late call is one of those calls. A batch that is sent by hand has one BEGIN, COMMIT or ROLLBACK in it
  and nothing else; a cursor that is closed late, and BEGIN by hand on a transaction whose end is under way, are left out.
  `FewRestarts` (`MCTransactionGate`) lets one client restart, not both, once something was sent by hand. `GateTransactions` has no faults but
  that of BEGIN; failing writes and COMMIT are in `GateHostile`, and in the theorems.
* `DatabaseFactory`: three handles let a path be opened while a former object of it
  and one of another path exist; two closes are the least for a close that is too many.
* `DarwinConnection`: two queries are the least for a statement cached under the wrong
  one; with three result sets two share a query while the third uses another; a statement object more
  than result sets lets one be cached and idle. Objects nobody has are used again.
* `DarwinQueue`: three blocks: one that leaves something behind, the one that finds it, and one after
  a `close`; two save points nest. Blocks can be of any kind, so no more callers are needed.
* `DarwinGate`: as `TransactionGate`; one restart of one client bounds the size, and `NoRestartByHand` (`MCDarwinGate`) allows none
  once something was sent by hand (the theorem about the open gate has no such bound). Batches are not
  among its `Calls`, since `Isolated` does not hold with them when a client restarts; that batches of transactions stay in them
  otherwise is proved.
* `DarwinPlugin`: two databases let one be opened while blocks and waiting operations of a former one on its path
  remain; of three callers two can have statements in the gate while the third ends the transaction, closes or deletes. `MaxDatabases` only bounds
  `OpenDatabase`. One path suffices: the maps, blocks and files of two paths do not meet.
* Symmetry is used for safety properties only (`ImplementsConnection` is one: its specification states no fairness), over sets whose elements are only
  compared for equality. Deadlock is not checked: a program that has made all its calls
  stops, which is no error; that it stops with nothing left to do is what the liveness
  properties and `UsableAtRest` say.

### Fairness

* `WorkerPool`: looper threads take and finish their messages, and a thread waiting for
  the monitor enters it. Java monitors are not fair, but at most `MaxTasks` calls of `post`
  and one of `quit` compete with the workers, so no one can be overtaken for ever. No
  fairness is assumed of `Post` and `Quit`.
* `TransactionGate`: the pool runs its tasks (which `WorkerPool` shows), the event loop
  delivers answers, and the action of a transaction returns or throws. The last is an
  assumption on the application: other calls wait for a transaction that does not end,
  as the documentation warns.
* `DatabaseFactory`: threads run what is posted, a handler that has left the locker reaches
  its `post`, answers are delivered, callbacks of an open terminate.
* `DarwinQueue`: the dispatch queue runs its blocks, and the code of a block ends: it closes the
  save points it is in and returns. Writes and new save points need not happen; their numbers do not
  delay the end for ever because the end stays possible.
* `DarwinGate`, `DarwinPlugin`: the system runs every block it was given (in `DarwinPlugin` weak fairness
  for the block of each caller, who has one at a time, and for the one that prepares each database); answers are delivered, actions of transactions end. `EveryCallAnswered` of
  `DarwinGate` excepts a gate that stays closed because SQLite refused COMMIT or the
  client is gone, that of `DarwinPlugin` an operation that waits in a gate that stays held: nothing obliges the isolate that holds
  it to end its transaction, which it cannot when the database is closed.
* Everywhere: nobody has to make a new call.
## 4. What is proved

The theorems hold for every value of the constants: any number of workers, clients,
databases, tasks, calls and restarts. They assume what the modules' `ASSUME`s say of the
constants, and nothing else unless a theorem states it.

### WorkerPoolProofs

`TypeCorrect`, `TasksDoNotOverlap`, `TasksRunInOrder`, `NoLostWakeup` and
`TransactionStaysOnWorker` follow from `Invariance`, that `Inv` is invariant. None of the
properties is inductive by itself: that a task given to a worker meets no other worker with
a task of its database depends on what `onlyEligibleWorkers` says, that it is the oldest on the
order of the list, and that no idle worker is left behind on which workers the loop has tried.
`Inv` is the conjunction of

* `IdleIsFree`: the idle workers are those whose thread has nothing to do, and loops try
  only those;
* `OrderedByPost`: the waiting list is ordered by id, and no id is ahead of the counter;
* `HolderIsEligible`: a worker that holds a task of a database is the one the map names, so two
  holders are the same worker (`NoOverlap`);
* `TransactionPinned`: while a transaction is open the map names the worker that began it,
  which is why a released database is never one in transaction;
* `FifoPerDatabase`, `NoIdleWorkerLeftBehind` and the types.

The lemmas follow the actions. `RemoveAtProperties` says what is left of the list when a task is
taken out of it, `GiveKeepsOrder` that giving the first candidate keeps the order and the
eligibility, whichever of `TryGive` and `OnWorkerIdle` does it, and `GiveKeepsOthersIdle` that
giving a task to one worker creates no candidate for the others. The last is the
heart of `NoLostWakeup`: eligibility only grows when a database is released, and the loop that
follows tries every worker that was idle then.

`KeepsPromise` is the refinement of `SerialExecutor` on top of `Inv`. `Post`, `Start` and `Finish` map to
`Submit`, `Execute` and `Complete`; moving a task from the list to a worker, trying the others, `onIdle` and
`quit` map to stutters (`GiveIsUnseen`, `OtherIsUnseen`). That the task which finishes is the *first* of its
database is `FifoPerDatabase`, that no other worker has one is `HolderIsEligible`, and that it runs on the owner
is `TransactionPinned`: without the invariant the step is not one of the executor.

### TransactionGateProofs

* `GateIsFaithful`: whatever fails, restarts, comes late or bypasses the gate, an open gate means that
  neither SQLite nor its session is in a transaction but one begun by hand, and `transactionDepth` knows of both kinds. The
  invariant is `Inv`, which adds the types, and of the calls under way that BEGIN carries no id
  and that only a ROLLBACK is forced. This is needed since a BEGIN that could pass a
  closed gate would be counted twice.
* `GateIsolates`: if no client sends a batch (`NoBatches`), uncommitted writes are those
  of the transaction the gate is held for, even with restarts, every fault and late calls, until somebody acts by hand
  (`StrictlyIsolated`: no client is excused). `IsolatedInv` adds
  that nothing is uncommitted in autocommit mode, that no task is a batch, and that no BEGIN by hand is on its way (`Quiet`).

The lemmas split a step into what the native side executes (`ExecKeepsGate`,
`ExecKeepsIsolation`), which tasks are left (`TaskListKept`), and the Dart steps, which only add
calls of a known form.

### TransactionOutcomeProofs

What a client can rely on that was told the outcome of its transaction.

* `SuccessLasts`: whatever fails, whoever restarts and whatever late calls others make, a transaction that was reported as
  committed to a client without late calls has no write that was lost or is uncommitted, until somebody acts by hand. It has no hypotheses:
  the invariant is `Inv /\ (~byHand => OutcomeInv)`. The property itself says nothing of what is on its way, and everything
  hangs on that: a statement of the transaction that is still in the pool after its COMMIT would be executed
  again, in the next transaction or in none. `OutcomeInv` therefore follows the calls (`InFlight`: who waits for
  what, and at most one answer; `EndIsLast`: COMMIT is the last call of its transaction in the pool if the client is not late, which is all the code gives), the ids
  (`TxnIds`, `Known`, `Fresh`: none is used before it was given; `NotQueued`: none of the transaction the gate is held for waits
  behind the gate) and the end (`Over`: nothing is left of a transaction whose COMMIT was answered).
* `BatchesAreIsolated`: `Isolated` with batches inside transactions, which `GateIsolates` has to exclude: native
  code runs every batch ungated, so one has to know whose id it carries. It assumes `NoLooseBatch` (none outside of a
  transaction) and `NoRestarts`, and holds as long as no call is late (`late = {}`): a late batch of one client spoils the transaction of another. `OwnInv` says that each id belongs to one client and that calls with an id are those
  of the transaction the gate is held for (`OwnIds`), and that nothing is left of a transaction whose
  end was answered, whether it succeeded or not (`EndedIsOver`).
* `TransactionsAreAtomic`: the writes of a transaction are durable together or lost together, and none is
  durable when failure was reported. It assumes `NoRestarts` and `NoAutomaticRollback`, and no late calls, as the next two do. `AtomicInv` adds to `OwnInv` where the writes of a
  transaction are (`OfTransactions`) and that those of one that failed are out of reach of every COMMIT (`FailedIsOver`).
* `GateIsHeldByClient`: the gate is never closed for a transaction that nobody can end, if also no COMMIT
  fails (`NoFailedCommit`); the invariant is `HeldInv`.

* `GateIsSerial`: the refinement of `SerialTransactions`, under the hypotheses of the two theorems about isolation and
  atomicity, until the first late call or the first BEGIN, COMMIT or ROLLBACK by hand. `SerialInv` is `AtomicInv` with `BatchesHaveTransaction`, `Isolated`, and `Owned`: uncommitted writes and
  verdicts of failure belong to the client that has the id. The steps rest on two statements about the native
  side: `RunTaskDoes`, that a task either runs one call (`Ran`) or none (`Unrun`), and `OnReplyIsSerial`. Every run of a
  call is then one step of the abstract transactions or a stutter (`RanIsSerial`); that COMMIT maps to `Commit` needs that nobody was told
  an outcome of the transaction before, which is `EndedIsOver`, and that a write maps to `WriteInTransaction` needs `OwnIds` and `Owned`.
* `GateIsTyped`: the types with the bound on ids that `Typed` leaves out, whatever fails or restarts. An id is given when a BEGIN runs,
  so the BEGINs that wait in the pool and behind the gate and the ids that were given are together not more than the
  calls that were made (`Counted`); that is inductive, as a task moves from one list to the other without being
  copied (`BeginsAppended`, `BeginsRemoved`). It assumes that there are finitely many clients, or there would be no bound.

TLC finds a violation when one of these assumptions is dropped: the ROLLBACK that a restarted client forces may end
the transaction of another one, after an automatic rollback the rest of a transaction is
committed statement by statement, and a COMMIT that fails leaves the gate closed though its client is done. Section 3 has what late
calls and transactions by hand do.

### DatabaseFactoryProofs

What is in flight carries all of it: `InFlight` says that a user has one call at most, which is a task posted or about to
be, or an answer not delivered. With the types of tasks and of handles (`Typed`) it is inductive, and
`TypeCorrect` follows. `FactoryAssumption` asks for one user at least.

* `OneInstanceOpen` assumes `ClosedOnce`: each object is closed once at most, and no path deleted. `Helped` says that a
  single instance which is opening, open or closing is the open helper of its path, hence the only one. A second
  close, or a delete, removes the helper of another object.
* `ConnectionsOfHandles` (`UsableHandles` and `NoSharedConnection`) assumes `ClosedOnce` and `OneUserPerPath`: one isolate. `Bound` says
  that a path is bound to an object that is opening, open or closing: a failing open and the end of a close unbind it in the step in which the object is done. `Connections` says that what the plugin's maps
  have is open and where it belongs (`Registered`), that tasks are for databases the maps do not have (`AwayFromMaps`:
  so an open that is late cannot be for a database in use), and that each handle, also one
  whose answer is on its way, has a database of its own (`OwnConnection`, `OpenedForOne`).
* `ConnectionsAreKept` (`NoLeakedConnection`) and `DeleteCloses` (`DeleteClosesConnections`) assume `OneUser`: one
  path in one isolate, closed and deleted at will. `Tidy` says that an open database is in the map or about to be closed (`Kept`),
  that the pool is there for it (`PoolForDatabases`), and that the map of the paths names the single instance
  (`MapsOfPath`, `NoSingleLeft`). `Claimed` says that what is in the map is wanted: an object has it or an answer brings it. With a second path the last close quits the pool and drops the tasks of that path (section 3).

### DarwinConnectionProofs

`TypeCorrect`, `NothingLeaks` and `ListNamesOpenSets` assume nothing of the callers. Their invariant `Inv`
says that handles are held by statement objects that can be reached, that the list names open sets, and
that nothing is left of a closed connection. The first is what needs an induction: an object leaves the cache or a
result set by six different operations, and each must free it exactly when the other does not have it.

`NothingDangles`, `StatementsAreExclusive` and `Refinement` assume `CarefulCallers`: no failing bind of a
cached statement, no result set taken off the list, no rebinding while statements are cached (section 3
shows what happens otherwise). `CarefulInv` adds that objects with a handle are those SQLite knows, that the cache
holds no other, and that those of open result sets are in use, which is why the cache does not give
them away. `CloseSetsIsClosing` and `TakeIsQuery` map the two compound operations to the steps of
`SqlConnection`; every other action maps to the one of its name or to a stutter.

### DarwinQueueProofs

* `FlagIsHonest`: `FlagHidesNothing` is inductive with the types. It speaks of transactions that `beginTransaction` opened; of one that
  `executeUpdate` opened the flag knows nothing (section 5). The name of the first level changes only
  when the levels start or end (`SameStart`, kept by each operation on levels), and it is
  that of BEGIN only if BEGIN started them and set the flag.
* `BlocksAreAtomic` and `UndoneIsNotDurable`: whatever fails, a block is undone as a whole or not at all, as it asked for, and what was
  written in a save point that was rolled back is never durable, unless SQLite let the block down without its being told, or it ended by hand what was not its own (`~hurt`). Neither says where the writes are while the block
  runs; `BlockInv` does, for as long as SQLite has not rolled back by itself or refused one of the statements of the block:
  the open save points are the last levels, one each, in their order
  (`Nested`); the writes of a level are older than the save points above it and not older than its own (`Separate`), so releasing
  one merges two neighbours and rolling one back drops exactly what is younger; and what was undone is in no level (`Undone`).

### DarwinGateProofs

* `OpenGateIsHonest`: for blocks in any order, awaited calls or not, late calls, batches, BEGIN by hand and all faults: an open gate means no
  transaction but one begun by hand. `HonestInv` adds that a BEGIN of `transaction()` carries no id, and that queued operations are run only while the gate
  is open: a BEGIN among them is the last.
* The other theorems of this module hold until somebody sends BEGIN, COMMIT or ROLLBACK by hand: their invariants are of the form
  `byHand \/ I`, and a step of `PlainNext` is one in which nobody does. `Inv` is what they share: the types, that an open gate means no
  transaction at all (`GateIsHonest`), `DrainsOpen`.
* `GateIsolates`: under `NoBatches`, as on Android, with `IsolatedInv`.
* `VerdictsAreTrue`: what `transaction()` reports is what happens, for clients that await their calls (`AwaitCalls`) and without
  automatic rollbacks. Android needs no awaiting, since its pool keeps the order of calls; here the blocks may run in any order, and
  what replaces the order is that a client has one call on its way (`Alone`). `SuccessInv` proves the half about success
  in spite of restarts, `VerdictInv` the other half, which is claimed only while nobody restarted.
* `BatchesAreIsolated`: `Isolated` with batches inside transactions, for clients that await their calls, under the
  hypotheses of the theorem about Android, thus also when SQLite rolls back by itself. `HolderInv` says that an id belongs to one client and that
  pending calls with an id are those of the client that has the current one (`OwnIds`), as on Android, but it
  rests on `Alone`; `BatchInv` adds that pending batches have an id (`BatchesHaveTransaction`). After an automatic rollback the
  writes of a transaction are durable one by one, so they are not uncommitted and `Isolated` says nothing of them.
* `GateIsSerial`: the refinement of `SerialTransactions`, with `AwaitCalls`, `NoAutomaticRollback` and `NoLooseBatch`. Restarts
  are no hypothesis: every step that leaves all clients in their first life is a step of the abstract transactions (an
  `[][...]_vars` that a restart ends), so the invariant is `SerialInv` as long as nobody restarted. `VerdictInv` is `HolderInv` with where the writes of a transaction are (`OfTransactions`) and what is out of reach of
  one that failed (`FailedIsOver`); `SerialInv` joins it with `BatchInv`, and adds that a verdict of failure is of the client
  that has the id, if anybody has (`FailuresOwned`). The induction does not follow the order of the blocks: `RanFor` says that a
  call with an id, whenever its turn comes, is of the client that has the current one, which was told nothing yet.

### DarwinPluginProofs

`MapsAgree`, `RegisteredAreConnected` and `ConnectionsAreReleased` hold together (`Inv`). What they rest on is
`ClosedForGood`: a block that closes belongs to a database that left the map, and ids are never
given again; so a late block cannot take the connection of a registered database. A connection is kept by the map, by a block or
by an operation that waits in the gate; the last of those that goes closes it, and `StatementRuns` says that a statement, though it may end a transaction and run what waited for it,
touches nothing that waits for another database.

### Model-checked only, and what hypotheses are for

* Liveness (`EveryTaskRuns`, `EveryCallAnswered`, `EveryOperationEnds`, `EveryCallReturns`) is out of the prover's reach.
* The violations of section 3, which are counterexamples.
* Nothing else. Conversely `TypeOK` of `DarwinConnection` and `DarwinQueue` is proved (`TypeCorrect`) and in no run.
* Under the hypotheses above a property is proved for every instance; what happens outside of them is known for small
  instances only, where TLC finds each hypothesis of the theorems about `TransactionGate`'s outcomes, `DatabaseFactory` and the
  verdicts of `DarwinGate` needed, and each of both `GateIsSerial`: the refinement fails when a statement makes SQLite
  roll back, a batch is sent outside of a transaction, on Android when a client restarts, or on iOS and macOS when a call is not awaited. `Isolated` fails on iOS and macOS when
  a transaction has batches and a client restarts or does not await. What happens after a late call, or after somebody acted by hand, is excepted from
  the theorems about isolation and outcomes (not from those about the open gate), as the code promises nothing then.

## 5. What is not modelled, and why

* Rows, values, SQL text, cursor pages and conversions: data no property of the present modules
  tells apart. Queries are not actions: they change no state of the gate, and pass it as
  writes do.
* Nested transactions and savepoints: a transaction object inside another takes no step on the native
  side; `ROLLBACK TO` is taken for the end of the transaction (a hazard with no property yet).
* `close()` while calls of the same object wait for its lock, and the ROLLBACK it forces; options that
  change the number of threads; two isolates that open *one* path. In the last case
  `DeleteClosesConnections` does not hold (delete only sees a connection whose open task has run), and
  neither does `UsableAtRest` of `TransactionGate` after a restart that overtakes a BEGIN: see the hazards
  at `SqflitePlugin.java:499` and `:367`.
* WAL, read-only databases and exclusive transactions: they change what SQLite allows other
  connections to do, and a single connection is modelled.
* On iOS and macOS: encryption keys, custom SQL functions, checkpoints, `interrupt`, read-only opens;
  binding of values and columns of rows; an error of a step, which the plugin takes for the end of
  the rows (`SqfliteDatabase.m:329`): it ends the rows of `DarwinConnection`, and no property says more. Blocks that call their own queue,
  which debug builds assert against.
* The statement cache of `DarwinConnection` is a part of the vendored library that the plugin never switches on; what it does wrong
  when a bound statement is finalized or bound again is in the table of section 3, and no hazard of the plugin.
* ffi, web, the port server and the versioned open: planned below, or left out with the
  reason given in `PROJECT.json`.
* Several worker threads in `DatabaseFactory`: the default is one. The plugin's use of a larger pool would be
  the composition of `DatabaseFactory` with `WorkerPool`.

What the models show and no property forbids, since the code does it and the repository promises nothing else:

* `isInTransaction` of the connection is NO in every transaction of the plugin, which are begun by `executeUpdate`
  (`SqfliteDatabase.m:155-160`); its header says "Identify whether currently in a transaction or not"
  (`SqfliteDarwinDatabase.h:794`). The plugin does not use it, and has the flag `inTransaction` of its own.
* A database of iOS and macOS that is closed in the middle of a transaction keeps the gate held. A statement that comes late opens the connection again
  and waits in that gate for ever: its caller gets no answer, and the connection is never released. `NoLeakedConnection` and `EveryCallAnswered` of
  `DarwinPlugin` name the case.
* On Android `transactionDepth` is decreased by an end that succeeds only. A transaction begun by hand that SQLite rolls back by itself leaves it
  at 1, and every transaction after it leaves it there: the database stays with one worker, and a hot restart sends a ROLLBACK that fails.
* A transaction begun by hand is anybody's: the statements of all clients run in it, and any client can end it.

## 6. Plan

Done: the pool, the gate and the life of connections on Android; the connection, the queue, the gate and the
plugin of iOS and macOS. Next, in this order:

1. `FfiGate`: `handleTransactionId`, the queued handlers and their cancellation, the automatic rollback it
   detects; the properties of `TransactionGate` on it, and `SerialTransactions`, which the other two gates
   implement, as what it is compared with.
2. `VersionedOpen`: `doOpen` with `onConfigure`, `onCreate`, `onUpgrade`, `onDowngrade` and the downgrade
   that deletes, each of which may throw; the version on disk as against what the callbacks have done; re-entrant
   opens from a callback.
3. `DatabaseLife`: `close()` against waiting calls and the forced ROLLBACK, composed of the Dart side of
   `TransactionGate` and the plugin side of `DatabaseFactory` (and `DarwinGate` with `DarwinPlugin`, which has of the gate only that it is held and
   who waits); options that change the thread count; two isolates on one path.
4. `Cursors`: paging, cancelling and the cursor that outlives its transaction.
5. `SharedIsolate`: the port server of ffi.

Runs: one per module and question as above; questions that share an instance are asked in one
run, so that new modules replace instances that are subsumed.

Proofs: every safety property that a run checks is proved, and every refinement. What is left comes with the new
modules: that the ffi gate refines `SerialTransactions`, the version on disk of `VersionedOpen`. Of the present ones only liveness is left, which is out
of the prover's reach.
