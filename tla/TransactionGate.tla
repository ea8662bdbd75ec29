-------------------------- MODULE TransactionGate --------------------------
(***************************************************************************)
(* Transactions on Android: the Dart database object of each client        *)
(* (sqflite_common, database_mixin.dart) and the native Database they      *)
(* share (sqflite_android, Database.java).                                 *)
(*                                                                         *)
(* A client is one Dart `Database' object: the isolates and engines of an  *)
(* application that open a path as a single instance get objects of their  *)
(* own for one native database.  The _rawLock of the object serializes     *)
(* its top-level calls, so a client runs one statement or one transaction  *)
(* at a time; inside a transaction the action may send statements without  *)
(* awaiting the previous ones, even when COMMIT or ROLLBACK was sent.  It  *)
(* may also send BEGIN, COMMIT and ROLLBACK itself, by execute or in a     *)
(* batch, of which the gate knows less than of transaction().              *)
(*                                                                         *)
(* The plugin posts each call to the worker pool, which runs the tasks of  *)
(* a database one by one in the order of their arrival (module WorkerPool  *)
(* checks and proves that): `tasks' is that list, a step of RunTask is the *)
(* task at its head.  In the task, wrapSqlOperationHandler lets a          *)
(* statement of the current transaction through and queues the others.     *)
(***************************************************************************)
EXTENDS Integers, Sequences, FiniteSets

CONSTANTS
    Clients,
    MaxCalls,        \* bound: calls to the native side by one client
    MaxRestarts,     \* bound: hot restarts of one client
    Calls,           \* what clients do
    Faults,          \* which statements may fail, and how
    RollbackOnOpen   \* rollbackActiveTransactionOnOpen

ASSUME GateAssumption ==
    /\ MaxCalls \in Nat
    /\ MaxRestarts \in Nat
    /\ Calls \subseteq {"write", "batch", "transaction", "txnBatch", "cursor", "restart",
                        "late", "manual"}
    /\ Faults \subseteq {"begin", "write", "commit", "conflict"}
    /\ RollbackOnOpen \in BOOLEAN

NoId  == 0     \* no transactionId argument, or null; no current transaction
Forced == -1    \* TRANSACTION_ID_FORCE, paramTransactionIdValueForce
MaxId == Cardinality(Clients) * MaxCalls
Ids   == 1..MaxId

\* What a call does.  A transaction begun by hand has no id: it is BEGIN with
\* inTransaction true and without a transactionId, not with a null one.  A
\* batch by hand has BEGIN, COMMIT or ROLLBACK in it, and nothing else here.
Kinds == {"begin", "commit", "rollback", "write", "batch", "cancel"} \cup
         IF "manual" \in Calls THEN {"beginByHand", "batchByHand"} ELSE {}

\* A call on its way to the native side.  `life' tells the replies to a
\* client from those to what it was before a restart.
Op == [client : Clients, life : 0..MaxRestarts, tid : {Forced, NoId} \cup Ids,
       kind : Kinds]

\* The task that Database posts to itself when a transaction ends.
RunQueuedOperations == [kind |-> "runQueued"]

\* Writes are told apart by their client and their transaction only.
Tags == Clients \X ({NoId} \cup Ids)

NoReply == [ok |-> FALSE, id |-> Forced]
Replies == [ok : BOOLEAN, id : {NoId} \cup Ids] \cup {NoReply}

VARIABLES
    pc,                           \* what each Dart client is doing
    txnId,                        \* SqfliteTransaction.transactionId
    life,                         \* number of restarts of the client
    calls,                        \* number of calls it has made
    reply,                        \* answer to the call it awaits
    tasks,                        \* worker pool: tasks of this database
    currentTransactionId,
    lastTransactionId,
    noTransactionOperationQueue,
    transactionDepth,
    sessionOpen,                  \* SQLiteSession is in a transaction
    sqliteOpen,                   \* SQLite is (not in autocommit mode)
    uncommitted,                  \* tags of the writes in that transaction
    committed,                    \* tags of durable writes
    lost,                         \* tags of writes that were rolled back
    begunByHand,                  \* history: how that transaction began
    succeeded, failed,            \* transactions, as reported to the caller
    late,                         \* history: clients that made late calls
    byHand                        \* history: somebody sent BEGIN... by hand

dartVars   == <<pc, txnId, life, calls>>
gateVars   == <<currentTransactionId, lastTransactionId, transactionDepth>>
sqliteVars == <<sessionOpen, sqliteOpen, uncommitted, committed, lost, begunByHand>>
history    == <<succeeded, failed, late, byHand>>
vars == <<dartVars, reply, tasks, gateVars, noTransactionOperationQueue,
          sqliteVars, history>>

Init ==
    /\ pc = [c \in Clients |-> "idle"]
    /\ txnId = [c \in Clients |-> NoId]
    /\ life = [c \in Clients |-> 0]
    /\ calls = [c \in Clients |-> 0]
    /\ reply = [c \in Clients |-> NoReply]
    /\ tasks = <<>>
    /\ currentTransactionId = NoId
    /\ lastTransactionId = NoId
    /\ noTransactionOperationQueue = <<>>
    /\ transactionDepth = 0
    /\ sessionOpen = FALSE /\ sqliteOpen = FALSE
    /\ uncommitted = {} /\ committed = {} /\ lost = {}
    /\ begunByHand = FALSE
    /\ succeeded = {} /\ failed = {} /\ late = {} /\ byHand = FALSE

-----------------------------------------------------------------------------
(* Dart clients *)

\* invokeMethod: the plugin finds the database and posts a task.
Send(c, kind, tid) ==
    tasks' = Append(tasks, [client |-> c, life |-> life[c], tid |-> tid, kind |-> kind])

Invoke(c, kind, tid) ==
    /\ calls[c] < MaxCalls
    /\ calls' = [calls EXCEPT ![c] = @ + 1]
    /\ Send(c, kind, tid)

GoTo(c, state) == pc' = [pc EXCEPT ![c] = state]

NativeUnchanged ==
    /\ UNCHANGED gateVars
    /\ UNCHANGED noTransactionOperationQueue
    /\ UNCHANGED sqliteVars

\* db.insert, db.update, db.execute..., outside of a transaction.
CallWrite(c) ==
    /\ "write" \in Calls
    /\ pc[c] = "idle"
    /\ Invoke(c, "write", NoId)
    /\ GoTo(c, "waiting")
    /\ UNCHANGED <<txnId, life, reply, history>>
    /\ NativeUnchanged

\* db.batch().apply(): no transaction is created for it.  (commit() is a
\* transaction whose action is a TxnBatch.)
CallBatch(c) ==
    /\ "batch" \in Calls
    /\ pc[c] = "idle"
    /\ Invoke(c, "batch", NoId)
    /\ GoTo(c, "waiting")
    /\ UNCHANGED <<txnId, life, reply, history>>
    /\ NativeUnchanged

\* db.transaction(): BEGIN with transactionId null and inTransaction true.
BeginTransaction(c) ==
    /\ "transaction" \in Calls
    /\ pc[c] = "idle"
    /\ calls[c] + 1 < MaxCalls     \* keep one call to end it
    /\ Invoke(c, "begin", NoId)
    /\ GoTo(c, "beginning")
    /\ UNCHANGED <<txnId, life, reply, history>>
    /\ NativeUnchanged

\* A call on the transaction, awaited or not.  txnSynchronized refuses it if
\* the transaction is closed: that is when COMMIT or ROLLBACK was answered,
\* so that a call nobody awaits may follow them to the native side.
TxnCall(c, kind) ==
    /\ \/ /\ pc[c] \in {"active", "awaiting"}
          /\ calls[c] + 1 < MaxCalls     \* keep one call to end it
          /\ UNCHANGED late
       \/ /\ "late" \in Calls
          /\ pc[c] \in {"committing", "rollingBack"}
          /\ late' = late \cup {c}
    /\ Invoke(c, kind, txnId[c])
    /\ UNCHANGED <<pc, txnId, life, reply, succeeded, failed, byHand>>
    /\ NativeUnchanged

\* txn.insert, txn.update...
TxnWrite(c) == TxnCall(c, "write")

\* txn.batch().commit().
TxnBatch(c) == "txnBatch" \in Calls /\ TxnCall(c, "batch")

\* The action closes a cursor that still has pages: _closeCursor takes the
\* transaction of the database object (null once it is open), not the one
\* the cursor was created in.  The action awaits the answer.
TxnCloseCursor(c) ==
    /\ "cursor" \in Calls
    /\ pc[c] = "active"
    /\ calls[c] + 1 < MaxCalls
    /\ Invoke(c, "cancel", NoId)
    /\ GoTo(c, "awaiting")
    /\ UNCHANGED <<txnId, life, reply, history>>
    /\ NativeUnchanged

\* BEGIN, COMMIT or ROLLBACK by db.execute or in a batch, outside of
\* transaction(), or by txn.execute in it.
ExecuteByHand(c) ==
    /\ "manual" \in Calls
    /\ \/ /\ pc[c] = "idle"
          /\ \E kind \in {"beginByHand", "commit", "rollback", "batchByHand"} :
                Invoke(c, kind, NoId)
          /\ GoTo(c, "waiting")
       \/ /\ pc[c] = "active"
          /\ calls[c] + 1 < MaxCalls
          /\ \E kind \in {"beginByHand", "commit", "rollback"} : Invoke(c, kind, txnId[c])
          /\ GoTo(c, "awaiting")
    /\ byHand' = TRUE
    /\ UNCHANGED <<txnId, life, reply, succeeded, failed, late>>
    /\ NativeUnchanged

\* Mutant: the action threw, and COMMIT is sent nevertheless.
CommitAnyway(c, kind) ==
    /\ pc[c] = "active"
    /\ Invoke(c, "commit", txnId[c])
    /\ GoTo(c, IF kind = "commit" THEN "committing" ELSE "rollingBack")
    /\ UNCHANGED <<txnId, life, reply, history>>
    /\ NativeUnchanged

\* endTransaction: COMMIT if the action returned, ROLLBACK if it threw.
EndTransaction(c, kind) ==
    /\ pc[c] = "active"
    /\ Invoke(c, kind, txnId[c])
    /\ GoTo(c, IF kind = "commit" THEN "committing" ELSE "rollingBack")
    /\ UNCHANGED <<txnId, life, reply, history>>
    /\ NativeUnchanged

\* The answer to an awaited call.  A failed BEGIN ends transaction(); the
\* transaction is closed whatever the answer to COMMIT or ROLLBACK is; the
\* error of the ROLLBACK of openDatabase is ignored.
OnReply(c) ==
    LET tag == <<c, txnId[c]>> IN
    /\ reply[c] # NoReply
    /\ reply' = [reply EXCEPT ![c] = NoReply]
    /\ \/ /\ pc[c] \in {"waiting", "reopening"}
          /\ GoTo(c, "idle")
          /\ UNCHANGED <<txnId, history>>
       \/ /\ pc[c] = "beginning"
          /\ GoTo(c, IF reply[c].ok THEN "active" ELSE "idle")
          /\ txnId' = [txnId EXCEPT ![c] = reply[c].id]
          /\ UNCHANGED history
       \/ /\ pc[c] = "awaiting"
          /\ GoTo(c, "active")
          /\ UNCHANGED <<txnId, history>>
       \/ /\ pc[c] \in {"committing", "rollingBack"}
          /\ GoTo(c, "idle")
          /\ txnId' = [txnId EXCEPT ![c] = NoId]
          /\ IF pc[c] = "committing" /\ reply[c].ok
             THEN succeeded' = succeeded \cup {tag} /\ UNCHANGED failed
             ELSE failed' = failed \cup {tag} /\ UNCHANGED succeeded
          /\ UNCHANGED <<late, byHand>>
    /\ UNCHANGED <<life, calls, tasks>>
    /\ NativeUnchanged

\* Hot restart: the Dart side is gone, the native side goes on.
Restart(c) ==
    /\ "restart" \in Calls
    /\ life[c] < MaxRestarts
    /\ pc[c] # "restarted"
    /\ GoTo(c, "restarted")
    /\ life' = [life EXCEPT ![c] = @ + 1]
    /\ txnId' = [txnId EXCEPT ![c] = NoId]
    /\ reply' = [reply EXCEPT ![c] = NoReply]
    /\ UNCHANGED <<calls, tasks, history>>
    /\ NativeUnchanged

\* openDatabase finds the native database and answers at once, outside of
\* the worker; a forced ROLLBACK follows if it was in a transaction.
Reopen(c) ==
    /\ pc[c] = "restarted"
    /\ IF transactionDepth > 0 /\ RollbackOnOpen
       THEN /\ Send(c, "rollback", Forced)
            /\ GoTo(c, "reopening")
       ELSE /\ GoTo(c, "idle")
            /\ UNCHANGED tasks
    /\ UNCHANGED <<txnId, life, calls, reply, history>>
    /\ NativeUnchanged

-----------------------------------------------------------------------------
(* The native database *)

\* Mutant: an error is answered as a success.
AnswerSuccess(op, ok, id) ==
    reply' = IF life[op.client] # op.life \/ (op.kind \in {"write", "batch"} /\ op.tid # NoId)
             THEN reply
             ELSE [reply EXCEPT ![op.client] = [ok |-> TRUE, id |-> id]]

\* operation.success / operation.error.  The writes and batches of a
\* transaction are not awaited by the model, and nobody listens to a client
\* that restarted.
Answer(op, ok, id) ==
    reply' = IF life[op.client] # op.life \/ (op.kind \in {"write", "batch"} /\ op.tid # NoId)
             THEN reply
             ELSE [reply EXCEPT ![op.client] = [ok |-> ok, id |-> id]]

\* Mutant: a BEGIN that fails keeps the gate closed.
BeginKeepsGate(op) ==
    /\ lastTransactionId' = lastTransactionId + 1
    /\ currentTransactionId' = lastTransactionId + 1
    /\ \/ /\ ~sessionOpen /\ ~sqliteOpen
          /\ transactionDepth' = transactionDepth + 1
          /\ sessionOpen' = TRUE /\ sqliteOpen' = TRUE /\ begunByHand' = FALSE
          /\ Answer(op, TRUE, lastTransactionId + 1)
       \/ /\ "begin" \in Faults \/ sessionOpen \/ sqliteOpen
          /\ UNCHANGED <<transactionDepth, sessionOpen, sqliteOpen, begunByHand>>
          /\ Answer(op, FALSE, NoId)
    /\ UNCHANGED <<uncommitted, committed, lost>>

\* execute with inTransaction = true and a null transactionId.  The id is
\* taken before BEGIN runs and given back when it fails.
ExecBegin(op) ==
    /\ lastTransactionId' = lastTransactionId + 1
    /\ \/ /\ ~sessionOpen /\ ~sqliteOpen
          /\ currentTransactionId' = lastTransactionId + 1
          /\ transactionDepth' = transactionDepth + 1
          /\ sessionOpen' = TRUE /\ sqliteOpen' = TRUE /\ begunByHand' = FALSE
          /\ Answer(op, TRUE, lastTransactionId + 1)
       \/ /\ "begin" \in Faults \/ sessionOpen \/ sqliteOpen
          /\ currentTransactionId' = NoId
          /\ UNCHANGED <<transactionDepth, sessionOpen, sqliteOpen, begunByHand>>
          /\ Answer(op, FALSE, NoId)
    /\ UNCHANGED <<uncommitted, committed, lost>>

\* BEGIN by hand, in a batch or not: SQLite enters a transaction and the
\* depth follows, but no id is taken.
ExecBeginByHand(op) ==
    /\ \/ /\ ~sessionOpen /\ ~sqliteOpen
          /\ transactionDepth' = transactionDepth + 1
          /\ sessionOpen' = TRUE /\ sqliteOpen' = TRUE /\ begunByHand' = TRUE
          /\ Answer(op, TRUE, NoId)
       \/ /\ "begin" \in Faults \/ sessionOpen \/ sqliteOpen
          /\ UNCHANGED <<transactionDepth, sessionOpen, sqliteOpen, begunByHand>>
          /\ Answer(op, FALSE, NoId)
    /\ UNCHANGED <<currentTransactionId, lastTransactionId, uncommitted, committed, lost>>

\* Mutant: the transaction is left whether the statement fails or not.
AlwaysLeave(op) ==
    /\ sessionOpen' = FALSE
    /\ transactionDepth' = transactionDepth - 1
    /\ currentTransactionId' = NoId
    /\ UNCHANGED <<lastTransactionId, begunByHand>>
    /\ \/ /\ sessionOpen /\ sqliteOpen
          /\ sqliteOpen' = FALSE
          /\ uncommitted' = {}
          /\ IF op.kind = "commit"
             THEN committed' = committed \cup uncommitted /\ UNCHANGED lost
             ELSE lost' = lost \cup uncommitted /\ UNCHANGED committed
          /\ Answer(op, TRUE, NoId)
       \/ /\ ~sessionOpen \/ ~sqliteOpen \/ (op.kind = "commit" /\ "commit" \in Faults)
          /\ UNCHANGED <<sqliteOpen, uncommitted, committed, lost>>
          /\ Answer(op, FALSE, NoId)

\* execute with inTransaction = false: COMMIT or ROLLBACK.  The session
\* throws if it is in no transaction; otherwise it leaves it and runs the
\* statement, which fails if SQLite rolled the transaction back already;
\* COMMIT may also fail by itself (a deferred constraint, SQLITE_BUSY) and
\* then leaves SQLite in the transaction.  Only success resets the gate.
ExecEnd(op) ==
    \/ /\ sessionOpen /\ sqliteOpen
       /\ sessionOpen' = FALSE /\ sqliteOpen' = FALSE /\ begunByHand' = FALSE
       /\ uncommitted' = {}
       /\ IF op.kind = "commit"
          THEN committed' = committed \cup uncommitted /\ UNCHANGED lost
          ELSE lost' = lost \cup uncommitted /\ UNCHANGED committed
       /\ transactionDepth' = transactionDepth - 1
       /\ currentTransactionId' = NoId
       /\ UNCHANGED lastTransactionId
       /\ Answer(op, TRUE, NoId)
    \/ /\ \/ ~sessionOpen
          \/ ~sqliteOpen
          \/ op.kind = "commit" /\ "commit" \in Faults
       /\ sessionOpen' = FALSE
       /\ UNCHANGED <<gateVars, sqliteOpen, uncommitted, committed, lost, begunByHand>>
       /\ Answer(op, FALSE, NoId)

\* COMMIT or ROLLBACK in a batch: batch() does not touch the id of the gate.
ExecEndInBatch(op) ==
    \/ /\ sessionOpen /\ sqliteOpen
       /\ sessionOpen' = FALSE /\ sqliteOpen' = FALSE /\ begunByHand' = FALSE
       /\ uncommitted' = {}
       /\ \/ committed' = committed \cup uncommitted /\ UNCHANGED lost
          \/ lost' = lost \cup uncommitted /\ UNCHANGED committed
       /\ transactionDepth' = transactionDepth - 1
       /\ UNCHANGED <<currentTransactionId, lastTransactionId>>
       /\ Answer(op, TRUE, NoId)
    \/ /\ ~sessionOpen \/ ~sqliteOpen \/ "commit" \in Faults
       /\ sessionOpen' = FALSE
       /\ UNCHANGED <<gateVars, sqliteOpen, uncommitted, committed, lost, begunByHand>>
       /\ Answer(op, FALSE, NoId)

\* Statements of op take effect: in autocommit mode they are durable at once.
Apply(op) ==
    LET tag == <<op.client, op.tid>> IN
    /\ IF sqliteOpen
       THEN uncommitted' = uncommitted \cup {tag} /\ UNCHANGED committed
       ELSE committed' = committed \cup {tag} /\ UNCHANGED uncommitted
    /\ UNCHANGED <<sqliteOpen, lost>>

\* insert, update or execute.  A failure has no effect, or rolls the whole
\* transaction back (conflict algorithm ROLLBACK, SQLITE_FULL).
ExecWrite(op) ==
    /\ \/ Apply(op) /\ Answer(op, TRUE, NoId)
       \/ /\ "write" \in Faults
          /\ UNCHANGED <<sqliteOpen, uncommitted, committed, lost>>
          /\ Answer(op, FALSE, NoId)
       \/ /\ "conflict" \in Faults /\ sqliteOpen
          /\ sqliteOpen' = FALSE
          /\ lost' = lost \cup uncommitted
          /\ uncommitted' = {}
          /\ UNCHANGED committed
          /\ Answer(op, FALSE, NoId)
    /\ UNCHANGED <<gateVars, sessionOpen, begunByHand>>

\* The statements of a batch, in one task.  The first error ends it, after
\* some of them or none, unless continueOnError is set: then it succeeds,
\* and what follows an automatic rollback runs in autocommit mode.
ExecBatch(op) ==
    LET tag == <<op.client, op.tid>> IN
    /\ \/ Apply(op) /\ Answer(op, TRUE, NoId)
       \/ "write" \in Faults /\ Apply(op) /\ Answer(op, FALSE, NoId)
       \/ /\ "write" \in Faults
          /\ UNCHANGED <<sqliteOpen, uncommitted, committed, lost>>
          /\ \E ok \in BOOLEAN : Answer(op, ok, NoId)
       \/ /\ "conflict" \in Faults /\ sqliteOpen
          /\ sqliteOpen' = FALSE
          /\ \E before \in {{}, {tag}} : lost' = lost \cup uncommitted \cup before
          /\ uncommitted' = {}
          /\ \/ UNCHANGED committed /\ Answer(op, FALSE, NoId)
             \/ /\ \E after \in {{}, {tag}} : committed' = committed \cup after
                /\ Answer(op, TRUE, NoId)
    /\ UNCHANGED <<gateVars, sessionOpen, begunByHand>>

\* queryCursorNext with cancel: the cursors themselves are left out.
ExecCancel(op) ==
    /\ Answer(op, TRUE, NoId)
    /\ UNCHANGED gateVars
    /\ UNCHANGED sqliteVars

Exec(op) ==
    \/ op.kind = "begin" /\ ExecBegin(op)
    \/ op.kind = "beginByHand" /\ ExecBeginByHand(op)
    \/ op.kind = "batchByHand" /\ (ExecBeginByHand(op) \/ ExecEndInBatch(op))
    \/ op.kind \in {"commit", "rollback"} /\ ExecEnd(op)
    \/ op.kind = "write" /\ ExecWrite(op)
    \/ op.kind = "batch" /\ ExecBatch(op)
    \/ op.kind = "cancel" /\ ExecCancel(op)

\* batch() is not wrapped by the gate: it runs whatever the transaction is.
Ungated == {"batch", "batchByHand"}

RunBatch(op) ==
    /\ op.kind \in Ungated
    /\ Exec(op)
    /\ tasks' = Tail(tasks)
    /\ UNCHANGED noTransactionOperationQueue

\* wrapSqlOperationHandler: no transaction, run.
RunFree(op) ==
    /\ op.kind \notin Ungated \cup {"runQueued"}
    /\ currentTransactionId = NoId
    /\ Exec(op)
    /\ tasks' = Tail(tasks)
    /\ UNCHANGED noTransactionOperationQueue

\* Mutant: any statement with an id passes, and any without.
OfAnyTransaction(op) == TRUE

\* The statement has the id of the current transaction, or is forced.
OfCurrentTransaction(op) ==
    op.tid # NoId /\ op.tid \in {currentTransactionId, Forced}

\* Mutant: nobody runs the queue when the transaction ends.
RunAndForgetQueue(op) ==
    /\ op.kind \notin Ungated \cup {"runQueued"}
    /\ currentTransactionId # NoId
    /\ OfCurrentTransaction(op)
    /\ Exec(op)
    /\ tasks' = Tail(tasks)
    /\ UNCHANGED noTransactionOperationQueue

\* A statement of the transaction, or a forced one: run; if that ended the
\* transaction, the queue is emptied by a task that goes to the pool.
RunInTransaction(op) ==
    /\ op.kind \notin Ungated \cup {"runQueued"}
    /\ currentTransactionId # NoId
    /\ OfCurrentTransaction(op)
    /\ Exec(op)
    /\ tasks' = IF currentTransactionId' = NoId /\ noTransactionOperationQueue # <<>>
                THEN Append(Tail(tasks), RunQueuedOperations)
                ELSE Tail(tasks)
    /\ UNCHANGED noTransactionOperationQueue

\* Any other statement waits for the end of the transaction.
EnqueueOperation(op) ==
    /\ op.kind \notin Ungated \cup {"runQueued"}
    /\ currentTransactionId # NoId
    /\ ~OfCurrentTransaction(op)
    /\ noTransactionOperationQueue' = Append(noTransactionOperationQueue, op)
    /\ tasks' = Tail(tasks)
    /\ UNCHANGED reply
    /\ UNCHANGED gateVars
    /\ UNCHANGED sqliteVars

\* runQueuedOperations, one turn of its loop per step: no other task of
\* this database runs before it returns.
RunNextQueued(op) ==
    /\ op.kind = "runQueued"
    /\ noTransactionOperationQueue # <<>>
    /\ currentTransactionId = NoId
    /\ Exec(Head(noTransactionOperationQueue))
    /\ noTransactionOperationQueue' = Tail(noTransactionOperationQueue)
    /\ UNCHANGED tasks

EndRunQueued(op) ==
    /\ op.kind = "runQueued"
    /\ noTransactionOperationQueue = <<>> \/ currentTransactionId # NoId
    /\ tasks' = Tail(tasks)
    /\ UNCHANGED reply
    /\ NativeUnchanged

RunTask ==
    /\ tasks # <<>>
    /\ LET op == Head(tasks) IN
       \/ RunBatch(op)
       \/ RunFree(op)
       \/ RunInTransaction(op)
       \/ EnqueueOperation(op)
       \/ RunNextQueued(op)
       \/ EndRunQueued(op)
    /\ UNCHANGED dartVars
    /\ UNCHANGED history

-----------------------------------------------------------------------------
Next ==
    \/ \E c \in Clients :
         \/ CallWrite(c) \/ CallBatch(c) \/ BeginTransaction(c)
         \/ TxnWrite(c) \/ TxnBatch(c) \/ TxnCloseCursor(c)
         \/ ExecuteByHand(c)
         \/ EndTransaction(c, "commit") \/ EndTransaction(c, "rollback")
         \/ OnReply(c)
         \/ Restart(c) \/ Reopen(c)
    \/ RunTask

Spec == Init /\ [][Next]_vars

\* The worker thread runs its tasks, the Dart event loop delivers answers,
\* and the action of a transaction terminates (an assumption on the caller
\* the documentation makes: the other clients wait for it).
FairSpec ==
    /\ Spec
    /\ WF_vars(RunTask)
    /\ \A c \in Clients :
         /\ WF_vars(OnReply(c))
         /\ WF_vars(EndTransaction(c, "commit") \/ EndTransaction(c, "rollback"))
         /\ WF_vars(Reopen(c))

-----------------------------------------------------------------------------
(* Properties *)

TypeOK ==
    /\ pc \in [Clients -> {"idle", "waiting", "beginning", "active", "awaiting",
                           "committing", "rollingBack", "restarted", "reopening"}]
    /\ txnId \in [Clients -> {NoId} \cup Ids]
    /\ life \in [Clients -> 0..MaxRestarts]
    /\ calls \in [Clients -> 0..MaxCalls]
    /\ reply \in [Clients -> Replies]
    /\ tasks \in Seq(Op \cup {RunQueuedOperations})
    /\ currentTransactionId \in {NoId} \cup Ids
    /\ lastTransactionId \in {NoId} \cup Ids
    /\ noTransactionOperationQueue \in Seq(Op)
    /\ transactionDepth \in Nat
    /\ sessionOpen \in BOOLEAN /\ sqliteOpen \in BOOLEAN /\ begunByHand \in BOOLEAN
    /\ uncommitted \in SUBSET Tags
    /\ committed \in SUBSET Tags
    /\ lost \in SUBSET Tags
    /\ succeeded \in SUBSET Tags
    /\ failed \in SUBSET Tags
    /\ late \in SUBSET Clients /\ byHand \in BOOLEAN

\* What the promise of transaction() does not extend to: a client that calls
\* a transaction it has ended already, and all of them when one begins or
\* ends transactions by hand.
Excused(c) == c \in late \/ byHand

\* "No other concurrent modification on the database can happen during a
\* transaction": the uncommitted writes are those of the transaction the
\* gate is held for.  (A batch on a transaction that has ended is not kept
\* out of the next one.)
Isolated ==
    \A t \in uncommitted :
        Excused(t[1]) \/ (t[2] # NoId /\ t[2] = currentTransactionId)

\* `transaction' handles the "all or nothing" scenario: the writes of one
\* transaction are durable together or lost together, and none is durable
\* when the caller was told that it failed.  (A write sent when the end of
\* the transaction was under way may be on its own.)
Atomic ==
    /\ \A t \in committed \cap lost : Excused(t[1]) \/ t[2] = NoId
    /\ \A t \in failed \cap committed : Excused(t[1])

\* Whatever fails or restarts, and whatever late calls other clients make:
\* a transaction that was reported to have committed has no write that was
\* rolled back or is still uncommitted.
SuccessIsDurable ==
    \A t \in succeeded \cap (lost \cup uncommitted) : Excused(t[1])

\* The gate knows of every transaction that transaction() began: when it is
\* open, SQLite and its Java session are in none, or in one begun by hand.
\* And transactionDepth, which pins the database to a worker and which
\* openDatabase reports after a restart, knows of both kinds.
GateMatchesSqlite ==
    sessionOpen \/ sqliteOpen =>
        /\ currentTransactionId = NoId => begunByHand
        /\ transactionDepth > 0

\* While the gate is closed, some client still has the transaction it is
\* closed for (or its id is on the way) and can end it.
HeldByLiveTransaction ==
    currentTransactionId # NoId =>
        \E c \in Clients :
            \/ pc[c] # "idle" /\ txnId[c] = currentTransactionId
            \/ pc[c] = "beginning" /\ reply[c].id = currentTransactionId

\* A transaction never waits for itself: no call of the client that holds
\* the gate is in the queue that waits for the gate.
NoSelfBlocking ==
    \A i \in 1..Len(noTransactionOperationQueue) :
        LET c == noTransactionOperationQueue[i].client IN
        ~(/\ currentTransactionId # NoId
          /\ txnId[c] = currentTransactionId
          /\ noTransactionOperationQueue[i].life = life[c])

\* Once everything is answered, the database is usable: nothing is queued
\* and the gate is open.
Quiescent == tasks = <<>> /\ \A c \in Clients : pc[c] = "idle"
UsableAtRest ==
    Quiescent => currentTransactionId = NoId /\ noTransactionOperationQueue = <<>>

\* All of it at once: without restarts and automatic rollbacks, and if no
\* batch is sent outside of a transaction, the clients cannot tell the gate,
\* its queue and its tasks from transactions that are executed one by one,
\* as long as none of them made late calls or began transactions by hand.
Serial == INSTANCE SerialTransactions WITH
            holder <- currentTransactionId, lastId <- lastTransactionId,
            pending <- uncommitted, durable <- committed, undone <- lost
ImplementsSerialTransactions ==
    /\ Serial!Init
    /\ [][late' = {} /\ ~byHand' => Serial!Next]_(Serial!vars)

\* Every call is answered and every transaction ends.
EveryCallAnswered == \A c \in Clients : (pc[c] # "idle") ~> (pc[c] = "idle")
=============================================================================
