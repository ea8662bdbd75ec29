----------------------------- MODULE DarwinGate -----------------------------
(***************************************************************************)
(* Transactions on iOS and macOS: the Dart clients of module               *)
(* TransactionGate, which are the same program, and the native             *)
(* SqfliteDatabase of sqflite_darwin (SqfliteDatabase.m).                  *)
(*                                                                         *)
(* It translates the Java class but differs where it matters.  A call is a *)
(* block given to a concurrent queue of the system, which calls inDatabase *)
(* from one of its threads: blocks run one by one, in any order, so `tasks'*)
(* is here a list any element of which may run next.  The statements that  *)
(* waited for a transaction run in the block that ended it.  A cursor does *)
(* not wait for a transaction.  inTransaction is reset whether COMMIT and  *)
(* ROLLBACK succeed or not, and the gate only if they succeed.             *)
(***************************************************************************)
EXTENDS Integers, Sequences, SequencesExt

CONSTANTS
    Clients,
    MaxCalls,        \* bound: calls to the native side by one client
    MaxRestarts,     \* bound: hot restarts of one client
    Calls,           \* what clients do
    Faults,          \* which statements may fail, and how
    RollbackOnOpen,  \* rollbackActiveTransactionOnOpen
    AwaitCalls       \* actions of transactions await each of their calls

VARIABLES
    pc, txnId, life, calls, reply,    \* the Dart clients
    tasks,                            \* blocks that did not run yet
    currentTransactionId,
    lastTransactionId,
    noTransactionOperationQueue,
    inTransaction,
    draining,                         \* dbRunQueuedOperations runs
    sqliteOpen, uncommitted, committed, lost,
    succeeded, failed,
    begunByHand, late, byHand         \* history, as in TransactionGate

G == INSTANCE TransactionGate WITH
       transactionDepth <- IF inTransaction THEN 1 ELSE 0,
       sessionOpen <- inTransaction

sqliteVars == <<sqliteOpen, uncommitted, committed, lost, begunByHand>>
vars == <<G!vars, inTransaction, draining>>

Init ==
    /\ inTransaction = FALSE
    /\ draining = FALSE
    /\ G!Init

-----------------------------------------------------------------------------
(* Dart clients *)

\* Nothing the client sent is on its way.
Settled(c) ==
    \A op \in ToSet(tasks) \cup ToSet(noTransactionOperationQueue) :
        ~(op.client = c /\ op.life = life[c])

NativeUnchanged == UNCHANGED <<inTransaction, draining>>

\* Calls outside of transactions.
CallDatabase(c) ==
    /\ NativeUnchanged
    /\ G!CallWrite(c) \/ G!CallBatch(c) \/ G!BeginTransaction(c)

\* Calls of the action of a transaction.  One that awaits its calls makes
\* none while it waits for an answer.
CallTransaction(c) ==
    /\ NativeUnchanged
    /\ AwaitCalls => pc[c] = "active" /\ Settled(c)
    /\ G!TxnWrite(c) \/ G!TxnBatch(c) \/ G!TxnCloseCursor(c)

\* BEGIN, COMMIT and ROLLBACK that are not of transaction().
ExecuteByHand(c) ==
    /\ NativeUnchanged
    /\ AwaitCalls /\ pc[c] = "active" => Settled(c)
    /\ G!ExecuteByHand(c)

EndTransaction(c) ==
    /\ NativeUnchanged
    /\ AwaitCalls => Settled(c)
    /\ \E kind \in {"commit", "rollback"} : G!EndTransaction(c, kind)

OnReply(c) == NativeUnchanged /\ G!OnReply(c)

Restart(c) ==
    /\ NativeUnchanged
    /\ \A d \in Clients \ {c} : life[d] = 0     \* bound: one client restarts
    /\ G!Restart(c)

\* openDatabase: makeOpenResult reports inTransaction, and Dart sends a
\* forced ROLLBACK if it is set.
Reopen(c) == NativeUnchanged /\ G!Reopen(c)

-----------------------------------------------------------------------------
(* SqfliteDatabase *)

\* dbExecute that enters a transaction: the id is taken before BEGIN runs
\* and is given back when it fails.
ExecBegin(op) ==
    /\ lastTransactionId' = lastTransactionId + 1
    /\ \/ /\ ~sqliteOpen
          /\ sqliteOpen' = TRUE
          /\ currentTransactionId' = lastTransactionId + 1
          /\ inTransaction' = TRUE /\ begunByHand' = FALSE
          /\ G!Answer(op, TRUE, lastTransactionId + 1)
       \/ /\ "begin" \in Faults \/ sqliteOpen
          /\ currentTransactionId' = G!NoId
          /\ UNCHANGED <<inTransaction, sqliteOpen, begunByHand>>
          /\ G!Answer(op, FALSE, G!NoId)
    /\ UNCHANGED <<uncommitted, committed, lost>>

\* BEGIN by hand, in a batch or not: the flag is set, and no id is taken.
ExecBeginByHand(op) ==
    /\ \/ /\ ~sqliteOpen
          /\ sqliteOpen' = TRUE
          /\ inTransaction' = TRUE /\ begunByHand' = TRUE
          /\ G!Answer(op, TRUE, G!NoId)
       \/ /\ "begin" \in Faults \/ sqliteOpen
          /\ UNCHANGED <<inTransaction, sqliteOpen, begunByHand>>
          /\ G!Answer(op, FALSE, G!NoId)
    /\ UNCHANGED <<currentTransactionId, lastTransactionId, uncommitted, committed, lost>>

\* Mutant: the gate opens, like the flag, whether the statement fails or not.
AlwaysLeave(op) ==
    /\ inTransaction' = FALSE
    /\ currentTransactionId' = G!NoId
    /\ UNCHANGED lastTransactionId
    /\ \/ /\ sqliteOpen
          /\ sqliteOpen' = FALSE /\ begunByHand' = FALSE
          /\ uncommitted' = {}
          /\ IF op.kind = "commit"
             THEN committed' = committed \cup uncommitted /\ UNCHANGED lost
             ELSE lost' = lost \cup uncommitted /\ UNCHANGED committed
          /\ G!Answer(op, TRUE, G!NoId)
       \/ /\ ~sqliteOpen \/ (op.kind = "commit" /\ "commit" \in Faults)
          /\ UNCHANGED sqliteVars
          /\ G!Answer(op, FALSE, G!NoId)

\* Mutant: a failed COMMIT is rolled back, and reported as done.
CommitOrRollback(op) ==
    /\ inTransaction' = FALSE
    /\ UNCHANGED lastTransactionId
    /\ currentTransactionId' = G!NoId
    /\ sqliteOpen' = FALSE /\ begunByHand' = FALSE
    /\ uncommitted' = {}
    /\ \/ /\ sqliteOpen /\ op.kind = "commit"
          /\ committed' = committed \cup uncommitted /\ UNCHANGED lost
       \/ /\ ~sqliteOpen \/ op.kind = "rollback" \/ "commit" \in Faults
          /\ lost' = lost \cup uncommitted /\ UNCHANGED committed
    /\ G!Answer(op, TRUE, G!NoId)

\* dbExecute that leaves one.  "If wanted, we leave the transaction even if
\* it fails": the flag is reset in any case, the id on success.
ExecEnd(op) ==
    /\ inTransaction' = FALSE
    /\ UNCHANGED lastTransactionId
    /\ \/ /\ sqliteOpen
          /\ sqliteOpen' = FALSE /\ begunByHand' = FALSE
          /\ uncommitted' = {}
          /\ IF op.kind = "commit"
             THEN committed' = committed \cup uncommitted /\ UNCHANGED lost
             ELSE lost' = lost \cup uncommitted /\ UNCHANGED committed
          /\ currentTransactionId' = G!NoId
          /\ G!Answer(op, TRUE, G!NoId)
       \/ /\ ~sqliteOpen \/ (op.kind = "commit" /\ "commit" \in Faults)
          /\ UNCHANGED <<sqliteVars, currentTransactionId>>
          /\ G!Answer(op, FALSE, G!NoId)

\* COMMIT or ROLLBACK in a batch, which leaves the id alone.
ExecEndInBatch(op) ==
    /\ inTransaction' = FALSE
    /\ UNCHANGED <<currentTransactionId, lastTransactionId>>
    /\ \/ /\ sqliteOpen
          /\ sqliteOpen' = FALSE /\ begunByHand' = FALSE
          /\ uncommitted' = {}
          /\ \/ committed' = committed \cup uncommitted /\ UNCHANGED lost
             \/ lost' = lost \cup uncommitted /\ UNCHANGED committed
          /\ G!Answer(op, TRUE, G!NoId)
       \/ /\ ~sqliteOpen \/ "commit" \in Faults
          /\ UNCHANGED sqliteVars
          /\ G!Answer(op, FALSE, G!NoId)

\* The other statements, like those on Android.
ExecOther(op) ==
    /\ UNCHANGED inTransaction
    /\ \/ op.kind = "write" /\ G!ExecWrite(op)
       \/ op.kind = "batch" /\ G!ExecBatch(op)
       \/ op.kind = "cancel" /\ G!ExecCancel(op)

Exec(op) ==
    \/ op.kind = "begin" /\ ExecBegin(op)
    \/ op.kind = "beginByHand" /\ ExecBeginByHand(op)
    \/ op.kind \in {"commit", "rollback"} /\ ExecEnd(op)
    \/ op.kind = "batchByHand" /\ (ExecBeginByHand(op) \/ ExecEndInBatch(op))
    \/ ExecOther(op)

\* Mutant: cursors wait for the end of the transaction.
OnlyBatches(op) == op.kind = "batch"

\* dbBatch and dbQueryCursorNext do not ask for the gate.
Ungated(op) == op.kind \in {"batch", "batchByHand", "cancel"}

\* Mutant: writes do not wait.
WritesPass(op) ==
    \/ Ungated(op)
    \/ currentTransactionId = G!NoId
    \/ op.tid # G!NoId /\ op.tid \in {currentTransactionId, G!Forced}
    \/ op.kind = "write"

MayRun(op) ==
    \/ Ungated(op)
    \/ currentTransactionId = G!NoId
    \/ op.tid # G!NoId /\ op.tid \in {currentTransactionId, G!Forced}

\* wrapSqlOperationHandler lets the statement through.  If it ended the
\* transaction, what waited for it runs next.
RunBlock(i) ==
    /\ ~draining
    /\ MayRun(tasks[i])
    /\ tasks' = RemoveAt(tasks, i)
    /\ Exec(tasks[i])
    /\ draining' = (/\ currentTransactionId # G!NoId
                    /\ currentTransactionId' = G!NoId
                    /\ noTransactionOperationQueue # <<>>)
    /\ UNCHANGED noTransactionOperationQueue

\* It waits for the end of the transaction.
EnqueueOperation(i) ==
    /\ ~draining
    /\ ~MayRun(tasks[i])
    /\ tasks' = RemoveAt(tasks, i)
    /\ noTransactionOperationQueue' = Append(noTransactionOperationQueue, tasks[i])
    /\ UNCHANGED <<reply, draining, inTransaction, currentTransactionId, lastTransactionId>>
    /\ UNCHANGED sqliteVars

\* dbRunQueuedOperations, one turn of its loop: no other block runs before
\* it returns, at the end of the queue or when a BEGIN was in it.
RunNextQueued ==
    /\ draining
    /\ Exec(Head(noTransactionOperationQueue))
    /\ noTransactionOperationQueue' = Tail(noTransactionOperationQueue)
    /\ draining' = (Len(noTransactionOperationQueue) > 1 /\ currentTransactionId' = G!NoId)
    /\ UNCHANGED tasks

Native ==
    /\ \/ \E i \in DOMAIN tasks : RunBlock(i) \/ EnqueueOperation(i)
       \/ RunNextQueued
    /\ UNCHANGED <<pc, txnId, life, calls, succeeded, failed, late, byHand>>

-----------------------------------------------------------------------------
Next ==
    \/ \E c \in Clients :
         \/ CallDatabase(c) \/ CallTransaction(c) \/ ExecuteByHand(c)
         \/ EndTransaction(c)
         \/ OnReply(c)
         \/ Restart(c) \/ Reopen(c)
    \/ Native

Spec == Init /\ [][Next]_vars

\* The system runs the blocks, the Dart event loop delivers answers, and the
\* action of a transaction terminates.
FairSpec ==
    /\ Spec
    /\ WF_vars(Native)
    /\ \A c \in Clients :
         /\ WF_vars(OnReply(c))
         /\ WF_vars(EndTransaction(c))
         /\ WF_vars(Reopen(c))

-----------------------------------------------------------------------------
(* Properties *)

\* "No other concurrent modification on the database can happen during a
\* transaction": in whatever order the system runs the blocks, and whoever
\* restarts, the uncommitted writes are those of the transaction the gate is
\* held for, until somebody begins or ends one by hand.  (Of statements; the
\* gate lets batches through, as on Android.)
Isolated ==
    \A t \in uncommitted : byHand \/ (t[2] # G!NoId /\ t[2] = currentTransactionId)

NobodyRestarted == \A c \in Clients : life[c] = 0

\* What the caller of transaction() is told is what happens: whoever
\* restarts, a transaction reported as committed has no write that is lost
\* or uncommitted; and one reported to have failed has no durable write
\* (unless somebody restarted: the forced ROLLBACK may be of the transaction
\* of another client, whose next writes are durable at once).  Both until
\* somebody begins or ends a transaction by hand.
VerdictsHold ==
    byHand \/ /\ succeeded \cap (lost \cup uncommitted) = {}
              /\ NobodyRestarted => failed \cap committed = {}

\* While the gate is open there is no transaction, neither in SQLite nor in
\* the flag that openDatabase reports after a restart, but one begun by hand.
OpenGateMeansNoTransaction ==
    currentTransactionId = G!NoId /\ (sqliteOpen \/ inTransaction) => begunByHand

\* The promise of Android's gate, in whatever order the blocks run, as long
\* as nobody restarted or began a transaction by hand: if clients await their
\* calls and send no batch outside of a transaction, and nothing is rolled
\* back automatically.
Serial == INSTANCE SerialTransactions WITH
            holder <- currentTransactionId, lastId <- lastTransactionId,
            pending <- uncommitted, durable <- committed, undone <- lost
ImplementsSerialTransactions ==
    /\ Serial!Init
    /\ [][NobodyRestarted' /\ ~byHand' => Serial!Next]_(Serial!vars)

\* The gate can stay closed: SQLite refused to end the transaction, or
\* nobody has the transaction any more.
GateIsStuck ==
    /\ currentTransactionId # G!NoId
    /\ ~inTransaction \/ ~G!HeldByLiveTransaction

\* Every call is answered and every transaction ends, unless the gate stays
\* closed for good; a cursor closed in a transaction does not block it.
EveryCallAnswered ==
    <>[]GateIsStuck \/ \A c \in Clients : (pc[c] # "idle") ~> (pc[c] = "idle")
=============================================================================
