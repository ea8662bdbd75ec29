----------------------- MODULE TransactionGateProofs -----------------------
(***************************************************************************)
(* Proofs about TransactionGate, for any set of clients, any number of     *)
(* calls and restarts and any of the faults: the gate of the native        *)
(* Database agrees with SQLite, and it isolates transactions as long as    *)
(* nobody sends a batch, which native code does not gate, or begins a      *)
(* transaction by hand, which the gate does not close for.                 *)
(*                                                                         *)
(* TypeOK bounds the ids by the number of calls, which is a matter of      *)
(* counting (GateIsTyped in TransactionOutcomeProofs); Typed leaves the    *)
(* bounds out, none of the proofs here needs them.                         *)
(***************************************************************************)
EXTENDS TransactionGate, SequenceTheorems, TLAPS

-----------------------------------------------------------------------------
(* The inductive invariant *)

\* The calls clients make: BEGIN carries no id, and only the ROLLBACK of
\* openDatabase is forced.
LegalOps ==
    {op \in [client : Clients, life : Nat, tid : {Forced} \cup Nat, kind : Kinds] :
        /\ op.kind = "begin" => op.tid = NoId
        /\ op.tid = Forced => op.kind = "rollback"}
QueuedOps == {op \in LegalOps : op.kind \notin Ungated}

Typed ==
    /\ txnId \in [Clients -> Nat]
    /\ life \in [Clients -> Nat]
    /\ reply \in [Clients -> [ok : BOOLEAN, id : Nat] \cup {NoReply}]
    /\ tasks \in Seq(LegalOps \cup {RunQueuedOperations})
    /\ noTransactionOperationQueue \in Seq(QueuedOps)
    /\ currentTransactionId \in Nat
    /\ lastTransactionId \in Nat
    /\ transactionDepth \in Nat
    /\ sessionOpen \in BOOLEAN /\ sqliteOpen \in BOOLEAN /\ begunByHand \in BOOLEAN

Inv == Typed /\ GateMatchesSqlite

\* In autocommit mode nothing is uncommitted.
NothingLeftOpen == ~sqliteOpen => uncommitted = {}

\* Isolation without its exceptions: a late write is not one, since the gate
\* keeps it out of the transactions of others.
StrictlyIsolated == \A t \in uncommitted : t[2] # NoId /\ t[2] = currentTransactionId

\* Clients send no batch, and no task is one.
NoBatches == Calls \cap {"batch", "txnBatch"} = {}
NoBatchTask == \A i \in 1..Len(tasks) : tasks[i].kind # "batch"

\* As long as nobody began a transaction by hand, SQLite is in none of those
\* and no call will begin one.
ByHand == {"beginByHand", "batchByHand"}
NoByHandTask == \A i \in 1..Len(tasks) : tasks[i].kind \notin ByHand
NoByHandQueued ==
    \A i \in 1..Len(noTransactionOperationQueue) :
        noTransactionOperationQueue[i].kind \notin ByHand
Quiet == ~begunByHand /\ NoByHandTask /\ NoByHandQueued

IsolatedInv == Inv /\ Quiet /\ NothingLeftOpen /\ StrictlyIsolated /\ NoBatchTask

-----------------------------------------------------------------------------
(* A statement that the gate lets through *)

\* What is known of op when wrapSqlOperationHandler or runQueuedOperations
\* executes it: no transaction, or it belongs to the current one.
Passes(op) == currentTransactionId = NoId \/ OfCurrentTransaction(op)

LEMMA AnswerTyped ==
    ASSUME Typed, NEW op \in LegalOps, NEW ok \in BOOLEAN, NEW id \in Nat,
           Answer(op, ok, id)
    PROVE  reply' \in [Clients -> [ok : BOOLEAN, id : Nat] \cup {NoReply}]
BY DEF Typed, Answer

\* Whatever it is and whether it fails or not, the gate and SQLite still
\* agree.  A batch is not gated, but it does not touch the gate either.
LEMMA ExecKeepsGate ==
    ASSUME Inv, NEW op \in LegalOps, Exec(op), Passes(op) \/ op.kind \in Ungated
    PROVE  /\ reply' \in [Clients -> [ok : BOOLEAN, id : Nat] \cup {NoReply}]
           /\ currentTransactionId' \in Nat /\ lastTransactionId' \in Nat
           /\ transactionDepth' \in Nat /\ begunByHand' \in BOOLEAN
           /\ sessionOpen' \in BOOLEAN /\ sqliteOpen' \in BOOLEAN
           /\ GateMatchesSqlite'
           /\ ~begunByHand /\ op.kind \notin ByHand => ~begunByHand'
<1> USE DEF Inv, NoId, Forced
<1>0. /\ transactionDepth \in Nat /\ lastTransactionId \in Nat /\ lastTransactionId + 1 \in Nat \ {0}
      /\ transactionDepth + 1 \in Nat /\ transactionDepth + 1 > 0
      /\ sessionOpen \/ sqliteOpen => transactionDepth - 1 \in Nat
  BY DEF Typed, GateMatchesSqlite
<1>1. CASE op.kind = "begin" /\ ExecBegin(op)
  <2>1. currentTransactionId = NoId
    BY <1>1 DEF LegalOps, Passes, OfCurrentTransaction, Ungated
  <2>2. \/ /\ currentTransactionId' = lastTransactionId + 1
           /\ transactionDepth' = transactionDepth + 1
           /\ sessionOpen' = TRUE /\ sqliteOpen' = TRUE /\ begunByHand' = FALSE
           /\ Answer(op, TRUE, lastTransactionId + 1)
        \/ /\ currentTransactionId' = NoId
           /\ UNCHANGED <<transactionDepth, sessionOpen, sqliteOpen, begunByHand>>
           /\ Answer(op, FALSE, NoId)
    BY <1>1, <2>1 DEF ExecBegin
  <2>3. lastTransactionId' = lastTransactionId + 1
    BY <1>1 DEF ExecBegin
  <2>4. reply' \in [Clients -> [ok : BOOLEAN, id : Nat] \cup {NoReply}]
    BY <1>0, <2>2, AnswerTyped
  <2>5. CASE sessionOpen' = TRUE /\ sqliteOpen' = TRUE /\ currentTransactionId' # NoId
    BY <1>0, <2>2, <2>3, <2>4, <2>5 DEF GateMatchesSqlite, Typed
  <2>6. CASE /\ currentTransactionId' = NoId
             /\ UNCHANGED <<transactionDepth, sessionOpen, sqliteOpen, begunByHand>>
    BY <1>0, <2>1, <2>3, <2>4, <2>6 DEF GateMatchesSqlite, Typed
  <2>7. \/ sessionOpen' = TRUE /\ sqliteOpen' = TRUE /\ currentTransactionId' # NoId
        \/ /\ currentTransactionId' = NoId
           /\ UNCHANGED <<transactionDepth, sessionOpen, sqliteOpen, begunByHand>>
    BY <1>0, <2>2
  <2> QED
    BY <2>5, <2>6, <2>7
<1>2. CASE op.kind \in {"commit", "rollback"} /\ ExecEnd(op)
  <2>1. CASE /\ sessionOpen /\ sqliteOpen
             /\ sessionOpen' = FALSE /\ sqliteOpen' = FALSE /\ begunByHand' = FALSE
             /\ transactionDepth' = transactionDepth - 1
             /\ currentTransactionId' = NoId
             /\ UNCHANGED lastTransactionId
             /\ Answer(op, TRUE, NoId)
    <3>1. reply' \in [Clients -> [ok : BOOLEAN, id : Nat] \cup {NoReply}]
      BY <2>1, AnswerTyped
    <3> QED
      BY <1>0, <2>1, <3>1 DEF GateMatchesSqlite, Typed
  <2>2. CASE /\ sessionOpen' = FALSE
             /\ UNCHANGED <<gateVars, sqliteOpen, begunByHand>>
             /\ Answer(op, FALSE, NoId)
    <3>1. reply' \in [Clients -> [ok : BOOLEAN, id : Nat] \cup {NoReply}]
      BY <2>2, AnswerTyped
    <3> QED
      BY <2>2, <3>1 DEF GateMatchesSqlite, Typed, gateVars
  <2> QED
    BY <1>2, <2>1, <2>2 DEF ExecEnd
<1>3. CASE \/ op.kind = "write" /\ ExecWrite(op)
           \/ op.kind = "batch" /\ ExecBatch(op)
  <2>1. /\ UNCHANGED <<gateVars, sessionOpen, begunByHand>>
        /\ sqliteOpen' = sqliteOpen \/ sqliteOpen' = FALSE
        /\ Answer(op, TRUE, NoId) \/ Answer(op, FALSE, NoId)
    BY <1>3 DEF ExecWrite, ExecBatch, Apply
  <2>2. reply' \in [Clients -> [ok : BOOLEAN, id : Nat] \cup {NoReply}]
    BY <2>1, AnswerTyped
  <2>3. /\ currentTransactionId' = currentTransactionId
        /\ lastTransactionId' = lastTransactionId
        /\ transactionDepth' = transactionDepth
        /\ sessionOpen' = sessionOpen /\ begunByHand' = begunByHand
    BY <2>1 DEF gateVars
  <2>4. sqliteOpen' \in BOOLEAN /\ (sqliteOpen' => sqliteOpen)
    <3>1. CASE sqliteOpen' = sqliteOpen
      BY <3>1, Zenon DEF Typed
    <3>2. CASE sqliteOpen' = FALSE
      BY <3>2
    <3> QED
      BY <2>1, <3>1, <3>2
  <2>5. GateMatchesSqlite'
    BY <2>3, <2>4 DEF GateMatchesSqlite
  <2> QED
    BY <2>2, <2>3, <2>4, <2>5 DEF Typed
<1>4. CASE op.kind = "cancel" /\ ExecCancel(op)
  <2>1. reply' \in [Clients -> [ok : BOOLEAN, id : Nat] \cup {NoReply}]
    BY <1>4, AnswerTyped DEF ExecCancel
  <2> QED
    BY <1>4, <2>1 DEF ExecCancel, GateMatchesSqlite, Typed, gateVars, sqliteVars
\* By hand: SQLite and the depth enter and leave together, the id stays.
<1>5. CASE op.kind \in ByHand /\ ExecBeginByHand(op)
  <2>1. /\ UNCHANGED <<currentTransactionId, lastTransactionId>>
        /\ \/ /\ transactionDepth' = transactionDepth + 1
              /\ sessionOpen' = TRUE /\ sqliteOpen' = TRUE /\ begunByHand' = TRUE
           \/ UNCHANGED <<transactionDepth, sessionOpen, sqliteOpen, begunByHand>>
        /\ Answer(op, TRUE, NoId) \/ Answer(op, FALSE, NoId)
    BY <1>5 DEF ExecBeginByHand
  <2>2. reply' \in [Clients -> [ok : BOOLEAN, id : Nat] \cup {NoReply}]
    BY <2>1, AnswerTyped
  <2>3. CASE /\ transactionDepth' = transactionDepth + 1
             /\ sessionOpen' = TRUE /\ sqliteOpen' = TRUE /\ begunByHand' = TRUE
    BY <1>0, <1>5, <2>1, <2>2, <2>3 DEF GateMatchesSqlite, Typed
  <2>4. CASE UNCHANGED <<transactionDepth, sessionOpen, sqliteOpen, begunByHand>>
    BY <1>0, <1>5, <2>1, <2>2, <2>4 DEF GateMatchesSqlite, Typed
  <2> QED
    BY <2>1, <2>3, <2>4
<1>6. CASE op.kind = "batchByHand" /\ ExecEndInBatch(op)
  <2>1. /\ UNCHANGED <<currentTransactionId, lastTransactionId>>
        /\ \/ /\ sessionOpen /\ sqliteOpen /\ transactionDepth' = transactionDepth - 1
              /\ sessionOpen' = FALSE /\ sqliteOpen' = FALSE /\ begunByHand' = FALSE
           \/ /\ sessionOpen' = FALSE
              /\ UNCHANGED <<transactionDepth, sqliteOpen, begunByHand>>
        /\ Answer(op, TRUE, NoId) \/ Answer(op, FALSE, NoId)
    BY <1>6 DEF ExecEndInBatch, gateVars
  <2>2. reply' \in [Clients -> [ok : BOOLEAN, id : Nat] \cup {NoReply}]
    BY <2>1, AnswerTyped
  <2>3. CASE /\ sessionOpen /\ sqliteOpen /\ transactionDepth' = transactionDepth - 1
             /\ sessionOpen' = FALSE /\ sqliteOpen' = FALSE /\ begunByHand' = FALSE
    BY <1>0, <1>6, <2>1, <2>2, <2>3 DEF GateMatchesSqlite, Typed
  <2>4. CASE /\ sessionOpen' = FALSE
             /\ UNCHANGED <<transactionDepth, sqliteOpen, begunByHand>>
    BY <1>0, <1>6, <2>1, <2>2, <2>4 DEF GateMatchesSqlite, Typed
  <2> QED
    BY <2>1, <2>3, <2>4
<1> QED
  BY <1>1, <1>2, <1>3, <1>4, <1>5, <1>6 DEF Exec, ByHand

\* A statement that is not a batch leaves only writes of the transaction the
\* gate is held for uncommitted.
LEMMA ExecKeepsIsolation ==
    ASSUME IsolatedInv, NEW op \in QueuedOps, op.kind \notin ByHand, Exec(op), Passes(op)
    PROVE  NothingLeftOpen' /\ StrictlyIsolated'
<1> USE DEF IsolatedInv, Inv
<1>0. currentTransactionId = NoId => ~sessionOpen /\ ~sqliteOpen
  BY DEF GateMatchesSqlite, Quiet
<1>1. CASE op.kind = "begin" /\ ExecBegin(op)
  <2>1. currentTransactionId = NoId /\ ~sqliteOpen
    BY <1>0, <1>1 DEF QueuedOps, LegalOps, Passes, OfCurrentTransaction
  <2>2. uncommitted' = {}
    BY <1>1, <2>1 DEF ExecBegin, NothingLeftOpen
  <2> QED
    BY <2>2 DEF NothingLeftOpen, StrictlyIsolated
<1>2. CASE op.kind \in {"commit", "rollback"} /\ ExecEnd(op)
  <2>1. \/ uncommitted' = {}
        \/ UNCHANGED <<gateVars, sqliteOpen, uncommitted>>
    BY <1>2 DEF ExecEnd
  <2> QED
    BY <2>1 DEF NothingLeftOpen, StrictlyIsolated, gateVars
<1>3. CASE op.kind = "write" /\ ExecWrite(op)
  <2>1. CASE ~sqliteOpen
    <3>1. uncommitted' = {}
      BY <1>3, <2>1 DEF ExecWrite, Apply, NothingLeftOpen
    <3> QED
      BY <3>1 DEF NothingLeftOpen, StrictlyIsolated
  <2>2. CASE sqliteOpen
    <3>0. op.tid # Forced
      BY <1>3 DEF QueuedOps, LegalOps
    <3>1. currentTransactionId # NoId
      BY <1>0, <2>2
    <3>2. op.tid = currentTransactionId
      BY <3>0, <3>1 DEF Passes, OfCurrentTransaction
    <3>3. /\ currentTransactionId' = currentTransactionId
          /\ \/ sqliteOpen' /\ uncommitted' = uncommitted \cup {<<op.client, op.tid>>}
             \/ sqliteOpen' /\ uncommitted' = uncommitted
             \/ uncommitted' = {}
      BY <1>3, <2>2 DEF ExecWrite, Apply, gateVars
    <3> QED
      BY <3>1, <3>2, <3>3 DEF NothingLeftOpen, StrictlyIsolated
  <2> QED
    BY <2>1, <2>2 DEF Typed
<1>4. CASE op.kind = "cancel" /\ ExecCancel(op)
  BY <1>4 DEF ExecCancel, gateVars, sqliteVars, NothingLeftOpen, StrictlyIsolated
<1> QED
  BY <1>1, <1>2, <1>3, <1>4 DEF Exec, QueuedOps, Ungated, ByHand

-----------------------------------------------------------------------------
(* The steps of the clients *)

\* A client that sends a legal call changes nothing else the gate depends on.
LEMMA SendKeepsInv ==
    ASSUME Inv, NEW c \in Clients, NEW tid \in {Forced} \cup Nat, NEW kind \in Kinds,
           kind = "begin" => tid = NoId, tid = Forced => kind = "rollback",
           Send(c, kind, tid), UNCHANGED <<txnId, life, reply>>, NativeUnchanged
    PROVE  /\ Inv'
           /\ kind \notin ByHand => (Quiet => Quiet')
           /\ kind \notin ByHand \cup {"batch"} => (IsolatedInv => IsolatedInv')
<1> DEFINE op == [client |-> c, life |-> life[c], tid |-> tid, kind |-> kind]
<1>1. op \in LegalOps
  BY DEF LegalOps, Inv, Typed
<1>2. /\ tasks \in Seq(LegalOps \cup {RunQueuedOperations})
      /\ tasks' = Append(tasks, op)
  BY DEF Inv, Typed, Send
<1>3. /\ tasks' \in Seq(LegalOps \cup {RunQueuedOperations})
      /\ Len(tasks') = Len(tasks) + 1
      /\ \A i \in 1..Len(tasks) : tasks'[i] = tasks[i]
      /\ tasks'[Len(tasks) + 1] = op
  BY <1>1, <1>2, AppendProperties
<1>4. Inv'
  BY <1>3 DEF Inv, Typed, GateMatchesSqlite, NativeUnchanged, gateVars, sqliteVars
<1>5. ASSUME NEW i \in 1..Len(tasks')
      PROVE  \/ i \in 1..Len(tasks) /\ tasks'[i] = tasks[i]
             \/ tasks'[i].kind = kind
  <2>1. Len(tasks) \in Nat
    BY <1>2
  <2>2. i \in 1..Len(tasks) \/ i = Len(tasks) + 1
    BY <1>3, <2>1
  <2> QED
    BY <1>3, <2>2
<1>6. ASSUME Quiet, kind \notin ByHand PROVE Quiet'
  <2>1. begunByHand' = begunByHand /\ UNCHANGED noTransactionOperationQueue
    BY DEF NativeUnchanged, sqliteVars
  <2>2. NoByHandTask'
    BY <1>5, <1>6 DEF Quiet, NoByHandTask
  <2> QED
    BY <1>6, <2>1, <2>2 DEF Quiet, NoByHandQueued
<1>7. ASSUME IsolatedInv, kind \notin ByHand \cup {"batch"} PROVE IsolatedInv'
  <2>1. NothingLeftOpen' /\ StrictlyIsolated'
    BY <1>7 DEF IsolatedInv, NothingLeftOpen, StrictlyIsolated, NativeUnchanged, gateVars,
                sqliteVars
  <2>2. NoBatchTask'
    BY <1>5, <1>7 DEF IsolatedInv, NoBatchTask
  <2> QED
    BY <1>4, <1>6, <1>7, <2>1, <2>2 DEF IsolatedInv
<1> QED
  BY <1>4, <1>6, <1>7

\* The steps of a client that send something, by hand or not.
LEMMA CallsKeepInv ==
    ASSUME Inv, NEW c \in Clients,
           \/ CallWrite(c) \/ CallBatch(c) \/ BeginTransaction(c)
           \/ TxnWrite(c) \/ TxnBatch(c) \/ TxnCloseCursor(c) \/ ExecuteByHand(c)
           \/ EndTransaction(c, "commit") \/ EndTransaction(c, "rollback")
    PROVE  /\ Inv'
           /\ ~byHand' => /\ ~byHand
                          /\ Quiet => Quiet'
                          /\ IsolatedInv /\ NoBatches => IsolatedInv'
<1>0. txnId[c] \in Nat /\ NoId \in Nat /\ NoId # Forced /\ Forced \notin Nat
  BY DEF Inv, Typed, NoId, Forced
<1>1. CASE ExecuteByHand(c)
  <2>1. \E kind \in {"beginByHand", "commit", "rollback", "batchByHand"}, tid \in Nat :
          Send(c, kind, tid)
    BY <1>0, <1>1 DEF ExecuteByHand, Invoke
  <2>2. UNCHANGED <<txnId, life, reply>> /\ NativeUnchanged /\ byHand' /\ "manual" \in Calls
    BY <1>1 DEF ExecuteByHand
  <2>3. {"beginByHand", "commit", "rollback", "batchByHand"} \subseteq Kinds
    BY <2>2 DEF Kinds
  <2> QED
    BY <1>0, <2>1, <2>2, <2>3, SendKeepsInv
<1>2. CASE ~ExecuteByHand(c)
  <2>1. /\ UNCHANGED <<txnId, life, reply, byHand>> /\ NativeUnchanged
        /\ \E kind \in Kinds, tid \in Nat :
             /\ Send(c, kind, tid) /\ kind \notin ByHand
             /\ kind = "begin" => tid = NoId
             /\ NoBatches => kind # "batch"
    BY <1>0, <1>2 DEF CallWrite, CallBatch, BeginTransaction, TxnWrite, TxnBatch, TxnCall,
                      TxnCloseCursor, EndTransaction, Invoke, NoBatches, ByHand, Kinds, history
  <2> QED
    BY <1>0, <2>1, SendKeepsInv
<1> QED
  BY <1>1, <1>2

\* The steps of a client that leave the native side and the queues alone.
LEMMA LocalStepKeepsInv ==
    ASSUME Inv, UNCHANGED tasks, NativeUnchanged,
           txnId' \in [Clients -> Nat], life' \in [Clients -> Nat],
           reply' \in [Clients -> [ok : BOOLEAN, id : Nat] \cup {NoReply}]
    PROVE  Inv' /\ (Quiet => Quiet') /\ (IsolatedInv => IsolatedInv')
<1>1. Inv'
  BY DEF Inv, Typed, GateMatchesSqlite, NativeUnchanged, gateVars, sqliteVars
<1>2. Quiet => Quiet'
  BY DEF Quiet, NoByHandTask, NoByHandQueued, NativeUnchanged, sqliteVars
<1>3. IsolatedInv => NothingLeftOpen' /\ StrictlyIsolated' /\ NoBatchTask'
  BY DEF IsolatedInv, NothingLeftOpen, StrictlyIsolated, NoBatchTask, NativeUnchanged,
         gateVars, sqliteVars
<1> QED
  BY <1>1, <1>2, <1>3 DEF IsolatedInv

LEMMA OnReplyKeepsInv ==
    ASSUME Inv, NEW c \in Clients, OnReply(c)
    PROVE  Inv' /\ (Quiet => Quiet') /\ (IsolatedInv => IsolatedInv')
<1>1. /\ reply[c] # NoReply
      /\ reply' = [reply EXCEPT ![c] = NoReply]
      /\ UNCHANGED <<life, tasks>> /\ NativeUnchanged
  BY DEF OnReply
<1>2. \/ txnId' = txnId
      \/ txnId' = [txnId EXCEPT ![c] = reply[c].id]
      \/ txnId' = [txnId EXCEPT ![c] = NoId]
  BY DEF OnReply
<1>3. reply[c].id \in Nat /\ NoId \in Nat
  BY <1>1 DEF Inv, Typed, NoId
<1>4. /\ txnId' \in [Clients -> Nat] /\ life' \in [Clients -> Nat]
      /\ reply' \in [Clients -> [ok : BOOLEAN, id : Nat] \cup {NoReply}]
  BY <1>1, <1>2, <1>3 DEF Inv, Typed
<1> QED
  BY <1>1, <1>4, LocalStepKeepsInv

LEMMA RestartKeepsInv ==
    ASSUME Inv, NEW c \in Clients, Restart(c)
    PROVE  Inv' /\ (Quiet => Quiet') /\ (IsolatedInv => IsolatedInv')
<1>1. /\ txnId' \in [Clients -> Nat] /\ life' \in [Clients -> Nat]
      /\ reply' \in [Clients -> [ok : BOOLEAN, id : Nat] \cup {NoReply}]
      /\ UNCHANGED tasks /\ NativeUnchanged
  BY DEF Restart, Inv, Typed, NoId
<1> QED
  BY <1>1, LocalStepKeepsInv

LEMMA ReopenKeepsInv ==
    ASSUME Inv, NEW c \in Clients, Reopen(c)
    PROVE  Inv' /\ (Quiet => Quiet') /\ (IsolatedInv => IsolatedInv')
<1>1. UNCHANGED <<txnId, life, reply>> /\ NativeUnchanged
  BY DEF Reopen
<1>2. CASE Send(c, "rollback", Forced)
  BY <1>1, <1>2, SendKeepsInv DEF NoId, Forced, Kinds, ByHand
<1>3. CASE UNCHANGED tasks
  BY <1>1, <1>3, LocalStepKeepsInv DEF Inv, Typed
<1> QED
  BY <1>2, <1>3 DEF Reopen

-----------------------------------------------------------------------------
(* The steps of the worker *)

\* A task only removes itself from the list, or appends runQueuedOperations.
LEMMA TaskListKept ==
    ASSUME Typed, tasks # <<>>,
           \/ tasks' = tasks
           \/ tasks' = Tail(tasks)
           \/ tasks' = Append(Tail(tasks), RunQueuedOperations)
    PROVE  /\ tasks' \in Seq(LegalOps \cup {RunQueuedOperations})
           /\ NoBatchTask => NoBatchTask'
           /\ NoByHandTask => NoByHandTask'
<1>1. /\ tasks \in Seq(LegalOps \cup {RunQueuedOperations}) /\ Len(tasks) \in Nat \ {0}
      /\ Tail(tasks) \in Seq(LegalOps \cup {RunQueuedOperations})
      /\ Len(Tail(tasks)) = Len(tasks) - 1
      /\ \A i \in 1..(Len(tasks) - 1) : Tail(tasks)[i] = tasks[i + 1]
  BY HeadTailProperties, EmptySeq DEF Typed
\* Every task that is left was there before.
<1> DEFINE Known(i) == \/ tasks'[i].kind = "runQueued"
                       \/ \E j \in 1..Len(tasks) : tasks'[i] = tasks[j]
<1>2. tasks' \in Seq(LegalOps \cup {RunQueuedOperations}) /\ \A i \in 1..Len(tasks') : Known(i)
  <2>1. CASE tasks' = tasks
    BY <1>1, <2>1
  <2>2. CASE tasks' = Tail(tasks)
    <3>1. \A i \in 1..(Len(tasks) - 1) : i + 1 \in 1..Len(tasks)
      BY <1>1
    <3> QED
      BY <1>1, <2>2, <3>1
  <2>3. CASE tasks' = Append(Tail(tasks), RunQueuedOperations)
    <3>1. /\ tasks' \in Seq(LegalOps \cup {RunQueuedOperations})
          /\ Len(tasks') = Len(tasks)
          /\ \A i \in 1..(Len(tasks) - 1) : tasks'[i] = tasks[i + 1]
          /\ tasks'[Len(tasks)] = RunQueuedOperations
      BY <1>1, <2>3, AppendProperties
    <3>2. ASSUME NEW i \in 1..Len(tasks) PROVE Known(i)
      <4>1. CASE i = Len(tasks)
        BY <3>1, <4>1 DEF RunQueuedOperations
      <4>2. CASE i # Len(tasks)
        <5>0. Len(tasks) \in Nat
          BY <1>1
        <5>1. i \in 1..(Len(tasks) - 1) /\ i + 1 \in 1..Len(tasks)
          BY <4>2, <5>0
        <5> QED
          BY <3>1, <5>1
      <4> QED
        BY <4>1, <4>2
    <3> QED
      BY <3>1, <3>2
  <2> QED
    BY <2>1, <2>2, <2>3
<1>3. NoBatchTask => NoBatchTask'
  BY <1>2 DEF NoBatchTask
<1>4. NoByHandTask => NoByHandTask'
  BY <1>2 DEF NoByHandTask, ByHand
<1> QED
  BY <1>2, <1>3, <1>4

\* One step of the worker: of the task at the head, or of the operation at
\* the head of noTransactionOperationQueue inside runQueuedOperations.
LEMMA RunTaskKeepsInv ==
    ASSUME Inv, RunTask
    PROVE  Inv' /\ (Quiet => Quiet') /\ (IsolatedInv => IsolatedInv')
<1> DEFINE op == Head(tasks)
           queued == Head(noTransactionOperationQueue)
           Legal == LegalOps \cup {RunQueuedOperations}
<1>1. /\ tasks # <<>> /\ Typed
      /\ UNCHANGED dartVars
      /\ \/ RunBatch(op) \/ RunFree(op) \/ RunInTransaction(op)
         \/ EnqueueOperation(op) \/ RunNextQueued(op) \/ EndRunQueued(op)
  BY DEF RunTask, Inv
<1>2. op \in Legal
  BY <1>1, HeadTailProperties DEF Typed
<1>3. op.kind # "runQueued" => op \in LegalOps
  BY <1>2 DEF RunQueuedOperations
<1>4. op.kind \notin Ungated \cup {"runQueued"} => op \in QueuedOps
  BY <1>3 DEF QueuedOps
<1>5. /\ NoBatchTask => op.kind # "batch"
      /\ NoByHandTask => op.kind \notin ByHand
  <2>1. Len(tasks) \in Nat \ {0} /\ op = tasks[1]
    BY <1>1, EmptySeq DEF Typed
  <2> QED
    BY <2>1 DEF NoBatchTask, NoByHandTask
<1>6. txnId' \in [Clients -> Nat] /\ life' \in [Clients -> Nat]
  BY <1>1 DEF Typed, dartVars
<1> HIDE DEF op
\* In every case: the list and the queue keep their shape, and the gate and
\* SQLite are unchanged or changed by the execution of a legal operation.
<1>7. CASE \/ RunBatch(op) \/ RunFree(op) \/ RunInTransaction(op)
  <2>1. Exec(op) /\ UNCHANGED noTransactionOperationQueue
    BY <1>7 DEF RunBatch, RunFree, RunInTransaction
  <2>2. op \in LegalOps
    BY <1>3, <1>7 DEF RunBatch, RunFree, RunInTransaction, Ungated
  <2>3. Passes(op) \/ op.kind \in Ungated
    BY <1>7 DEF RunBatch, RunFree, RunInTransaction, Passes
  <2>4. /\ tasks' \in Seq(Legal)
        /\ NoBatchTask => NoBatchTask'
        /\ NoByHandTask => NoByHandTask'
    BY <1>1, <1>7, TaskListKept DEF RunBatch, RunFree, RunInTransaction
  <2>5. Inv'
    BY <1>1, <1>6, <2>1, <2>2, <2>3, <2>4, ExecKeepsGate DEF Inv, Typed
  <2>6. Quiet => Quiet'
    BY <1>5, <2>1, <2>2, <2>3, <2>4, ExecKeepsGate DEF Quiet, NoByHandQueued
  <2>7. IsolatedInv => NothingLeftOpen' /\ StrictlyIsolated'
    <3> SUFFICES ASSUME IsolatedInv PROVE NothingLeftOpen' /\ StrictlyIsolated'
      OBVIOUS
    <3>1. op \in QueuedOps /\ Passes(op) /\ op.kind \notin ByHand
      BY <1>5, <2>2, <2>3 DEF QueuedOps, IsolatedInv, Quiet, Ungated, ByHand
    <3> QED
      BY <3>1, <2>1, ExecKeepsIsolation
  <2> QED
    BY <2>4, <2>5, <2>6, <2>7 DEF IsolatedInv
<1>8. CASE EnqueueOperation(op)
  <2>1. op \in QueuedOps
    BY <1>4, <1>8 DEF EnqueueOperation
  <2>2. /\ noTransactionOperationQueue' \in Seq(QueuedOps)
        /\ NoByHandTask /\ NoByHandQueued => NoByHandQueued'
    <3>1. noTransactionOperationQueue \in Seq(QueuedOps)
      BY <1>1 DEF Typed
    <3>2. noTransactionOperationQueue' = Append(noTransactionOperationQueue, op)
      BY <1>8 DEF EnqueueOperation
    <3>3. /\ noTransactionOperationQueue' \in Seq(QueuedOps)
          /\ \A i \in 1..Len(noTransactionOperationQueue') :
               \/ i \in 1..Len(noTransactionOperationQueue)
                  /\ noTransactionOperationQueue'[i] = noTransactionOperationQueue[i]
               \/ noTransactionOperationQueue'[i] = op
      BY <2>1, <3>1, <3>2, AppendProperties
    <3> QED
      BY <1>5, <3>3 DEF NoByHandQueued
  <2>3. /\ tasks' \in Seq(Legal)
        /\ NoBatchTask => NoBatchTask'
        /\ NoByHandTask => NoByHandTask'
    BY <1>1, <1>8, TaskListKept DEF EnqueueOperation, op
  <2>4. UNCHANGED reply /\ UNCHANGED gateVars /\ UNCHANGED sqliteVars
    BY <1>8 DEF EnqueueOperation
  <2>5. Inv'
    BY <1>6, <2>2, <2>3, <2>4 DEF Inv, Typed, GateMatchesSqlite, gateVars, sqliteVars
  <2>6. Quiet => Quiet'
    BY <2>2, <2>3, <2>4 DEF Quiet, sqliteVars
  <2>7. IsolatedInv => NothingLeftOpen' /\ StrictlyIsolated'
    BY <2>4 DEF IsolatedInv, NothingLeftOpen, StrictlyIsolated, gateVars, sqliteVars
  <2> QED
    BY <2>3, <2>5, <2>6, <2>7 DEF IsolatedInv
<1>9. CASE RunNextQueued(op)
  <2>1. /\ Exec(queued) /\ UNCHANGED tasks
        /\ currentTransactionId = NoId
        /\ noTransactionOperationQueue # <<>>
        /\ noTransactionOperationQueue' = Tail(noTransactionOperationQueue)
    BY <1>9 DEF RunNextQueued
  <2>2. /\ queued \in QueuedOps
        /\ noTransactionOperationQueue' \in Seq(QueuedOps)
    BY <1>1, <2>1, HeadTailProperties DEF Typed
  <2>3. NoByHandQueued => queued.kind \notin ByHand /\ NoByHandQueued'
    <3>1. /\ noTransactionOperationQueue \in Seq(QueuedOps)
          /\ Len(noTransactionOperationQueue) \in Nat \ {0}
          /\ queued = noTransactionOperationQueue[1]
          /\ Len(Tail(noTransactionOperationQueue)) = Len(noTransactionOperationQueue) - 1
          /\ \A i \in 1..(Len(noTransactionOperationQueue) - 1) :
               Tail(noTransactionOperationQueue)[i] = noTransactionOperationQueue[i + 1]
      BY <1>1, <2>1, HeadTailProperties, EmptySeq DEF Typed
    <3>2. \A i \in 1..(Len(noTransactionOperationQueue) - 1) :
            i + 1 \in 1..Len(noTransactionOperationQueue)
      BY <3>1
    <3>3. 1 \in 1..Len(noTransactionOperationQueue)
      BY <3>1
    <3> QED
      BY <2>1, <3>1, <3>2, <3>3 DEF NoByHandQueued
  <2> HIDE DEF queued
  <2>4. queued \in LegalOps /\ Passes(queued)
    BY <2>1, <2>2 DEF QueuedOps, Passes
  <2>5. Inv'
    BY <1>1, <1>6, <2>1, <2>2, <2>4, ExecKeepsGate DEF Inv, Typed
  <2>6. Quiet => Quiet'
    BY <2>1, <2>3, <2>4, ExecKeepsGate DEF Quiet, NoByHandTask
  <2>7. IsolatedInv => NothingLeftOpen' /\ StrictlyIsolated'
    BY <2>1, <2>2, <2>3, <2>4, ExecKeepsIsolation DEF IsolatedInv, Quiet
  <2> QED
    BY <2>1, <2>5, <2>6, <2>7 DEF IsolatedInv, NoBatchTask
<1>10. CASE EndRunQueued(op)
  <2>1. tasks' = Tail(tasks) /\ UNCHANGED reply /\ NativeUnchanged
    BY <1>10 DEF EndRunQueued
  <2>2. /\ tasks' \in Seq(Legal)
        /\ NoBatchTask => NoBatchTask'
        /\ NoByHandTask => NoByHandTask'
    BY <1>1, <2>1, TaskListKept
  <2>3. Inv'
    BY <1>6, <2>1, <2>2 DEF Inv, Typed, GateMatchesSqlite, NativeUnchanged,
                            gateVars, sqliteVars
  <2>4. Quiet => Quiet'
    BY <2>1, <2>2 DEF Quiet, NoByHandQueued, NativeUnchanged, sqliteVars
  <2>5. IsolatedInv => NothingLeftOpen' /\ StrictlyIsolated'
    BY <2>1 DEF IsolatedInv, NothingLeftOpen, StrictlyIsolated, NativeUnchanged, gateVars,
                sqliteVars
  <2> QED
    BY <2>2, <2>3, <2>4, <2>5 DEF IsolatedInv
<1> QED
  BY <1>1, <1>7, <1>8, <1>9, <1>10

LEMMA StutterKeepsInv ==
    ASSUME Inv, UNCHANGED vars
    PROVE  Inv' /\ (Quiet => Quiet') /\ (IsolatedInv => IsolatedInv')
<1>1. UNCHANGED tasks /\ NativeUnchanged /\ UNCHANGED <<txnId, life, reply>>
  BY DEF vars, dartVars, gateVars, sqliteVars, NativeUnchanged
<1> QED
  BY <1>1, LocalStepKeepsInv DEF Inv, Typed

-----------------------------------------------------------------------------
(* Theorems *)

LEMMA InitInv == Init => Inv /\ IsolatedInv
<1> SUFFICES ASSUME Init PROVE Inv /\ IsolatedInv
  OBVIOUS
<1>1. Typed
  BY EmptySeq DEF Init, Typed, NoId
<1>2. GateMatchesSqlite /\ NothingLeftOpen /\ StrictlyIsolated /\ NoBatchTask
  BY DEF Init, GateMatchesSqlite, NothingLeftOpen, StrictlyIsolated, NoBatchTask
<1>3. Quiet
  BY DEF Init, Quiet, NoByHandTask, NoByHandQueued
<1> QED
  BY <1>1, <1>2, <1>3 DEF Inv, IsolatedInv

\* The invariants are inductive: the first whatever happens, the others until
\* somebody begins or ends a transaction by hand, and the last if no client
\* sends a batch.
LEMMA NextInv ==
    ASSUME Inv, [Next]_vars
    PROVE  /\ Inv'
           /\ ~byHand' => /\ ~byHand
                          /\ Quiet => Quiet'
                          /\ IsolatedInv /\ NoBatches => IsolatedInv'
<1> DEFINE Kept == /\ Inv'
                   /\ ~byHand' => /\ ~byHand
                                  /\ Quiet => Quiet'
                                  /\ IsolatedInv /\ NoBatches => IsolatedInv'
<1>1. ASSUME NEW c \in Clients,
             \/ CallWrite(c) \/ CallBatch(c) \/ BeginTransaction(c)
             \/ TxnWrite(c) \/ TxnBatch(c) \/ TxnCloseCursor(c) \/ ExecuteByHand(c)
             \/ EndTransaction(c, "commit") \/ EndTransaction(c, "rollback")
      PROVE  Kept
  BY <1>1, CallsKeepInv
<1>2. ASSUME NEW c \in Clients, OnReply(c) PROVE Kept
  <2>1. byHand' = byHand
    BY <1>2 DEF OnReply, history
  <2> QED
    BY <1>2, <2>1, OnReplyKeepsInv
<1>3. ASSUME NEW c \in Clients, Restart(c) PROVE Kept
  BY <1>3, RestartKeepsInv DEF Restart, history
<1>4. ASSUME NEW c \in Clients, Reopen(c) PROVE Kept
  BY <1>4, ReopenKeepsInv DEF Reopen, history
<1>5. CASE RunTask
  BY <1>5, RunTaskKeepsInv DEF RunTask, history
<1>6. CASE UNCHANGED vars
  BY <1>6, StutterKeepsInv DEF vars, history
<1> QED
  BY <1>1, <1>2, <1>3, <1>4, <1>5, <1>6 DEF Next

\* Whatever fails or restarts, whoever is late, batches included: an open gate
\* means that SQLite and its session are in no transaction, unless one was
\* begun by hand; and when they are in one, transactionDepth says so.
THEOREM GateIsFaithful == Spec => []GateMatchesSqlite
<1>1. Init => Inv
  BY InitInv
<1>2. Inv /\ [Next]_vars => Inv'
  BY NextInv
<1>3. Inv => GateMatchesSqlite
  BY DEF Inv
<1> QED
  BY <1>1, <1>2, <1>3, PTL DEF Spec

\* As long as no client sends a batch, whatever fails or restarts: until
\* somebody begins a transaction by hand, the uncommitted writes are those of
\* the transaction the gate is held for, even when clients make late calls.
THEOREM GateIsolates ==
    ASSUME NoBatches
    PROVE  Spec => [](Isolated /\ (~byHand => StrictlyIsolated))
<1> DEFINE I == Inv /\ (~byHand => IsolatedInv)
<1>1. Init => I
  BY InitInv
<1>2. I /\ [Next]_vars => I'
  BY NextInv
<1>3. I => Isolated /\ (~byHand => StrictlyIsolated)
  BY DEF IsolatedInv, Isolated, Excused, StrictlyIsolated
<1> QED
  BY <1>1, <1>2, <1>3, PTL DEF Spec
=============================================================================
