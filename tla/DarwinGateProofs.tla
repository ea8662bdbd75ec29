-------------------------- MODULE DarwinGateProofs --------------------------
(***************************************************************************)
(* Proofs about DarwinGate, for any set of clients, any number of calls    *)
(* and restarts, any of the faults, and calls of a transaction awaited or  *)
(* not: in whatever order the system runs the blocks, an open gate means   *)
(* no transaction but one begun by hand (OpenGateIsHonest), and the gate   *)
(* isolates transactions as long as nobody sends a batch.  This and the    *)
(* rest hold until somebody begins or ends a transaction by hand: it is    *)
(* proved of PlainNext, the steps before that.                             *)
(*                                                                         *)
(* If the actions of transactions await their calls, what transaction()    *)
(* reports is what happens (VerdictsAreTrue).  A client then has one call  *)
(* on its way at most (Alone), so that no order of the blocks is needed:   *)
(* the end of a transaction is sent when nothing else of it is pending.    *)
(* If also nobody restarts, batches that transactions send stay in them    *)
(* (BatchesAreIsolated), and unless SQLite rolls back by itself the gate   *)
(* implements the same abstract transactions as that of Android until      *)
(* somebody restarts (GateIsSerial).                                       *)
(***************************************************************************)
EXTENDS DarwinGate, SequenceTheorems, TLAPS

-----------------------------------------------------------------------------
(* Lists of calls *)

LEMMA RemovedFrom ==
    ASSUME NEW S, NEW s \in Seq(S), NEW i \in DOMAIN s
    PROVE  s[i] \in S /\ RemoveAt(s, i) \in Seq(S)
<1>1. /\ Len(s) \in Nat /\ i \in 1..Len(s) /\ i \in Int
      /\ \A j \in 1..Len(s) : s[j] \in S
    OBVIOUS
<1>2. SubSeq(s, 1, i - 1) \in Seq(S)
  <2>1. \A j \in 1..(i - 1) : s[j] \in S
      BY <1>1
  <2> QED BY <1>1, <2>1, SubSeqProperties
<1>3. SubSeq(s, i + 1, Len(s)) \in Seq(S)
  <2>1. \A j \in (i + 1)..Len(s) : s[j] \in S
      BY <1>1
  <2> QED BY <1>1, <2>1, SubSeqProperties
<1>4. SubSeq(s, 1, i - 1) \o SubSeq(s, i + 1, Len(s)) \in Seq(S)
    BY <1>2, <1>3, ConcatProperties
<1> QED BY <1>1, <1>4 DEF RemoveAt

-----------------------------------------------------------------------------
(* The gate is honest *)

\* transaction() sends BEGIN without an id.
OpensGate(S) == \A op \in S : op.kind = "begin" => op.tid = G!NoId

\* Whatever else is known of the calls, which is nothing here, some set of
\* such calls has those that are pending.
HonestInv ==
    /\ OpenGateMeansNoTransaction
    /\ lastTransactionId \in Nat
    /\ draining => currentTransactionId = G!NoId /\ noTransactionOperationQueue # <<>>
    /\ \E S : OpensGate(S) /\ tasks \in Seq(S) /\ noTransactionOperationQueue \in Seq(S)

GateKept ==
    UNCHANGED <<inTransaction, draining, currentTransactionId, lastTransactionId,
                noTransactionOperationQueue, sqliteOpen, begunByHand>>

\* No transaction appears, and none that was begun by hand goes unnoticed.
NothingOpens ==
    /\ sqliteOpen' => sqliteOpen
    /\ inTransaction' => inTransaction
    /\ begunByHand => begunByHand'

LEMMA NothingOpensIsHonest ==
    ASSUME OpenGateMeansNoTransaction, NothingOpens,
           currentTransactionId' = G!NoId => currentTransactionId = G!NoId
    PROVE  OpenGateMeansNoTransaction'
BY Zenon DEF OpenGateMeansNoTransaction, NothingOpens

LEMMA SameIsNothingOpens ==
    ASSUME UNCHANGED <<inTransaction, sqliteOpen, begunByHand>>
    PROVE  NothingOpens
<1>1. UNCHANGED inTransaction /\ UNCHANGED sqliteOpen /\ UNCHANGED begunByHand
    OBVIOUS
<1>2. (sqliteOpen' => sqliteOpen) /\ (inTransaction' => inTransaction)
    BY <1>1
<1>3. begunByHand => begunByHand'
    BY <1>1
<1> QED BY <1>2, <1>3 DEF NothingOpens

\* A statement that the gate lets through, or that runs when it is open.
LEMMA ExecIsHonest ==
    ASSUME OpenGateMeansNoTransaction, lastTransactionId \in Nat, NEW op, Exec(op),
           op.kind = "begin" => currentTransactionId = G!NoId
    PROVE  OpenGateMeansNoTransaction' /\ lastTransactionId' \in Nat
<1>1. CASE op.kind = "begin" /\ ExecBegin(op)
  <2>1. lastTransactionId' = lastTransactionId + 1
      BY <1>1 DEF ExecBegin
  <2>2. lastTransactionId' \in Nat /\ lastTransactionId' # G!NoId
      BY <2>1 DEF G!NoId
  <2>3. \/ currentTransactionId' = lastTransactionId + 1
        \/ UNCHANGED <<inTransaction, sqliteOpen, begunByHand>>
      BY <1>1 DEF ExecBegin
  <2>4. CASE currentTransactionId' = lastTransactionId + 1
      BY <2>1, <2>2, <2>4 DEF OpenGateMeansNoTransaction
  <2>5. CASE UNCHANGED <<inTransaction, sqliteOpen, begunByHand>>
      BY <1>1, <2>2, <2>5, SameIsNothingOpens, NothingOpensIsHonest
  <2> QED BY <2>2, <2>3, <2>4, <2>5
<1>2. CASE ExecBeginByHand(op)
  <2>1. /\ currentTransactionId' = currentTransactionId /\ lastTransactionId' = lastTransactionId
        /\ \/ begunByHand' = TRUE
           \/ UNCHANGED <<inTransaction, sqliteOpen, begunByHand>>
      BY <1>2 DEF ExecBeginByHand
  <2>2. CASE begunByHand' = TRUE
      BY <2>1, <2>2 DEF OpenGateMeansNoTransaction
  <2>3. CASE UNCHANGED <<inTransaction, sqliteOpen, begunByHand>>
      BY <2>1, <2>3, SameIsNothingOpens, NothingOpensIsHonest
  <2> QED BY <2>1, <2>2, <2>3
<1>3. CASE ExecEnd(op) \/ ExecEndInBatch(op)
  <2>1. /\ inTransaction' = FALSE /\ lastTransactionId' = lastTransactionId
        /\ \/ sqliteOpen' = FALSE
           \/ UNCHANGED <<sqliteOpen, begunByHand, currentTransactionId>>
      BY <1>3 DEF ExecEnd, ExecEndInBatch, sqliteVars
  <2>2. CASE sqliteOpen' = FALSE
      BY <2>1, <2>2 DEF OpenGateMeansNoTransaction
  <2>3. CASE UNCHANGED <<sqliteOpen, begunByHand, currentTransactionId>>
    <3>1. (sqliteOpen' => sqliteOpen) /\ (inTransaction' => inTransaction)
        BY <2>1, <2>3
    <3>2. begunByHand => begunByHand'
        BY <2>3
    <3> QED BY <2>1, <2>3, <3>1, <3>2, NothingOpensIsHonest DEF NothingOpens
  <2> QED BY <2>1, <2>2, <2>3
<1>4. CASE ExecOther(op)
  <2>1. /\ currentTransactionId' = currentTransactionId /\ lastTransactionId' = lastTransactionId
        /\ inTransaction' = inTransaction /\ begunByHand' = begunByHand
      BY <1>4 DEF ExecOther, G!ExecWrite, G!ExecBatch, G!ExecCancel, G!gateVars, G!sqliteVars
  <2>2. sqliteOpen' = sqliteOpen \/ sqliteOpen' = FALSE
      BY <1>4 DEF ExecOther, G!ExecWrite, G!ExecBatch, G!ExecCancel, G!Apply, G!sqliteVars
  <2>3. NothingOpens
    <3>1. sqliteOpen' => sqliteOpen
        BY <2>2
    <3>2. inTransaction' => inTransaction
        BY <2>1
    <3>3. begunByHand => begunByHand'
        BY <2>1
    <3> QED BY <3>1, <3>2, <3>3 DEF NothingOpens
  <2> QED BY <2>1, <2>3, NothingOpensIsHonest
<1> QED BY <1>1, <1>2, <1>3, <1>4 DEF Exec

LEMMA SendIsHonest ==
    ASSUME HonestInv, GateKept,
           \/ UNCHANGED tasks
           \/ \E op : tasks' = Append(tasks, op) /\ (op.kind = "begin" => op.tid = G!NoId)
    PROVE  HonestInv'
<1>1. PICK S : OpensGate(S) /\ tasks \in Seq(S) /\ noTransactionOperationQueue \in Seq(S)
    BY DEF HonestInv
<1>2. /\ OpenGateMeansNoTransaction' /\ lastTransactionId' \in Nat
      /\ draining' => currentTransactionId' = G!NoId /\ noTransactionOperationQueue' # <<>>
    BY DEF HonestInv, GateKept, OpenGateMeansNoTransaction
<1>3. CASE UNCHANGED tasks
    BY <1>1, <1>2, <1>3 DEF HonestInv, GateKept
<1>4. ASSUME NEW op, tasks' = Append(tasks, op), op.kind = "begin" => op.tid = G!NoId
      PROVE  HonestInv'
  <2>1. OpensGate(S \cup {op})
      BY <1>1, <1>4 DEF OpensGate
  <2>2. tasks \in Seq(S \cup {op}) /\ noTransactionOperationQueue \in Seq(S \cup {op})
      BY <1>1
  <2>3. tasks' \in Seq(S \cup {op}) /\ noTransactionOperationQueue' \in Seq(S \cup {op})
      BY <1>4, <2>2, AppendProperties DEF GateKept
  <2> QED BY <1>2, <2>1, <2>3 DEF HonestInv
<1> QED BY <1>3, <1>4

LEMMA ClientsAreHonest ==
    ASSUME HonestInv, NEW c \in Clients,
           \/ CallDatabase(c) \/ CallTransaction(c) \/ ExecuteByHand(c) \/ EndTransaction(c)
           \/ OnReply(c) \/ Restart(c) \/ Reopen(c)
    PROVE  HonestInv'
<1> DEFINE Sent(kind, tid) == G!Send(c, kind, tid) /\ (kind = "begin" => tid = G!NoId)
<1>1. ASSUME NativeUnchanged, G!NativeUnchanged PROVE GateKept
    BY <1>1 DEF NativeUnchanged, G!NativeUnchanged, G!gateVars, G!sqliteVars, GateKept
<1>2. CASE CallDatabase(c)
  <2>1. GateKept /\ \E kind : Sent(kind, G!NoId)
      BY <1>1, <1>2 DEF CallDatabase, G!CallWrite, G!CallBatch, G!BeginTransaction, G!Invoke
  <2> QED BY <2>1, SendIsHonest DEF G!Send
<1>3. CASE CallTransaction(c)
  <2>1. GateKept /\ \E tid : Sent("write", tid) \/ Sent("batch", tid) \/ Sent("cancel", tid)
      BY <1>1, <1>3 DEF CallTransaction, G!TxnCall, G!TxnWrite, G!TxnBatch, G!TxnCloseCursor,
                        G!Invoke
  <2> QED BY <2>1, SendIsHonest DEF G!Send
<1>4. CASE ExecuteByHand(c)
  <2>1. GateKept /\ \E kind, tid : kind # "begin" /\ Sent(kind, tid)
      BY <1>1, <1>4 DEF ExecuteByHand, G!ExecuteByHand, G!Invoke
  <2> QED BY <2>1, SendIsHonest DEF G!Send
<1>5. CASE EndTransaction(c)
  <2>1. GateKept /\ \E kind, tid : kind # "begin" /\ Sent(kind, tid)
      BY <1>1, <1>5 DEF EndTransaction, G!EndTransaction, G!Invoke
  <2> QED BY <2>1, SendIsHonest DEF G!Send
<1>6. CASE OnReply(c) \/ Restart(c)
    BY <1>1, <1>6, SendIsHonest DEF OnReply, G!OnReply, Restart, G!Restart
<1>7. CASE Reopen(c)
  <2>1. GateKept /\ (UNCHANGED tasks \/ Sent("rollback", G!Forced))
      BY <1>1, <1>7 DEF Reopen, G!Reopen
  <2> QED BY <2>1, SendIsHonest DEF G!Send
<1> QED BY <1>2, <1>3, <1>4, <1>5, <1>6, <1>7

LEMMA BlocksAreHonest ==
    ASSUME HonestInv, Native
    PROVE  HonestInv'
<1> DEFINE queue == noTransactionOperationQueue
<1>1. PICK S : OpensGate(S) /\ tasks \in Seq(S) /\ queue \in Seq(S)
    BY DEF HonestInv
<1>2. ASSUME NEW i \in DOMAIN tasks, RunBlock(i) PROVE HonestInv'
  <2>1. tasks[i] \in S /\ tasks' \in Seq(S) /\ queue' = queue
      BY <1>1, <1>2, RemovedFrom DEF RunBlock
  <2>2. tasks[i].kind = "begin" => currentTransactionId = G!NoId
      BY <1>1, <1>2, <2>1 DEF RunBlock, MayRun, Ungated, OpensGate
  <2>3. OpenGateMeansNoTransaction' /\ lastTransactionId' \in Nat
      BY <1>2, <2>2, ExecIsHonest DEF RunBlock, HonestInv
  <2>4. draining' => currentTransactionId' = G!NoId /\ queue' # <<>>
      BY <1>2 DEF RunBlock
  <2> QED BY <1>1, <2>1, <2>3, <2>4 DEF HonestInv
<1>3. ASSUME NEW i \in DOMAIN tasks, EnqueueOperation(i) PROVE HonestInv'
  <2>1. tasks[i] \in S /\ tasks' \in Seq(S) /\ queue' \in Seq(S)
      BY <1>1, <1>3, RemovedFrom, AppendProperties DEF EnqueueOperation
  <2>2. /\ ~draining
        /\ UNCHANGED <<draining, inTransaction, currentTransactionId, lastTransactionId,
                       sqliteOpen, begunByHand>>
      BY <1>3 DEF EnqueueOperation, sqliteVars
  <2>3. OpenGateMeansNoTransaction' /\ lastTransactionId' \in Nat /\ ~draining'
      BY <2>2 DEF HonestInv, OpenGateMeansNoTransaction
  <2> QED BY <1>1, <2>1, <2>3 DEF HonestInv
<1>4. ASSUME RunNextQueued PROVE HonestInv'
  <2>1. queue # <<>> /\ currentTransactionId = G!NoId
      BY <1>4 DEF RunNextQueued, HonestInv
  <2>2. queue' \in Seq(S) /\ tasks' \in Seq(S) /\ Len(queue') = Len(queue) - 1
      BY <1>1, <1>4, <2>1, HeadTailProperties DEF RunNextQueued
  <2>3. OpenGateMeansNoTransaction' /\ lastTransactionId' \in Nat
      BY <1>4, <2>1, ExecIsHonest DEF RunNextQueued, HonestInv
  <2>4. draining' => Len(queue) > 1 /\ currentTransactionId' = G!NoId
      BY <1>4 DEF RunNextQueued
  <2>5. Len(queue) \in Nat /\ (queue' = <<>> => Len(queue') = 0)
      BY <1>1, EmptySeq
  <2>6. draining' => queue' # <<>>
      BY <2>2, <2>4, <2>5
  <2> QED BY <1>1, <2>2, <2>3, <2>4, <2>6 DEF HonestInv
<1> QED BY <1>2, <1>3, <1>4 DEF Native

\* In whatever order the blocks run, whatever fails or restarts, batches and
\* calls that are not awaited included: when the gate is open SQLite is in
\* no transaction, and the flag that openDatabase reports is not set, but for
\* a transaction that was begun by hand.
THEOREM OpenGateIsHonest == Spec => []OpenGateMeansNoTransaction
<1>1. Init => HonestInv
  <2>1. OpensGate({})
      BY DEF OpensGate
  <2>2. <<>> \in Seq({}) /\ G!NoId \in Nat
      BY EmptySeq DEF G!NoId
  <2> QED BY <2>1, <2>2 DEF Init, G!Init, HonestInv, OpenGateMeansNoTransaction
<1>2. HonestInv /\ [Next]_vars => HonestInv'
  <2>1. HonestInv /\ UNCHANGED vars => HonestInv'
      BY SendIsHonest DEF vars, G!vars, G!dartVars, G!gateVars, G!sqliteVars, GateKept
  <2> QED BY <2>1, ClientsAreHonest, BlocksAreHonest DEF Next
<1>3. HonestInv => OpenGateMeansNoTransaction
    BY DEF HonestInv
<1> QED BY <1>1, <1>2, <1>3, PTL DEF Spec
-----------------------------------------------------------------------------
(* The inductive invariant *)

\* The statements of transaction() and the calls around it: all but BEGIN,
\* COMMIT and ROLLBACK by hand.
PlainKinds == {"begin", "commit", "rollback", "write", "batch", "cancel"}

\* The calls clients make: BEGIN carries no id, and only the ROLLBACK of
\* openDatabase is forced.
LegalOps ==
    {op \in [client : Clients, life : Nat, tid : {G!Forced} \cup Nat, kind : PlainKinds] :
        /\ op.kind = "begin" => op.tid = G!NoId
        /\ op.tid = G!Forced => op.kind = "rollback"}
GatedOps == {op \in LegalOps : op.kind # "batch"}

Answers == [ok : BOOLEAN, id : Nat] \cup {G!NoReply}

Typed ==
    /\ txnId \in [Clients -> Nat]
    /\ life \in [Clients -> Nat]
    /\ reply \in [Clients -> Answers]
    /\ tasks \in Seq(LegalOps)
    /\ noTransactionOperationQueue \in Seq(GatedOps)
    /\ currentTransactionId \in Nat /\ lastTransactionId \in Nat

\* What waited for a transaction runs when there is none.
DrainsOpen ==
    draining => currentTransactionId = G!NoId /\ noTransactionOperationQueue # <<>>

GateIsHonest == currentTransactionId = G!NoId => ~sqliteOpen /\ ~inTransaction

Inv == Typed /\ GateIsHonest /\ DrainsOpen

\* In autocommit mode nothing is uncommitted.
NothingLeftOpen == ~sqliteOpen => uncommitted = {}

NoBatches == Calls \cap {"batch", "txnBatch"} = {}
NoBatchTask == tasks \in Seq(GatedOps)

StrictlyIsolated ==
    \A t \in uncommitted : t[2] # G!NoId /\ t[2] = currentTransactionId

IsolatedInv == Inv /\ NothingLeftOpen /\ StrictlyIsolated /\ NoBatchTask

\* What happens until somebody begins or ends a transaction by hand.
PlainNext ==
    \/ \E c \in Clients :
         \/ CallDatabase(c) \/ CallTransaction(c) \/ EndTransaction(c)
         \/ OnReply(c)
         \/ Restart(c) \/ Reopen(c)
    \/ Native

\* The native side as the invariants see it.
NativeKept ==
    UNCHANGED <<inTransaction, draining, currentTransactionId, lastTransactionId,
                noTransactionOperationQueue, sqliteOpen, uncommitted>>

-----------------------------------------------------------------------------
(* Statements *)

\* What is known of op when it is executed.
Passes(op) ==
    \/ currentTransactionId = G!NoId
    \/ op.tid # G!NoId /\ op.tid \in {currentTransactionId, G!Forced}
    \/ Ungated(op)

LEMMA PlainExec ==
    ASSUME NEW op \in LegalOps, Exec(op)
    PROVE  \/ op.kind = "begin" /\ ExecBegin(op)
           \/ op.kind \in {"commit", "rollback"} /\ ExecEnd(op)
           \/ ExecOther(op)
<1>1. op.kind # "beginByHand" /\ op.kind # "batchByHand"
    BY DEF LegalOps, PlainKinds
<1> QED BY <1>1 DEF Exec

LEMMA AnswerTyped ==
    ASSUME Typed, NEW op \in LegalOps, NEW ok \in BOOLEAN, NEW id \in Nat,
           G!Answer(op, ok, id)
    PROVE  reply' \in [Clients -> Answers]
<1>1. op.client \in Clients /\ [ok |-> ok, id |-> id] \in Answers
    BY DEF LegalOps, Answers
<1>2. \/ reply' = reply
      \/ reply' = [reply EXCEPT ![op.client] = [ok |-> ok, id |-> id]]
    BY DEF G!Answer
<1> QED BY <1>1, <1>2 DEF Typed

\* Whatever it is and whether it fails or not, the gate still tells the
\* truth; only COMMIT and ROLLBACK open it.
LEMMA ExecKeepsGate ==
    ASSUME Inv, NEW op \in LegalOps, Exec(op), Passes(op)
    PROVE  /\ reply' \in [Clients -> Answers]
           /\ currentTransactionId' \in Nat /\ lastTransactionId' \in Nat
           /\ GateIsHonest'
<1>1. G!NoId = 0 /\ G!NoId \in Nat
    BY DEF G!NoId
<1>2. CASE op.kind = "begin" /\ ExecBegin(op)
  <2>1. currentTransactionId = G!NoId /\ ~sqliteOpen /\ ~inTransaction
      BY <1>2 DEF LegalOps, Passes, Ungated, Inv, GateIsHonest
  <2>2. lastTransactionId' = lastTransactionId + 1 /\ lastTransactionId + 1 \in Nat \ {0}
      BY <1>2 DEF ExecBegin, Inv, Typed
  <2>3. CASE /\ currentTransactionId' = lastTransactionId + 1
             /\ G!Answer(op, TRUE, lastTransactionId + 1)
    <3>1. reply' \in [Clients -> Answers]
        BY <2>2, <2>3, AnswerTyped DEF Inv
    <3> QED BY <1>1, <2>2, <2>3, <3>1 DEF GateIsHonest
  <2>4. CASE /\ currentTransactionId' = G!NoId
             /\ UNCHANGED <<inTransaction, sqliteOpen>>
             /\ G!Answer(op, FALSE, G!NoId)
    <3>1. reply' \in [Clients -> Answers]
        BY <1>1, <2>4, AnswerTyped DEF Inv
    <3> QED BY <1>1, <2>1, <2>2, <2>4, <3>1 DEF GateIsHonest
  <2> QED BY <1>2, <2>3, <2>4 DEF ExecBegin
<1>3. CASE op.kind \in {"commit", "rollback"} /\ ExecEnd(op)
  <2>1. /\ inTransaction' = FALSE /\ lastTransactionId' = lastTransactionId
        /\ \/ sqliteOpen' = FALSE /\ currentTransactionId' = G!NoId
           \/ sqliteOpen' = sqliteOpen /\ currentTransactionId' = currentTransactionId
        /\ G!Answer(op, TRUE, G!NoId) \/ G!Answer(op, FALSE, G!NoId)
      BY <1>3 DEF ExecEnd, sqliteVars
  <2>2. reply' \in [Clients -> Answers]
      BY <1>1, <2>1, AnswerTyped DEF Inv
  <2>3. currentTransactionId' \in Nat /\ lastTransactionId' \in Nat
      BY <1>1, <2>1 DEF Inv, Typed
  <2>4. GateIsHonest'
      BY <2>1 DEF Inv, GateIsHonest
  <2> QED BY <2>2, <2>3, <2>4
<1>4. CASE ExecOther(op)
  <2>1. /\ currentTransactionId' = currentTransactionId
        /\ lastTransactionId' = lastTransactionId
        /\ inTransaction' = inTransaction
        /\ sqliteOpen' = sqliteOpen \/ sqliteOpen' = FALSE
        /\ G!Answer(op, TRUE, G!NoId) \/ G!Answer(op, FALSE, G!NoId)
      BY <1>4 DEF ExecOther, G!ExecWrite, G!ExecBatch, G!ExecCancel, G!Apply, G!gateVars,
                  G!sqliteVars
  <2>2. reply' \in [Clients -> Answers]
      BY <1>1, <2>1, AnswerTyped DEF Inv
  <2> QED BY <2>1, <2>2 DEF Inv, Typed, GateIsHonest
<1> QED BY <1>2, <1>3, <1>4, PlainExec

\* A statement leaves only writes of the transaction the gate is held for
\* uncommitted, unless it is a batch of somebody else.
LEMMA ExecKeepsIsolation ==
    ASSUME Inv, NothingLeftOpen, StrictlyIsolated, NEW op \in LegalOps, Exec(op), Passes(op),
           op.kind = "batch" => op.tid # G!NoId /\ op.tid = currentTransactionId
    PROVE  NothingLeftOpen' /\ StrictlyIsolated'
<1>1. CASE op.kind = "begin" /\ ExecBegin(op)
  <2>1. currentTransactionId = G!NoId /\ ~sqliteOpen
      BY <1>1 DEF LegalOps, Passes, Ungated, Inv, GateIsHonest
  <2>2. uncommitted' = {}
      BY <1>1, <2>1 DEF ExecBegin, NothingLeftOpen
  <2> QED BY <2>2 DEF NothingLeftOpen, StrictlyIsolated
<1>2. CASE op.kind \in {"commit", "rollback"} /\ ExecEnd(op)
  <2>1. \/ uncommitted' = {}
        \/ UNCHANGED <<currentTransactionId, sqliteOpen, uncommitted>>
      BY <1>2 DEF ExecEnd, sqliteVars
  <2> QED BY <2>1 DEF NothingLeftOpen, StrictlyIsolated
<1>3. CASE \/ op.kind = "write" /\ G!ExecWrite(op)
           \/ op.kind = "batch" /\ G!ExecBatch(op)
  <2>1. currentTransactionId' = currentTransactionId
      BY <1>3 DEF G!ExecWrite, G!ExecBatch, G!gateVars
  <2>2. CASE ~sqliteOpen
    <3>1. uncommitted' = {}
        BY <1>3, <2>2 DEF G!ExecWrite, G!ExecBatch, G!Apply, NothingLeftOpen
    <3> QED BY <3>1 DEF NothingLeftOpen, StrictlyIsolated
  <2>3. CASE sqliteOpen
    <3>1. op.tid # G!Forced
        BY <1>3 DEF LegalOps
    <3>2. currentTransactionId # G!NoId
        BY <2>3 DEF Inv, GateIsHonest
    <3>3. op.tid = currentTransactionId
        BY <1>3, <3>1, <3>2 DEF Passes, Ungated
    <3>4. \/ sqliteOpen' /\ uncommitted' = uncommitted \cup {<<op.client, op.tid>>}
          \/ sqliteOpen' /\ uncommitted' = uncommitted
          \/ uncommitted' = {}
        BY <1>3, <2>3 DEF G!ExecWrite, G!ExecBatch, G!Apply
    <3> QED BY <2>1, <3>2, <3>3, <3>4 DEF NothingLeftOpen, StrictlyIsolated
  <2> QED BY <2>2, <2>3
<1>4. CASE op.kind = "cancel" /\ G!ExecCancel(op)
    BY <1>4 DEF G!ExecCancel, G!gateVars, G!sqliteVars, NothingLeftOpen, StrictlyIsolated
<1> QED BY <1>1, <1>2, <1>3, <1>4, PlainExec DEF ExecOther

-----------------------------------------------------------------------------
(* The steps of the clients *)

\* A client that sends a legal call, or nothing.
LEMMA ClientKeepsInv ==
    ASSUME Inv, NativeKept,
           txnId' \in [Clients -> Nat], life' \in [Clients -> Nat],
           reply' \in [Clients -> Answers],
           \/ UNCHANGED tasks
           \/ \E op \in LegalOps : /\ tasks' = Append(tasks, op)
                                   /\ NoBatches => op \in GatedOps
    PROVE  Inv' /\ (IsolatedInv /\ NoBatches => IsolatedInv')
<1>1. tasks' \in Seq(LegalOps)
  <2>1. \A op \in LegalOps : Append(tasks, op) \in Seq(LegalOps)
      BY AppendProperties DEF Inv, Typed
  <2> QED BY <2>1 DEF Inv, Typed
<1>2. NoBatchTask /\ NoBatches => NoBatchTask'
  <2>1. NoBatchTask => \A op \in GatedOps : Append(tasks, op) \in Seq(GatedOps)
      BY AppendProperties DEF NoBatchTask
  <2> QED BY <2>1 DEF NoBatchTask
<1>3. Inv'
    BY <1>1 DEF Inv, Typed, GateIsHonest, DrainsOpen, NativeKept
<1>4. IsolatedInv => NothingLeftOpen' /\ StrictlyIsolated'
    BY DEF IsolatedInv, NothingLeftOpen, StrictlyIsolated, NativeKept
<1> QED BY <1>2, <1>3, <1>4 DEF IsolatedInv

LEMMA SendKeepsInv ==
    ASSUME Inv, NEW c \in Clients, NEW tid \in {G!Forced} \cup Nat, NEW kind \in PlainKinds,
           kind = "begin" => tid = G!NoId, tid = G!Forced => kind = "rollback",
           NoBatches => kind # "batch",
           G!Send(c, kind, tid), UNCHANGED <<txnId, life, reply>>, NativeKept
    PROVE  Inv' /\ (IsolatedInv /\ NoBatches => IsolatedInv')
<1> DEFINE op == [client |-> c, life |-> life[c], tid |-> tid, kind |-> kind]
<1>1. op \in LegalOps /\ (NoBatches => op \in GatedOps)
    BY DEF LegalOps, GatedOps, Inv, Typed
<1>2. tasks' = Append(tasks, op)
    BY DEF G!Send
<1>3. /\ txnId' \in [Clients -> Nat] /\ life' \in [Clients -> Nat]
      /\ reply' \in [Clients -> Answers]
    BY DEF Inv, Typed
<1> QED BY <1>1, <1>2, <1>3, ClientKeepsInv

LEMMA NativeIsKept ==
    ASSUME NativeUnchanged, G!NativeUnchanged
    PROVE  NativeKept
BY DEF NativeUnchanged, G!NativeUnchanged, G!gateVars, G!sqliteVars, NativeKept

LEMMA CallsKeepInv ==
    ASSUME Inv, NEW c \in Clients,
           CallDatabase(c) \/ CallTransaction(c) \/ EndTransaction(c)
    PROVE  Inv' /\ (IsolatedInv /\ NoBatches => IsolatedInv')
<1>1. txnId[c] \in Nat /\ G!NoId \in Nat /\ G!NoId # G!Forced /\ G!Forced \notin Nat
    BY DEF Inv, Typed, G!NoId, G!Forced
<1>2. \E kind \in PlainKinds, tid \in {G!NoId, txnId[c]} :
        /\ kind = "begin" => tid = G!NoId
        /\ NoBatches => kind # "batch"
        /\ G!Send(c, kind, tid) /\ UNCHANGED <<txnId, life, reply>> /\ NativeKept
  <2>1. CASE CallDatabase(c)
      BY <2>1, NativeIsKept DEF CallDatabase, G!CallWrite, G!CallBatch, G!BeginTransaction,
                                G!Invoke, NoBatches, PlainKinds
  <2>2. CASE CallTransaction(c)
      BY <2>2, NativeIsKept DEF CallTransaction, G!TxnCall, G!TxnWrite, G!TxnBatch, G!TxnCloseCursor,
                                G!Invoke, NoBatches, PlainKinds
  <2>3. CASE EndTransaction(c)
      BY <2>3, NativeIsKept DEF EndTransaction, G!EndTransaction, G!Invoke, PlainKinds
  <2> QED BY <2>1, <2>2, <2>3
<1> QED BY <1>1, <1>2, SendKeepsInv

LEMMA OnReplyKeepsInv ==
    ASSUME Inv, NEW c \in Clients, OnReply(c)
    PROVE  Inv' /\ (IsolatedInv /\ NoBatches => IsolatedInv')
<1>1. /\ reply[c] # G!NoReply
      /\ reply' = [reply EXCEPT ![c] = G!NoReply]
      /\ UNCHANGED <<life, tasks>> /\ NativeKept
    BY NativeIsKept DEF OnReply, G!OnReply
<1>2. \/ txnId' = txnId
      \/ txnId' = [txnId EXCEPT ![c] = reply[c].id]
      \/ txnId' = [txnId EXCEPT ![c] = G!NoId]
    BY DEF OnReply, G!OnReply
<1>3. reply[c].id \in Nat /\ G!NoId \in Nat /\ G!NoReply \in Answers
    BY <1>1 DEF Inv, Typed, Answers, G!NoId
<1>4. /\ txnId' \in [Clients -> Nat] /\ life' \in [Clients -> Nat]
      /\ reply' \in [Clients -> Answers]
    BY <1>1, <1>2, <1>3 DEF Inv, Typed
<1> QED BY <1>1, <1>4, ClientKeepsInv

LEMMA RestartKeepsInv ==
    ASSUME Inv, NEW c \in Clients, Restart(c)
    PROVE  Inv' /\ (IsolatedInv /\ NoBatches => IsolatedInv')
<1>1. G!NoId \in Nat /\ G!NoReply \in Answers
    BY DEF Answers, G!NoId
<1>2. /\ txnId' \in [Clients -> Nat] /\ life' \in [Clients -> Nat]
      /\ reply' \in [Clients -> Answers]
      /\ UNCHANGED tasks
    BY <1>1 DEF Restart, G!Restart, Inv, Typed
<1>3. NativeKept
    BY NativeIsKept DEF Restart, G!Restart
<1> QED BY <1>2, <1>3, ClientKeepsInv

LEMMA ReopenKeepsInv ==
    ASSUME Inv, NEW c \in Clients, Reopen(c)
    PROVE  Inv' /\ (IsolatedInv /\ NoBatches => IsolatedInv')
<1>1. UNCHANGED <<txnId, life, reply>> /\ NativeKept
    BY NativeIsKept DEF Reopen, G!Reopen
<1>2. CASE G!Send(c, "rollback", G!Forced)
    BY <1>1, <1>2, SendKeepsInv DEF PlainKinds
<1>3. CASE UNCHANGED tasks
  <2>1. /\ txnId' \in [Clients -> Nat] /\ life' \in [Clients -> Nat]
        /\ reply' \in [Clients -> Answers]
      BY <1>1 DEF Inv, Typed
  <2> QED BY <1>1, <1>3, <2>1, ClientKeepsInv
<1> QED BY <1>2, <1>3 DEF Reopen, G!Reopen

-----------------------------------------------------------------------------
(* The blocks *)

LEMMA RunBlockKeepsInv ==
    ASSUME Inv, NEW i \in DOMAIN tasks, RunBlock(i), UNCHANGED <<txnId, life>>
    PROVE  Inv' /\ (IsolatedInv => IsolatedInv')
<1> DEFINE op == tasks[i]
<1>1. op \in LegalOps /\ tasks' \in Seq(LegalOps)
    BY RemovedFrom DEF RunBlock, Inv, Typed
<1>2. NoBatchTask => op \in GatedOps /\ NoBatchTask'
    BY RemovedFrom DEF RunBlock, NoBatchTask
<1>3. Exec(op) /\ Passes(op) /\ UNCHANGED noTransactionOperationQueue /\ DrainsOpen'
    BY DEF RunBlock, MayRun, Passes, DrainsOpen
<1> HIDE DEF op
<1>4. Inv'
    BY <1>1, <1>3, ExecKeepsGate DEF Inv, Typed
<1>5. IsolatedInv => NothingLeftOpen' /\ StrictlyIsolated'
    BY <1>2, <1>3, ExecKeepsIsolation DEF IsolatedInv, GatedOps
<1> QED BY <1>2, <1>4, <1>5 DEF IsolatedInv

LEMMA EnqueueKeepsInv ==
    ASSUME Inv, NEW i \in DOMAIN tasks, EnqueueOperation(i), UNCHANGED <<txnId, life>>
    PROVE  Inv' /\ (IsolatedInv => IsolatedInv')
<1>1. tasks[i] \in LegalOps /\ tasks' \in Seq(LegalOps)
    BY RemovedFrom DEF EnqueueOperation, Inv, Typed
<1>2. tasks[i] \in GatedOps
    BY <1>1 DEF EnqueueOperation, MayRun, Ungated, GatedOps
<1>3. noTransactionOperationQueue' \in Seq(GatedOps)
    BY <1>2, AppendProperties DEF EnqueueOperation, Inv, Typed
<1>4. NoBatchTask => NoBatchTask'
    BY RemovedFrom DEF EnqueueOperation, NoBatchTask
<1>5. /\ ~draining
      /\ UNCHANGED <<reply, draining, inTransaction, currentTransactionId, lastTransactionId,
                     sqliteOpen, uncommitted>>
    BY DEF EnqueueOperation, sqliteVars
<1>6. Inv'
    BY <1>1, <1>3, <1>5 DEF Inv, Typed, GateIsHonest, DrainsOpen
<1>7. IsolatedInv => NothingLeftOpen' /\ StrictlyIsolated'
    BY <1>5 DEF IsolatedInv, NothingLeftOpen, StrictlyIsolated
<1> QED BY <1>4, <1>6, <1>7 DEF IsolatedInv

\* draining stays set only while the queue is not empty.
LEMMA RunNextKeepsInv ==
    ASSUME Inv, RunNextQueued, UNCHANGED <<txnId, life>>
    PROVE  Inv' /\ (IsolatedInv => IsolatedInv')
<1> DEFINE op == Head(noTransactionOperationQueue)
<1>1. noTransactionOperationQueue # <<>> /\ currentTransactionId = G!NoId
    BY DEF RunNextQueued, Inv, DrainsOpen
<1>2. /\ op \in GatedOps /\ noTransactionOperationQueue' \in Seq(GatedOps)
      /\ Len(noTransactionOperationQueue') = Len(noTransactionOperationQueue) - 1
    BY <1>1, HeadTailProperties DEF RunNextQueued, Inv, Typed
<1>3. Exec(op) /\ Passes(op) /\ UNCHANGED tasks
    BY <1>1 DEF RunNextQueued, Passes
<1>4. DrainsOpen'
  <2>1. draining' => /\ Len(noTransactionOperationQueue) > 1
                     /\ currentTransactionId' = G!NoId
      BY DEF RunNextQueued
  <2>2. Len(noTransactionOperationQueue) \in Nat
      BY DEF Inv, Typed
  <2>3. noTransactionOperationQueue' = <<>> => Len(noTransactionOperationQueue') = 0
      BY EmptySeq
  <2> QED BY <1>2, <2>1, <2>2, <2>3 DEF DrainsOpen
<1> HIDE DEF op
<1>5. op \in LegalOps
    BY <1>2 DEF GatedOps
<1>6. Inv'
    BY <1>2, <1>3, <1>4, <1>5, ExecKeepsGate DEF Inv, Typed
<1>7. IsolatedInv => NothingLeftOpen' /\ StrictlyIsolated'
    BY <1>2, <1>3, <1>5, ExecKeepsIsolation DEF IsolatedInv, GatedOps
<1> QED BY <1>3, <1>6, <1>7 DEF IsolatedInv, NoBatchTask

-----------------------------------------------------------------------------
(* Theorems *)

LEMMA InitInv == Init => Inv /\ IsolatedInv
<1> SUFFICES ASSUME Init PROVE Inv /\ IsolatedInv
    OBVIOUS
<1>1. /\ G!NoId \in Nat /\ G!NoReply \in Answers
      /\ <<>> \in Seq(LegalOps) /\ <<>> \in Seq(GatedOps)
    BY EmptySeq DEF Answers, G!NoId
<1>2. Typed /\ NoBatchTask
    BY <1>1 DEF Init, G!Init, Typed, NoBatchTask, G!NoId
<1>3. GateIsHonest /\ DrainsOpen /\ NothingLeftOpen /\ StrictlyIsolated
    BY DEF Init, G!Init, GateIsHonest, DrainsOpen, NothingLeftOpen, StrictlyIsolated
<1> QED BY <1>2, <1>3 DEF Inv, IsolatedInv

\* The invariants are inductive, the second if no client sends a batch.
LEMMA NextInv ==
    ASSUME Inv, [PlainNext]_vars
    PROVE  Inv' /\ (IsolatedInv /\ NoBatches => IsolatedInv')
<1>1. CASE \E c \in Clients : \/ CallDatabase(c) \/ CallTransaction(c) \/ EndTransaction(c)
                              \/ OnReply(c) \/ Restart(c) \/ Reopen(c)
    BY <1>1, CallsKeepInv, OnReplyKeepsInv, RestartKeepsInv, ReopenKeepsInv
<1>2. CASE Native
  <2>1. UNCHANGED <<txnId, life>>
      BY <1>2 DEF Native
  <2> QED BY <1>2, <2>1, RunBlockKeepsInv, EnqueueKeepsInv, RunNextKeepsInv DEF Native
<1>3. CASE UNCHANGED vars
  <2>1. UNCHANGED <<txnId, life, reply, tasks>> /\ NativeKept
      BY <1>3 DEF vars, G!vars, G!dartVars, G!gateVars, G!sqliteVars, NativeKept
  <2>2. /\ txnId' \in [Clients -> Nat] /\ life' \in [Clients -> Nat]
        /\ reply' \in [Clients -> Answers]
      BY <2>1 DEF Inv, Typed
  <2> QED BY <2>1, <2>2, ClientKeepsInv
<1> QED BY <1>1, <1>2, <1>3 DEF PlainNext

\* Who began or ended no transaction by hand did one of the other steps.
LEMMA PlainSteps ==
    ASSUME [Next]_vars, ~byHand'
    PROVE  [PlainNext]_vars /\ ~byHand
<1>1. ASSUME NEW c \in Clients, ExecuteByHand(c) PROVE FALSE
    BY <1>1 DEF ExecuteByHand, G!ExecuteByHand
<1>2. [PlainNext]_vars
  <2>1. CASE Next
    <3>1. CASE Native
        BY <3>1 DEF PlainNext
    <3>2. ASSUME NEW c \in Clients,
                 \/ CallDatabase(c) \/ CallTransaction(c) \/ EndTransaction(c)
                 \/ OnReply(c) \/ Restart(c) \/ Reopen(c)
          PROVE  PlainNext
        BY <3>2 DEF PlainNext
    <3> QED BY <1>1, <2>1, <3>1, <3>2 DEF Next
  <2> QED BY <2>1
<1>3. ASSUME Native \/ UNCHANGED vars PROVE UNCHANGED byHand
    BY <1>3 DEF Native, vars, G!vars, G!history
<1>4. ASSUME NEW c \in Clients,
             CallDatabase(c) \/ CallTransaction(c) \/ EndTransaction(c)
      PROVE  UNCHANGED byHand
    BY <1>4 DEF CallDatabase, G!CallWrite, G!CallBatch, G!BeginTransaction, CallTransaction,
                G!TxnCall, G!TxnWrite, G!TxnBatch, G!TxnCloseCursor, EndTransaction,
                G!EndTransaction, G!history
<1>5. ASSUME NEW c \in Clients, OnReply(c) \/ Restart(c) \/ Reopen(c)
      PROVE  UNCHANGED byHand
  <2>1. CASE OnReply(c)
      BY <2>1 DEF OnReply, G!OnReply, G!history
  <2>2. CASE Restart(c) \/ Reopen(c)
      BY <2>2 DEF Restart, G!Restart, Reopen, G!Reopen, G!history
  <2> QED BY <1>5, <2>1, <2>2
<1>6. UNCHANGED byHand
    BY <1>2, <1>3, <1>4, <1>5 DEF PlainNext
<1> QED BY <1>2, <1>6

\* As long as no client sends a batch, and until somebody begins or ends a
\* transaction by hand: the uncommitted writes are those of the transaction
\* the gate is held for, in whatever order the blocks run.
THEOREM GateIsolates ==
    ASSUME NoBatches
    PROVE  Spec => []Isolated
<1> DEFINE UntilByHand == byHand \/ IsolatedInv
<1>1. Init => UntilByHand
    BY InitInv
<1>2. UntilByHand /\ [Next]_vars => UntilByHand'
  <2> SUFFICES ASSUME UntilByHand, [Next]_vars, ~byHand' PROVE IsolatedInv'
      OBVIOUS
  <2>1. IsolatedInv /\ [PlainNext]_vars
      BY PlainSteps
  <2> QED BY <2>1, NextInv DEF IsolatedInv
<1>3. UntilByHand => Isolated
    BY DEF IsolatedInv, StrictlyIsolated, Isolated
<1> QED BY <1>1, <1>2, <1>3, PTL DEF Spec

-----------------------------------------------------------------------------
(* The verdicts: the inductive invariant *)

States == {"idle", "waiting", "beginning", "active", "awaiting",
           "committing", "rollingBack", "restarted", "reopening"}
Writes == Clients \X Nat

Recorded ==
    /\ pc \in [Clients -> States]
    /\ uncommitted \subseteq Writes /\ committed \subseteq Writes /\ lost \subseteq Writes
    /\ succeeded \subseteq Writes /\ failed \subseteq Writes

Queue == noTransactionOperationQueue
IsEnd(op) == op.kind \in {"commit", "rollback"}

\* The calls that native code has not run yet.
Pending == {tasks[i] : i \in 1..Len(tasks)} \cup {Queue[i] : i \in 1..Len(Queue)}

\* The client did not restart since.
Current(op) == op.life = life[op.client]

\* A client has one call on its way at most.
Alone ==
    /\ \A i, j \in 1..Len(tasks) :
         Current(tasks[i]) /\ Current(tasks[j]) /\ tasks[i].client = tasks[j].client => i = j
    /\ \A i, j \in 1..Len(Queue) :
         Current(Queue[i]) /\ Current(Queue[j]) /\ Queue[i].client = Queue[j].client => i = j
    /\ \A i \in 1..Len(tasks) : \A j \in 1..Len(Queue) :
         ~(Current(tasks[i]) /\ Current(Queue[j]) /\ tasks[i].client = Queue[j].client)

\* What a client is doing that sent the call.
SentIn(op, state, id) ==
    \/ state = "waiting" /\ op.kind \in {"write", "batch"} /\ op.tid = G!NoId
    \/ state = "beginning" /\ op.kind = "begin"
    \/ state = "active" /\ op.kind \in {"write", "batch"} /\ op.tid = id
    \/ state = "awaiting" /\ op.kind = "cancel" /\ op.tid = G!NoId
    \/ state = "committing" /\ op.kind = "commit" /\ op.tid = id
    \/ state = "rollingBack" /\ op.kind = "rollback" /\ op.tid = id
    \/ state = "reopening" /\ op.kind = "rollback" /\ op.tid = G!Forced

Awaiting == {"waiting", "reopening", "beginning", "awaiting", "committing", "rollingBack"}

InFlight ==
    /\ \A op \in Pending :
         /\ op.life <= life[op.client]
         /\ Current(op) => /\ reply[op.client] = G!NoReply
                           /\ SentIn(op, pc[op.client], txnId[op.client])
    /\ \A c \in Clients : reply[c] # G!NoReply => pc[c] \in Awaiting

\* The client has a transaction, and knows its id.
InTxn(state) == state \in {"active", "awaiting", "committing", "rollingBack"}

\* Its BEGIN succeeded, and the id is on the way.
Begun(c) == pc[c] = "beginning" /\ reply[c].ok

TxnIds ==
    /\ \A c \in Clients : InTxn(pc[c]) <=> txnId[c] # G!NoId
    /\ \A c \in Clients :
         pc[c] = "beginning" /\ reply[c] # G!NoReply => (reply[c].ok <=> reply[c].id # G!NoId)
    /\ \A op \in Pending : IsEnd(op) => op.tid # G!NoId
    /\ \A t \in succeeded : t[2] # G!NoId

\* No id is used that was not given.
Known ==
    /\ currentTransactionId <= lastTransactionId
    /\ \A op \in Pending : op.tid <= lastTransactionId
    /\ \A c \in Clients : txnId[c] <= lastTransactionId /\ reply[c].id <= lastTransactionId
    /\ \A t \in uncommitted \cup committed \cup lost \cup succeeded \cup failed :
         t[2] <= lastTransactionId

Fresh ==
    \A c \in Clients : Begun(c) =>
        /\ \A op \in Pending : op.client = c => op.tid # reply[c].id
        /\ <<c, reply[c].id>> \notin succeeded \cup failed

Running ==
    \A c \in Clients : InTxn(pc[c]) =>
        /\ \A op \in Pending : op.client = c /\ op.tid = txnId[c] => Current(op)
        /\ <<c, txnId[c]>> \notin succeeded \cup failed

\* No write of a transaction that SQLite is still in was rolled back.
LostIsOver == sqliteOpen => \A t \in lost : t[2] # currentTransactionId

\* The transaction of the client committed: it knows, or the answer is on
\* the way.
Done(c, id) ==
    \/ <<c, id>> \in succeeded
    \/ pc[c] = "committing" /\ reply[c].ok /\ txnId[c] = id

Over ==
    \A c \in Clients : \A id \in 1..lastTransactionId : Done(c, id) =>
        /\ \A op \in Pending : op.client = c => op.tid # id
        /\ id # currentTransactionId
        /\ <<c, id>> \notin lost \cup uncommitted

SuccessInv ==
    /\ Inv /\ Recorded
    /\ Alone /\ InFlight /\ TxnIds /\ Known /\ Fresh /\ Running
    /\ LostIsOver /\ Over

-----------------------------------------------------------------------------
(* What the steps do to the calls that are pending *)

Skip(i, j) == IF j < i THEN j ELSE j + 1

LEMMA RemovedAt ==
    ASSUME NEW S, NEW s \in Seq(S), NEW i \in 1..Len(s)
    PROVE  /\ Len(s) \in Nat /\ Len(RemoveAt(s, i)) \in Nat
           /\ \A j \in 1..Len(RemoveAt(s, i)) :
                /\ RemoveAt(s, i)[j] = s[Skip(i, j)]
                /\ Skip(i, j) \in 1..Len(s) /\ Skip(i, j) # i
<1> DEFINE a == SubSeq(s, 1, i - 1)
           b == SubSeq(s, i + 1, Len(s))
<1>1. /\ Len(s) \in Nat /\ i \in Int /\ i >= 1 /\ i <= Len(s)
      /\ \A j \in 1..Len(s) : s[j] \in S
    OBVIOUS
<1>2. /\ a \in Seq(S) /\ Len(a) = i - 1
      /\ \A j \in 1..(i - 1) : a[j] = s[j]
  <2>1. \A j \in 1..(i - 1) : s[j] \in S
      BY <1>1
  <2>2. /\ a \in Seq(S) /\ Len(a) = IF 1 <= i - 1 THEN (i - 1) - 1 + 1 ELSE 0
        /\ \A j \in 1..((i - 1) - 1 + 1) : a[j] = s[1 + j - 1]
      BY <1>1, <2>1, SubSeqProperties
  <2> QED BY <1>1, <2>2
<1>3. /\ b \in Seq(S) /\ Len(b) = Len(s) - i
      /\ \A j \in 1..(Len(s) - i) : b[j] = s[i + j]
  <2>1. \A j \in (i + 1)..Len(s) : s[j] \in S
      BY <1>1
  <2>2. /\ b \in Seq(S) /\ Len(b) = IF i + 1 <= Len(s) THEN Len(s) - (i + 1) + 1 ELSE 0
        /\ \A j \in 1..(Len(s) - (i + 1) + 1) : b[j] = s[(i + 1) + j - 1]
      BY <1>1, <2>1, SubSeqProperties
  <2>3. \A j \in 1..(Len(s) - i) : j \in 1..(Len(s) - (i + 1) + 1) /\ (i + 1) + j - 1 = i + j
      BY <1>1
  <2> QED BY <1>1, <2>2, <2>3
<1>4. RemoveAt(s, i) = a \o b
    BY DEF RemoveAt
<1> HIDE DEF a, b
<1>5. /\ Len(a \o b) = Len(a) + Len(b)
      /\ \A j \in 1..Len(a) + Len(b) : (a \o b)[j] = IF j <= Len(a) THEN a[j] ELSE b[j - Len(a)]
    BY <1>2, <1>3, ConcatProperties
<1>6. Len(RemoveAt(s, i)) = Len(s) - 1
    BY <1>1, <1>2, <1>3, <1>4, <1>5
<1>7. ASSUME NEW j \in 1..(Len(s) - 1)
      PROVE  /\ RemoveAt(s, i)[j] = s[Skip(i, j)]
             /\ Skip(i, j) \in 1..Len(s) /\ Skip(i, j) # i
  <2>1. CASE j < i
    <3>1. j \in 1..(i - 1) /\ j <= Len(a) /\ j \in 1..Len(a) + Len(b)
        BY <1>1, <1>2, <1>3, <2>1
    <3> QED BY <1>1, <1>2, <1>4, <1>5, <2>1, <3>1 DEF Skip
  <2>2. CASE ~(j < i)
    <3>1. /\ ~(j <= Len(a)) /\ j \in 1..Len(a) + Len(b)
          /\ j - Len(a) \in 1..(Len(s) - i) /\ i + (j - Len(a)) = j + 1
        BY <1>1, <1>2, <1>3, <2>2
    <3>2. RemoveAt(s, i)[j] = s[j + 1]
        BY <1>3, <1>4, <1>5, <3>1
    <3> QED BY <1>1, <2>2, <3>2 DEF Skip
  <2> QED BY <2>1, <2>2
<1> QED BY <1>1, <1>6, <1>7

LEMMA SkipApart ==
    ASSUME NEW i \in Int, NEW j \in Int, NEW k \in Int, Skip(i, j) = Skip(i, k)
    PROVE  j = k
BY DEF Skip

LEMMA PendingLegal ==
    ASSUME Typed
    PROVE  /\ Pending \subseteq LegalOps
           /\ \A i \in 1..Len(tasks) : tasks[i] \in Pending
           /\ \A i \in 1..Len(Queue) : Queue[i] \in Pending
<1>1. \A i \in 1..Len(tasks) : tasks[i] \in LegalOps
    BY DEF Typed
<1>2. \A i \in 1..Len(Queue) : Queue[i] \in GatedOps
    BY DEF Typed, Queue
<1> QED BY <1>1, <1>2 DEF Pending, GatedOps

\* A client sends a call.
LEMMA Sent ==
    ASSUME Typed, Alone, NEW op \in LegalOps, tasks' = Append(tasks, op), Queue' = Queue,
           life' = life, \A x \in Pending : Current(x) => x.client # op.client
    PROVE  Pending' = Pending \cup {op} /\ Alone'
<1>1. /\ Len(tasks') = Len(tasks) + 1 /\ Len(tasks) \in Nat
      /\ \A i \in 1..Len(tasks) : tasks'[i] = tasks[i] /\ i \in 1..Len(tasks')
      /\ tasks'[Len(tasks) + 1] = op /\ Len(tasks) + 1 \in 1..Len(tasks')
      /\ \A i \in 1..Len(tasks') : i \in 1..Len(tasks) \/ i = Len(tasks) + 1
  <2>1. tasks \in Seq(LegalOps)
      BY DEF Typed
  <2>2. /\ Len(tasks') = Len(tasks) + 1 /\ Len(tasks) \in Nat
        /\ \A i \in 1..Len(tasks) : tasks'[i] = tasks[i]
        /\ tasks'[Len(tasks) + 1] = op
      BY <2>1, AppendProperties
  <2> QED BY <2>2
<1>2. \A x : x \in Pending' <=> (x \in Pending \/ x = op)
  <2> SUFFICES ASSUME NEW x PROVE x \in Pending' <=> (x \in Pending \/ x = op)
      OBVIOUS
  <2>1. x \in Pending' <=> \/ \E i \in 1..Len(tasks') : x = tasks'[i]
                           \/ \E i \in 1..Len(Queue') : x = Queue'[i]
      BY DEF Pending
  <2>2. x \in Pending <=> \/ \E i \in 1..Len(tasks) : x = tasks[i]
                          \/ \E i \in 1..Len(Queue) : x = Queue[i]
      BY DEF Pending
  <2>3. (\E i \in 1..Len(tasks') : x = tasks'[i])
          <=> x = op \/ \E i \in 1..Len(tasks) : x = tasks[i]
      BY <1>1
  <2> QED BY <2>1, <2>2, <2>3
<1>3. Pending' = Pending \cup {op}
    BY <1>2
<1>4. \A x : Current(x)' <=> Current(x)
    BY DEF Current
<1>5. /\ \A i \in 1..Len(tasks) : tasks[i] \in Pending
      /\ \A i \in 1..Len(Queue) : Queue[i] \in Pending
    BY PendingLegal
<1>6. ASSUME NEW i \in 1..Len(tasks'), NEW j \in 1..Len(tasks'),
             Current(tasks'[i]), Current(tasks'[j]), tasks'[i].client = tasks'[j].client
      PROVE  i = j
    BY <1>1, <1>5, <1>6 DEF Alone
<1>7. ASSUME NEW i \in 1..Len(tasks'), NEW j \in 1..Len(Queue),
             Current(tasks'[i]), Current(Queue[j]), tasks'[i].client = Queue[j].client
      PROVE  FALSE
    BY <1>1, <1>5, <1>7 DEF Alone
<1> QED BY <1>3, <1>4, <1>6, <1>7 DEF Alone

\* A block is over.
LEMMA Left ==
    ASSUME Typed, Alone, NEW i \in DOMAIN tasks, tasks' = RemoveAt(tasks, i), Queue' = Queue,
           life' = life
    PROVE  /\ Pending' \subseteq Pending /\ tasks[i] \in Pending
           /\ Current(tasks[i]) => \A x \in Pending' : Current(x) => x.client # tasks[i].client
           /\ Alone'
<1>1. /\ i \in 1..Len(tasks) /\ i \in Int
      /\ \A j \in 1..Len(tasks') : /\ tasks'[j] = tasks[Skip(i, j)] /\ j \in Int
                                   /\ Skip(i, j) \in 1..Len(tasks) /\ Skip(i, j) # i
  <2>1. i \in 1..Len(tasks) /\ tasks \in Seq(LegalOps)
      BY DEF Typed
  <2> QED BY <2>1, RemovedAt
<1>2. \A x : Current(x)' <=> Current(x)
    BY DEF Current
<1>3. \A x \in Pending' : \/ \E k \in 1..Len(tasks) : k # i /\ x = tasks[k]
                          \/ \E k \in 1..Len(Queue) : x = Queue[k]
  <2> SUFFICES ASSUME NEW x \in Pending'
               PROVE  \/ \E k \in 1..Len(tasks) : k # i /\ x = tasks[k]
                      \/ \E k \in 1..Len(Queue) : x = Queue[k]
      OBVIOUS
  <2>1. \/ \E k \in 1..Len(tasks') : x = tasks'[k]
        \/ \E k \in 1..Len(Queue') : x = Queue'[k]
      BY DEF Pending
  <2> QED BY <1>1, <2>1
<1>4. /\ \A k \in 1..Len(tasks) : tasks[k] \in Pending
      /\ \A k \in 1..Len(Queue) : Queue[k] \in Pending
    BY PendingLegal
<1>5. Pending' \subseteq Pending /\ tasks[i] \in Pending
    BY <1>1, <1>3, <1>4
<1>6. Current(tasks[i]) => \A x \in Pending' : Current(x) => x.client # tasks[i].client
    BY <1>1, <1>3 DEF Alone
<1>7. ASSUME NEW j \in 1..Len(tasks'), NEW k \in 1..Len(tasks'),
             Current(tasks'[j]), Current(tasks'[k]), tasks'[j].client = tasks'[k].client
      PROVE  j = k
  <2>1. Skip(i, j) = Skip(i, k)
      BY <1>1, <1>7 DEF Alone
  <2> QED BY <1>1, <2>1, SkipApart
<1>8. ASSUME NEW j \in 1..Len(tasks'), NEW k \in 1..Len(Queue),
             Current(tasks'[j]), Current(Queue[k]), tasks'[j].client = Queue[k].client
      PROVE  FALSE
    BY <1>1, <1>8 DEF Alone
<1>9. Alone'
    BY <1>2, <1>7, <1>8 DEF Alone
<1> QED BY <1>5, <1>6, <1>9

\* It waits for the end of the transaction.
LEMMA Moved ==
    ASSUME Typed, Alone, NEW i \in DOMAIN tasks, tasks' = RemoveAt(tasks, i),
           Queue' = Append(Queue, tasks[i]), tasks[i] \in GatedOps, life' = life
    PROVE  Pending' \subseteq Pending /\ Alone'
<1>1. /\ i \in 1..Len(tasks) /\ i \in Int
      /\ \A j \in 1..Len(tasks') : /\ tasks'[j] = tasks[Skip(i, j)] /\ j \in Int
                                   /\ Skip(i, j) \in 1..Len(tasks) /\ Skip(i, j) # i
  <2>1. i \in 1..Len(tasks) /\ tasks \in Seq(LegalOps)
      BY DEF Typed
  <2> QED BY <2>1, RemovedAt
<1> PICK op : op = tasks[i]
    OBVIOUS
<1>2. /\ Len(Queue') = Len(Queue) + 1 /\ Len(Queue) \in Nat
      /\ \A j \in 1..Len(Queue) : Queue'[j] = Queue[j]
      /\ Queue'[Len(Queue) + 1] = op
      /\ \A j \in 1..Len(Queue') : j \in 1..Len(Queue) \/ j = Len(Queue) + 1
  <2>1. Queue \in Seq(GatedOps) /\ op \in GatedOps /\ Queue' = Append(Queue, op)
      BY DEF Typed, Queue
  <2>2. /\ Len(Queue') = Len(Queue) + 1 /\ Len(Queue) \in Nat
        /\ \A j \in 1..Len(Queue) : Queue'[j] = Queue[j]
        /\ Queue'[Len(Queue) + 1] = op
      BY <2>1, AppendProperties
  <2> QED BY <2>2
<1>3. \A x : Current(x)' <=> Current(x)
    BY DEF Current
<1>4. /\ \A k \in 1..Len(tasks) : tasks[k] \in Pending
      /\ \A k \in 1..Len(Queue) : Queue[k] \in Pending
    BY PendingLegal
<1>5. ASSUME NEW x \in Pending' PROVE x \in Pending
  <2>1. \/ \E k \in 1..Len(tasks') : x = tasks'[k]
        \/ \E k \in 1..Len(Queue') : x = Queue'[k]
      BY DEF Pending
  <2>2. CASE \E k \in 1..Len(tasks') : x = tasks'[k]
      BY <1>1, <1>4, <2>2
  <2>3. ASSUME NEW k \in 1..Len(Queue'), x = Queue'[k]
        PROVE  x \in Pending
    <3>1. CASE k \in 1..Len(Queue)
        BY <1>2, <1>4, <2>3, <3>1
    <3>2. CASE k = Len(Queue) + 1
      <4>1. x = op
          BY <1>2, <2>3, <3>2
      <4> QED BY <1>1, <1>4, <4>1
    <3> QED BY <1>2, <3>1, <3>2
  <2> QED BY <2>1, <2>2, <2>3
<1>6. ASSUME NEW j \in 1..Len(tasks'), NEW k \in 1..Len(tasks'),
             Current(tasks'[j]), Current(tasks'[k]), tasks'[j].client = tasks'[k].client
      PROVE  j = k
  <2>1. Skip(i, j) = Skip(i, k)
      BY <1>1, <1>6 DEF Alone
  <2> QED BY <1>1, <2>1, SkipApart
<1>7. ASSUME NEW j \in 1..Len(tasks'), NEW k \in 1..Len(Queue'),
             Current(tasks'[j]), Current(Queue'[k]), tasks'[j].client = Queue'[k].client
      PROVE  FALSE
  <2>1. CASE k \in 1..Len(Queue)
      BY <1>1, <1>2, <1>7, <2>1 DEF Alone
  <2>2. CASE k = Len(Queue) + 1
      BY <1>1, <1>2, <1>7, <2>2 DEF Alone
  <2> QED BY <1>2, <2>1, <2>2
<1>8. ASSUME NEW j \in 1..Len(Queue'), NEW k \in 1..Len(Queue'),
             Current(Queue'[j]), Current(Queue'[k]), Queue'[j].client = Queue'[k].client
      PROVE  j = k
  <2>1. CASE j \in 1..Len(Queue) /\ k \in 1..Len(Queue)
      BY <1>2, <1>8, <2>1 DEF Alone
  <2>2. CASE j \in 1..Len(Queue) /\ k = Len(Queue) + 1
      BY <1>1, <1>2, <1>8, <2>2 DEF Alone
  <2>3. CASE k \in 1..Len(Queue) /\ j = Len(Queue) + 1
      BY <1>1, <1>2, <1>8, <2>3 DEF Alone
  <2> QED BY <1>2, <2>1, <2>2, <2>3
<1>9. Alone'
    BY <1>3, <1>6, <1>7, <1>8 DEF Alone
<1> QED BY <1>5, <1>9

\* The statement at the head of the queue is over.
LEMMA Dequeued ==
    ASSUME Typed, Alone, Queue # <<>>, tasks' = tasks, Queue' = Tail(Queue), life' = life
    PROVE  /\ Pending' \subseteq Pending /\ Head(Queue) \in Pending
           /\ Current(Head(Queue)) =>
                \A x \in Pending' : Current(x) => x.client # Head(Queue).client
           /\ Alone'
<1> PICK op : op = Queue[1]
    OBVIOUS
<1>1. /\ Head(Queue) = op /\ 1 \in 1..Len(Queue)
      /\ \A j \in 1..Len(Queue') :
           j \in Int /\ Queue'[j] = Queue[j + 1] /\ j + 1 \in 1..Len(Queue) /\ j + 1 # 1
  <2>1. Queue \in Seq(GatedOps)
      BY DEF Typed, Queue
  <2>2. /\ Head(Queue) = Queue[1] /\ Len(Queue) \in Nat /\ Len(Queue) >= 1
        /\ Len(Queue') = Len(Queue) - 1
        /\ \A j \in 1..Len(Queue') : Queue'[j] = Queue[j + 1]
      BY <2>1
  <2> QED BY <2>2
<1>2. \A x : Current(x)' <=> Current(x)
    BY DEF Current
<1>3. \A x \in Pending' : \/ \E k \in 1..Len(tasks) : x = tasks[k]
                          \/ \E k \in 1..Len(Queue) : k # 1 /\ x = Queue[k]
  <2> SUFFICES ASSUME NEW x \in Pending'
               PROVE  \/ \E k \in 1..Len(tasks) : x = tasks[k]
                      \/ \E k \in 1..Len(Queue) : k # 1 /\ x = Queue[k]
      OBVIOUS
  <2>1. \/ \E k \in 1..Len(tasks') : x = tasks'[k]
        \/ \E k \in 1..Len(Queue') : x = Queue'[k]
      BY DEF Pending
  <2> QED BY <1>1, <2>1
<1>4. /\ \A k \in 1..Len(tasks) : tasks[k] \in Pending
      /\ \A k \in 1..Len(Queue) : Queue[k] \in Pending
    BY PendingLegal
<1>5. Pending' \subseteq Pending /\ op \in Pending
    BY <1>1, <1>3, <1>4
<1>6. Current(op) => \A x \in Pending' : Current(x) => x.client # op.client
    BY <1>1, <1>3 DEF Alone
<1>7. ASSUME NEW j \in 1..Len(Queue'), NEW k \in 1..Len(Queue'),
             Current(Queue'[j]), Current(Queue'[k]), Queue'[j].client = Queue'[k].client
      PROVE  j = k
  <2>1. j + 1 = k + 1
      BY <1>1, <1>7 DEF Alone
  <2> QED BY <1>1, <2>1
<1>8. ASSUME NEW j \in 1..Len(tasks), NEW k \in 1..Len(Queue'),
             Current(tasks[j]), Current(Queue'[k]), tasks[j].client = Queue'[k].client
      PROVE  FALSE
    BY <1>1, <1>8 DEF Alone
<1>9. Alone'
    BY <1>2, <1>7, <1>8 DEF Alone
<1> QED BY <1>1, <1>5, <1>6, <1>9

\* Nothing is sent and nothing runs; a client may have restarted.
LEMMA Waiting ==
    ASSUME Typed, tasks' = tasks, Queue' = Queue
    PROVE  /\ Pending' = Pending
           /\ Alone /\ (\A x \in Pending : Current(x)' => Current(x)) => Alone'
<1>1. Pending' = Pending
    BY DEF Pending
<1>2. /\ \A k \in 1..Len(tasks) : tasks[k] \in Pending
      /\ \A k \in 1..Len(Queue) : Queue[k] \in Pending
    BY PendingLegal
<1>3. ASSUME Alone, \A x \in Pending : Current(x)' => Current(x)
      PROVE  Alone'
  <2>1. /\ \A k \in 1..Len(tasks) : Current(tasks[k])' => Current(tasks[k])
        /\ \A k \in 1..Len(Queue) : Current(Queue[k])' => Current(Queue[k])
    <3>1. \A x \in Pending : Current(x)' => Current(x)
        BY <1>3
    <3>2. \A k \in 1..Len(tasks) : tasks'[k] = tasks[k]
        OBVIOUS
    <3>3. \A k \in 1..Len(Queue) : Queue'[k] = Queue[k]
        OBVIOUS
    <3> QED BY <1>2, <3>1, <3>2, <3>3
  <2> QED BY <1>3, <2>1 DEF Alone
<1> QED BY <1>1, <1>3

-----------------------------------------------------------------------------
(* The steps of the clients, for the verdicts *)

NewOp(c, kind, tid) == [client |-> c, life |-> life[c], tid |-> tid, kind |-> kind]

\* The native side, with what happened to the writes.
DatabaseKept ==
    UNCHANGED <<inTransaction, draining, currentTransactionId, lastTransactionId,
                noTransactionOperationQueue, sqliteOpen, uncommitted, committed, lost>>

LEMMA DatabaseIsKept ==
    ASSUME NativeUnchanged, G!NativeUnchanged
    PROVE  DatabaseKept
BY DEF NativeUnchanged, G!NativeUnchanged, G!gateVars, G!sqliteVars, DatabaseKept

\* A client sends a call when it awaits nothing.
Sends(c, kind, tid, state) ==
    /\ G!Send(c, kind, tid) /\ pc' = [pc EXCEPT ![c] = state]
    /\ UNCHANGED <<txnId, life, reply, succeeded, failed>> /\ DatabaseKept
    /\ pc[c] \in {"idle", "active", "restarted"}
    /\ \A x \in Pending : Current(x) => x.client # c
    /\ InTxn(state) <=> pc[c] = "active"
    /\ SentIn(NewOp(c, kind, tid), state, txnId[c])
    /\ tid \in {G!Forced, G!NoId} \/ (tid = txnId[c] /\ pc[c] = "active")
    /\ kind = "begin" => tid = G!NoId
    /\ tid = G!Forced => kind = "rollback" /\ pc[c] = "restarted"
    /\ kind \in {"commit", "rollback"} => tid # G!NoId

LEMMA SendKeeps ==
    ASSUME SuccessInv, Inv', NEW c \in Clients, NEW state \in States,
           NEW tid \in {G!Forced} \cup Nat, NEW kind \in PlainKinds,
           Sends(c, kind, tid, state)
    PROVE  SuccessInv'
<1> USE DEF Sends, PlainKinds
<1> PICK op : op = NewOp(c, kind, tid)
    OBVIOUS
<1>1. /\ op \in LegalOps /\ op.client = c /\ op.life = life[c]
      /\ op.tid = tid /\ op.kind = kind
    BY DEF LegalOps, NewOp, SuccessInv, Inv, Typed
<1>2. tasks' = Append(tasks, op) /\ Queue' = Queue
    BY DEF G!Send, NewOp, DatabaseKept, Queue
<1>3. /\ UNCHANGED <<txnId, life, reply, succeeded, failed>>
      /\ UNCHANGED <<currentTransactionId, lastTransactionId, sqliteOpen,
                     uncommitted, committed, lost>>
    BY DEF DatabaseKept
<1>5. Pending' = Pending \cup {op} /\ Alone'
    BY <1>1, <1>2, Sent DEF SuccessInv, Inv
<1>6. /\ pc'[c] = state /\ \A d \in Clients : d # c => pc'[d] = pc[d]
      /\ pc' \in [Clients -> States]
    BY DEF SuccessInv, Recorded
<1>7. \A x \in Pending : Current(x) => x.client # c
    OBVIOUS
<1>8. reply[c] = G!NoReply /\ ~reply[c].ok
  <2>1. reply[c] = G!NoReply
      BY DEF SuccessInv, InFlight, Awaiting
  <2> QED BY <2>1 DEF G!NoReply
<1>9. \A x \in Pending : x \in LegalOps /\ x.client \in Clients
    BY PendingLegal DEF SuccessInv, Inv, LegalOps
<1>10. Recorded'
    BY <1>3, <1>6 DEF SuccessInv, Recorded
<1>12. pc[c] = "active" => txnId[c] # G!NoId /\ txnId[c] # G!Forced
    BY DEF SuccessInv, TxnIds, InTxn, Inv, Typed, G!Forced
<1>14. InFlight'
  <2>1. ASSUME NEW x \in Pending'
        PROVE  /\ x.life <= life'[x.client]
               /\ Current(x)' => /\ reply'[x.client] = G!NoReply
                                 /\ SentIn(x, pc'[x.client], txnId'[x.client])
    <3>1. CASE x \in Pending
        BY <1>3, <1>6, <1>7, <1>9, <3>1 DEF SuccessInv, InFlight, Current
    <3>2. CASE x = op
      <4>1. x.life <= life'[x.client]
          BY <1>1, <1>3, <3>2 DEF SuccessInv, Inv, Typed
      <4>2. reply'[x.client] = G!NoReply
          BY <1>1, <1>3, <1>8, <3>2
      <4>3. Current(x)' => SentIn(x, pc'[x.client], txnId'[x.client])
          BY <1>1, <1>3, <1>6, <3>2
      <4> QED BY <4>1, <4>2, <4>3
    <3> QED BY <1>5, <3>1, <3>2
  <2>2. ASSUME NEW d \in Clients, reply'[d] # G!NoReply PROVE pc'[d] \in Awaiting
      BY <1>3, <1>6, <1>8, <2>2 DEF SuccessInv, InFlight
  <2> QED BY <2>1, <2>2 DEF InFlight
<1>15. TxnIds'
  <2>1. \A d \in Clients : InTxn(pc'[d]) <=> txnId'[d] # G!NoId
      BY <1>3, <1>6 DEF SuccessInv, TxnIds, InTxn
  <2>2. \A d \in Clients :
          pc'[d] = "beginning" /\ reply'[d] # G!NoReply => (reply'[d].ok <=> reply'[d].id # G!NoId)
      BY <1>3, <1>6, <1>8 DEF SuccessInv, TxnIds
  <2>3. \A x \in Pending' : IsEnd(x) => x.tid # G!NoId
      BY <1>1, <1>5 DEF SuccessInv, TxnIds, IsEnd
  <2> QED BY <1>3, <2>1, <2>2, <2>3 DEF SuccessInv, TxnIds, InTxn, IsEnd
<1>16. Known'
  <2>1. tid <= lastTransactionId
      BY DEF SuccessInv, Known, Inv, Typed, G!NoId, G!Forced
  <2> QED BY <1>1, <1>3, <1>5, <2>1 DEF SuccessInv, Known
<1>17. Fresh'
  <2>1. \A d \in Clients : Begun(d)' => d # c /\ Begun(d)
      BY <1>3, <1>6, <1>8 DEF Begun
  <2> QED BY <1>1, <1>3, <1>5, <2>1 DEF SuccessInv, Fresh, Begun
<1>18. Running'
  <2>1. \A d \in Clients : InTxn(pc'[d]) => InTxn(pc[d])
      BY <1>6 DEF InTxn
  <2>2. \A x : Current(x)' <=> Current(x)
      BY <1>3 DEF Current
  <2>3. Current(op)
      BY <1>1 DEF Current
  <2>4. ASSUME NEW d \in Clients, InTxn(pc'[d]), NEW x \in Pending',
               x.client = d, x.tid = txnId'[d]
        PROVE  Current(x)'
      BY <1>3, <1>5, <2>1, <2>2, <2>3, <2>4 DEF SuccessInv, Running
  <2>5. \A d \in Clients : InTxn(pc'[d]) => <<d, txnId'[d]>> \notin succeeded' \cup failed'
      BY <1>3, <2>1 DEF SuccessInv, Running
  <2> QED BY <2>4, <2>5 DEF Running, InTxn
<1>19. LostIsOver'
    BY <1>3 DEF SuccessInv, LostIsOver
<1>20. Over'
  <2>1. ASSUME NEW d \in Clients, NEW id \in 1..lastTransactionId, Done(d, id)'
        PROVE  Done(d, id) /\ (d = c => <<c, id>> \in succeeded)
    <3>1. CASE <<d, id>> \in succeeded'
        BY <1>3, <3>1 DEF Done
    <3>2. CASE pc'[d] = "committing" /\ reply'[d].ok /\ txnId'[d] = id
        BY <1>3, <1>6, <1>8, <3>2 DEF Done
    <3> QED BY <2>1, <3>1, <3>2 DEF Done
  <2>2. ASSUME NEW id \in 1..lastTransactionId, <<c, id>> \in succeeded
        PROVE  tid # id
    <3>1. id # G!NoId /\ id # G!Forced
        BY DEF G!NoId, G!Forced
    <3> QED BY <2>2, <3>1 DEF SuccessInv, Running, InTxn
  <2>3. ASSUME NEW d \in Clients, NEW id \in 1..lastTransactionId', Done(d, id)'
        PROVE  /\ \A x \in Pending' : x.client = d => x.tid # id
               /\ id # currentTransactionId'
               /\ <<d, id>> \notin lost' \cup uncommitted'
    <3>1. Done(d, id) /\ (d = c => tid # id)
        BY <1>3, <2>1, <2>2, <2>3
    <3> QED BY <1>1, <1>3, <1>5, <2>3, <3>1 DEF SuccessInv, Over
  <2> QED BY <2>3 DEF Over
<1> QED
  BY <1>5, <1>10, <1>14, <1>15, <1>16, <1>17, <1>18, <1>19, <1>20 DEF SuccessInv

\* A client of which nothing is on its way.
LEMMA SettledIs ==
    ASSUME NEW c \in Clients, Settled(c)
    PROVE  \A x \in Pending : Current(x) => x.client # c
<1>1. ASSUME NEW x \in Pending
      PROVE  x \in ToSet(tasks) \cup ToSet(noTransactionOperationQueue)
    BY DEF Pending, Queue, ToSet
<1> QED BY <1>1 DEF Settled, Current

LEMMA CallsSend ==
    ASSUME AwaitCalls, SuccessInv, NEW c \in Clients,
           CallDatabase(c) \/ CallTransaction(c) \/ EndTransaction(c)
    PROVE  \E kind \in PlainKinds, tid \in Nat, state \in States :
              Sends(c, kind, tid, state) /\ pc[c] # "restarted"
<1> DEFINE Goal(kind, tid, state) == Sends(c, kind, tid, state) /\ pc[c] # "restarted"
           Asks(kind, tid) ==
               /\ G!Send(c, kind, tid) /\ UNCHANGED <<txnId, life, reply, succeeded, failed>>
               /\ DatabaseKept
<1>0. /\ txnId[c] \in Nat /\ G!NoId \in Nat /\ G!Forced \notin Nat
      /\ pc[c] = "active" => txnId[c] # G!NoId /\ pc = [pc EXCEPT ![c] = "active"]
      /\ pc[c] = "active" => txnId[c] # G!Forced /\ G!NoId # G!Forced
    BY DEF SuccessInv, Inv, Typed, G!NoId, G!Forced, TxnIds, InTxn, Recorded
<1>1. CASE CallDatabase(c)
  <2>1. /\ pc[c] = "idle"
        /\ \/ Asks("write", G!NoId) /\ pc' = [pc EXCEPT ![c] = "waiting"]
           \/ Asks("batch", G!NoId) /\ pc' = [pc EXCEPT ![c] = "waiting"]
           \/ Asks("begin", G!NoId) /\ pc' = [pc EXCEPT ![c] = "beginning"]
      BY <1>1, DatabaseIsKept DEF CallDatabase, G!CallWrite, G!CallBatch, G!BeginTransaction,
                                  G!Invoke, G!GoTo, G!history
  <2>2. \A x \in Pending : Current(x) => x.client # c
      BY <2>1 DEF SuccessInv, InFlight, SentIn
  <2>3. /\ SentIn(NewOp(c, "write", G!NoId), "waiting", txnId[c])
        /\ SentIn(NewOp(c, "batch", G!NoId), "waiting", txnId[c])
        /\ SentIn(NewOp(c, "begin", G!NoId), "beginning", txnId[c])
      BY DEF SentIn, NewOp
  <2>4. \/ Goal("write", G!NoId, "waiting")
        \/ Goal("batch", G!NoId, "waiting")
        \/ Goal("begin", G!NoId, "beginning")
      BY <1>0, <2>1, <2>2, <2>3 DEF Sends, InTxn, G!NoId, G!Forced
  <2> QED BY <1>0, <2>4 DEF PlainKinds, States
<1>2. CASE CallTransaction(c)
  <2>1. /\ pc[c] = "active" /\ Settled(c)
        /\ \/ Asks("write", txnId[c]) /\ pc' = pc
           \/ Asks("batch", txnId[c]) /\ pc' = pc
           \/ Asks("cancel", G!NoId) /\ pc' = [pc EXCEPT ![c] = "awaiting"]
      BY <1>2, DatabaseIsKept DEF CallTransaction, G!TxnCall, G!TxnWrite, G!TxnBatch, G!TxnCloseCursor,
                                  G!Invoke, G!GoTo, G!history
  <2>2. \A x \in Pending : Current(x) => x.client # c
      BY <2>1, SettledIs
  <2>3. /\ SentIn(NewOp(c, "write", txnId[c]), "active", txnId[c])
        /\ SentIn(NewOp(c, "batch", txnId[c]), "active", txnId[c])
        /\ SentIn(NewOp(c, "cancel", G!NoId), "awaiting", txnId[c])
      BY DEF SentIn, NewOp
  <2>4. \/ Goal("write", txnId[c], "active")
        \/ Goal("batch", txnId[c], "active")
        \/ Goal("cancel", G!NoId, "awaiting")
      BY <1>0, <2>1, <2>2, <2>3 DEF Sends, InTxn, G!NoId, G!Forced
  <2> QED BY <1>0, <2>4 DEF PlainKinds, States
<1>3. CASE EndTransaction(c)
  <2>1. /\ pc[c] = "active" /\ Settled(c)
        /\ \/ Asks("commit", txnId[c]) /\ pc' = [pc EXCEPT ![c] = "committing"]
           \/ Asks("rollback", txnId[c]) /\ pc' = [pc EXCEPT ![c] = "rollingBack"]
    <3>1. PICK kind \in {"commit", "rollback"} : G!EndTransaction(c, kind)
        BY <1>3 DEF EndTransaction
    <3>2. CASE kind = "commit"
        BY <1>3, <3>1, <3>2, DatabaseIsKept DEF EndTransaction, G!EndTransaction,
                                                G!Invoke, G!GoTo, G!history
    <3>3. CASE kind = "rollback"
        BY <1>3, <3>1, <3>3, DatabaseIsKept DEF EndTransaction, G!EndTransaction,
                                                G!Invoke, G!GoTo, G!history
    <3> QED BY <3>2, <3>3
  <2>2. \A x \in Pending : Current(x) => x.client # c
      BY <2>1, SettledIs
  <2>3. /\ SentIn(NewOp(c, "commit", txnId[c]), "committing", txnId[c])
        /\ SentIn(NewOp(c, "rollback", txnId[c]), "rollingBack", txnId[c])
      BY DEF SentIn, NewOp
  <2>4. \/ Goal("commit", txnId[c], "committing")
        \/ Goal("rollback", txnId[c], "rollingBack")
      BY <1>0, <2>1, <2>2, <2>3 DEF Sends, InTxn, G!NoId, G!Forced
  <2> QED BY <1>0, <2>4 DEF PlainKinds, States
<1> QED BY <1>1, <1>2, <1>3

\* Nothing of the native side is in these steps.
LEMMA LocalFacts ==
    ASSUME SuccessInv, UNCHANGED tasks, DatabaseKept
    PROVE  /\ tasks' = tasks /\ Queue' = Queue /\ Pending' = Pending
           /\ UNCHANGED <<currentTransactionId, lastTransactionId, sqliteOpen,
                          uncommitted, committed, lost>>
           /\ LostIsOver'
           /\ (\A x \in Pending : Current(x)' => Current(x)) => Alone'
<1>1. /\ tasks' = tasks /\ Queue' = Queue
      /\ UNCHANGED <<currentTransactionId, lastTransactionId, sqliteOpen,
                     uncommitted, committed, lost>>
    BY DEF DatabaseKept, Queue
<1>2. /\ Pending' = Pending
      /\ (\A x \in Pending : Current(x)' => Current(x)) => Alone'
    BY <1>1, Waiting DEF SuccessInv, Inv
<1>3. LostIsOver'
    BY <1>1 DEF SuccessInv, LostIsOver
<1> QED BY <1>1, <1>2, <1>3

\* The client is no longer what it was; its calls are of an earlier life.
LEMMA RestartKeepsSuccess ==
    ASSUME SuccessInv, NEW c \in Clients, Restart(c)
    PROVE  SuccessInv'
<1>1. /\ pc' = [pc EXCEPT ![c] = "restarted"]
      /\ life' = [life EXCEPT ![c] = @ + 1]
      /\ txnId' = [txnId EXCEPT ![c] = G!NoId]
      /\ reply' = [reply EXCEPT ![c] = G!NoReply]
      /\ UNCHANGED <<tasks, succeeded, failed>> /\ DatabaseKept
    BY DatabaseIsKept DEF Restart, G!Restart, G!GoTo, G!history
<1>2. /\ pc'[c] = "restarted" /\ life'[c] = life[c] + 1 /\ life[c] \in Nat
      /\ txnId'[c] = G!NoId /\ reply'[c] = G!NoReply /\ ~reply'[c].ok /\ reply'[c].id = G!Forced
      /\ \A d \in Clients : d # c => /\ pc'[d] = pc[d] /\ life'[d] = life[d]
                                     /\ txnId'[d] = txnId[d] /\ reply'[d] = reply[d]
      /\ pc' \in [Clients -> States]
    BY <1>1 DEF SuccessInv, Recorded, Inv, Typed, G!NoReply, States
<1>3. \A x \in Pending : x \in LegalOps /\ x.client \in Clients /\ x.life \in Nat
    BY PendingLegal DEF SuccessInv, Inv, LegalOps
<1>4. \A x \in Pending : /\ x.life <= life[x.client]
                         /\ Current(x)' => x.client # c /\ Current(x)
  <2>1. \A x \in Pending : x.life <= life[x.client]
      BY DEF SuccessInv, InFlight
  <2>2. ASSUME NEW x \in Pending, Current(x)' PROVE x.client # c /\ Current(x)
      BY <1>2, <1>3, <2>1, <2>2 DEF Current
  <2> QED BY <2>1, <2>2
<1>5. /\ tasks' = tasks /\ Queue' = Queue /\ Pending' = Pending
      /\ UNCHANGED <<currentTransactionId, lastTransactionId, sqliteOpen,
                     uncommitted, committed, lost>>
      /\ LostIsOver' /\ Alone'
    BY <1>1, <1>4, LocalFacts
<1>6. Inv'
    BY RestartKeepsInv DEF SuccessInv
<1>7. Recorded'
    BY <1>1, <1>2, <1>5 DEF SuccessInv, Recorded
<1>8. InFlight'
  <2>1. ASSUME NEW x \in Pending'
        PROVE  /\ x.life <= life'[x.client]
               /\ Current(x)' => /\ reply'[x.client] = G!NoReply
                                 /\ SentIn(x, pc'[x.client], txnId'[x.client])
    <3>1. x \in Pending /\ x.client \in Clients /\ x.life <= life[x.client] /\ x.life \in Nat
        BY <1>3, <1>4, <1>5
    <3>2. x.life <= life'[x.client]
        BY <1>2, <3>1
    <3>3. Current(x)' => /\ reply'[x.client] = G!NoReply
                         /\ SentIn(x, pc'[x.client], txnId'[x.client])
        BY <1>2, <1>4, <3>1 DEF SuccessInv, InFlight
    <3> QED BY <3>2, <3>3
  <2>2. ASSUME NEW d \in Clients, reply'[d] # G!NoReply PROVE pc'[d] \in Awaiting
      BY <1>2, <2>2 DEF SuccessInv, InFlight
  <2> QED BY <2>1, <2>2 DEF InFlight
<1>9. TxnIds'
  <2>1. \A d \in Clients : InTxn(pc'[d]) <=> txnId'[d] # G!NoId
      BY <1>2 DEF SuccessInv, TxnIds, InTxn
  <2>2. \A d \in Clients :
          pc'[d] = "beginning" /\ reply'[d] # G!NoReply => (reply'[d].ok <=> reply'[d].id # G!NoId)
      BY <1>2 DEF SuccessInv, TxnIds
  <2> QED BY <1>1, <1>5, <2>1, <2>2 DEF SuccessInv, TxnIds, InTxn, IsEnd
<1>10. Known'
  <2>1. G!NoId <= lastTransactionId /\ G!Forced <= lastTransactionId
      BY DEF SuccessInv, Inv, Typed, G!NoId, G!Forced
  <2>2. \A d \in Clients : txnId'[d] <= lastTransactionId /\ reply'[d].id <= lastTransactionId
      BY <1>2, <2>1 DEF SuccessInv, Known
  <2> QED BY <1>1, <1>5, <2>2 DEF SuccessInv, Known
<1>11. Fresh'
  <2>1. \A d \in Clients : Begun(d)' => d # c /\ Begun(d) /\ reply'[d] = reply[d]
      BY <1>2 DEF Begun
  <2> QED BY <1>1, <1>5, <2>1 DEF SuccessInv, Fresh, Begun
<1>12. Running'
  <2>1. \A d \in Clients :
          InTxn(pc'[d]) => d # c /\ pc'[d] = pc[d] /\ txnId'[d] = txnId[d]
      BY <1>2 DEF InTxn
  <2>2. \A x \in Pending : x.client # c /\ Current(x) => Current(x)'
      BY <1>2, <1>3 DEF Current
  <2> QED BY <1>1, <1>5, <2>1, <2>2 DEF SuccessInv, Running
<1>13. Over'
  <2>1. \A d \in Clients : \A id \in 1..lastTransactionId : Done(d, id)' => Done(d, id)
      BY <1>1, <1>2 DEF Done
  <2> QED BY <1>5, <2>1 DEF SuccessInv, Over, Done
<1> QED
  BY <1>5, <1>6, <1>7, <1>8, <1>9, <1>10, <1>11, <1>12, <1>13 DEF SuccessInv

LEMMA ReopenKeepsSuccess ==
    ASSUME SuccessInv, Inv', NEW c \in Clients, Reopen(c)
    PROVE  SuccessInv'
<1>1. /\ pc[c] = "restarted"
      /\ UNCHANGED <<txnId, life, reply, succeeded, failed>> /\ DatabaseKept
      /\ \/ G!Send(c, "rollback", G!Forced) /\ pc' = [pc EXCEPT ![c] = "reopening"]
         \/ pc' = [pc EXCEPT ![c] = "idle"] /\ UNCHANGED tasks
    BY DatabaseIsKept DEF Reopen, G!Reopen, G!GoTo, G!history
<1>2. CASE G!Send(c, "rollback", G!Forced) /\ pc' = [pc EXCEPT ![c] = "reopening"]
  <2>1. SentIn(NewOp(c, "rollback", G!Forced), "reopening", txnId[c])
    BY DEF SentIn, NewOp
  <2>2. G!Forced # G!NoId
    BY DEF G!Forced, G!NoId
  <2>3. \A x \in Pending : Current(x) => x.client # c
    BY <1>1 DEF SuccessInv, InFlight, SentIn
  <2>4. Sends(c, "rollback", G!Forced, "reopening")
    BY <1>1, <1>2, <2>1, <2>2, <2>3 DEF Sends, InTxn
  <2> QED
    BY <2>4, SendKeeps DEF PlainKinds, States
<1>3. CASE pc' = [pc EXCEPT ![c] = "idle"] /\ UNCHANGED tasks
  <2>1. /\ pc'[c] = "idle" /\ \A d \in Clients : d # c => pc'[d] = pc[d]
        /\ pc' \in [Clients -> States]
      BY <1>3 DEF SuccessInv, Recorded, States
  <2>2. UNCHANGED <<txnId, life, reply, succeeded, failed>>
      BY <1>1
  <2>3. \A x : Current(x)' <=> Current(x)
      BY <2>2 DEF Current
  <2>4. /\ tasks' = tasks /\ Queue' = Queue /\ Pending' = Pending
        /\ UNCHANGED <<currentTransactionId, lastTransactionId, sqliteOpen,
                       uncommitted, committed, lost>>
        /\ LostIsOver' /\ Alone'
      BY <1>1, <1>3, <2>3, LocalFacts
  <2>5. Inv'
      BY ReopenKeepsInv DEF SuccessInv
  <2>6. Recorded'
      BY <2>1, <2>2, <2>4 DEF SuccessInv, Recorded
  <2>7. reply[c] = G!NoReply /\ \A x \in Pending : Current(x) => x.client # c
      BY <1>1 DEF SuccessInv, InFlight, Awaiting, SentIn
  <2>8. \A x \in Pending : x.client \in Clients
      BY PendingLegal DEF SuccessInv, Inv, LegalOps
  <2>9. InFlight'
      BY <2>1, <2>2, <2>3, <2>4, <2>7, <2>8 DEF SuccessInv, InFlight, Current
  <2>10. TxnIds'
    <3>1. \A d \in Clients : InTxn(pc'[d]) <=> InTxn(pc[d])
        BY <1>1, <2>1 DEF InTxn
    <3>2. \A d \in Clients : pc'[d] = "beginning" => pc[d] = "beginning"
        BY <2>1
    <3> QED BY <2>2, <2>4, <3>1, <3>2 DEF SuccessInv, TxnIds, IsEnd, InTxn
  <2>11. Known'
      BY <2>2, <2>4 DEF SuccessInv, Known
  <2>12. Fresh'
    <3>1. \A d \in Clients : Begun(d)' => Begun(d)
        BY <2>1, <2>2 DEF Begun
    <3> QED BY <2>2, <2>4, <3>1 DEF SuccessInv, Fresh, Begun
  <2>13. Running'
    <3>1. \A d \in Clients : InTxn(pc'[d]) => pc'[d] = pc[d]
        BY <2>1 DEF InTxn
    <3> QED BY <2>2, <2>3, <2>4, <3>1 DEF SuccessInv, Running
  <2>14. Over'
    <3>1. \A d \in Clients : \A id \in 1..lastTransactionId : Done(d, id)' => Done(d, id)
        BY <2>1, <2>2 DEF Done
    <3> QED BY <2>4, <3>1 DEF SuccessInv, Over, Done
  <2> QED
    BY <2>4, <2>5, <2>6, <2>9, <2>10, <2>11, <2>12, <2>13, <2>14 DEF SuccessInv
<1> QED BY <1>1, <1>2, <1>3

LEMMA OnReplyKeepsSuccess ==
    ASSUME SuccessInv, NEW c \in Clients, OnReply(c)
    PROVE  SuccessInv'
<1> DEFINE tag == <<c, txnId[c]>>
<1>1. /\ reply[c] # G!NoReply
      /\ reply' = [reply EXCEPT ![c] = G!NoReply]
      /\ UNCHANGED <<life, tasks>> /\ DatabaseKept
    BY DatabaseIsKept DEF OnReply, G!OnReply
<1>2. \/ /\ pc[c] \in {"waiting", "reopening"} /\ pc' = [pc EXCEPT ![c] = "idle"]
         /\ UNCHANGED <<txnId, succeeded, failed>>
      \/ /\ pc[c] = "beginning" /\ pc' = [pc EXCEPT ![c] = IF reply[c].ok THEN "active" ELSE "idle"]
         /\ txnId' = [txnId EXCEPT ![c] = reply[c].id]
         /\ UNCHANGED <<succeeded, failed>>
      \/ /\ pc[c] = "awaiting" /\ pc' = [pc EXCEPT ![c] = "active"]
         /\ UNCHANGED <<txnId, succeeded, failed>>
      \/ /\ pc[c] \in {"committing", "rollingBack"} /\ pc' = [pc EXCEPT ![c] = "idle"]
         /\ txnId' = [txnId EXCEPT ![c] = G!NoId]
         /\ \/ /\ pc[c] = "committing" /\ reply[c].ok
               /\ succeeded' = succeeded \cup {tag} /\ failed' = failed
            \/ failed' = failed \cup {tag} /\ succeeded' = succeeded
    BY DEF OnReply, G!OnReply, G!GoTo, G!history
<1>3. /\ reply'[c] = G!NoReply /\ ~reply'[c].ok /\ reply'[c].id = G!Forced
      /\ \A d \in Clients : d # c => reply'[d] = reply[d]
      /\ reply[c].id \in Nat /\ reply[c].ok \in BOOLEAN /\ txnId[c] \in Nat
  <2>1. reply \in [Clients -> [ok : BOOLEAN, id : Nat] \cup {G!NoReply}] /\ txnId[c] \in Nat
      BY DEF SuccessInv, Inv, Typed, Answers
  <2>2. reply[c] \in [ok : BOOLEAN, id : Nat]
      BY <1>1, <2>1
  <2>3. G!NoReply.ok = FALSE /\ G!NoReply.id = G!Forced
      BY DEF G!NoReply
  <2>4. reply'[c] = G!NoReply /\ \A d \in Clients : d # c => reply'[d] = reply[d]
      BY <1>1, <2>1
  <2> QED BY <2>1, <2>2, <2>3, <2>4
<1>4. /\ \A d \in Clients : d # c => pc'[d] = pc[d] /\ txnId'[d] = txnId[d]
      /\ pc' \in [Clients -> States]
      /\ succeeded' \subseteq succeeded \cup {tag} /\ failed' \subseteq failed \cup {tag}
    BY <1>2 DEF SuccessInv, Recorded, Inv, Typed, States
<1>5. \A x : Current(x)' <=> Current(x)
    BY <1>1 DEF Current
<1>6. /\ tasks' = tasks /\ Queue' = Queue /\ Pending' = Pending
      /\ UNCHANGED <<currentTransactionId, lastTransactionId, sqliteOpen,
                     uncommitted, committed, lost>>
      /\ LostIsOver' /\ Alone'
    BY <1>1, <1>5, LocalFacts
<1>7. Inv'
    BY OnReplyKeepsInv DEF SuccessInv
<1>8. \A x \in Pending : x.client \in Clients /\ (Current(x) => x.client # c)
  <2>1. \A x \in Pending : x.client \in Clients
      BY PendingLegal DEF SuccessInv, Inv, LegalOps
  <2>2. \A x \in Pending : Current(x) => reply[x.client] = G!NoReply
      BY DEF SuccessInv, InFlight
  <2> QED BY <1>1, <2>1, <2>2
<1>9. InFlight'
  <2>1. ASSUME NEW x \in Pending'
        PROVE  /\ x.life <= life'[x.client]
               /\ Current(x)' => /\ reply'[x.client] = G!NoReply
                                 /\ SentIn(x, pc'[x.client], txnId'[x.client])
      BY <1>1, <1>3, <1>4, <1>5, <1>6, <1>8 DEF SuccessInv, InFlight
  <2>2. ASSUME NEW d \in Clients, reply'[d] # G!NoReply PROVE pc'[d] \in Awaiting
      BY <1>3, <1>4, <2>2 DEF SuccessInv, InFlight
  <2> QED BY <2>1, <2>2 DEF InFlight
\* What is left depends on what the answer is to.
<1> DEFINE Other == \A d \in Clients : d # c =>
             /\ pc'[d] = pc[d] /\ txnId'[d] = txnId[d] /\ reply'[d] = reply[d]
             /\ \A id : /\ <<d, id>> \in succeeded' <=> <<d, id>> \in succeeded
                        /\ <<d, id>> \in failed' <=> <<d, id>> \in failed
<1>10. Other
  <2> SUFFICES ASSUME NEW d \in Clients, d # c
               PROVE  /\ pc'[d] = pc[d] /\ txnId'[d] = txnId[d] /\ reply'[d] = reply[d]
                      /\ \A id : /\ <<d, id>> \in succeeded' <=> <<d, id>> \in succeeded
                                 /\ <<d, id>> \in failed' <=> <<d, id>> \in failed
      OBVIOUS
  <2>1. \A id : <<d, id>> # tag
      OBVIOUS
  <2>2. /\ succeeded \subseteq succeeded' /\ failed \subseteq failed'
      BY <1>2
  <2> HIDE DEF tag
  <2> QED BY <1>3, <1>4, <2>1, <2>2
<1>11. /\ \A d \in Clients : InTxn(pc[d]) <=> txnId[d] # G!NoId
       /\ pc[c] = "beginning" => (reply[c].ok <=> reply[c].id # G!NoId)
       /\ txnId[c] <= lastTransactionId /\ reply[c].id <= lastTransactionId
       /\ G!NoId <= lastTransactionId /\ G!Forced <= lastTransactionId
    BY <1>1 DEF SuccessInv, TxnIds, Known, Inv, Typed, G!NoId, G!Forced
<1>12. pc[c] \in {"committing", "rollingBack"} => InTxn(pc[c]) /\ txnId[c] # G!NoId
    BY <1>11 DEF InTxn
<1>13. Recorded'
  <2>1. tag \in Writes
      BY <1>3 DEF Writes
  <2> HIDE DEF tag
  <2> QED BY <1>4, <1>6, <2>1 DEF SuccessInv, Recorded
<1>14. TxnIds'
  <2>1. InTxn(pc'[c]) <=> txnId'[c] # G!NoId
    <3>1. CASE pc[c] = "beginning"
      <4>1. pc'[c] = (IF reply[c].ok THEN "active" ELSE "idle") /\ txnId'[c] = reply[c].id
          BY <1>2, <3>1 DEF SuccessInv, Recorded, Inv, Typed
      <4>2. CASE reply[c].ok
          BY <1>11, <3>1, <4>1, <4>2 DEF InTxn
      <4>3. CASE ~reply[c].ok
          BY <1>11, <3>1, <4>1, <4>3 DEF InTxn
      <4> QED BY <4>2, <4>3
    <3>2. CASE pc[c] # "beginning"
        BY <1>2, <1>11, <3>2 DEF InTxn, SuccessInv, Recorded, Inv, Typed
    <3> QED BY <3>1, <3>2
  <2>2. \A d \in Clients : InTxn(pc'[d]) <=> txnId'[d] # G!NoId
      BY <1>10, <1>11, <2>1 DEF InTxn
  <2>3. \A d \in Clients :
          pc'[d] = "beginning" /\ reply'[d] # G!NoReply => (reply'[d].ok <=> reply'[d].id # G!NoId)
      BY <1>3, <1>4 DEF SuccessInv, TxnIds
  <2>4. \A t \in succeeded' : t[2] # G!NoId
    <3>1. ASSUME NEW t \in succeeded', t \notin succeeded PROVE t[2] # G!NoId
      <4>1. t = <<c, txnId[c]>> /\ pc[c] = "committing"
          BY <1>2, <3>1
      <4> QED BY <1>12, <4>1
    <3> QED BY <3>1 DEF SuccessInv, TxnIds
  <2> QED BY <1>6, <2>2, <2>3, <2>4 DEF SuccessInv, TxnIds, IsEnd, InTxn
<1>15. Known'
  <2>1. \A d \in Clients : txnId'[d] <= lastTransactionId /\ reply'[d].id <= lastTransactionId
    <3>1. txnId'[c] <= lastTransactionId
        BY <1>2, <1>11 DEF SuccessInv, Inv, Typed
    <3> QED BY <1>3, <1>4, <1>11, <3>1 DEF SuccessInv, Known
  <2>2. tag[2] <= lastTransactionId
      BY <1>11
  <2> HIDE DEF tag
  <2> QED BY <1>4, <1>6, <2>1, <2>2 DEF SuccessInv, Known
<1>16. Fresh'
  <2>1. \A d \in Clients : Begun(d)' => d # c /\ Begun(d) /\ reply'[d] = reply[d]
      BY <1>3, <1>10 DEF Begun
  <2> QED BY <1>6, <1>10, <2>1 DEF SuccessInv, Fresh, Begun
<1>17. Running'
  <2>1. ASSUME InTxn(pc'[c])
        PROVE  /\ \A x \in Pending : x.client = c /\ x.tid = txnId'[c] => Current(x)
               /\ <<c, txnId'[c]>> \notin succeeded' \cup failed'
    <3>1. CASE pc[c] = "beginning"
      <4>1. pc'[c] = (IF reply[c].ok THEN "active" ELSE "idle") /\ txnId'[c] = reply[c].id
            /\ UNCHANGED <<succeeded, failed>>
          BY <1>2, <3>1 DEF SuccessInv, Recorded, Inv, Typed
      <4>2. reply[c].ok /\ pc'[c] = "active"
          BY <2>1, <4>1 DEF InTxn
      <4> QED BY <3>1, <4>1, <4>2 DEF SuccessInv, Fresh, Begun
    <3>2. CASE pc[c] = "awaiting"
      <4>1. pc'[c] = "active" /\ UNCHANGED <<txnId, succeeded, failed>>
          BY <1>2, <3>2 DEF SuccessInv, Recorded
      <4> QED BY <3>2, <4>1 DEF SuccessInv, Running, InTxn
    <3> QED BY <1>2, <2>1, <3>1, <3>2 DEF InTxn, SuccessInv, Recorded
  <2>2. ASSUME NEW d \in Clients, InTxn(pc'[d])
        PROVE  /\ \A x \in Pending' : x.client = d /\ x.tid = txnId'[d] => Current(x)'
               /\ <<d, txnId'[d]>> \notin succeeded' \cup failed'
    <3>1. CASE d = c
        BY <1>5, <1>6, <2>1, <2>2, <3>1
    <3>2. CASE d # c
      <4>1. InTxn(pc[d]) /\ txnId'[d] = txnId[d]
          BY <1>10, <2>2, <3>2
      <4> QED BY <1>5, <1>6, <1>10, <3>2, <4>1 DEF SuccessInv, Running
    <3> QED BY <3>1, <3>2
  <2> QED BY <2>2 DEF Running, InTxn
<1>18. Over'
  <2>1. ASSUME NEW d \in Clients, NEW id \in 1..lastTransactionId, Done(d, id)'
        PROVE  Done(d, id)
    <3>1. CASE d = c
      <4>1. ~reply'[c].ok
          BY <1>3
      <4>2. <<c, id>> \in succeeded'
          BY <2>1, <3>1, <4>1 DEF Done
      <4>3. \/ <<c, id>> \in succeeded
            \/ <<c, id>> = <<c, txnId[c]>> /\ pc[c] = "committing" /\ reply[c].ok
          BY <1>2, <4>2
      <4> QED BY <3>1, <4>3 DEF Done
    <3>2. CASE d # c
        BY <1>10, <2>1, <3>2 DEF Done
    <3> QED BY <3>1, <3>2
  <2> QED BY <1>6, <2>1 DEF SuccessInv, Over, Done
<1> QED
  BY <1>6, <1>7, <1>9, <1>13, <1>14, <1>15, <1>16, <1>17, <1>18 DEF SuccessInv

-----------------------------------------------------------------------------
(* The blocks, for the verdicts *)

\* Somebody waits for the answer.
Awaited(op) == Current(op) /\ (op.kind \in {"write", "batch"} => op.tid = G!NoId)

\* The answer goes to the client that awaits it.
Answered(op) ==
    \/ ~Awaited(op) /\ reply' = reply
    \/ Awaited(op) /\ \E ok \in BOOLEAN, id \in Nat :
         /\ reply' = [reply EXCEPT ![op.client] = [ok |-> ok, id |-> id]]
         /\ id <= lastTransactionId'
         /\ op.kind = "begin" =>
              \/ ok = TRUE /\ id = lastTransactionId + 1
              \/ ok = FALSE /\ id = G!NoId
         /\ op.kind = "commit" /\ ok = TRUE =>
              /\ sqliteOpen /\ currentTransactionId' = G!NoId
              /\ uncommitted' = {} /\ lost' = lost

\* The writes that it makes.
Tag(op) == <<op.client, op.tid>>
Written(op) == {t \in {Tag(op)} : op.kind \in {"write", "batch"}}

\* What a statement that the gate let through does to the native side.
Effect(op) ==
    /\ Answered(op)
    /\ \/ lastTransactionId' = lastTransactionId
       \/ lastTransactionId' = lastTransactionId + 1
    /\ currentTransactionId' \in {currentTransactionId, G!NoId, lastTransactionId + 1}
    /\ currentTransactionId' <= lastTransactionId'
    /\ uncommitted' \subseteq uncommitted \cup Written(op)
    /\ committed' \subseteq committed \cup uncommitted \cup Written(op)
    /\ lost' \subseteq lost \cup uncommitted \cup Written(op)
    /\ sqliteOpen' =>
         /\ lost' = lost
         /\ \/ sqliteOpen /\ currentTransactionId' = currentTransactionId
            \/ currentTransactionId' = lastTransactionId + 1

LEMMA AnsweredIff ==
    ASSUME NEW op \in LegalOps
    PROVE  Awaited(op) <=> ~(\/ life[op.client] # op.life
                             \/ op.kind \in {"write", "batch"} /\ op.tid # G!NoId)
BY DEF Awaited, Current, G!NoId, LegalOps

LEMMA AnsweredOk ==
    ASSUME NEW op \in LegalOps, NEW id \in Nat, G!Answer(op, TRUE, id), id <= lastTransactionId',
           op.kind = "begin" => id = lastTransactionId + 1,
           op.kind = "commit" =>
             /\ sqliteOpen /\ currentTransactionId' = G!NoId
             /\ uncommitted' = {} /\ lost' = lost
    PROVE  Answered(op)
<1>1. CASE ~Awaited(op)
    BY <1>1, AnsweredIff DEF Answered, G!Answer
<1>2. CASE Awaited(op)
  <2>1. reply' = [reply EXCEPT ![op.client] = [ok |-> TRUE, id |-> id]]
      BY <1>2, AnsweredIff DEF G!Answer
  <2> QED BY <1>2, <2>1 DEF Answered
<1> QED BY <1>1, <1>2

LEMMA AnsweredError ==
    ASSUME NEW op \in LegalOps, G!Answer(op, FALSE, G!NoId), lastTransactionId' \in Nat
    PROVE  Answered(op)
<1>0. G!NoId \in Nat /\ G!NoId <= lastTransactionId'
    BY DEF G!NoId
<1>1. CASE ~Awaited(op)
    BY <1>1, AnsweredIff DEF Answered, G!Answer
<1>2. CASE Awaited(op)
  <2>1. reply' = [reply EXCEPT ![op.client] = [ok |-> FALSE, id |-> G!NoId]]
      BY <1>2, AnsweredIff DEF G!Answer
  <2> QED BY <1>0, <1>2, <2>1 DEF Answered
<1> QED BY <1>1, <1>2

LEMMA ExecEffect ==
    ASSUME Inv, Recorded, currentTransactionId <= lastTransactionId,
           NEW op \in LegalOps, Exec(op), Passes(op)
    PROVE  Effect(op)
<1> USE DEF G!NoId, G!Forced
<1>0. currentTransactionId \in Nat /\ lastTransactionId \in Nat
    BY DEF Inv, Typed
<1>1. CASE op.kind = "begin" /\ ExecBegin(op)
  <2>1. currentTransactionId = G!NoId /\ ~sqliteOpen
    BY <1>1 DEF LegalOps, Passes, Ungated, GateIsHonest, Inv
  <2>2. /\ UNCHANGED <<uncommitted, committed, lost>>
        /\ lastTransactionId' = lastTransactionId + 1
        /\ \/ /\ currentTransactionId' = lastTransactionId + 1
              /\ G!Answer(op, TRUE, lastTransactionId + 1)
           \/ /\ currentTransactionId' = G!NoId
              /\ UNCHANGED sqliteOpen
              /\ G!Answer(op, FALSE, G!NoId)
    BY <1>1, <2>1 DEF ExecBegin
  <2>3. Answered(op)
    <3>0. /\ lastTransactionId' \in Nat /\ lastTransactionId + 1 \in Nat
          /\ lastTransactionId + 1 <= lastTransactionId' /\ op.kind # "commit"
        BY <1>0, <1>1, <2>2
    <3>1. CASE G!Answer(op, TRUE, lastTransactionId + 1)
        BY <3>0, <3>1, AnsweredOk, Zenon
    <3>2. CASE G!Answer(op, FALSE, G!NoId)
        BY <3>0, <3>2, AnsweredError, Zenon
    <3> QED BY <2>2, <3>1, <3>2
  <2>4. /\ currentTransactionId' \in {currentTransactionId, G!NoId, lastTransactionId + 1}
        /\ currentTransactionId' <= lastTransactionId'
        /\ sqliteOpen' => currentTransactionId' = lastTransactionId + 1
    <3>1. \/ currentTransactionId' = lastTransactionId + 1
          \/ currentTransactionId' = G!NoId /\ ~sqliteOpen'
        BY <2>1, <2>2
    <3>2. lastTransactionId' = lastTransactionId + 1
        BY <2>2
    <3> QED BY <1>0, <2>1, <3>1, <3>2
  <2> QED
    BY <1>0, <2>2, <2>3, <2>4 DEF Effect
<1>2. CASE op.kind \in {"commit", "rollback"} /\ ExecEnd(op)
  <2>1. CASE /\ sqliteOpen
             /\ sqliteOpen' = FALSE
             /\ uncommitted' = {}
             /\ IF op.kind = "commit"
                THEN committed' = committed \cup uncommitted /\ UNCHANGED lost
                ELSE lost' = lost \cup uncommitted /\ UNCHANGED committed
             /\ currentTransactionId' = G!NoId
             /\ UNCHANGED lastTransactionId
             /\ G!Answer(op, TRUE, G!NoId)
    <3>0. /\ lastTransactionId' \in Nat /\ G!NoId \in Nat /\ G!NoId <= lastTransactionId'
          /\ op.kind # "begin"
        BY <1>0, <1>2, <2>1
    <3>1. Answered(op)
      <4>1. op.kind = "commit" =>
             /\ sqliteOpen /\ currentTransactionId' = G!NoId
             /\ uncommitted' = {} /\ lost' = lost
          BY <2>1
      <4> QED BY <2>1, <3>0, <4>1, AnsweredOk, Zenon
    <3>2. /\ committed' \subseteq committed \cup uncommitted
          /\ lost' \subseteq lost \cup uncommitted
        BY <2>1
    <3> QED BY <1>0, <2>1, <3>1, <3>2 DEF Effect
  <2>2. CASE UNCHANGED <<sqliteVars, currentTransactionId>> /\ G!Answer(op, FALSE, G!NoId)
    <3>1. UNCHANGED <<currentTransactionId, lastTransactionId, sqliteOpen,
                      uncommitted, committed, lost>>
        BY <1>2, <2>2 DEF ExecEnd, sqliteVars
    <3>2. Answered(op)
      <4>1. lastTransactionId' \in Nat
          BY <1>0, <3>1
      <4> QED BY <2>2, <4>1, AnsweredError, Zenon
    <3> QED BY <1>0, <3>1, <3>2 DEF Effect
  <2> QED
    BY <1>2, <2>1, <2>2 DEF ExecEnd
<1>3. CASE \/ op.kind = "write" /\ G!ExecWrite(op)
           \/ op.kind = "batch" /\ G!ExecBatch(op)
  <2>1. UNCHANGED <<currentTransactionId, lastTransactionId>>
      BY <1>3 DEF G!ExecWrite, G!ExecBatch, G!gateVars
  <2>2. G!Answer(op, TRUE, G!NoId) \/ G!Answer(op, FALSE, G!NoId)
      BY <1>3 DEF G!ExecWrite, G!ExecBatch
  <2>3. Answered(op)
    <3>0. /\ lastTransactionId' \in Nat /\ G!NoId \in Nat /\ G!NoId <= lastTransactionId'
          /\ op.kind # "begin" /\ op.kind # "commit"
        BY <1>0, <1>3, <2>1
    <3>1. CASE G!Answer(op, TRUE, G!NoId)
        BY <3>0, <3>1, AnsweredOk, Zenon
    <3>2. CASE G!Answer(op, FALSE, G!NoId)
        BY <3>0, <3>2, AnsweredError, Zenon
    <3> QED BY <2>2, <3>1, <3>2
  <2>4. /\ uncommitted' \subseteq uncommitted \cup Written(op)
        /\ committed' \subseteq committed \cup Written(op)
        /\ lost' \subseteq lost \cup uncommitted \cup Written(op)
        /\ sqliteOpen' => lost' = lost
      BY <1>3 DEF G!ExecWrite, G!ExecBatch, G!Apply, Tag, Written
  <2>5. sqliteOpen' => sqliteOpen
    <3>1. sqliteOpen' = sqliteOpen \/ sqliteOpen' = FALSE
        BY <1>3 DEF G!ExecWrite, G!ExecBatch, G!Apply
    <3> QED BY <3>1, Zenon
  <2> QED
      BY <1>0, <2>1, <2>3, <2>4, <2>5 DEF Effect
<1>4. CASE op.kind = "cancel" /\ G!ExecCancel(op)
  <2>1. /\ UNCHANGED <<currentTransactionId, lastTransactionId, sqliteOpen,
                       uncommitted, committed, lost>>
        /\ G!Answer(op, TRUE, G!NoId)
      BY <1>4 DEF G!ExecCancel, G!gateVars, G!sqliteVars
  <2>2. Answered(op)
    <3>1. /\ G!NoId \in Nat /\ G!NoId <= lastTransactionId'
          /\ op.kind # "begin" /\ op.kind # "commit"
        BY <1>0, <1>4, <2>1
    <3> QED BY <2>1, <3>1, AnsweredOk, Zenon
  <2> QED
      BY <1>0, <2>1, <2>2 DEF Effect
<1> QED
  BY <1>1, <1>2, <1>3, <1>4, PlainExec DEF ExecOther

\* Who is answered, and what.
AnswerFor(op, c) ==
    /\ Current(op) /\ Awaited(op) /\ op.client = c
    /\ SentIn(op, pc[c], txnId[c])
    /\ reply'[c].id \in Nat /\ reply'[c].id <= lastTransactionId'
    /\ op.kind = "begin" => \/ reply'[c].ok = TRUE /\ reply'[c].id = lastTransactionId + 1
                            \/ reply'[c].ok = FALSE /\ reply'[c].id = G!NoId
    /\ op.kind = "commit" /\ reply'[c].ok = TRUE =>
         /\ sqliteOpen /\ currentTransactionId' = G!NoId
         /\ uncommitted' = {} /\ lost' = lost

LEMMA AnswerArrives ==
    ASSUME SuccessInv, NEW op \in LegalOps, op \in Pending, Effect(op),
           NEW c \in Clients, reply'[c] # reply[c]
    PROVE  AnswerFor(op, c)
<1>0. /\ op.client \in Clients
      /\ reply \in [Clients -> [ok : BOOLEAN, id : Nat] \cup {G!NoReply}]
    BY DEF LegalOps, SuccessInv, Inv, Typed, Answers
<1>1. Awaited(op) /\ Current(op)
    BY DEF Effect, Answered, Awaited
<1>2. PICK ok \in BOOLEAN, id \in Nat :
       /\ reply' = [reply EXCEPT ![op.client] = [ok |-> ok, id |-> id]]
       /\ id <= lastTransactionId'
       /\ op.kind = "begin" =>
            \/ ok = TRUE /\ id = lastTransactionId + 1
            \/ ok = FALSE /\ id = G!NoId
       /\ op.kind = "commit" /\ ok = TRUE =>
            /\ sqliteOpen /\ currentTransactionId' = G!NoId
            /\ uncommitted' = {} /\ lost' = lost
    BY <1>1 DEF Effect, Answered
<1>3. op.client = c
    BY <1>0, <1>2
<1>4. reply'[c] = [ok |-> ok, id |-> id]
    BY <1>0, <1>2, <1>3
<1>5. reply'[c].ok = ok /\ reply'[c].id = id
    BY <1>4
<1>6. SentIn(op, pc[c], txnId[c])
    BY <1>1, <1>3 DEF SuccessInv, InFlight
<1> QED BY <1>1, <1>2, <1>3, <1>5, <1>6 DEF AnswerFor

\* A statement is over.  If it was the COMMIT of the current transaction, it
\* was the last call of that transaction.
LEMMA ExecKeepsSuccess ==
    ASSUME SuccessInv, NEW op \in LegalOps, op \in Pending, Effect(op),
           Inv', Alone', UNCHANGED <<pc, txnId, life, succeeded, failed>>,
           Pending' \subseteq Pending,
           Current(op) => \A x \in Pending' : Current(x) => x.client # op.client,
           op.kind = "commit" /\ currentTransactionId # G!NoId => op.tid = currentTransactionId
    PROVE  SuccessInv'
<1>0. /\ currentTransactionId \in Nat /\ lastTransactionId \in Nat
      /\ lastTransactionId' \in Nat /\ lastTransactionId <= lastTransactionId'
      /\ currentTransactionId <= lastTransactionId
      /\ op.client \in Clients /\ op.tid \in Int /\ op.tid <= lastTransactionId
      /\ reply \in [Clients -> [ok : BOOLEAN, id : Nat] \cup {G!NoReply}]
  <2>1. /\ currentTransactionId \in Nat /\ lastTransactionId \in Nat /\ lastTransactionId' \in Nat
        /\ reply \in [Clients -> [ok : BOOLEAN, id : Nat] \cup {G!NoReply}]
      BY DEF SuccessInv, Inv, Typed, Answers
  <2>2. currentTransactionId <= lastTransactionId /\ op.tid <= lastTransactionId
      BY DEF SuccessInv, Known
  <2>3. lastTransactionId <= lastTransactionId'
      BY <2>1 DEF Effect
  <2>4. op.client \in Clients /\ op.tid \in Int
      BY DEF LegalOps, G!Forced
  <2> QED BY <2>1, <2>2, <2>3, <2>4
<1>1. /\ \A x \in Pending' : x \in LegalOps /\ x \in Pending /\ x.client \in Clients
      /\ \A x : Current(x)' <=> Current(x)
    BY PendingLegal DEF SuccessInv, Inv, LegalOps, Current
<1>2. ASSUME NEW c \in Clients, reply'[c] # reply[c]
      PROVE  AnswerFor(op, c)
    BY <1>2, AnswerArrives
<1>3. \A c \in Clients : pc'[c] = pc[c] /\ txnId'[c] = txnId[c] /\ life'[c] = life[c]
    OBVIOUS
<1>4. Written(op) \subseteq Writes
    BY DEF Tag, Written, Writes, LegalOps
<1>5. Recorded'
  <2>2. /\ uncommitted' \subseteq Writes /\ committed' \subseteq Writes /\ lost' \subseteq Writes
      BY <1>4 DEF Effect, SuccessInv, Recorded
  <2> QED BY <2>2 DEF SuccessInv, Recorded
<1>6. InFlight'
  <2>1. ASSUME NEW x \in Pending'
        PROVE  /\ x.life <= life'[x.client]
               /\ Current(x)' => /\ reply'[x.client] = G!NoReply
                                 /\ SentIn(x, pc'[x.client], txnId'[x.client])
    <3>1. /\ x \in Pending /\ x.client \in Clients
          /\ x.life <= life[x.client]
          /\ Current(x) => reply[x.client] = G!NoReply /\ SentIn(x, pc[x.client], txnId[x.client])
        BY <1>1 DEF SuccessInv, InFlight
    <3>2. Current(x) => reply'[x.client] = reply[x.client]
        BY <1>2, <2>1, <3>1 DEF AnswerFor
    <3> QED BY <1>1, <1>3, <3>1, <3>2
  <2>2. ASSUME NEW d \in Clients, reply'[d] # G!NoReply PROVE pc'[d] \in Awaiting
    <3>1. CASE reply'[d] = reply[d]
        BY <1>3, <2>2, <3>1 DEF SuccessInv, InFlight
    <3>2. CASE reply'[d] # reply[d]
      <4>1. pc[d] = "active" => txnId[d] # G!NoId
          BY DEF SuccessInv, TxnIds, InTxn
      <4> QED BY <1>2, <1>3, <3>2, <4>1 DEF SentIn, Awaiting, AnswerFor, Awaited
    <3> QED BY <3>1, <3>2
  <2> QED BY <2>1, <2>2 DEF InFlight
<1>7. TxnIds'
  <2>1. ASSUME NEW d \in Clients, pc'[d] = "beginning", reply'[d] # G!NoReply
        PROVE  reply'[d].ok <=> reply'[d].id # G!NoId
    <3>1. CASE reply'[d] = reply[d]
        BY <1>3, <2>1, <3>1 DEF SuccessInv, TxnIds
    <3>2. CASE reply'[d] # reply[d]
      <4>1. op.kind = "begin"
          BY <1>2, <1>3, <2>1, <3>2 DEF SentIn, AnswerFor
      <4>2. \/ reply'[d].ok = TRUE /\ reply'[d].id = lastTransactionId + 1
            \/ reply'[d].ok = FALSE /\ reply'[d].id = G!NoId
          BY <1>2, <3>2, <4>1 DEF AnswerFor
      <4> QED BY <1>0, <4>2 DEF G!NoId
    <3> QED BY <3>1, <3>2
  <2>2. \A x \in Pending' : IsEnd(x) => x.tid # G!NoId
      BY <1>1 DEF SuccessInv, TxnIds
  <2> QED BY <1>3, <2>1, <2>2 DEF SuccessInv, TxnIds, IsEnd, InTxn
<1>8. Known'
  <2>1. ASSUME NEW t \in uncommitted' \cup committed' \cup lost' \cup succeeded' \cup failed'
        PROVE  t[2] <= lastTransactionId
    <3>1. CASE t \in Written(op)
        BY <1>0, <3>1 DEF Tag, Written
    <3>2. CASE t \notin Written(op)
        BY <2>1, <3>2 DEF Effect, SuccessInv, Known
    <3> QED BY <3>1, <3>2
  <2>2. ASSUME NEW t \in uncommitted' \cup committed' \cup lost' \cup succeeded' \cup failed'
        PROVE  t[2] <= lastTransactionId'
    <3>1. t[2] \in Nat
      <4>1. t \in Writes
          BY <1>5, <2>2 DEF Recorded
      <4> QED BY <4>1 DEF Writes
    <3> QED BY <1>0, <2>1, <2>2, <3>1
  <2>3. ASSUME NEW x \in Pending' PROVE x.tid <= lastTransactionId'
    <3>1. x.tid \in Int /\ x.tid <= lastTransactionId
        BY <1>1 DEF LegalOps, G!Forced, SuccessInv, Known
    <3> QED BY <1>0, <3>1
  <2>4. ASSUME NEW d \in Clients
        PROVE  txnId'[d] <= lastTransactionId' /\ reply'[d].id <= lastTransactionId'
    <3>0. txnId[d] \in Nat /\ txnId[d] <= lastTransactionId
        BY DEF SuccessInv, Inv, Typed, Known
    <3>1. txnId[d] <= lastTransactionId'
        BY <1>0, <3>0
    <3>2. CASE reply'[d] = reply[d]
      <4>1. reply[d].id \in Int /\ reply[d].id <= lastTransactionId
          BY <1>0 DEF G!NoReply, G!Forced, SuccessInv, Known
      <4> QED BY <1>0, <1>3, <3>1, <3>2, <4>1
    <3>3. CASE reply'[d] # reply[d]
        BY <1>0, <1>2, <1>3, <3>1, <3>3 DEF AnswerFor
    <3> QED BY <3>2, <3>3
  <2>5. currentTransactionId' <= lastTransactionId'
      BY DEF Effect
  <2> QED BY <2>2, <2>3, <2>4, <2>5 DEF Known
<1>9. Fresh'
  <2>1. ASSUME NEW d \in Clients, Begun(d)', reply'[d] = reply[d]
        PROVE  /\ \A x \in Pending' : x.client = d => x.tid # reply'[d].id
               /\ <<d, reply'[d].id>> \notin succeeded' \cup failed'
    <3>1. Begun(d)
        BY <1>3, <2>1 DEF Begun
    <3> QED BY <1>1, <2>1, <3>1 DEF SuccessInv, Fresh
  <2>2. ASSUME NEW d \in Clients, Begun(d)', reply'[d] # reply[d]
        PROVE  /\ \A x \in Pending' : x.client = d => x.tid # reply'[d].id
               /\ <<d, reply'[d].id>> \notin succeeded' \cup failed'
    <3>1. pc[d] = "beginning" /\ reply'[d].ok
        BY <1>3, <2>2 DEF Begun
    <3>2. op.kind = "begin"
        BY <1>2, <2>2, <3>1 DEF SentIn, AnswerFor
    <3>3. reply'[d].id = lastTransactionId + 1
        BY <1>2, <2>2, <3>1, <3>2 DEF AnswerFor
    <3>4. \A x \in Pending' : x.tid \in Int /\ x.tid <= lastTransactionId
        BY <1>1 DEF LegalOps, G!Forced, SuccessInv, Known
    <3>5. \A t \in succeeded \cup failed : t[2] <= lastTransactionId
        BY DEF SuccessInv, Known
    <3>6. \A x \in Pending' : x.tid # reply'[d].id
        BY <1>0, <3>3, <3>4
    <3>7. <<d, reply'[d].id>> \notin succeeded \cup failed
      <4>1. ~(lastTransactionId + 1 <= lastTransactionId)
          BY <1>0
      <4> QED BY <3>3, <3>5, <4>1
    <3> QED BY <3>6, <3>7
  <2> QED BY <2>1, <2>2 DEF Fresh, Begun
<1>10. Running'
    BY <1>1, <1>3 DEF SuccessInv, Running, InTxn
<1>12. LostIsOver'
  <2> SUFFICES ASSUME sqliteOpen', NEW t \in lost' PROVE t[2] # currentTransactionId'
      BY DEF LostIsOver
  <2>1. /\ lost' = lost
        /\ \/ sqliteOpen /\ currentTransactionId' = currentTransactionId
           \/ currentTransactionId' = lastTransactionId + 1
      BY DEF Effect
  <2>2. t \in lost /\ t[2] \in Nat /\ t[2] <= lastTransactionId
    <3>1. t \in Writes
        BY <2>1 DEF SuccessInv, Recorded
    <3> QED BY <2>1, <3>1 DEF Writes, SuccessInv, Known
  <2>3. CASE currentTransactionId' = lastTransactionId + 1
      BY <1>0, <2>2, <2>3
  <2>4. CASE sqliteOpen /\ currentTransactionId' = currentTransactionId
      BY <2>2, <2>4 DEF SuccessInv, LostIsOver
  <2> QED BY <2>1, <2>3, <2>4
<1>13. Over'
  <2> SUFFICES ASSUME NEW c \in Clients, NEW id \in 1..lastTransactionId', Done(c, id)'
               PROVE  /\ \A x \in Pending' : x.client = c => x.tid # id
                      /\ id # currentTransactionId'
                      /\ <<c, id>> \notin lost' \cup uncommitted'
      BY DEF Over
  <2>0. id \in Nat /\ id # G!NoId
      BY <1>0 DEF G!NoId
  <2>1. CASE Done(c, id)
    <3>1. id <= lastTransactionId
      <4>1. CASE <<c, id>> \in succeeded
          BY <4>1 DEF SuccessInv, Known
      <4>2. CASE txnId[c] = id
          BY <4>2 DEF SuccessInv, Known
      <4> QED BY <2>1, <4>1, <4>2 DEF Done
    <3>2. /\ \A x \in Pending : x.client = c => x.tid # id
          /\ id # currentTransactionId
          /\ <<c, id>> \notin lost \cup uncommitted
      <4>1. id \in 1..lastTransactionId
          BY <1>0, <2>0, <3>1 DEF G!NoId
      <4> QED BY <2>1, <4>1 DEF SuccessInv, Over
    <3>3. <<c, id>> \notin Written(op)
        BY <3>2 DEF Tag, Written
    <3>4. id # currentTransactionId'
        BY <1>0, <2>0, <3>1, <3>2 DEF Effect
    <3>5. <<c, id>> \notin lost' \cup uncommitted'
        BY <3>2, <3>3 DEF Effect
    <3> QED BY <3>2, <3>4, <3>5
  \* The answer to COMMIT is on its way now.
  <2>2. CASE ~Done(c, id)
    <3>1. pc[c] = "committing" /\ reply'[c].ok /\ txnId[c] = id /\ reply'[c] # reply[c]
        BY <1>3, <2>2 DEF Done
    <3>2. op.kind = "commit" /\ op.tid = id /\ op.client = c
        BY <1>2, <3>1 DEF SentIn, AnswerFor
    <3>3. reply'[c].ok = TRUE
      <4>1. reply'[c].ok \in BOOLEAN
        <5>1. reply'[c] \in [ok : BOOLEAN, id : Nat] \cup {G!NoReply}
            BY DEF Inv, Typed, Answers
        <5>2. G!NoReply.ok = FALSE
            BY DEF G!NoReply
        <5>3. CASE reply'[c] \in [ok : BOOLEAN, id : Nat]
            BY <5>3
        <5>4. CASE reply'[c] = G!NoReply
            BY <5>2, <5>4
        <5> QED BY <5>1, <5>3, <5>4
      <4> QED BY <3>1, <4>1
    <3>4. /\ sqliteOpen /\ currentTransactionId' = G!NoId
          /\ uncommitted' = {} /\ lost' = lost
        BY <1>2, <3>1, <3>2, <3>3 DEF AnswerFor
    <3>5. currentTransactionId # G!NoId
        BY <3>4 DEF SuccessInv, Inv, GateIsHonest
    <3>6. op.tid = currentTransactionId /\ \A x \in Pending' : x.client = c => x.tid # id
      <4>1. \A x \in Pending' : x.client = c /\ x.tid = id => Current(x)
          BY <1>1, <3>1 DEF SuccessInv, Running, InTxn
      <4>2. Current(op)
          BY <1>2, <3>1 DEF AnswerFor
      <4> QED BY <3>2, <3>5, <4>1, <4>2
    <3>7. <<c, id>> \notin lost
        BY <3>2, <3>4, <3>6 DEF SuccessInv, LostIsOver
    <3> QED BY <2>0, <3>4, <3>6, <3>7
  <2> QED BY <2>1, <2>2
<1> QED
  BY <1>5, <1>6, <1>7, <1>8, <1>9, <1>10, <1>12, <1>13 DEF SuccessInv

\* No statement runs.
LEMMA UnrunKeepsSuccess ==
    ASSUME SuccessInv, Inv', Alone',
           UNCHANGED <<pc, txnId, life, reply, succeeded, failed>>,
           UNCHANGED <<currentTransactionId, lastTransactionId, sqliteOpen,
                       uncommitted, committed, lost>>,
           Pending' \subseteq Pending
    PROVE  SuccessInv'
<1>1. \A x : Current(x)' <=> Current(x)
    BY DEF Current
<1>2. InFlight'
    BY <1>1 DEF SuccessInv, InFlight
<1>3. Recorded' /\ LostIsOver'
    BY DEF SuccessInv, Recorded, LostIsOver
<1>4. TxnIds' /\ Known'
    BY DEF SuccessInv, TxnIds, Known, IsEnd, InTxn
<1>5. Fresh'
    BY DEF SuccessInv, Fresh, Begun
<1>6. Running'
    BY <1>1 DEF SuccessInv, Running, InTxn
<1>7. Over'
    BY DEF SuccessInv, Over, Done
<1> QED BY <1>2, <1>3, <1>4, <1>5, <1>6, <1>7 DEF SuccessInv

LEMMA NativeKeepsSuccess ==
    ASSUME SuccessInv, Inv', Native
    PROVE  SuccessInv'
<1>1. /\ Typed /\ Alone /\ life' = life
      /\ UNCHANGED <<pc, txnId, life, succeeded, failed>>
    BY DEF Native, SuccessInv, Inv
<1>2. Inv /\ Recorded /\ currentTransactionId <= lastTransactionId
    BY DEF SuccessInv, Known
<1>3. ASSUME NEW i \in DOMAIN tasks, RunBlock(i)
      PROVE  SuccessInv'
  <2> PICK op : op = tasks[i]
      OBVIOUS
  <2>1. /\ tasks' = RemoveAt(tasks, i) /\ Queue' = Queue /\ Exec(op) /\ Passes(op)
      BY <1>3 DEF RunBlock, MayRun, Passes, Queue
  <2>2. /\ Pending' \subseteq Pending /\ op \in Pending /\ Alone'
        /\ Current(op) => \A x \in Pending' : Current(x) => x.client # op.client
      BY <1>1, <2>1, Left
  <2>3. op \in LegalOps
      BY <1>1, <2>2, PendingLegal
  <2>4. Effect(op)
      BY <1>2, <2>1, <2>3, ExecEffect
  <2>5. op.kind = "commit" /\ currentTransactionId # G!NoId => op.tid = currentTransactionId
      BY <2>1, <2>3 DEF Passes, Ungated, LegalOps
  <2> QED BY <1>1, <2>2, <2>3, <2>4, <2>5, ExecKeepsSuccess
<1>4. ASSUME NEW i \in DOMAIN tasks, EnqueueOperation(i)
      PROVE  SuccessInv'
  <2>1. /\ tasks' = RemoveAt(tasks, i) /\ Queue' = Append(Queue, tasks[i])
        /\ UNCHANGED <<reply, currentTransactionId, lastTransactionId, sqliteOpen,
                       uncommitted, committed, lost>>
      BY <1>4 DEF EnqueueOperation, Queue, sqliteVars
  <2>2. tasks[i] \in GatedOps
    <3>1. tasks[i] \in LegalOps
        BY <1>1 DEF Typed
    <3> QED BY <1>4, <3>1 DEF EnqueueOperation, MayRun, Ungated, GatedOps
  <2>3. Pending' \subseteq Pending /\ Alone'
      BY <1>1, <2>1, <2>2, Moved
  <2> QED BY <1>1, <2>1, <2>3, UnrunKeepsSuccess
<1>5. CASE RunNextQueued
  <2> PICK op : op = Head(Queue)
      OBVIOUS
  <2>1. /\ tasks' = tasks /\ Queue # <<>> /\ Queue' = Tail(Queue)
        /\ currentTransactionId = G!NoId /\ Exec(op) /\ Passes(op)
      BY <1>2, <1>5 DEF RunNextQueued, Queue, Inv, DrainsOpen, Passes
  <2>2. /\ Pending' \subseteq Pending /\ op \in Pending /\ Alone'
        /\ Current(op) => \A x \in Pending' : Current(x) => x.client # op.client
      BY <1>1, <2>1, Dequeued
  <2>3. op \in LegalOps
      BY <1>1, <2>2, PendingLegal
  <2>4. Effect(op)
      BY <1>2, <2>1, <2>3, ExecEffect
  <2> QED BY <1>1, <2>1, <2>2, <2>3, <2>4, ExecKeepsSuccess
<1> QED BY <1>3, <1>4, <1>5 DEF Native

-----------------------------------------------------------------------------
(* Success *)

LEMMA InitSuccess == Init => SuccessInv
<1> SUFFICES ASSUME Init PROVE SuccessInv
    OBVIOUS
<1>1. Inv
    BY InitInv
<1>2. /\ tasks = <<>> /\ Queue = <<>> /\ Len(tasks) = 0 /\ Len(Queue) = 0
    BY DEF Init, G!Init, Queue
<1>3. Pending = {} /\ Alone
    BY <1>2 DEF Pending, Alone
<1>4. Recorded
    BY DEF Init, G!Init, Recorded, States
<1>5. InFlight /\ TxnIds
    BY <1>3 DEF Init, G!Init, InFlight, TxnIds, InTxn
<1>6. Known
    BY <1>3 DEF Init, G!Init, Known, G!NoReply, G!Forced, G!NoId
<1>7. Fresh /\ Running /\ LostIsOver
    BY <1>3 DEF Init, G!Init, Fresh, Begun, Running, InTxn, LostIsOver
<1>8. Over
    BY DEF Init, G!Init, Over, G!NoId
<1> QED BY <1>1, <1>3, <1>4, <1>5, <1>6, <1>7, <1>8 DEF SuccessInv

LEMMA NextSuccess ==
    ASSUME AwaitCalls, SuccessInv, [PlainNext]_vars
    PROVE  SuccessInv'
<1>1. Inv'
    BY NextInv DEF SuccessInv
<1>2. ASSUME NEW c \in Clients, CallDatabase(c) \/ CallTransaction(c) \/ EndTransaction(c)
      PROVE  SuccessInv'
    BY <1>1, <1>2, CallsSend, SendKeeps
<1>3. ASSUME NEW c \in Clients, OnReply(c) PROVE SuccessInv'
    BY <1>3, OnReplyKeepsSuccess
<1>4. ASSUME NEW c \in Clients, Restart(c) PROVE SuccessInv'
    BY <1>4, RestartKeepsSuccess
<1>5. ASSUME NEW c \in Clients, Reopen(c) PROVE SuccessInv'
    BY <1>1, <1>5, ReopenKeepsSuccess
<1>6. CASE Native
    BY <1>1, <1>6, NativeKeepsSuccess
<1>7. CASE UNCHANGED vars
  <2>1. /\ UNCHANGED <<pc, txnId, life, reply, succeeded, failed>>
        /\ UNCHANGED <<currentTransactionId, lastTransactionId, sqliteOpen,
                       uncommitted, committed, lost>>
        /\ tasks' = tasks /\ Queue' = Queue
      BY <1>7 DEF vars, G!vars, G!dartVars, G!gateVars, G!sqliteVars, G!history, Queue
  <2>2. \A x : Current(x)' => Current(x)
      BY <2>1 DEF Current
  <2>3. Pending' = Pending /\ Alone'
      BY <2>1, <2>2, Waiting DEF SuccessInv, Inv
  <2> QED BY <1>1, <2>1, <2>3, UnrunKeepsSuccess
<1> QED BY <1>2, <1>3, <1>4, <1>5, <1>6, <1>7 DEF PlainNext

LEMMA SuccessHolds ==
    ASSUME SuccessInv
    PROVE  succeeded \cap (lost \cup uncommitted) = {}
<1> SUFFICES ASSUME NEW t \in succeeded PROVE t \notin lost \cup uncommitted
    OBVIOUS
<1>1. PICK c \in Clients, id \in Nat : t = <<c, id>>
    BY DEF SuccessInv, Recorded, Writes
<1>2. id # G!NoId /\ id <= lastTransactionId /\ lastTransactionId \in Nat
    BY <1>1 DEF SuccessInv, TxnIds, Known, Inv, Typed
<1>3. id \in 1..lastTransactionId
    BY <1>2 DEF G!NoId
<1> QED BY <1>1, <1>3 DEF SuccessInv, Over, Done

-----------------------------------------------------------------------------
(* Failures *)

\* A conflict ends the transaction behind the back of its client: what that
\* client still sends is committed by itself.
NoAutomaticRollback == "conflict" \notin Faults

Alive == NobodyRestarted /\ \A c \in Clients : pc[c] \notin {"restarted", "reopening"}

OpenWhileHeld == currentTransactionId # G!NoId => sqliteOpen

\* The id that the client has, or is about to receive.
IdOf(c) ==
    IF pc[c] # "beginning" THEN txnId[c] ELSE IF reply[c].ok THEN reply[c].id ELSE G!NoId

\* The answer to its COMMIT or ROLLBACK is on its way.
Ended(c) == pc[c] \in {"committing", "rollingBack"} /\ reply[c] # G!NoReply
Holds(c) == Begun(c) \/ (InTxn(pc[c]) /\ ~Ended(c))

\* The gate is held for the only client that has an id that is not over.
OwnIds ==
    /\ \A op \in Pending : op.tid # G!NoId =>
         op.tid = currentTransactionId /\ txnId[op.client] = op.tid
    /\ \A c, d \in Clients : IdOf(c) # G!NoId /\ IdOf(c) = IdOf(d) => c = d
    /\ \A c \in Clients : Holds(c) => IdOf(c) = currentTransactionId

\* The writes of a transaction are where the transaction is.
OfTransactions ==
    /\ \A t \in uncommitted : t[2] # G!NoId =>
         /\ t[2] = currentTransactionId
         /\ \A c \in Clients : IdOf(c) = t[2] => c = t[1]
    /\ \A t \in committed : t[2] # G!NoId => t[2] # currentTransactionId

\* The transaction of the client failed: it knows, or the answer is on the way.
Failed(c, id) ==
    \/ <<c, id>> \in failed
    \/ Ended(c) /\ txnId[c] = id /\ ~(pc[c] = "committing" /\ reply[c].ok)

\* Nobody else can make its writes durable.
FailedIsOver ==
    /\ \A t \in failed : t[2] # G!NoId
    /\ \A c \in Clients : \A id \in Nat \ {G!NoId} : Failed(c, id) =>
         /\ \A op \in Pending : op.client = c => op.tid # id
         /\ <<c, id>> \notin committed

\* As long as no client restarted: whose the ids are.
HolderInv == SuccessInv /\ Alive /\ OwnIds

\* If SQLite also rolled nothing back by itself: where the writes are.
VerdictInv == HolderInv /\ OpenWhileHeld /\ OfTransactions /\ FailedIsOver

\* What becomes of the gate when a statement ends.
Turns(op) ==
    \/ /\ op.kind = "begin" /\ currentTransactionId = G!NoId
       /\ currentTransactionId' = lastTransactionId + 1
    \/ /\ op.kind = "begin" /\ currentTransactionId = G!NoId
       /\ currentTransactionId' = G!NoId
       /\ Awaited(op) => ~reply'[op.client].ok
    \/ IsEnd(op) /\ currentTransactionId' \in {currentTransactionId, G!NoId}
    \/ op.kind \in {"write", "batch", "cancel"} /\ UNCHANGED currentTransactionId

\* The ways in which it may end if there is no automatic rollback.
BeginSucceeded(op) ==
    /\ op.kind = "begin" /\ currentTransactionId = G!NoId
    /\ lastTransactionId' = lastTransactionId + 1
    /\ currentTransactionId' = lastTransactionId + 1
    /\ sqliteOpen'
    /\ UNCHANGED <<uncommitted, committed, lost>>

BeginFailed(op) ==
    /\ op.kind = "begin" /\ currentTransactionId = G!NoId /\ currentTransactionId' = G!NoId
    /\ lastTransactionId' = lastTransactionId + 1
    /\ UNCHANGED <<uncommitted, committed, lost>>
    /\ Awaited(op) => ~reply'[op.client].ok

EndSucceeded(op) ==
    /\ IsEnd(op) /\ sqliteOpen
    /\ currentTransactionId' = G!NoId /\ UNCHANGED lastTransactionId
    /\ uncommitted' = {}
    /\ \/ op.kind = "commit" /\ committed' = committed \cup uncommitted /\ UNCHANGED lost
       \/ op.kind = "rollback" /\ lost' = lost \cup uncommitted /\ UNCHANGED committed
    /\ Awaited(op) => reply'[op.client].ok

EndFailed(op) ==
    /\ IsEnd(op) /\ sqliteOpen' = sqliteOpen
    /\ UNCHANGED <<currentTransactionId, lastTransactionId, uncommitted, committed, lost>>

StatementRan(op) ==
    /\ op.kind \in {"write", "batch", "cancel"}
    /\ UNCHANGED <<currentTransactionId, lastTransactionId, sqliteOpen, lost>>
    /\ uncommitted \subseteq uncommitted' /\ committed \subseteq committed'
    /\ \/ /\ sqliteOpen
          /\ uncommitted' \subseteq uncommitted \cup Written(op) /\ UNCHANGED committed
       \/ /\ ~sqliteOpen
          /\ committed' \subseteq committed \cup Written(op) /\ UNCHANGED uncommitted

Ends(op) ==
    \/ BeginSucceeded(op) \/ BeginFailed(op)
    \/ EndSucceeded(op) \/ EndFailed(op) \/ StatementRan(op)

LEMMA ToldOk ==
    ASSUME Typed, NEW op \in LegalOps, NEW id, G!Answer(op, TRUE, id), Awaited(op)
    PROVE  reply'[op.client].ok
<1>1. reply' = [reply EXCEPT ![op.client] = [ok |-> TRUE, id |-> id]]
    BY AnsweredIff DEF G!Answer
<1>2. op.client \in Clients /\ reply = [c \in Clients |-> reply[c]]
    BY DEF LegalOps, Typed
<1>3. reply'[op.client] = [ok |-> TRUE, id |-> id]
    BY <1>1, <1>2
<1> QED BY <1>3

LEMMA ToldError ==
    ASSUME Typed, NEW op \in LegalOps, G!Answer(op, FALSE, G!NoId), Awaited(op)
    PROVE  ~reply'[op.client].ok
<1>1. reply' = [reply EXCEPT ![op.client] = [ok |-> FALSE, id |-> G!NoId]]
    BY AnsweredIff DEF G!Answer
<1>2. op.client \in Clients /\ reply = [c \in Clients |-> reply[c]]
    BY DEF LegalOps, Typed
<1>3. reply'[op.client] = [ok |-> FALSE, id |-> G!NoId]
    BY <1>1, <1>2
<1> QED BY <1>3

LEMMA ExecTurns ==
    ASSUME Inv, NEW op \in LegalOps, Exec(op), Passes(op)
    PROVE  Turns(op)
<1>1. CASE op.kind = "begin" /\ ExecBegin(op)
  <2>1. currentTransactionId = G!NoId
      BY <1>1 DEF LegalOps, Passes, Ungated, G!NoId, G!Forced
  <2>2. \/ currentTransactionId' = lastTransactionId + 1
        \/ currentTransactionId' = G!NoId /\ G!Answer(op, FALSE, G!NoId)
      BY <1>1, <2>1 DEF ExecBegin
  <2>3. G!Answer(op, FALSE, G!NoId) => (Awaited(op) => ~reply'[op.client].ok)
      BY ToldError, Zenon DEF Inv
  <2> QED BY <1>1, <2>1, <2>2, <2>3 DEF Turns
<1>2. CASE op.kind \in {"commit", "rollback"} /\ ExecEnd(op)
    BY <1>2 DEF ExecEnd, Turns, IsEnd
<1>3. CASE ExecOther(op)
    BY <1>3 DEF ExecOther, G!ExecWrite, G!ExecBatch, G!ExecCancel, G!gateVars, Turns
<1> QED BY <1>1, <1>2, <1>3, PlainExec

LEMMA ExecEnds ==
    ASSUME Inv, NoAutomaticRollback, NEW op \in LegalOps, Exec(op), Passes(op)
    PROVE  Ends(op)
<1> USE DEF Ends
<1>0. Typed
    BY DEF Inv
<1>1. CASE op.kind = "begin" /\ ExecBegin(op)
  <2>1. currentTransactionId = G!NoId /\ lastTransactionId' = lastTransactionId + 1
    BY <1>1 DEF LegalOps, Passes, Ungated, ExecBegin, G!NoId, G!Forced
  <2>2. CASE /\ currentTransactionId' = lastTransactionId + 1
             /\ sqliteOpen' = TRUE
             /\ UNCHANGED <<uncommitted, committed, lost>>
    BY <1>1, <2>1, <2>2 DEF BeginSucceeded
  <2>3. CASE /\ currentTransactionId' = G!NoId
             /\ G!Answer(op, FALSE, G!NoId)
             /\ UNCHANGED <<uncommitted, committed, lost>>
    <3>1. Awaited(op) => ~reply'[op.client].ok
        BY <1>0, <2>3, ToldError, Zenon
    <3> QED BY <1>1, <2>1, <2>3, <3>1 DEF BeginFailed
  <2> QED
    BY <1>1, <2>1, <2>2, <2>3 DEF ExecBegin
<1>2. CASE op.kind \in {"commit", "rollback"} /\ ExecEnd(op)
  <2>1. CASE /\ sqliteOpen
             /\ uncommitted' = {}
             /\ IF op.kind = "commit"
                THEN committed' = committed \cup uncommitted /\ UNCHANGED lost
                ELSE lost' = lost \cup uncommitted /\ UNCHANGED committed
             /\ currentTransactionId' = G!NoId /\ UNCHANGED lastTransactionId
             /\ G!Answer(op, TRUE, G!NoId)
    <3>1. Awaited(op) => reply'[op.client].ok
        BY <1>0, <2>1, ToldOk, Zenon
    <3>2. CASE op.kind = "commit"
        BY <2>1, <3>1, <3>2 DEF EndSucceeded, IsEnd
    <3>3. CASE op.kind = "rollback"
        BY <2>1, <3>1, <3>3 DEF EndSucceeded, IsEnd
    <3> QED BY <1>2, <3>2, <3>3
  <2>2. CASE UNCHANGED <<sqliteVars, currentTransactionId, lastTransactionId>>
    BY <1>2, <2>2 DEF EndFailed, IsEnd, sqliteVars
  <2> QED
    BY <1>2, <2>1, <2>2 DEF ExecEnd
<1>3. CASE \/ op.kind = "write" /\ G!ExecWrite(op)
           \/ op.kind = "batch" /\ G!ExecBatch(op)
  <2>1. /\ UNCHANGED <<G!gateVars, sqliteOpen>>
        /\ G!Apply(op) \/ UNCHANGED <<uncommitted, committed, lost>>
    BY <1>3 DEF G!ExecWrite, G!ExecBatch, NoAutomaticRollback, G!Apply
  <2>2. UNCHANGED <<currentTransactionId, lastTransactionId>> /\ UNCHANGED lost
    BY <2>1 DEF G!gateVars, G!Apply
  <2>3. Written(op) = {<<op.client, op.tid>>}
    BY <1>3 DEF Written, Tag
  <2>4. CASE sqliteOpen
    <3>1. /\ uncommitted' \subseteq uncommitted \cup Written(op) /\ UNCHANGED committed
          /\ uncommitted \subseteq uncommitted'
        BY <2>1, <2>3, <2>4 DEF G!Apply
    <3> QED BY <1>3, <2>1, <2>2, <2>4, <3>1 DEF StatementRan
  <2>5. CASE ~sqliteOpen
    <3>1. /\ committed' \subseteq committed \cup Written(op) /\ UNCHANGED uncommitted
          /\ committed \subseteq committed'
        BY <2>1, <2>3, <2>5 DEF G!Apply
    <3> QED BY <1>3, <2>1, <2>2, <2>5, <3>1 DEF StatementRan
  <2> QED BY <2>4, <2>5
<1>4. CASE op.kind = "cancel" /\ G!ExecCancel(op)
  <2>1. UNCHANGED <<currentTransactionId, lastTransactionId, sqliteOpen,
                    uncommitted, committed, lost>>
    BY <1>4 DEF G!ExecCancel, G!gateVars, G!sqliteVars
  <2>2. sqliteOpen \/ ~sqliteOpen
    OBVIOUS
  <2> QED BY <1>4, <2>1, <2>2 DEF StatementRan
<1> QED
  BY <1>1, <1>2, <1>3, <1>4, PlainExec DEF ExecOther

\* What is known of the clients and their calls.
LEMMA HolderFacts ==
    ASSUME HolderInv
    PROVE  /\ currentTransactionId \in Nat /\ lastTransactionId \in Nat
           /\ currentTransactionId <= lastTransactionId
           /\ \A c \in Clients : IdOf(c) \in Nat /\ IdOf(c) <= lastTransactionId
           /\ \A c \in Clients : Holds(c) => IdOf(c) # G!NoId
           /\ \A c \in Clients : InTxn(pc[c]) => txnId[c] # G!NoId /\ IdOf(c) = txnId[c]
           /\ \A x \in Pending : x \in LegalOps /\ x.client \in Clients
           /\ \A x \in Pending :
                /\ Current(x) /\ reply[x.client] = G!NoReply
                /\ SentIn(x, pc[x.client], txnId[x.client])
                /\ x.kind \notin {"write", "batch"} => Awaited(x)
           /\ \A x \in Pending : IsEnd(x) => x.tid = currentTransactionId /\ x.tid # G!NoId
           /\ ~G!NoReply.ok
<1>1. /\ currentTransactionId \in Nat /\ lastTransactionId \in Nat
      /\ currentTransactionId <= lastTransactionId
      /\ reply \in [Clients -> [ok : BOOLEAN, id : Nat] \cup {G!NoReply}]
      /\ txnId \in [Clients -> Nat]
      /\ ~G!NoReply.ok
    BY DEF HolderInv, SuccessInv, Inv, Typed, Known, Answers, G!NoReply
<1>2. \A c \in Clients : IdOf(c) \in Nat /\ IdOf(c) <= lastTransactionId
  <2> SUFFICES ASSUME NEW c \in Clients PROVE IdOf(c) \in Nat /\ IdOf(c) <= lastTransactionId
      OBVIOUS
  <2>1. txnId[c] <= lastTransactionId /\ reply[c].id <= lastTransactionId /\ txnId[c] \in Nat
      BY <1>1 DEF HolderInv, SuccessInv, Known
  <2>2. G!NoId \in Nat /\ G!NoId <= lastTransactionId
      BY <1>1 DEF G!NoId
  <2>3. reply[c].ok => reply[c].id \in Nat
      BY <1>1
  <2> QED BY <2>1, <2>2, <2>3 DEF IdOf
<1>3. \A c \in Clients : InTxn(pc[c]) => txnId[c] # G!NoId /\ IdOf(c) = txnId[c]
    BY DEF HolderInv, SuccessInv, TxnIds, InTxn, IdOf
<1>4. \A c \in Clients : Holds(c) => IdOf(c) # G!NoId
  <2> SUFFICES ASSUME NEW c \in Clients, Begun(c) PROVE IdOf(c) # G!NoId
      BY <1>3 DEF Holds
  <2>1. reply[c] # G!NoReply /\ pc[c] = "beginning" /\ reply[c].ok
      BY <1>1 DEF Begun
  <2> QED BY <2>1 DEF HolderInv, SuccessInv, TxnIds, IdOf
<1>5. \A x \in Pending : x \in LegalOps /\ x.client \in Clients
    BY PendingLegal DEF HolderInv, SuccessInv, Inv, LegalOps
<1>6. ASSUME NEW x \in Pending
      PROVE  Current(x) /\ (x.kind \notin {"write", "batch"} => Awaited(x))
  <2>1. x.life \in Nat /\ x.life <= life[x.client] /\ life[x.client] = 0
      BY <1>5 DEF LegalOps, HolderInv, SuccessInv, InFlight, Alive, NobodyRestarted
  <2>2. x.life = life[x.client]
      BY <2>1
  <2> QED BY <2>2 DEF Awaited, Current
<1>7. \A x \in Pending : /\ reply[x.client] = G!NoReply
                         /\ SentIn(x, pc[x.client], txnId[x.client])
    BY <1>6 DEF HolderInv, SuccessInv, InFlight
<1>8. \A x \in Pending : IsEnd(x) => x.tid = currentTransactionId /\ x.tid # G!NoId
    BY DEF HolderInv, SuccessInv, TxnIds, OwnIds
<1> QED BY <1>1, <1>2, <1>3, <1>4, <1>5, <1>6, <1>7, <1>8

\* The ids change when a BEGIN succeeds, and hands out a new one.
LEMMA ExecIds ==
    ASSUME HolderInv, NEW op \in LegalOps, op \in Pending, Effect(op),
           UNCHANGED <<pc, txnId>>
    PROVE  /\ \A d \in Clients : reply'[d] # reply[d] => d = op.client /\ reply'[d] # G!NoReply
           /\ op.kind # "begin" => \A d \in Clients : IdOf(d)' = IdOf(d)
           /\ op.kind = "begin" =>
                \A d \in Clients : \/ IdOf(d)' = IdOf(d)
                                   \/ d = op.client /\ IdOf(d)' = lastTransactionId + 1
           /\ op.kind = "begin" /\ ~reply'[op.client].ok => IdOf(op.client)' = IdOf(op.client)
           /\ \A d \in Clients : d # op.client =>
                (Holds(d)' <=> Holds(d)) /\ (Ended(d)' <=> Ended(d)) /\ reply'[d] = reply[d]
           /\ op.kind \notin {"begin", "commit", "rollback"} =>
                \A d \in Clients : (Holds(d)' => Holds(d)) /\ (Ended(d)' <=> Ended(d))
           /\ op.kind = "begin" => \A d \in Clients : (Ended(d)' <=> Ended(d))
           /\ IsEnd(op) => /\ pc[op.client] \in {"committing", "rollingBack"}
                           /\ (pc[op.client] = "committing" <=> op.kind = "commit")
                           /\ Ended(op.client)' /\ ~Holds(op.client)'
                           /\ txnId[op.client] = op.tid /\ IdOf(op.client) = op.tid
           /\ op.kind = "begin" => pc[op.client] = "beginning" /\ IdOf(op.client) = G!NoId
<1>0. op.client \in Clients
    BY DEF LegalOps
<1>1. ASSUME NEW d \in Clients, reply'[d] # reply[d]
      PROVE  AnswerFor(op, d)
    BY <1>1, AnswerArrives DEF HolderInv
<1>2. ASSUME NEW d \in Clients, reply'[d] # reply[d]
      PROVE  d = op.client /\ reply'[d] # G!NoReply /\ Awaited(op)
  <2>1. reply'[d].id \in Nat /\ d = op.client /\ Awaited(op)
      BY <1>1, <1>2 DEF AnswerFor
  <2>2. G!NoReply.id \notin Nat
      BY DEF G!NoReply, G!Forced
  <2> QED BY <2>1, <2>2
<1>3. reply[op.client] = G!NoReply /\ SentIn(op, pc[op.client], txnId[op.client])
    BY HolderFacts
<1>4. Awaited(op) => reply'[op.client] # G!NoReply
  <2> SUFFICES ASSUME Awaited(op) PROVE reply'[op.client] # G!NoReply
      OBVIOUS
  <2>1. PICK ok \in BOOLEAN, id \in Nat :
          reply' = [reply EXCEPT ![op.client] = [ok |-> ok, id |-> id]]
      BY DEF Effect, Answered
  <2>2. reply'[op.client] = [ok |-> ok, id |-> id]
      BY <1>0, <2>1 DEF HolderInv, SuccessInv, Inv, Typed
  <2>3. reply'[op.client].id = id /\ G!NoReply.id \notin Nat
      BY <2>2 DEF G!NoReply, G!Forced
  <2> QED BY <2>3
<1>5. /\ \A d \in Clients : d # op.client => reply'[d] = reply[d]
      /\ ~Awaited(op) => \A d \in Clients : reply'[d] = reply[d]
    BY <1>2
<1>6. \A d \in Clients : d # op.client =>
        (Holds(d)' <=> Holds(d)) /\ (Ended(d)' <=> Ended(d)) /\ IdOf(d)' = IdOf(d)
    BY <1>5 DEF Holds, Begun, Ended, InTxn, IdOf
<1>7. CASE ~Awaited(op)
  <2>1. op.kind \in {"write", "batch"}
      BY <1>7, HolderFacts
  <2>2. \A d \in Clients : (Holds(d)' <=> Holds(d)) /\ (Ended(d)' <=> Ended(d)) /\ IdOf(d)' = IdOf(d)
      BY <1>5, <1>7 DEF Holds, Begun, Ended, InTxn, IdOf
  <2>3. op.kind # "begin" /\ ~IsEnd(op)
      BY <2>1 DEF IsEnd
  <2>4. \A d \in Clients : reply'[d] = reply[d]
      BY <1>5, <1>7
  <2> QED BY <2>1, <2>2, <2>3, <2>4
<1>8. CASE Awaited(op)
  <2> DEFINE c == op.client
  <2>1. /\ reply[c] = G!NoReply /\ reply'[c] # G!NoReply /\ SentIn(op, pc[c], txnId[c])
        /\ pc'[c] = pc[c] /\ txnId'[c] = txnId[c] /\ c \in Clients
      BY <1>0, <1>3, <1>4, <1>8
  <2>2. op.kind \in {"begin", "commit", "rollback", "write", "batch", "cancel"}
      BY DEF LegalOps, PlainKinds
  <2>3. CASE op.kind = "begin"
    <3>1. pc[c] = "beginning"
        BY <2>1, <2>3 DEF SentIn
    <3>2. ~G!NoReply.ok
        BY HolderFacts
    <3>3. IdOf(c) = G!NoId
        BY <2>1, <3>1, <3>2 DEF IdOf
    <3>4. \/ reply'[c].ok = TRUE /\ reply'[c].id = lastTransactionId + 1
          \/ reply'[c].ok = FALSE /\ reply'[c].id = G!NoId
        BY <1>1, <2>1, <2>3 DEF AnswerFor
    <3>5. IdOf(c)' = IdOf(c) \/ IdOf(c)' = lastTransactionId + 1
        BY <2>1, <3>1, <3>3, <3>4 DEF IdOf
    <3>6. ~reply'[c].ok => IdOf(c)' = IdOf(c)
        BY <2>1, <3>1, <3>3 DEF IdOf
    <3>7. Ended(c)' <=> Ended(c)
        BY <2>1, <3>1 DEF Ended
    <3> HIDE DEF c
    <3> QED BY <1>5, <1>6, <2>1, <2>3, <3>1, <3>3, <3>5, <3>6, <3>7 DEF c, IsEnd
  <2>4. CASE IsEnd(op)
    <3>1. /\ pc[c] \in {"committing", "rollingBack"} \/ op.tid = G!Forced
          /\ op.tid # G!Forced => txnId[c] = op.tid
          /\ op.tid # G!Forced => (pc[c] = "committing" <=> op.kind = "commit")
        BY <2>1, <2>4 DEF SentIn, IsEnd
    <3>2. op.tid # G!Forced
        BY <2>4, HolderFacts DEF G!Forced
    <3>3. Ended(c)' /\ ~Holds(c)'
        BY <2>1, <3>1, <3>2 DEF Ended, Holds, Begun
    <3>4. IdOf(c)' = IdOf(c) /\ IdOf(c) = op.tid
        BY <2>1, <3>1, <3>2 DEF IdOf
    <3>5. op.kind \in {"commit", "rollback"}
        BY <2>4 DEF IsEnd
    <3> HIDE DEF c
    <3> QED BY <1>5, <1>6, <2>1, <3>1, <3>2, <3>3, <3>4, <3>5 DEF c
  <2>5. CASE op.kind \in {"write", "batch", "cancel"}
    <3>0. pc[c] = "active" => txnId[c] # G!NoId
        BY <2>1, HolderFacts DEF InTxn
    <3>1. pc[c] \in {"waiting", "awaiting"}
        BY <1>8, <2>1, <2>5, <3>0 DEF SentIn, Awaited
    <3>2. IdOf(c)' = IdOf(c) /\ (Ended(c)' <=> Ended(c)) /\ (Holds(c)' => Holds(c))
        BY <2>1, <3>1 DEF IdOf, Ended, Holds, Begun, InTxn
    <3> HIDE DEF c
    <3> QED BY <1>5, <1>6, <2>1, <2>5, <3>2 DEF c, IsEnd
  <2> QED BY <2>2, <2>3, <2>4, <2>5 DEF IsEnd
<1> QED BY <1>7, <1>8

\* COMMIT or ROLLBACK is the last call of the transaction the gate is held for.
LEMMA EndLeavesNothing ==
    ASSUME HolderInv, NEW op \in LegalOps, op \in Pending, Effect(op),
           UNCHANGED <<pc, txnId>>, Pending' \subseteq Pending, IsEnd(op),
           \A x \in Pending' : x.client = op.client => x.tid # op.tid
    PROVE  /\ op.tid = currentTransactionId /\ currentTransactionId # G!NoId
           /\ \A d \in Clients : ~Holds(d)'
           /\ \A x \in Pending' : x.tid = G!NoId
<1> DEFINE c == op.client
<1>0. c \in Clients
    BY DEF LegalOps
<1>1. op.tid = currentTransactionId /\ op.tid # G!NoId
    BY HolderFacts
<1>2. IdOf(c) = op.tid /\ ~Holds(c)'
    BY ExecIds
<1>3. \A d \in Clients : IdOf(d) = IdOf(c) => d = c
    BY <1>0, <1>1, <1>2 DEF HolderInv, OwnIds
<1>4. ASSUME NEW d \in Clients, Holds(d)' PROVE FALSE
  <2>1. d # c
      BY <1>2, <1>4
  <2>2. Holds(d)
      BY <1>4, <2>1, ExecIds
  <2>3. IdOf(d) = currentTransactionId
      BY <2>2 DEF HolderInv, OwnIds
  <2> QED BY <1>1, <1>2, <1>3, <2>1, <2>3
<1>5. ASSUME NEW x \in Pending', x.tid # G!NoId PROVE FALSE
  <2>1. x.tid = op.tid /\ txnId[x.client] = op.tid /\ x.client \in Clients
      BY <1>1, <1>5, HolderFacts DEF HolderInv, OwnIds
  <2>2. IdOf(x.client) = op.tid
    <3>1. InTxn(pc[x.client])
        BY <1>1, <2>1 DEF HolderInv, SuccessInv, TxnIds, InTxn
    <3> QED BY <2>1, <3>1, HolderFacts
  <2>3. x.client = c
      BY <1>2, <1>3, <2>1, <2>2
  <2> QED BY <1>5, <2>1, <2>3
<1> QED BY <1>1, <1>4, <1>5

\* Whatever a statement does to the gate, the ids are the same clients' as before.
LEMMA ExecKeepsHolder ==
    ASSUME HolderInv, SuccessInv', NEW op \in LegalOps, op \in Pending, Effect(op), Turns(op),
           UNCHANGED <<pc, txnId, life>>, Pending' \subseteq Pending,
           IsEnd(op) => \A x \in Pending' : x.client = op.client => x.tid # op.tid
    PROVE  HolderInv'
<1> DEFINE c == op.client
<1>0. /\ currentTransactionId \in Nat /\ lastTransactionId \in Nat
      /\ currentTransactionId <= lastTransactionId /\ lastTransactionId + 1 # G!NoId
      /\ c \in Clients /\ op.tid \in Int
      /\ \A d \in Clients : IdOf(d) \in Nat /\ IdOf(d) <= lastTransactionId
      /\ \A d \in Clients : IdOf(d) # lastTransactionId + 1
    BY HolderFacts DEF LegalOps, G!Forced, G!NoId
<1>1. Alive'
    BY DEF HolderInv, Alive, NobodyRestarted
<1>3. \A x \in Pending' : /\ x \in Pending /\ x.client \in Clients
                          /\ x.tid # G!NoId => x.tid = currentTransactionId /\ txnId[x.client] = x.tid
    BY HolderFacts DEF HolderInv, OwnIds
<1>4. \A d \in Clients : Holds(d) => IdOf(d) = currentTransactionId /\ IdOf(d) # G!NoId
    BY HolderFacts DEF HolderInv, OwnIds
<1>5. \A d, e \in Clients : IdOf(d)' # G!NoId /\ IdOf(d)' = IdOf(e)' => d = e
  <2>1. \A d, e \in Clients : IdOf(d) # G!NoId /\ IdOf(d) = IdOf(e) => d = e
      BY DEF HolderInv, OwnIds
  <2>2. \A d \in Clients : \/ IdOf(d)' = IdOf(d)
                           \/ d = c /\ IdOf(d)' = lastTransactionId + 1
      BY ExecIds
  <2> HIDE DEF c
  <2> QED BY <1>0, <2>1, <2>2
<1>6. CASE /\ op.kind = "begin" /\ currentTransactionId = G!NoId
           /\ currentTransactionId' = lastTransactionId + 1
  <2>1. \A x \in Pending' : x.tid = G!NoId
      BY <1>3, <1>6
  <2>2. \A d \in Clients : Holds(d)' => IdOf(d)' = lastTransactionId + 1
    <3> SUFFICES ASSUME NEW d \in Clients, Holds(d)' PROVE IdOf(d)' = lastTransactionId + 1
        OBVIOUS
    <3>1. d = c
        BY <1>4, <1>6, ExecIds
    <3>2. pc[c] = "beginning" /\ pc'[c] = pc[c]
        BY <1>6, ExecIds
    <3>3. reply'[c].ok
        BY <3>1, <3>2 DEF Holds, Begun, InTxn
    <3>4. reply'[c] # reply[c]
        BY <3>2, <3>3, <1>4, <1>6, <1>0 DEF Holds, Begun
    <3>5. reply'[c].id = lastTransactionId + 1
        BY <1>0, <1>6, <3>3, <3>4, AnswerArrives DEF AnswerFor, HolderInv
    <3> QED BY <3>1, <3>2, <3>3, <3>5 DEF IdOf
  <2> QED BY <1>1, <1>5, <1>6, <2>1, <2>2 DEF HolderInv, OwnIds
<1>7. CASE /\ op.kind = "begin" /\ currentTransactionId = G!NoId
           /\ currentTransactionId' = G!NoId
           /\ Awaited(op) => ~reply'[c].ok
  <2>1. \A d \in Clients : ~Holds(d)'
    <3> SUFFICES ASSUME NEW d \in Clients, Holds(d)' PROVE FALSE
        OBVIOUS
    <3>1. d = c
        BY <1>4, <1>7, ExecIds
    <3>2. pc[c] = "beginning" /\ pc'[c] = pc[c]
        BY <1>7, ExecIds
    <3>3. reply'[c].ok
        BY <3>1, <3>2 DEF Holds, Begun, InTxn
    <3>4. Awaited(op)
        BY <1>7, HolderFacts
    <3> QED BY <1>7, <3>3, <3>4
  <2> QED BY <1>1, <1>3, <1>5, <1>7, <2>1 DEF HolderInv, OwnIds
<1>8. CASE IsEnd(op)
  <2>1. /\ \A d \in Clients : ~Holds(d)'
        /\ \A x \in Pending' : x.tid = G!NoId
      BY <1>8, EndLeavesNothing
  <2> QED BY <1>1, <1>5, <2>1 DEF HolderInv, OwnIds
<1>9. CASE op.kind \in {"write", "batch", "cancel"} /\ UNCHANGED currentTransactionId
  <2>1. \A d \in Clients : (Holds(d)' => Holds(d)) /\ IdOf(d)' = IdOf(d)
      BY <1>9, ExecIds
  <2> HIDE DEF c
  <2> QED BY <1>1, <1>3, <1>4, <1>5, <1>9, <2>1 DEF HolderInv, OwnIds
<1> QED BY <1>6, <1>7, <1>8, <1>9 DEF Turns

\* A statement is over, and it was the last of its transaction if it was to
\* end it: the writes went where the transaction did.
LEMMA ExecKeepsVerdicts ==
    ASSUME VerdictInv, HolderInv', NEW op \in LegalOps, op \in Pending, Effect(op),
           UNCHANGED <<pc, txnId, life, succeeded, failed>>,
           Pending' \subseteq Pending,
           IsEnd(op) => \A x \in Pending' : x.client = op.client => x.tid # op.tid,
           Ends(op)
    PROVE  VerdictInv'
<1> HolderInv
    BY DEF VerdictInv
<1> DEFINE c == op.client
<1>0. /\ currentTransactionId \in Nat /\ lastTransactionId \in Nat
      /\ currentTransactionId <= lastTransactionId /\ lastTransactionId + 1 # G!NoId
      /\ c \in Clients /\ op.tid \in Int
      /\ \A d \in Clients : IdOf(d) \in Nat /\ IdOf(d) <= lastTransactionId
      /\ \A d \in Clients : IdOf(d) # lastTransactionId + 1
    BY HolderFacts DEF LegalOps, G!Forced, G!NoId
<1>3. \A x \in Pending' : /\ x \in Pending /\ x.client \in Clients
                          /\ x.tid # G!NoId => x.tid = currentTransactionId /\ txnId[x.client] = x.tid
    BY HolderFacts DEF HolderInv, OwnIds
<1>4. \A d \in Clients : Holds(d) => IdOf(d) = currentTransactionId /\ IdOf(d) # G!NoId
    BY HolderFacts DEF HolderInv, OwnIds
<1>6. /\ \A t \in uncommitted : t[2] # G!NoId => t[2] = currentTransactionId
      /\ \A t \in uncommitted : t[2] # G!NoId => \A d \in Clients : IdOf(d) = t[2] => d = t[1]
      /\ \A t \in committed : t[2] # G!NoId => t[2] # currentTransactionId
    BY DEF VerdictInv, OfTransactions
<1>7. \A d \in Clients : \A id \in Nat \ {G!NoId} : Failed(d, id) =>
         /\ \A x \in Pending : x.client = d => x.tid # id
         /\ <<d, id>> \notin committed
    BY DEF VerdictInv, FailedIsOver
<1>8. \A t \in failed' : t[2] # G!NoId
    BY DEF VerdictInv, FailedIsOver
\* A client learns of the failure of a transaction from the end of it only.
<1>9. ASSUME NEW d \in Clients, NEW id, Failed(d, id)', ~Failed(d, id)
      PROVE  /\ IsEnd(op) /\ d = c /\ id = op.tid
             /\ op.kind = "commit" => ~reply'[c].ok
  <2>1. Ended(d)' /\ txnId[d] = id /\ ~(pc[d] = "committing" /\ reply'[d].ok) /\ reply'[d] # reply[d]
      BY <1>9 DEF Failed, Ended
  <2>2. d = c
      BY <2>1, ExecIds
  <2>3. ~Ended(d)
    <3>1. reply[d] = G!NoReply
        BY <2>2, HolderFacts
    <3> QED BY <3>1 DEF Ended
  <2>4. op.kind \notin {"write", "batch", "cancel"} /\ op.kind # "begin"
    <3>1. op.kind \notin {"begin", "commit", "rollback"} => (Ended(d)' <=> Ended(d))
        BY ExecIds
    <3>2. op.kind = "begin" => (Ended(d)' <=> Ended(d))
        BY ExecIds
    <3> QED BY <2>1, <2>3, <3>1, <3>2
  <2>5. IsEnd(op)
      BY <2>4 DEF IsEnd, LegalOps, PlainKinds
  <2>6. txnId[c] = op.tid /\ (pc[c] = "committing" <=> op.kind = "commit")
      BY <2>5, ExecIds
  <2> QED BY <2>1, <2>2, <2>5, <2>6
<1>10. CASE BeginSucceeded(op)
  <2>1. /\ op.kind = "begin" /\ currentTransactionId = G!NoId
        /\ currentTransactionId' = lastTransactionId + 1
        /\ sqliteOpen'
        /\ UNCHANGED <<uncommitted, committed>>
      BY <1>10 DEF BeginSucceeded
  <2>2. \A x \in Pending' : x.tid = G!NoId
      BY <1>3, <2>1
  <2>4. OpenWhileHeld'
      BY <2>1 DEF OpenWhileHeld
  <2>6. OfTransactions'
    <3>1. \A t \in uncommitted : t[2] = G!NoId
        BY <1>6, <2>1
    <3>2. \A t \in committed : t[2] # lastTransactionId + 1
      <4>1. \A t \in committed : t[2] <= lastTransactionId
          BY DEF HolderInv, SuccessInv, Known
      <4>2. ~(lastTransactionId + 1 <= lastTransactionId)
          BY <1>0
      <4> QED BY <4>1, <4>2
    <3> QED BY <1>6, <2>1, <3>1, <3>2 DEF OfTransactions
  <2>7. FailedIsOver'
    <3>1. ASSUME NEW d \in Clients, NEW id \in Nat \ {G!NoId}, Failed(d, id)'
          PROVE  /\ \A x \in Pending' : x.client = d => x.tid # id
                 /\ <<d, id>> \notin committed'
      <4>1. Failed(d, id)
          BY <1>9, <2>1, <3>1 DEF IsEnd
      <4> QED BY <1>7, <2>1, <2>2, <4>1
    <3> QED BY <1>8, <3>1 DEF FailedIsOver
  <2> QED BY <2>4, <2>6, <2>7 DEF VerdictInv
<1>11. CASE BeginFailed(op)
  <2>1. /\ op.kind = "begin" /\ currentTransactionId = G!NoId
        /\ currentTransactionId' = G!NoId
        /\ UNCHANGED <<uncommitted, committed>>
      BY <1>11 DEF BeginFailed
  <2>3. OpenWhileHeld'
      BY <2>1 DEF OpenWhileHeld
  <2>5. OfTransactions'
    <3>1. \A t \in uncommitted : t[2] = G!NoId
        BY <1>6, <2>1
    <3> QED BY <1>6, <2>1, <3>1 DEF OfTransactions
  <2>6. FailedIsOver'
    <3>1. \A d \in Clients : \A id \in Nat \ {G!NoId} : Failed(d, id)' => Failed(d, id)
        BY <1>9, <2>1 DEF IsEnd
    <3> QED BY <1>7, <1>8, <2>1, <3>1 DEF FailedIsOver
  <2> QED BY <2>3, <2>5, <2>6 DEF VerdictInv
<1>12. ASSUME IsEnd(op)
       PROVE  /\ op.tid = currentTransactionId /\ currentTransactionId # G!NoId
              /\ \A x \in Pending' : x.tid = G!NoId
    BY <1>12, EndLeavesNothing
<1>13. CASE EndSucceeded(op)
  <2>1. /\ IsEnd(op)
        /\ currentTransactionId' = G!NoId
        /\ uncommitted' = {}
        /\ \/ op.kind = "commit" /\ committed' = committed \cup uncommitted
           \/ op.kind = "rollback" /\ committed' = committed
        /\ Awaited(op) => reply'[c].ok
      BY <1>13 DEF EndSucceeded
  <2>2. OpenWhileHeld'
      BY <2>1 DEF OpenWhileHeld
  <2>4. OfTransactions'
      BY <1>6, <2>1 DEF OfTransactions
  <2>5. FailedIsOver'
    <3>1. ASSUME NEW d \in Clients, NEW id \in Nat \ {G!NoId}, Failed(d, id)'
          PROVE  /\ \A x \in Pending' : x.client = d => x.tid # id
                 /\ <<d, id>> \notin committed'
      <4>1. <<d, id>> \notin committed'
        <5>1. CASE Failed(d, id)
          <6>1. d = c => op.tid # id
              BY <1>7, <5>1
          <6>2. IdOf(c) = op.tid /\ op.tid = currentTransactionId
              BY <1>12, <2>1, ExecIds
          <6>3. <<d, id>> \notin uncommitted
            <7> SUFFICES ASSUME <<d, id>> \in uncommitted PROVE FALSE
                OBVIOUS
            <7>1. id = currentTransactionId /\ \A e \in Clients : IdOf(e) = id => e = d
                BY <1>6
            <7> QED BY <1>0, <6>1, <6>2, <7>1
          <6> QED BY <1>7, <2>1, <5>1, <6>3
        <5>2. CASE ~Failed(d, id)
          <6>1. op.kind # "commit"
            <7>1. op.kind = "commit" => Awaited(op) /\ ~reply'[c].ok
                BY <1>9, <3>1, <5>2, HolderFacts
            <7>2. reply'[c].ok = TRUE \/ ~Awaited(op)
                BY <2>1
            <7> HIDE DEF c
            <7> QED BY <7>1, <7>2
          <6>2. id = currentTransactionId /\ committed' = committed
              BY <1>9, <1>12, <2>1, <3>1, <5>2, <6>1
          <6> QED BY <1>6, <6>2
        <5> QED BY <5>1, <5>2
      <4> QED BY <1>12, <2>1, <4>1
    <3> QED BY <1>8, <3>1 DEF FailedIsOver
  <2> QED BY <2>2, <2>4, <2>5 DEF VerdictInv
<1>14. CASE EndFailed(op)
  <2>1. /\ IsEnd(op) /\ sqliteOpen' = sqliteOpen
        /\ UNCHANGED <<currentTransactionId, uncommitted, committed>>
      BY <1>14 DEF EndFailed
  <2>2. OpenWhileHeld'
      BY <2>1 DEF VerdictInv, OpenWhileHeld
  <2>4. OfTransactions'
    <3>1. \A d \in Clients : IdOf(d)' = IdOf(d)
        BY <2>1, ExecIds DEF IsEnd
    <3> QED BY <1>6, <2>1, <3>1 DEF OfTransactions
  <2>5. FailedIsOver'
    <3>1. ASSUME NEW d \in Clients, NEW id \in Nat \ {G!NoId}, Failed(d, id)'
          PROVE  <<d, id>> \notin committed
      <4>1. CASE Failed(d, id)
          BY <1>7, <4>1
      <4>2. CASE ~Failed(d, id)
          BY <1>6, <1>9, <1>12, <2>1, <3>1, <4>2
      <4> QED BY <4>1, <4>2
    <3> QED BY <1>8, <1>12, <2>1, <3>1 DEF FailedIsOver
  <2> QED BY <2>2, <2>4, <2>5 DEF VerdictInv
<1>15. CASE StatementRan(op)
  <2>1. /\ op.kind \in {"write", "batch", "cancel"}
        /\ UNCHANGED <<currentTransactionId, sqliteOpen>>
        /\ \/ /\ sqliteOpen
              /\ uncommitted' \subseteq uncommitted \cup Written(op) /\ committed' = committed
           \/ /\ ~sqliteOpen
              /\ committed' \subseteq committed \cup Written(op) /\ uncommitted' = uncommitted
      BY <1>15 DEF StatementRan
  <2>2. \A d \in Clients : (Holds(d)' => Holds(d)) /\ IdOf(d)' = IdOf(d)
      BY <2>1, ExecIds
  <2>3. \A d \in Clients : \A id \in Nat \ {G!NoId} : Failed(d, id)' => Failed(d, id)
      BY <1>9, <2>1 DEF IsEnd
  <2>4. /\ op.tid # G!NoId => op.tid = currentTransactionId /\ sqliteOpen
        /\ \A t \in Written(op) : t[2] = op.tid /\ t = <<c, op.tid>>
      BY DEF VerdictInv, HolderInv, OwnIds, OpenWhileHeld, Written, Tag
  <2> HIDE DEF c
  <2>5. OpenWhileHeld'
      BY <2>1 DEF VerdictInv, OpenWhileHeld
  <2>7. OfTransactions'
    <3>1. op.tid # G!NoId => \A d \in Clients : IdOf(d) = op.tid => d = op.client
      <4> SUFFICES ASSUME op.tid # G!NoId PROVE \A d \in Clients : IdOf(d) = op.tid => d = op.client
          OBVIOUS
      <4>1. txnId[op.client] = op.tid
          BY DEF HolderInv, OwnIds
      <4>2. InTxn(pc[op.client])
          BY <1>0, <4>1 DEF HolderInv, SuccessInv, TxnIds, InTxn, c
      <4>3. IdOf(op.client) = op.tid
          BY <1>0, <4>1, <4>2, HolderFacts DEF c
      <4> QED BY <1>0, <4>3 DEF HolderInv, OwnIds, c
    <3>2. \A t \in uncommitted' : t[2] # G!NoId =>
            t[2] = currentTransactionId /\ \A d \in Clients : IdOf(d) = t[2] => d = t[1]
      <4>1. ASSUME NEW t \in uncommitted', t[2] # G!NoId
            PROVE  t[2] = currentTransactionId /\ \A d \in Clients : IdOf(d) = t[2] => d = t[1]
        <5>1. CASE t \in uncommitted
            BY <1>6, <4>1, <5>1
        <5>2. CASE t \in Written(op)
          <6>1. t[1] = op.client /\ t[2] = op.tid
              BY <5>2 DEF Written, Tag
          <6> QED BY <2>4, <3>1, <4>1, <6>1
        <5> QED BY <2>1, <4>1, <5>1, <5>2
      <4> QED BY <4>1
    <3>3. \A t \in committed' : t[2] # G!NoId => t[2] # currentTransactionId
        BY <1>6, <2>1, <2>4
    <3> QED BY <2>1, <2>2, <3>2, <3>3 DEF OfTransactions
  <2>8. FailedIsOver'
    <3>1. ASSUME NEW d \in Clients, NEW id \in Nat \ {G!NoId}, Failed(d, id)'
          PROVE  /\ \A x \in Pending' : x.client = d => x.tid # id
                 /\ <<d, id>> \notin committed'
      <4>1. Failed(d, id)
          BY <2>3, <3>1
      <4>2. <<d, id>> \notin Written(op)
        <5>1. op.client = d => op.tid # id
            BY <1>7, <4>1
        <5> QED BY <2>4, <5>1 DEF c
      <4> QED BY <1>7, <2>1, <4>1, <4>2
    <3> QED BY <1>8, <3>1 DEF FailedIsOver
  <2> QED BY <2>5, <2>7, <2>8 DEF VerdictInv
<1> QED BY <1>10, <1>11, <1>13, <1>14, <1>15 DEF Ends

\* A client sends a call of its transaction, or one without a transaction.
LEMMA SendIds ==
    ASSUME HolderInv, NEW c \in Clients, NEW state \in States,
           NEW tid \in Nat, NEW kind \in PlainKinds, Sends(c, kind, tid, state)
    PROVE  /\ \A d \in Clients : (IdOf(d)' = IdOf(d)) /\ (Holds(d)' <=> Holds(d))
                                /\ (Ended(d)' <=> Ended(d))
           /\ \A d \in Clients : Ended(d) => pc'[d] = pc[d]
           /\ ~Ended(c) /\ (pc[c] = "active" => Holds(c) /\ IdOf(c) = txnId[c])
           /\ \A d \in Clients : pc'[d] = pc[d] \/ (d = c /\ pc'[d] = state)
           /\ pc[c] # "restarted" => state \notin {"restarted", "reopening"}
<1>1. /\ UNCHANGED <<txnId, reply>> /\ pc' = [pc EXCEPT ![c] = state]
      /\ pc[c] \in {"idle", "active", "restarted"} /\ (InTxn(state) <=> pc[c] = "active")
    BY DEF Sends
<1>2. /\ pc'[c] = state /\ \A d \in Clients : d # c => pc'[d] = pc[d]
      /\ reply[c] = G!NoReply /\ ~reply[c].ok
      /\ pc[c] # "active" => txnId[c] = G!NoId
  <2>1. reply[c] = G!NoReply
      BY <1>1 DEF HolderInv, SuccessInv, InFlight, Awaiting
  <2>2. pc'[c] = state /\ \A d \in Clients : d # c => pc'[d] = pc[d]
      BY <1>1 DEF HolderInv, SuccessInv, Recorded
  <2>3. pc[c] # "active" => txnId[c] = G!NoId
      BY <1>1 DEF HolderInv, SuccessInv, TxnIds, InTxn
  <2> QED BY <2>1, <2>2, <2>3 DEF G!NoReply
<1>3. \A d \in Clients : d # c =>
        (IdOf(d)' = IdOf(d)) /\ (Holds(d)' <=> Holds(d)) /\ (Ended(d)' <=> Ended(d))
    BY <1>1, <1>2 DEF IdOf, Holds, Begun, Ended, InTxn
<1>4. ~Ended(c) /\ ~Ended(c)' /\ ~Begun(c) /\ ~Begun(c)'
    BY <1>1, <1>2 DEF Ended, Begun
<1>5. Holds(c)' <=> Holds(c)
    BY <1>1, <1>2, <1>4 DEF Holds, InTxn
<1>6. IdOf(c)' = IdOf(c)
    BY <1>1, <1>2 DEF IdOf, InTxn
<1>7. pc[c] = "active" => Holds(c) /\ IdOf(c) = txnId[c]
    BY <1>4 DEF Holds, InTxn, IdOf
<1>8. pc[c] # "restarted" => state \notin {"restarted", "reopening"}
    BY DEF Sends, SentIn, NewOp, G!Forced
<1>9. /\ \A d \in Clients : Ended(d) => pc'[d] = pc[d]
      /\ \A d \in Clients : pc'[d] = pc[d] \/ (d = c /\ pc'[d] = state)
    BY <1>2, <1>4
<1> QED BY <1>3, <1>4, <1>5, <1>6, <1>7, <1>8, <1>9

LEMMA SendKeepsVerdicts ==
    ASSUME HolderInv, SuccessInv', NEW c \in Clients, NEW state \in States,
           NEW tid \in Nat, NEW kind \in PlainKinds, Sends(c, kind, tid, state), pc[c] # "restarted"
    PROVE  HolderInv' /\ (VerdictInv => VerdictInv')
<1> PICK op : op = NewOp(c, kind, tid)
    OBVIOUS
<1>1. /\ op \in LegalOps /\ op.client = c /\ op.tid = tid
      /\ tid = G!NoId \/ (tid = txnId[c] /\ pc[c] = "active")
    BY DEF LegalOps, NewOp, HolderInv, SuccessInv, Inv, Typed, Sends, PlainKinds, G!Forced
<1>2. tasks' = Append(tasks, op) /\ Queue' = Queue
    BY DEF Sends, G!Send, NewOp, DatabaseKept, Queue
<1>3. /\ UNCHANGED <<txnId, life, reply, succeeded, failed>>
      /\ UNCHANGED <<currentTransactionId, lastTransactionId, sqliteOpen,
                     uncommitted, committed, lost>>
    BY DEF Sends, DatabaseKept
<1>4. Pending' = Pending \cup {op}
    BY <1>1, <1>2, <1>3, Sent DEF HolderInv, SuccessInv, Inv, Sends
<1>5. Alive'
    BY <1>3, SendIds DEF HolderInv, Alive, NobodyRestarted
<1>6. VerdictInv => OpenWhileHeld' /\ OfTransactions'
    BY <1>3, SendIds DEF VerdictInv, OpenWhileHeld, OfTransactions
<1>7. OwnIds'
  <2>1. tid # G!NoId => tid = currentTransactionId /\ txnId[c] = tid
      BY <1>1, SendIds DEF HolderInv, OwnIds
  <2>2. \A x \in Pending' : x.tid # G!NoId => x.tid = currentTransactionId /\ txnId[x.client] = x.tid
      BY <1>1, <1>4, <2>1 DEF HolderInv, OwnIds
  <2>4. /\ \A d, e \in Clients : IdOf(d)' # G!NoId /\ IdOf(d)' = IdOf(e)' => d = e
        /\ \A d \in Clients : Holds(d)' => IdOf(d)' = currentTransactionId
    <3>1. \A d \in Clients : (IdOf(d)' = IdOf(d)) /\ (Holds(d)' <=> Holds(d))
        BY SendIds
    <3> QED BY <3>1 DEF HolderInv, OwnIds
  <2> QED BY <1>3, <2>2, <2>4 DEF OwnIds
<1>8. ASSUME VerdictInv PROVE FailedIsOver'
  <2>1. ASSUME NEW d \in Clients, NEW id \in Nat \ {G!NoId}, Failed(d, id)'
        PROVE  Failed(d, id)
      BY <1>3, <2>1, SendIds DEF Failed
  <2>2. ASSUME NEW id \in Nat \ {G!NoId}, Failed(c, id) PROVE tid # id
    <3>1. <<c, id>> \in failed
        BY <2>2, SendIds DEF Failed
    <3> QED BY <1>1, <3>1 DEF HolderInv, SuccessInv, Running, InTxn
  <2>3. ASSUME NEW d \in Clients, NEW id \in Nat \ {G!NoId}, Failed(d, id)'
        PROVE  /\ \A x \in Pending' : x.client = d => x.tid # id
               /\ <<d, id>> \notin committed'
    <3>1. Failed(d, id) /\ (d = c => tid # id)
        BY <2>1, <2>2, <2>3
    <3> QED BY <1>1, <1>3, <1>4, <1>8, <3>1 DEF VerdictInv, FailedIsOver
  <2>4. \A t \in failed' : t[2] # G!NoId
      BY <1>3, <1>8 DEF VerdictInv, FailedIsOver
  <2> QED BY <2>3, <2>4 DEF FailedIsOver
<1>9. HolderInv'
    BY <1>5, <1>7 DEF HolderInv
<1> QED BY <1>6, <1>8, <1>9 DEF VerdictInv

\* A client takes an answer.  It keeps its id, or the transaction is over.
LEMMA ReplyIds ==
    ASSUME HolderInv, NEW c \in Clients, OnReply(c)
    PROVE  /\ \A d \in Clients : d # c => /\ IdOf(d)' = IdOf(d) /\ (Holds(d)' <=> Holds(d))
                                          /\ Ended(d)' <=> Ended(d)
                                          /\ pc'[d] = pc[d] /\ txnId'[d] = txnId[d]
           /\ ~Ended(c)'
           /\ \/ /\ ~Ended(c) /\ UNCHANGED failed
                 /\ IdOf(c)' = IdOf(c) /\ (Holds(c)' <=> Holds(c))
                 /\ pc[c] # "beginning" => txnId'[c] = txnId[c]
              \/ /\ Ended(c) /\ txnId'[c] = G!NoId /\ IdOf(c)' = G!NoId /\ ~Holds(c)'
                 /\ IdOf(c) = txnId[c] /\ txnId[c] # G!NoId
                 /\ \/ Done(c, txnId[c]) /\ UNCHANGED failed
                    \/ Failed(c, txnId[c]) /\ failed' = failed \cup {<<c, txnId[c]>>}
           /\ pc'[c] \in {"idle", "active"}
<1> DEFINE tag == <<c, txnId[c]>>
<1>1. /\ reply[c] # G!NoReply
      /\ reply' = [reply EXCEPT ![c] = G!NoReply]
    BY DEF OnReply, G!OnReply
<1>2. \/ /\ pc[c] \in {"waiting", "reopening"} /\ pc' = [pc EXCEPT ![c] = "idle"]
         /\ UNCHANGED <<txnId, failed>>
      \/ /\ pc[c] = "beginning" /\ pc' = [pc EXCEPT ![c] = IF reply[c].ok THEN "active" ELSE "idle"]
         /\ txnId' = [txnId EXCEPT ![c] = reply[c].id]
         /\ UNCHANGED failed
      \/ /\ pc[c] = "awaiting" /\ pc' = [pc EXCEPT ![c] = "active"]
         /\ UNCHANGED <<txnId, failed>>
      \/ /\ pc[c] \in {"committing", "rollingBack"} /\ pc' = [pc EXCEPT ![c] = "idle"]
         /\ txnId' = [txnId EXCEPT ![c] = G!NoId]
         /\ \/ pc[c] = "committing" /\ reply[c].ok /\ failed' = failed
            \/ ~(pc[c] = "committing" /\ reply[c].ok) /\ failed' = failed \cup {tag}
    BY DEF OnReply, G!OnReply, G!GoTo, G!history
<1>3. /\ reply'[c] = G!NoReply /\ ~reply'[c].ok
      /\ \A d \in Clients : d # c => reply'[d] = reply[d]
  <2>1. G!NoReply.ok = FALSE
      BY DEF G!NoReply
  <2>2. reply'[c] = G!NoReply /\ \A d \in Clients : d # c => reply'[d] = reply[d]
      BY <1>1 DEF HolderInv, SuccessInv, Inv, Typed
  <2> QED BY <2>1, <2>2
<1>4. pc \in [Clients -> States] /\ txnId \in [Clients -> Nat]
    BY DEF HolderInv, SuccessInv, Recorded, Inv, Typed
<1>5. \A d \in Clients : d # c => pc'[d] = pc[d] /\ txnId'[d] = txnId[d]
    BY <1>2, <1>4
<1>6. \A d \in Clients : d # c =>
        (IdOf(d)' = IdOf(d)) /\ (Holds(d)' <=> Holds(d)) /\ (Ended(d)' <=> Ended(d))
    BY <1>3, <1>5 DEF IdOf, Holds, Begun, Ended, InTxn
<1>7. ~Ended(c)' /\ ~Begun(c)'
    BY <1>3 DEF Ended, Begun
<1>8. CASE pc[c] \in {"waiting", "reopening"} \/ pc[c] = "awaiting"
  <2>1. /\ pc'[c] = IF pc[c] = "awaiting" THEN "active" ELSE "idle"
        /\ UNCHANGED <<txnId, failed>>
      BY <1>2, <1>4, <1>8
  <2>2. ~Ended(c) /\ IdOf(c)' = IdOf(c)
      BY <1>8, <2>1 DEF Ended, IdOf
  <2>3. Holds(c)' <=> Holds(c)
      BY <1>7, <1>8, <2>1, <2>2 DEF Holds, InTxn, Begun
  <2> QED BY <1>5, <1>6, <1>7, <2>1, <2>2, <2>3
<1>9. CASE pc[c] = "beginning"
  <2>1. /\ pc'[c] = IF reply[c].ok THEN "active" ELSE "idle"
        /\ txnId'[c] = reply[c].id /\ UNCHANGED failed
        /\ reply[c].ok <=> reply[c].id # G!NoId
      BY <1>1, <1>2, <1>4, <1>9 DEF HolderInv, SuccessInv, TxnIds
  <2>2. ~Ended(c)
      BY <1>9 DEF Ended
  <2>3. IdOf(c)' = IdOf(c)
      BY <1>9, <2>1 DEF IdOf
  <2>4. Holds(c)' <=> Holds(c)
      BY <1>7, <1>9, <2>1, <2>2 DEF Holds, InTxn, Begun
  <2>5. pc'[c] \in {"idle", "active"}
      BY <2>1
  <2> QED BY <1>5, <1>6, <1>7, <1>9, <2>1, <2>2, <2>3, <2>4, <2>5
<1>10. CASE pc[c] \in {"committing", "rollingBack"}
  <2>1. /\ pc'[c] = "idle" /\ txnId'[c] = G!NoId
        /\ \/ pc[c] = "committing" /\ reply[c].ok /\ failed' = failed
           \/ ~(pc[c] = "committing" /\ reply[c].ok) /\ failed' = failed \cup {tag}
      BY <1>2, <1>4, <1>10
  <2>2. Ended(c) /\ IdOf(c)' = G!NoId /\ ~Holds(c)'
      BY <1>1, <1>7, <1>10, <2>1 DEF Ended, IdOf, Holds, InTxn
  <2>3. IdOf(c) = txnId[c] /\ txnId[c] # G!NoId
      BY <1>10, HolderFacts DEF InTxn
  <2>4. \/ Done(c, txnId[c]) /\ UNCHANGED failed
        \/ Failed(c, txnId[c]) /\ failed' = failed \cup {<<c, txnId[c]>>}
      BY <2>1, <2>2 DEF Done, Failed
  <2> QED BY <1>5, <1>6, <1>7, <2>1, <2>2, <2>3, <2>4
<1> QED BY <1>2, <1>8, <1>9, <1>10

LEMMA OnReplyKeepsVerdicts ==
    ASSUME HolderInv, SuccessInv', NEW c \in Clients, OnReply(c)
    PROVE  HolderInv' /\ (VerdictInv => VerdictInv')
<1>1. UNCHANGED tasks /\ UNCHANGED life /\ DatabaseKept
    BY DatabaseIsKept DEF OnReply, G!OnReply
<1>2. /\ Pending' = Pending
      /\ UNCHANGED <<currentTransactionId, lastTransactionId, sqliteOpen,
                     uncommitted, committed, lost>>
    BY <1>1, LocalFacts DEF HolderInv
\* Nothing is left of a transaction whose end was answered.
<1>3. Ended(c) => \A x \in Pending : x.client # c
    BY HolderFacts DEF Ended
<1>4. Alive'
    BY <1>1, ReplyIds DEF HolderInv, Alive, NobodyRestarted
<1>5. VerdictInv => OpenWhileHeld' /\ OfTransactions'
  <2>1. \A d \in Clients : IdOf(d)' = IdOf(d) \/ IdOf(d)' = G!NoId
      BY ReplyIds
  <2> QED BY <1>2, <2>1 DEF VerdictInv, OpenWhileHeld, OfTransactions
<1>6. OwnIds'
  <2>1. ASSUME NEW x \in Pending', x.tid # G!NoId
        PROVE  x.tid = currentTransactionId' /\ txnId'[x.client] = x.tid
    <3>1. x \in Pending /\ x.tid = currentTransactionId /\ txnId[x.client] = x.tid /\ x.client \in Clients
        BY <1>2, <2>1, HolderFacts DEF HolderInv, OwnIds
    <3>2. x.client = c => pc[c] # "beginning" /\ ~Ended(c)
        BY <1>3, <2>1, <3>1 DEF HolderInv, SuccessInv, TxnIds, InTxn
    <3>3. txnId'[x.client] = txnId[x.client]
        BY <3>1, <3>2, ReplyIds
    <3> QED BY <1>2, <3>1, <3>3
  <2>3. \A d, e \in Clients : IdOf(d)' # G!NoId /\ IdOf(d)' = IdOf(e)' => d = e
    <3>1. \A d \in Clients : IdOf(d)' = IdOf(d) \/ IdOf(d)' = G!NoId
        BY ReplyIds
    <3> QED BY <3>1 DEF HolderInv, OwnIds
  <2>4. \A d \in Clients : Holds(d)' => IdOf(d)' = currentTransactionId'
    <3>1. \A d \in Clients : Holds(d)' => Holds(d) /\ IdOf(d)' = IdOf(d)
        BY ReplyIds
    <3> QED BY <1>2, <3>1 DEF HolderInv, OwnIds
  <2> QED BY <2>1, <2>3, <2>4 DEF OwnIds
<1>7. ASSUME VerdictInv PROVE FailedIsOver'
  <2>1. ASSUME NEW d \in Clients, NEW id \in Nat \ {G!NoId}, Failed(d, id)'
        PROVE  Failed(d, id)
    <3>1. CASE <<d, id>> \in failed'
      <4>1. CASE failed' = failed \cup {<<c, txnId[c]>>} /\ Failed(c, txnId[c])
          BY <3>1, <4>1 DEF Failed
      <4>2. CASE UNCHANGED failed
          BY <3>1, <4>2 DEF Failed
      <4> QED BY <4>1, <4>2, ReplyIds
    <3>2. CASE Ended(d)' /\ txnId'[d] = id /\ ~(pc'[d] = "committing" /\ reply'[d].ok)
      <4>1. d # c
          BY <3>2, ReplyIds
      <4>2. reply'[d] = reply[d]
          BY <4>1 DEF OnReply, G!OnReply, HolderInv, SuccessInv, Inv, Typed
      <4> QED BY <3>2, <4>1, <4>2, ReplyIds DEF Failed
    <3> QED BY <2>1, <3>1, <3>2 DEF Failed
  <2>2. \A t \in failed' : t[2] # G!NoId
      BY <1>7, ReplyIds DEF VerdictInv, FailedIsOver
  <2> QED BY <1>2, <1>7, <2>1, <2>2 DEF VerdictInv, FailedIsOver
<1>8. HolderInv'
    BY <1>4, <1>6 DEF HolderInv
<1> QED BY <1>5, <1>7, <1>8 DEF VerdictInv

\* A statement that the gate let through ran: the last call of its client.
Took(op) ==
    /\ op \in Pending /\ Exec(op) /\ Passes(op) /\ Effect(op)
    /\ UNCHANGED <<pc, txnId, life, succeeded, failed>>
    /\ Pending' \subseteq Pending
    /\ \A x \in Pending' : x.client # op.client

\* The same, if there is no automatic rollback.
Ran(op) == Took(op) /\ Ends(op)

\* No statement ran.
Unrun ==
    /\ UNCHANGED <<pc, txnId, life, reply, succeeded, failed>>
    /\ UNCHANGED <<currentTransactionId, lastTransactionId, sqliteOpen,
                   uncommitted, committed, lost>>
    /\ Pending' \subseteq Pending

LEMMA UnrunKeepsVerdicts ==
    ASSUME HolderInv, SuccessInv', Unrun
    PROVE  HolderInv' /\ (VerdictInv => VerdictInv')
<1> USE DEF Unrun
<1>1. \A d \in Clients : (IdOf(d)' = IdOf(d)) /\ (Holds(d)' <=> Holds(d)) /\ (Ended(d)' <=> Ended(d))
    BY DEF IdOf, Holds, Begun, Ended, InTxn
<1>2. Alive' /\ OwnIds'
    BY <1>1 DEF HolderInv, Alive, NobodyRestarted, OwnIds
<1>3. HolderInv'
    BY <1>2 DEF HolderInv
<1>4. VerdictInv => OpenWhileHeld' /\ OfTransactions'
    BY <1>1 DEF VerdictInv, OpenWhileHeld, OfTransactions
<1>5. \A d \in Clients : \A id : Failed(d, id)' <=> Failed(d, id)
    BY <1>1 DEF Failed
<1>6. VerdictInv => FailedIsOver'
    BY <1>5 DEF VerdictInv, FailedIsOver
<1> QED BY <1>3, <1>4, <1>6 DEF VerdictInv

LEMMA NativeRuns ==
    ASSUME HolderInv, Native
    PROVE  (\E op \in LegalOps : Took(op)) \/ Unrun
<1>1. /\ Typed /\ Alone /\ life' = life
      /\ UNCHANGED <<pc, txnId, life, succeeded, failed>>
    BY DEF Native, HolderInv, SuccessInv, Inv
<1>2. Inv /\ Recorded /\ currentTransactionId <= lastTransactionId
    BY DEF HolderInv, SuccessInv, Known
<1>3. ASSUME NEW i \in DOMAIN tasks, RunBlock(i)
      PROVE  (\E op \in LegalOps : Took(op)) \/ Unrun
  <2> PICK op : op = tasks[i]
      OBVIOUS
  <2>1. /\ tasks' = RemoveAt(tasks, i) /\ Queue' = Queue /\ Exec(op) /\ Passes(op)
      BY <1>3 DEF RunBlock, MayRun, Passes, Queue
  <2>2. /\ Pending' \subseteq Pending /\ op \in Pending
        /\ Current(op) => \A x \in Pending' : Current(x) => x.client # op.client
      BY <1>1, <2>1, Left
  <2>3. op \in LegalOps
      BY <1>1, <2>2, PendingLegal
  <2>4. Effect(op)
      BY <1>2, <2>1, <2>3, ExecEffect
  <2>5. \A x \in Pending' : x.client # op.client
      BY <2>2, HolderFacts
  <2> QED BY <1>1, <2>1, <2>2, <2>3, <2>4, <2>5 DEF Took
<1>4. ASSUME NEW i \in DOMAIN tasks, EnqueueOperation(i)
      PROVE  (\E op \in LegalOps : Took(op)) \/ Unrun
  <2>1. /\ tasks' = RemoveAt(tasks, i) /\ Queue' = Append(Queue, tasks[i])
        /\ UNCHANGED <<reply, currentTransactionId, lastTransactionId, sqliteOpen,
                       uncommitted, committed, lost>>
      BY <1>4 DEF EnqueueOperation, Queue, sqliteVars
  <2>2. tasks[i] \in GatedOps
    <3>1. tasks[i] \in LegalOps
        BY <1>1 DEF Typed
    <3> QED BY <1>4, <3>1 DEF EnqueueOperation, MayRun, Ungated, GatedOps
  <2>3. Pending' \subseteq Pending
      BY <1>1, <2>1, <2>2, Moved
  <2> QED BY <1>1, <2>1, <2>3 DEF Unrun
<1>5. CASE RunNextQueued
  <2> PICK op : op = Head(Queue)
      OBVIOUS
  <2>1. /\ tasks' = tasks /\ Queue # <<>> /\ Queue' = Tail(Queue)
        /\ Exec(op) /\ Passes(op)
      BY <1>2, <1>5 DEF RunNextQueued, Queue, Inv, DrainsOpen, Passes
  <2>2. /\ Pending' \subseteq Pending /\ op \in Pending
        /\ Current(op) => \A x \in Pending' : Current(x) => x.client # op.client
      BY <1>1, <2>1, Dequeued
  <2>3. op \in LegalOps
      BY <1>1, <2>2, PendingLegal
  <2>4. Effect(op)
      BY <1>2, <2>1, <2>3, ExecEffect
  <2>5. \A x \in Pending' : x.client # op.client
      BY <2>2, HolderFacts
  <2> QED BY <1>1, <2>1, <2>2, <2>3, <2>4, <2>5 DEF Took
<1> QED BY <1>3, <1>4, <1>5 DEF Native

LEMMA NativeDoes ==
    ASSUME VerdictInv, NoAutomaticRollback, Native
    PROVE  (\E op \in LegalOps : Ran(op)) \/ Unrun
<1>1. HolderInv /\ Inv
    BY DEF VerdictInv, HolderInv, SuccessInv
<1>2. ASSUME NEW op \in LegalOps, Took(op) PROVE Ran(op)
    BY <1>1, <1>2, ExecEnds DEF Took, Ran
<1> QED BY <1>1, <1>2, NativeRuns

LEMMA NativeKeepsVerdicts ==
    ASSUME HolderInv, SuccessInv', Native
    PROVE  HolderInv' /\ (VerdictInv /\ NoAutomaticRollback => VerdictInv')
<1>1. ASSUME NEW op \in LegalOps, Took(op)
      PROVE  HolderInv' /\ (VerdictInv /\ NoAutomaticRollback => VerdictInv')
  <2>1. Turns(op)
      BY <1>1, ExecTurns DEF Took, HolderInv, SuccessInv
  <2>2. HolderInv'
      BY <1>1, <2>1, ExecKeepsHolder DEF Took
  <2>3. NoAutomaticRollback => Ends(op)
      BY <1>1, ExecEnds DEF Took, HolderInv, SuccessInv
  <2>4. VerdictInv /\ NoAutomaticRollback => VerdictInv'
      BY <1>1, <2>2, <2>3, ExecKeepsVerdicts DEF Took
  <2> QED BY <2>2, <2>4
<1>2. ASSUME Unrun PROVE HolderInv' /\ (VerdictInv => VerdictInv')
    BY <1>2, UnrunKeepsVerdicts
<1> QED BY <1>1, <1>2, NativeRuns

LEMMA InitVerdicts == Init => VerdictInv
<1> SUFFICES ASSUME Init PROVE VerdictInv
    OBVIOUS
<1>1. SuccessInv
    BY InitSuccess
<1>2. Pending = {}
    BY DEF Init, G!Init, Pending, Queue
<1>3. \A c \in Clients : /\ pc[c] = "idle" /\ IdOf(c) = G!NoId
                         /\ ~Holds(c) /\ ~Ended(c)
    BY DEF Init, G!Init, IdOf, Holds, Begun, InTxn, Ended
<1>4. OwnIds
    BY <1>2, <1>3 DEF OwnIds
<1>5. Alive /\ OpenWhileHeld /\ OfTransactions
    BY DEF Init, G!Init, Alive, NobodyRestarted, OpenWhileHeld, OfTransactions
<1>6. FailedIsOver
    BY <1>2, <1>3 DEF Init, G!Init, FailedIsOver, Failed
<1> QED BY <1>1, <1>4, <1>5, <1>6 DEF VerdictInv, HolderInv

\* Whether anybody restarted can be told from the lives of the clients.
LEMMA RestartShows ==
    ASSUME SuccessInv, NEW c \in Clients, Restart(c)
    PROVE  ~NobodyRestarted'
<1>1. life \in [Clients -> Nat]
    BY DEF SuccessInv, Inv, Typed
<1>2. life'[c] = life[c] + 1 /\ life[c] \in Nat
    BY <1>1 DEF Restart, G!Restart
<1> QED BY <1>2 DEF NobodyRestarted

LEMMA OnlyRestartsShow ==
    ASSUME AwaitCalls, SuccessInv, [PlainNext]_vars, ~(\E c \in Clients : Restart(c))
    PROVE  UNCHANGED life
<1>1. ASSUME NEW c \in Clients, CallDatabase(c) \/ CallTransaction(c) \/ EndTransaction(c)
      PROVE  UNCHANGED life
    BY <1>1, CallsSend DEF Sends
<1>2. ASSUME NEW c \in Clients, OnReply(c) \/ Reopen(c)
      PROVE  UNCHANGED life
    BY <1>2 DEF OnReply, G!OnReply, Reopen, G!Reopen
<1>3. CASE Native
    BY <1>3 DEF Native
<1>4. CASE UNCHANGED vars
    BY <1>4 DEF vars, G!vars, G!dartVars
<1> QED BY <1>1, <1>2, <1>3, <1>4 DEF PlainNext

\* The first restart of a client is the end of it.
LEMMA NextVerdicts ==
    ASSUME AwaitCalls, SuccessInv, NobodyRestarted => HolderInv, [PlainNext]_vars
    PROVE  /\ SuccessInv'
           /\ NobodyRestarted' => NobodyRestarted /\ HolderInv'
           /\ NoAutomaticRollback /\ (NobodyRestarted => VerdictInv) => (NobodyRestarted' => VerdictInv')
<1> DEFINE Kept == HolderInv' /\ (NoAutomaticRollback /\ VerdictInv => VerdictInv')
<1>0. SuccessInv' /\ Inv' /\ life \in [Clients -> Nat]
    BY NextSuccess DEF SuccessInv, Inv, Typed
<1>1. ASSUME NEW c \in Clients, Restart(c) PROVE ~NobodyRestarted'
    BY <1>1, RestartShows
<1>2. ASSUME NEW c \in Clients, CallDatabase(c) \/ CallTransaction(c) \/ EndTransaction(c), HolderInv
      PROVE  Kept
    BY <1>0, <1>2, CallsSend, SendKeepsVerdicts
<1>3. ASSUME NEW c \in Clients, OnReply(c), HolderInv PROVE Kept
    BY <1>0, <1>3, OnReplyKeepsVerdicts
<1>4. ASSUME NEW c \in Clients, Reopen(c), HolderInv PROVE FALSE
    BY <1>4 DEF Reopen, G!Reopen, HolderInv, Alive
<1>5. ASSUME Native, HolderInv PROVE Kept
    BY <1>0, <1>5, NativeKeepsVerdicts
<1>6. ASSUME UNCHANGED vars, HolderInv PROVE Kept
  <2>1. /\ UNCHANGED <<pc, txnId, life, reply, succeeded, failed>>
        /\ UNCHANGED <<currentTransactionId, lastTransactionId, sqliteOpen,
                       uncommitted, committed, lost>>
        /\ tasks' = tasks /\ Queue' = Queue
      BY <1>6 DEF vars, G!vars, G!dartVars, G!gateVars, G!sqliteVars, G!history, Queue
  <2>2. Pending' = Pending
      BY <2>1 DEF Pending
  <2> QED BY <1>0, <1>6, <2>1, <2>2, UnrunKeepsVerdicts DEF Unrun
<1>7. ASSUME NobodyRestarted', ~(\E c \in Clients : Restart(c)) PROVE NobodyRestarted
    BY <1>7, OnlyRestartsShow DEF NobodyRestarted
<1>8. ASSUME NobodyRestarted' PROVE NobodyRestarted /\ Kept
  <2>1. NobodyRestarted /\ HolderInv /\ ~(\E c \in Clients : Restart(c))
      BY <1>1, <1>7, <1>8
  <2> HIDE DEF Kept
  <2> QED BY <1>2, <1>3, <1>4, <1>5, <1>6, <2>1 DEF PlainNext
<1> QED BY <1>0, <1>8

\* In whatever order the system runs the blocks: the writes of a transaction
\* that was reported to have committed are durable, whoever restarts; and if
\* nobody restarted, none of one that was reported to have failed is.  The
\* actions of transactions await their calls, and no statement makes SQLite
\* roll the transaction back by itself.  (Until somebody begins or ends one
\* by hand.)
THEOREM VerdictsAreTrue ==
    ASSUME AwaitCalls, NoAutomaticRollback
    PROVE  Spec => []VerdictsHold
<1> DEFINE TrueInv == SuccessInv /\ (NobodyRestarted => VerdictInv)
           UntilByHand == byHand \/ TrueInv
<1>1. Init => UntilByHand
    BY InitSuccess, InitVerdicts
<1>2. UntilByHand /\ [Next]_vars => UntilByHand'
  <2> SUFFICES ASSUME UntilByHand, [Next]_vars, ~byHand' PROVE TrueInv'
      OBVIOUS
  <2>1. TrueInv /\ [PlainNext]_vars
      BY PlainSteps
  <2> QED BY <2>1, NextVerdicts DEF VerdictInv
<1>3. UntilByHand => VerdictsHold
  <2> SUFFICES ASSUME TrueInv PROVE VerdictsHold
      BY DEF VerdictsHold
  <2>1. succeeded \cap (lost \cup uncommitted) = {}
      BY SuccessHolds
  <2>2. ASSUME NobodyRestarted, NEW t \in failed, t \in committed PROVE FALSE
    <3>0. VerdictInv
        BY <2>2
    <3>1. PICK c \in Clients, id \in Nat : t = <<c, id>>
        BY <3>0, <2>2 DEF VerdictInv, HolderInv, SuccessInv, Recorded, Writes
    <3>2. id # G!NoId
        BY <3>0, <3>1, <2>2 DEF VerdictInv, FailedIsOver
    <3> QED BY <3>0, <2>2, <3>1, <3>2 DEF VerdictInv, FailedIsOver, Failed
  <2> QED BY <2>1, <2>2 DEF VerdictsHold, NobodyRestarted
<1> QED BY <1>1, <1>2, <1>3, PTL DEF Spec
-----------------------------------------------------------------------------
(* Batches *)

NoRestarts == "restart" \notin Calls \/ MaxRestarts = 0
NoLooseBatch == "batch" \notin Calls

\* What passes the gate without being asked has a transaction.
BatchesHaveTransaction == \A op \in Pending : op.kind = "batch" => op.tid # G!NoId

BatchInv == HolderInv /\ NothingLeftOpen /\ StrictlyIsolated /\ BatchesHaveTransaction

LEMMA NobodyRestarts ==
    ASSUME AwaitCalls, NoRestarts, SuccessInv, NobodyRestarted, [PlainNext]_vars
    PROVE  NobodyRestarted'
<1>1. ASSUME NEW c \in Clients, Restart(c) PROVE FALSE
    BY <1>1 DEF Restart, G!Restart, NoRestarts, NobodyRestarted
<1> QED BY <1>1, OnlyRestartsShow DEF NobodyRestarted

LEMMA StutterIsUnrun ==
    ASSUME UNCHANGED vars
    PROVE  Unrun
BY DEF Unrun, Pending, Queue, vars, G!vars, G!dartVars, G!gateVars, G!sqliteVars, G!history

\* The batches that are sent have a transaction.
LEMMA CallsKeepBatches ==
    ASSUME AwaitCalls, NoLooseBatch, BatchInv, HolderInv', NEW c \in Clients,
           CallDatabase(c) \/ CallTransaction(c) \/ EndTransaction(c)
    PROVE  BatchInv'
<1>0. /\ SuccessInv /\ Typed /\ txnId[c] \in Nat /\ life[c] \in Nat /\ G!NoId \in Nat
      /\ pc[c] = "active" => txnId[c] # G!NoId
    BY DEF BatchInv, HolderInv, SuccessInv, Inv, Typed, G!NoId, TxnIds, InTxn
<1>1. PICK kind \in PlainKinds, tid \in Nat, state \in States : Sends(c, kind, tid, state)
    BY <1>0, CallsSend
<1>2. /\ UNCHANGED <<currentTransactionId, sqliteOpen, uncommitted>>
      /\ tasks' = Append(tasks, NewOp(c, kind, tid)) /\ Queue' = Queue /\ UNCHANGED life
      /\ \A x \in Pending : Current(x) => x.client # c
    BY <1>1 DEF Sends, DatabaseKept, Queue, G!Send, NewOp
<1>3. kind = "batch" => tid # G!NoId
  <2>1. PICK k \in PlainKinds, t \in Nat :
          /\ G!Send(c, k, t)
          /\ k = "batch" => t = txnId[c] /\ pc[c] = "active"
      BY <1>0 DEF CallDatabase, CallTransaction, EndTransaction, G!CallWrite, G!CallBatch,
                  G!BeginTransaction, G!TxnCall, G!TxnWrite, G!TxnBatch, G!TxnCloseCursor,
                  G!EndTransaction, G!Invoke, NoLooseBatch, PlainKinds
  <2>2. NewOp(c, k, t) = NewOp(c, kind, tid)
    <3>1. tasks' = Append(tasks, NewOp(c, k, t))
        BY <2>1 DEF G!Send, NewOp
    <3>2. tasks \in Seq(LegalOps)
        BY <1>0 DEF Typed
    <3> QED BY <1>2, <3>1, <3>2, AppendProperties DEF NewOp
  <2>3. k = kind /\ t = tid
      BY <2>2 DEF NewOp
  <2> QED BY <1>0, <2>1, <2>3
<1>4. BatchesHaveTransaction'
  <2> PICK op : op = NewOp(c, kind, tid)
      OBVIOUS
  <2>1. op \in LegalOps /\ op.kind = kind /\ op.tid = tid /\ op.client = c
      BY <1>0, <1>1 DEF LegalOps, NewOp, PlainKinds, Sends, G!Forced
  <2>2. Pending' = Pending \cup {op}
      BY <1>0, <1>2, <2>1, Sent DEF SuccessInv
  <2> QED BY <1>3, <2>1, <2>2 DEF BatchInv, BatchesHaveTransaction
<1>5. NothingLeftOpen' /\ StrictlyIsolated'
    BY <1>2 DEF BatchInv, NothingLeftOpen, StrictlyIsolated
<1> QED BY <1>2, <1>4, <1>5 DEF BatchInv

LEMMA NextBatches ==
    ASSUME AwaitCalls, NoLooseBatch, BatchInv, NobodyRestarted', [PlainNext]_vars
    PROVE  BatchInv'
<1>0. /\ HolderInv /\ SuccessInv /\ Inv /\ NobodyRestarted /\ NothingLeftOpen /\ StrictlyIsolated
      /\ BatchesHaveTransaction /\ OwnIds
    BY DEF BatchInv, HolderInv, SuccessInv, Alive
<1>2. HolderInv'
    BY <1>0, NextVerdicts
<1>3. ASSUME NEW c \in Clients, CallDatabase(c) \/ CallTransaction(c) \/ EndTransaction(c)
      PROVE  BatchInv'
    BY <1>2, <1>3, CallsKeepBatches
<1>4. ASSUME NEW c \in Clients, OnReply(c) PROVE BatchInv'
  <2>1. /\ UNCHANGED <<tasks, noTransactionOperationQueue>>
        /\ UNCHANGED <<sqliteOpen, uncommitted, currentTransactionId>>
      BY <1>4, DatabaseIsKept DEF OnReply, G!OnReply, DatabaseKept
  <2>2. NothingLeftOpen' /\ StrictlyIsolated' /\ BatchesHaveTransaction'
      BY <1>0, <2>1 DEF NothingLeftOpen, StrictlyIsolated, BatchesHaveTransaction, Pending, Queue
  <2> QED BY <1>2, <2>1, <2>2 DEF BatchInv
<1>5. ASSUME NEW op \in LegalOps, Took(op) PROVE BatchInv'
  <2>1. /\ op \in Pending /\ Exec(op) /\ Passes(op)
        /\ Pending' \subseteq Pending
      BY <1>5 DEF Took
  <2>2. op.kind = "batch" => op.tid # G!NoId /\ op.tid = currentTransactionId
      BY <1>0, <2>1 DEF BatchesHaveTransaction, OwnIds
  <2>3. NothingLeftOpen' /\ StrictlyIsolated'
      BY <1>0, <2>1, <2>2, ExecKeepsIsolation
  <2>4. BatchesHaveTransaction'
      BY <1>0, <2>1 DEF BatchesHaveTransaction
  <2> QED BY <1>2, <2>1, <2>3, <2>4 DEF BatchInv
<1>6. ASSUME Unrun PROVE BatchInv'
  <2>1. NothingLeftOpen' /\ StrictlyIsolated' /\ BatchesHaveTransaction'
      BY <1>0, <1>6 DEF Unrun, NothingLeftOpen, StrictlyIsolated, BatchesHaveTransaction
  <2> QED BY <1>2, <1>6, <2>1 DEF BatchInv, Unrun
<1>7. ASSUME Native PROVE BatchInv'
    BY <1>0, <1>5, <1>6, <1>7, NativeRuns
<1>8. ASSUME NEW c \in Clients, Restart(c) \/ Reopen(c) PROVE FALSE
    BY <1>0, <1>8, RestartShows DEF Reopen, G!Reopen, HolderInv, Alive
<1>9. ASSUME UNCHANGED vars PROVE BatchInv'
    BY <1>6, <1>9, StutterIsUnrun
<1> QED BY <1>3, <1>4, <1>7, <1>8, <1>9 DEF PlainNext

LEMMA InitBatches == Init => BatchInv
<1> SUFFICES ASSUME Init PROVE BatchInv
    OBVIOUS
<1>1. Pending = {}
    BY DEF Init, G!Init, Pending, Queue
<1>2. NothingLeftOpen /\ StrictlyIsolated /\ BatchesHaveTransaction
    BY <1>1 DEF Init, G!Init, NothingLeftOpen, StrictlyIsolated, BatchesHaveTransaction
<1> QED BY <1>2, InitVerdicts DEF BatchInv, VerdictInv

\* The batches that transactions send, which the gate lets through unasked,
\* stay in them, as on Android, if the actions of transactions await their
\* calls, no client restarts, and no batch is sent outside of a transaction
\* (until somebody begins or ends one by hand).
THEOREM BatchesAreIsolated ==
    ASSUME AwaitCalls, NoRestarts, NoLooseBatch
    PROVE  Spec => []Isolated
<1> DEFINE UntilByHand == byHand \/ BatchInv
<1>1. Init => UntilByHand
    BY InitBatches
<1>2. UntilByHand /\ [Next]_vars => UntilByHand'
  <2> SUFFICES ASSUME UntilByHand, [Next]_vars, ~byHand' PROVE BatchInv'
      OBVIOUS
  <2>1. BatchInv /\ SuccessInv /\ NobodyRestarted /\ [PlainNext]_vars
      BY PlainSteps DEF BatchInv, HolderInv, Alive
  <2> QED BY <2>1, NobodyRestarts, NextBatches
<1>3. UntilByHand => Isolated
    BY DEF BatchInv, StrictlyIsolated, Isolated
<1> QED BY <1>1, <1>2, <1>3, PTL DEF Spec

-----------------------------------------------------------------------------
(* Transactions one by one *)

\* A verdict is of the client that has the id, if anybody has.
FailuresOwned == \A t \in failed : \A c \in Clients : IdOf(c) = t[2] => c = t[1]

SerialInv == VerdictInv /\ BatchInv /\ FailuresOwned

\* What was written, or refused, belongs to an id that was given.
LEMMA SerialFacts ==
    ASSUME SerialInv
    PROVE  /\ VerdictInv /\ HolderInv /\ SuccessInv /\ BatchInv
           /\ \A t \in uncommitted : t[2] = currentTransactionId /\ t[2] # G!NoId
           /\ \A t \in uncommitted \cup succeeded \cup failed :
                /\ t[1] \in Clients /\ t[2] \in Nat /\ t[2] <= lastTransactionId
                /\ t = <<t[1], t[2]>>
           /\ \A t \in succeeded \cup failed : t[2] # G!NoId
           /\ \A t \in succeeded : t[2] # currentTransactionId
<1>1. /\ VerdictInv /\ HolderInv /\ BatchInv /\ SuccessInv /\ Recorded /\ Known
      /\ lastTransactionId \in Nat
    BY HolderFacts DEF SerialInv, BatchInv, VerdictInv, HolderInv, SuccessInv
<1>2. \A t \in uncommitted : t[2] = currentTransactionId /\ t[2] # G!NoId
    BY <1>1 DEF BatchInv, StrictlyIsolated
<1>3. \A t \in uncommitted \cup succeeded \cup failed :
        /\ t[1] \in Clients /\ t[2] \in Nat /\ t[2] <= lastTransactionId
        /\ t = <<t[1], t[2]>>
    BY <1>1 DEF Recorded, Writes, Known
<1>4. \A t \in succeeded \cup failed : t[2] # G!NoId
    BY <1>1 DEF VerdictInv, SuccessInv, TxnIds, FailedIsOver
<1>5. ASSUME NEW t \in succeeded PROVE t[2] # currentTransactionId
  <2>1. t[2] \in 1..lastTransactionId
      BY <1>1, <1>3, <1>4 DEF G!NoId
  <2>2. Done(t[1], t[2])
      BY <1>3 DEF Done
  <2> QED BY <1>1, <1>3, <2>1, <2>2 DEF SuccessInv, Over
<1> QED BY <1>1, <1>2, <1>3, <1>4, <1>5

\* A statement with an id belongs to the client that has the current one,
\* which was told nothing yet.
LEMMA RanFor ==
    ASSUME SerialInv, NEW op \in LegalOps, op \in Pending, op.tid # G!NoId
    PROVE  /\ op.client \in Clients /\ op.tid = currentTransactionId
           /\ IdOf(op.client) = op.tid
           /\ <<op.client, op.tid>> \notin succeeded \cup failed
           /\ \A t \in uncommitted : t[1] = op.client
           /\ \A t \in failed : t[2] # currentTransactionId
<1> DEFINE c == op.client
<1>1. c \in Clients
    BY DEF LegalOps
<1>2. op.tid = currentTransactionId /\ txnId[c] = op.tid
    BY SerialFacts DEF HolderInv, OwnIds
<1>3. InTxn(pc[c])
    BY <1>1, <1>2, SerialFacts DEF SuccessInv, TxnIds
<1>4. IdOf(c) = op.tid
    BY <1>1, <1>2, <1>3, SerialFacts, HolderFacts
<1>5. <<c, op.tid>> \notin succeeded \cup failed
    BY <1>1, <1>2, <1>3, SerialFacts DEF SuccessInv, Running
<1>6. \A t \in uncommitted : t[1] = c
    BY <1>1, <1>2, <1>4, SerialFacts DEF VerdictInv, OfTransactions
<1>7. ASSUME NEW t \in failed, t[2] = currentTransactionId PROVE FALSE
  <2>1. t[1] = c
      BY <1>1, <1>2, <1>4, <1>7 DEF SerialInv, FailuresOwned
  <2>2. t = <<c, op.tid>>
      BY <1>2, <1>7, <2>1, SerialFacts
  <2> QED BY <1>5, <1>7, <2>2
<1> QED BY <1>1, <1>2, <1>4, <1>5, <1>6, <1>7

LEMMA RanKeepsSerial ==
    ASSUME SerialInv, VerdictInv', BatchInv', NEW op \in LegalOps, Ran(op)
    PROVE  SerialInv'
<1>0. /\ HolderInv /\ UNCHANGED failed /\ UNCHANGED <<pc, txnId>> /\ op \in Pending /\ Effect(op)
    BY SerialFacts DEF Ran, Took
<1>1. ASSUME NEW t \in failed, NEW d \in Clients, IdOf(d)' = t[2]
      PROVE  d = t[1]
  <2>1. lastTransactionId \in Nat /\ t[2] \in Nat /\ t[2] <= lastTransactionId
      BY <1>0, SerialFacts, HolderFacts
  <2>2. op.kind # "begin" => IdOf(d)' = IdOf(d)
      BY <1>0, ExecIds
  <2>3. op.kind = "begin" => (IdOf(d)' = IdOf(d) \/ IdOf(d)' = lastTransactionId + 1)
      BY <1>0, ExecIds
  <2>4. IdOf(d) = t[2]
      BY <1>1, <2>1, <2>2, <2>3
  <2> QED BY <2>4 DEF SerialInv, FailuresOwned
<1> QED BY <1>0, <1>1 DEF SerialInv, FailuresOwned

LEMMA UnrunKeepsSerial ==
    ASSUME SerialInv, VerdictInv', BatchInv', Unrun
    PROVE  SerialInv' /\ UNCHANGED Serial!vars
<1>1. \A d \in Clients : IdOf(d)' = IdOf(d)
    BY DEF Unrun, IdOf
<1> QED BY <1>1 DEF Unrun, SerialInv, FailuresOwned, Serial!vars

LEMMA CallsKeepSerial ==
    ASSUME AwaitCalls, SerialInv, VerdictInv', BatchInv', NEW c \in Clients,
           CallDatabase(c) \/ CallTransaction(c) \/ EndTransaction(c)
    PROVE  SerialInv' /\ UNCHANGED Serial!vars
<1>1. PICK kind \in PlainKinds, tid \in Nat, state \in States : Sends(c, kind, tid, state)
    BY SerialFacts, CallsSend
<1>2. UNCHANGED Serial!vars
    BY <1>1 DEF Sends, DatabaseKept, Serial!vars
<1>3. \A d \in Clients : IdOf(d)' = IdOf(d)
    BY <1>1, SerialFacts, SendIds
<1> QED BY <1>2, <1>3 DEF SerialInv, FailuresOwned, Serial!vars

LEMMA OnReplyKeepsSerial ==
    ASSUME SerialInv, VerdictInv', BatchInv', NEW c \in Clients, OnReply(c)
    PROVE  SerialInv'
<1>0. HolderInv /\ OwnIds
    BY SerialFacts DEF HolderInv
<1>1. ASSUME NEW t \in failed', NEW d \in Clients, IdOf(d)' = t[2]
      PROVE  d = t[1]
  <2>1. t[2] # G!NoId
      BY DEF VerdictInv, FailedIsOver
  <2>2. IdOf(d)' = IdOf(d)
      BY <1>0, <1>1, <2>1, ReplyIds
  <2>3. CASE t \in failed
      BY <1>1, <2>2, <2>3 DEF SerialInv, FailuresOwned
  <2>4. CASE t \notin failed
    <3>1. t = <<c, txnId[c]>> /\ IdOf(c) = txnId[c]
        BY <1>0, <2>4, ReplyIds
    <3> QED BY <1>0, <1>1, <2>1, <2>2, <3>1 DEF OwnIds
  <2> QED BY <2>3, <2>4
<1> QED BY <1>1 DEF SerialInv, FailuresOwned

\* Verdicts are given once, and are true.
LEMMA OnReplyIsSerial ==
    ASSUME SerialInv, NEW c \in Clients, OnReply(c)
    PROVE  Serial!Next \/ UNCHANGED Serial!vars
<1> DEFINE id == txnId[c]
<1>0. /\ VerdictInv /\ SuccessInv
      /\ UNCHANGED <<currentTransactionId, lastTransactionId, uncommitted, committed, lost>>
    BY SerialFacts, DatabaseIsKept DEF OnReply, G!OnReply, DatabaseKept
<1>1. CASE UNCHANGED <<succeeded, failed>>
    BY <1>0, <1>1 DEF Serial!vars
<1>2. CASE ~UNCHANGED <<succeeded, failed>>
  <2>1. /\ pc[c] \in {"committing", "rollingBack"} /\ reply[c] # G!NoReply
        /\ \/ /\ pc[c] = "committing" /\ reply[c].ok
              /\ succeeded' = succeeded \cup {<<c, id>>} /\ UNCHANGED failed
           \/ /\ ~(pc[c] = "committing" /\ reply[c].ok)
              /\ failed' = failed \cup {<<c, id>>} /\ UNCHANGED succeeded
      BY <1>2 DEF OnReply, G!OnReply, G!history
  <2>2. /\ <<c, id>> \notin succeeded \cup failed
        /\ id \in Nat /\ id # G!NoId /\ id <= lastTransactionId /\ lastTransactionId \in Nat
      BY <1>0, <2>1 DEF SuccessInv, Running, TxnIds, Known, InTxn, Inv, Typed
  <2>3. id \in 1..lastTransactionId
      BY <2>2 DEF G!NoId
  <2>4. CASE pc[c] = "committing" /\ reply[c].ok
    <3>1. Done(c, id)
        BY <2>4 DEF Done
    <3>2. id # currentTransactionId /\ <<c, id>> \notin lost \cup uncommitted
        BY <1>0, <2>3, <3>1 DEF SuccessInv, Over
    <3>3. Serial!Succeed(c, id)
        BY <1>0, <2>1, <2>2, <2>4, <3>2 DEF Serial!Succeed
    <3> QED BY <2>3, <3>3 DEF Serial!Next
  <2>5. CASE ~(pc[c] = "committing" /\ reply[c].ok)
    <3>1. Failed(c, id)
        BY <2>1, <2>5 DEF Failed, Ended
    <3>2. <<c, id>> \notin committed
        BY <1>0, <2>2, <3>1 DEF VerdictInv, FailedIsOver
    <3>3. Serial!Fail(c, id)
        BY <1>0, <2>1, <2>2, <2>5, <3>2 DEF Serial!Fail
    <3> QED BY <2>3, <3>3 DEF Serial!Next
  <2> QED BY <2>4, <2>5
<1> QED BY <1>1, <1>2

\* What a statement does is what a transaction that is executed alone does.
LEMMA RanIsSerial ==
    ASSUME SerialInv, NEW op \in LegalOps, Ran(op)
    PROVE  Serial!Next \/ UNCHANGED Serial!vars
<1> DEFINE c == op.client
<1>0. /\ VerdictInv /\ HolderInv /\ SuccessInv /\ c \in Clients /\ op \in Pending
      /\ UNCHANGED <<succeeded, failed>>
      /\ currentTransactionId \in Nat /\ lastTransactionId \in Nat
      /\ G!NoId = 0 /\ Serial!NoId = 0
    BY SerialFacts, HolderFacts DEF Ran, Took, LegalOps, G!NoId, Serial!NoId
<1>1. CASE BeginSucceeded(op) \/ BeginFailed(op)
  <2>1. Serial!Begin
      BY <1>0, <1>1 DEF BeginSucceeded, BeginFailed, Serial!Begin
  <2> QED BY <2>1 DEF Serial!Next
<1>2. CASE EndSucceeded(op)
  <2>1. op.tid # G!NoId /\ op.tid = currentTransactionId
      BY <1>0, <1>2, HolderFacts DEF EndSucceeded
  <2>2. \A t \in succeeded \cup failed : t[2] # currentTransactionId
      BY <1>0, <2>1, RanFor, SerialFacts
  <2>3. Serial!Commit \/ Serial!Rollback
      BY <1>0, <1>2, <2>1, <2>2 DEF EndSucceeded, Serial!Commit, Serial!Rollback
  <2> QED BY <2>3 DEF Serial!Next
<1>3. CASE EndFailed(op)
    BY <1>0, <1>3 DEF EndFailed, Serial!vars
<1>4. CASE StatementRan(op)
  <2>1. /\ UNCHANGED <<currentTransactionId, lastTransactionId, lost>>
        /\ uncommitted \subseteq uncommitted' /\ committed \subseteq committed'
        /\ Written(op) \subseteq {<<c, op.tid>>}
        /\ op.kind = "cancel" => Written(op) = {}
      BY <1>4 DEF StatementRan, Written, Tag
  <2>2. CASE UNCHANGED <<uncommitted, committed>>
      BY <1>0, <2>1, <2>2 DEF Serial!vars
  <2>3. CASE ~UNCHANGED <<uncommitted, committed>> /\ sqliteOpen
    <3>1. uncommitted' = uncommitted \cup {<<c, op.tid>>} /\ UNCHANGED committed
        BY <1>4, <2>1, <2>3 DEF StatementRan
    <3>2. op.kind # "cancel"
        BY <1>4, <2>1, <2>3 DEF StatementRan
    <3>3. currentTransactionId # G!NoId
        BY <1>0, <2>3 DEF SuccessInv, Inv, GateIsHonest
    <3>4. op.tid # G!NoId
      <4>0. op.kind # "batchByHand"
          BY DEF LegalOps, PlainKinds
      <4> QED BY <1>0, <3>2, <3>3, <4>0, SerialFacts DEF Ran, Took, Passes, Ungated, BatchInv, BatchesHaveTransaction
    <3>5. Serial!WriteInTransaction(c)
        BY <1>0, <2>1, <3>1, <3>3, <3>4, RanFor DEF Serial!WriteInTransaction
    <3> QED BY <1>0, <3>5 DEF Serial!Next
  <2>4. CASE ~UNCHANGED <<uncommitted, committed>> /\ ~sqliteOpen
    <3>1. committed' = committed \cup {<<c, op.tid>>} /\ UNCHANGED uncommitted
        BY <1>4, <2>1, <2>4 DEF StatementRan
    <3>2. currentTransactionId = G!NoId
        BY <1>0, <2>4 DEF VerdictInv, OpenWhileHeld
    <3>3. op.tid = G!NoId
        BY <1>0, <3>2 DEF HolderInv, OwnIds
    <3>4. Serial!Write(c)
        BY <1>0, <2>1, <3>1, <3>2, <3>3 DEF Serial!Write
    <3> QED BY <1>0, <3>4 DEF Serial!Next
  <2> QED BY <2>2, <2>3, <2>4
<1> QED BY <1>1, <1>2, <1>3, <1>4 DEF Ran, Ends

LEMMA NextSerial ==
    ASSUME AwaitCalls, NoAutomaticRollback, NoLooseBatch, SerialInv,
           NobodyRestarted', [PlainNext]_vars
    PROVE  SerialInv' /\ (Serial!Next \/ UNCHANGED Serial!vars)
<1>0. VerdictInv /\ HolderInv /\ SuccessInv /\ BatchInv
    BY SerialFacts
<1>1. BatchInv'
    BY <1>0, NextBatches
<1>2. VerdictInv'
    BY <1>0, <1>1, NextVerdicts
<1>3. ASSUME NEW c \in Clients, Restart(c) \/ Reopen(c) PROVE FALSE
    BY <1>0, <1>3, RestartShows DEF Reopen, G!Reopen, HolderInv, Alive
<1>4. ASSUME NEW c \in Clients, CallDatabase(c) \/ CallTransaction(c) \/ EndTransaction(c)
      PROVE  SerialInv' /\ UNCHANGED Serial!vars
    BY <1>1, <1>2, <1>4, CallsKeepSerial
<1>5. ASSUME NEW c \in Clients, OnReply(c)
      PROVE  SerialInv' /\ (Serial!Next \/ UNCHANGED Serial!vars)
    BY <1>1, <1>2, <1>5, OnReplyKeepsSerial, OnReplyIsSerial
<1>6. ASSUME NEW op \in LegalOps, Ran(op)
      PROVE  SerialInv' /\ (Serial!Next \/ UNCHANGED Serial!vars)
    BY <1>1, <1>2, <1>6, RanKeepsSerial, RanIsSerial
<1>7. ASSUME Unrun PROVE SerialInv' /\ UNCHANGED Serial!vars
    BY <1>1, <1>2, <1>7, UnrunKeepsSerial
<1>8. ASSUME Native PROVE SerialInv' /\ (Serial!Next \/ UNCHANGED Serial!vars)
    BY <1>0, <1>6, <1>7, <1>8, NativeDoes
<1>9. ASSUME UNCHANGED vars PROVE SerialInv' /\ UNCHANGED Serial!vars
    BY <1>7, <1>9, StutterIsUnrun
<1> QED BY <1>3, <1>4, <1>5, <1>8, <1>9 DEF PlainNext

LEMMA InitSerial == Init => SerialInv /\ Serial!Init
<1> SUFFICES ASSUME Init PROVE SerialInv /\ Serial!Init
    OBVIOUS
<1>1. BatchInv
    BY InitBatches
<1>2. FailuresOwned
    BY DEF Init, G!Init, FailuresOwned
<1>3. Serial!Init
    BY DEF Init, G!Init, Serial!Init, G!NoId, Serial!NoId
<1> QED BY <1>1, <1>2, <1>3, InitVerdicts DEF SerialInv

\* In whatever order the system runs the blocks, the gate and its queue are a
\* way to execute transactions one by one: if the actions of transactions
\* await their calls, no statement makes SQLite roll back by itself, and no
\* batch is sent outside of a transaction, then until a client restarts, or
\* begins or ends a transaction by hand, the clients see what
\* SerialTransactions allows, whatever else fails.
THEOREM GateIsSerial ==
    ASSUME AwaitCalls, NoAutomaticRollback, NoLooseBatch
    PROVE  Spec => ImplementsSerialTransactions
<1> DEFINE UntilRestart == SuccessInv /\ (NobodyRestarted => SerialInv)
           UntilByHand == byHand \/ UntilRestart
           AsSerial == NobodyRestarted' /\ ~byHand' => Serial!Next
<1>1. Init => UntilByHand /\ Serial!Init
    BY InitSerial, InitSuccess
<1>2. UntilByHand /\ [Next]_vars => UntilByHand' /\ [AsSerial]_(Serial!vars)
  <2> SUFFICES ASSUME UntilByHand, [Next]_vars, ~byHand'
               PROVE  UntilRestart' /\ [AsSerial]_(Serial!vars)
      OBVIOUS
  <2>0. UntilRestart /\ [PlainNext]_vars
      BY PlainSteps
  <2>1. SuccessInv' /\ (NobodyRestarted' => NobodyRestarted)
      BY <2>0, NextVerdicts, SerialFacts
  <2>2. ASSUME NobodyRestarted' PROVE SerialInv' /\ (Serial!Next \/ UNCHANGED Serial!vars)
      BY <2>0, <2>1, <2>2, NextSerial
  <2> QED BY <2>1, <2>2
<1> QED
  BY <1>1, <1>2, PTL DEF Spec, ImplementsSerialTransactions

=============================================================================
