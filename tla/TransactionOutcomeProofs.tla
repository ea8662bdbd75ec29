---------------------- MODULE TransactionOutcomeProofs ----------------------
(***************************************************************************)
(* Proofs about TransactionGate: what a client that was told the outcome   *)
(* of its transaction can rely on.                                         *)
(*                                                                         *)
(* If a client sent nothing while its COMMIT or ROLLBACK was on its way,   *)
(* the answer is the last thing that happens to its transaction: the gate  *)
(* ran or refused everything that it sent before.  InFlight says who waits *)
(* for what, TxnIds, Known and Fresh whose the ids are, and Over that      *)
(* nothing is left of a transaction that committed.  This holds whatever   *)
(* fails and whoever restarts (SuccessLasts), except for the clients that  *)
(* did send something late, and once somebody began a transaction by hand  *)
(* that nobody's gate knows of.                                            *)
(*                                                                         *)
(* If nobody restarts, the gate is held for the one client that has the    *)
(* current id (OwnIds), so transactions are isolated even with batches in  *)
(* them, while none was sent late (BatchesAreIsolated).  If SQLite also    *)
(* rolls nothing back by itself they are atomic (TransactionsAreAtomic),   *)
(* and executed one by one as far as the clients can tell (GateIsSerial);  *)
(* and, if no COMMIT fails, the gate is never left closed by a client that *)
(* is done (GateIsHeldByClient).                                           *)
(*                                                                         *)
(* The last section counts the BEGINs on their way, which bounds the ids   *)
(* (GateIsTyped).                                                          *)
(***************************************************************************)
EXTENDS TransactionGateProofs, FiniteSetTheorems

-----------------------------------------------------------------------------
(* The inductive invariant *)

States == {"idle", "waiting", "beginning", "active", "awaiting",
           "committing", "rollingBack", "restarted", "reopening"}
PlainKinds == {"begin", "commit", "rollback", "write", "batch", "cancel"}
Writes == Clients \X Nat

Recorded ==
    /\ pc \in [Clients -> States]
    /\ uncommitted \subseteq Writes /\ committed \subseteq Writes /\ lost \subseteq Writes
    /\ succeeded \subseteq Writes /\ failed \subseteq Writes
    /\ late \subseteq Clients

Queue == noTransactionOperationQueue
IsOp(op) == op.kind # "runQueued"
IsEnd(op) == op.kind \in {"commit", "rollback"}

\* The calls that native code has not run yet.
Pending ==
    {op \in {tasks[i] : i \in 1..Len(tasks)} \cup {Queue[i] : i \in 1..Len(Queue)} : IsOp(op)}

\* The calls that Answer answers to.
Awaited(op) ==
    /\ IsOp(op) /\ op.life = life[op.client]
    /\ op.kind \in {"write", "batch"} => op.tid = NoId

\* A client awaits one call at most.
Apart ==
    /\ \A i, j \in 1..Len(tasks) :
         Awaited(tasks[i]) /\ Awaited(tasks[j]) /\ tasks[i].client = tasks[j].client => i = j
    /\ \A i, j \in 1..Len(Queue) :
         Awaited(Queue[i]) /\ Awaited(Queue[j]) /\ Queue[i].client = Queue[j].client => i = j
    /\ \A i \in 1..Len(tasks) : \A j \in 1..Len(Queue) :
         ~(Awaited(tasks[i]) /\ Awaited(Queue[j]) /\ tasks[i].client = Queue[j].client)

\* COMMIT or ROLLBACK is the last call of its transaction, unless the client
\* made late calls.
EndIsLast ==
    \A i, j \in 1..Len(tasks) :
        /\ i < j /\ IsEnd(tasks[i]) /\ tasks[i].tid # Forced
        /\ tasks[i].client \notin late
        /\ IsOp(tasks[j]) /\ tasks[j].client = tasks[i].client
        => tasks[j].tid # tasks[i].tid

\* What a client that awaits the call is doing.
AwaitedIn(op, state, id) ==
    \/ state = "waiting" /\ op.kind \in {"write", "batch"}
    \/ state = "beginning" /\ op.kind = "begin"
    \/ state = "awaiting" /\ op.kind = "cancel"
    \/ state = "committing" /\ op.kind = "commit" /\ op.tid = id
    \/ state = "rollingBack" /\ op.kind = "rollback" /\ op.tid = id
    \/ state = "reopening" /\ op.kind = "rollback" /\ op.tid = Forced

Awaiting == {"waiting", "reopening", "beginning", "awaiting", "committing", "rollingBack"}

InFlight ==
    /\ \A op \in Pending :
         /\ op.life <= life[op.client]
         /\ Awaited(op) => /\ reply[op.client] = NoReply
                           /\ AwaitedIn(op, pc[op.client], txnId[op.client])
    /\ \A c \in Clients : reply[c] # NoReply => pc[c] \in Awaiting

\* The client has a transaction, and knows its id.
InTxn(state) == state \in {"active", "awaiting", "committing", "rollingBack"}

\* Its BEGIN succeeded, and the id is on the way.
Begun(c) == pc[c] = "beginning" /\ reply[c].ok

TxnIds ==
    /\ \A c \in Clients : InTxn(pc[c]) <=> txnId[c] # NoId
    /\ \A c \in Clients :
         pc[c] = "beginning" /\ reply[c] # NoReply => (reply[c].ok <=> reply[c].id # NoId)
    /\ \A op \in Pending : IsEnd(op) => op.tid # NoId
    /\ \A t \in succeeded : t[2] # NoId

\* No id is used that was not given.
Known ==
    /\ currentTransactionId <= lastTransactionId
    /\ \A op \in Pending : op.tid <= lastTransactionId
    /\ \A c \in Clients : txnId[c] <= lastTransactionId /\ reply[c].id <= lastTransactionId
    /\ \A t \in uncommitted \cup committed \cup lost \cup succeeded \cup failed :
         t[2] <= lastTransactionId

Fresh ==
    \A c \in Clients : Begun(c) =>
        /\ \A op \in Pending : op.client = c => op.tid # reply[c].id
        /\ <<c, reply[c].id>> \notin succeeded \cup failed

Running ==
    \A c \in Clients :
        /\ pc[c] \in {"active", "awaiting"} =>
             \A op \in Pending : IsEnd(op) /\ op.client = c => op.tid # txnId[c]
        /\ InTxn(pc[c]) => <<c, txnId[c]>> \notin succeeded \cup failed

\* What waits for the end of a transaction is not of it.
NotQueued ==
    currentTransactionId # NoId =>
        \A i \in 1..Len(Queue) : Queue[i].tid # currentTransactionId

\* No write of a transaction that SQLite is still in was rolled back.
LostIsOver == sqliteOpen => \A t \in lost : t[2] # currentTransactionId

\* The transaction of the client committed: it knows, or the answer is on
\* the way.
Done(c, id) ==
    \/ <<c, id>> \in succeeded
    \/ pc[c] = "committing" /\ reply[c].ok /\ txnId[c] = id

Over ==
    \A c \in Clients \ late : \A id \in 1..lastTransactionId : Done(c, id) =>
        /\ \A op \in Pending : op.client = c => op.tid # id
        /\ id # currentTransactionId
        /\ <<c, id>> \notin lost \cup uncommitted

OutcomeInv ==
    /\ Inv /\ Quiet /\ Recorded
    /\ Apart /\ EndIsLast /\ InFlight
    /\ TxnIds /\ Known /\ Fresh /\ Running
    /\ NotQueued /\ LostIsOver /\ Over

-----------------------------------------------------------------------------
(* What the steps do to the calls that are pending *)

Tasks == LegalOps \cup {RunQueuedOperations}

LEMMA PlainAreKinds ==
    /\ PlainKinds \subseteq Kinds
    /\ \A kind \in PlainKinds : kind \notin ByHand
    /\ \A kind \in Kinds \ ByHand : kind \in PlainKinds
BY DEF PlainKinds, Kinds, ByHand

LEMMA LegalIsOp ==
    /\ \A op \in LegalOps : IsOp(op) /\ op.kind \in Kinds
    /\ ~IsOp(RunQueuedOperations)
<1>1. "runQueued" \notin Kinds
    BY DEF Kinds
<1> QED BY <1>1 DEF LegalOps, IsOp, RunQueuedOperations

LEMMA PendingLegal ==
    ASSUME Typed
    PROVE  /\ Pending \subseteq LegalOps
           /\ \A i \in 1..Len(tasks) : tasks[i] \in Tasks
           /\ \A i \in 1..Len(tasks) : IsOp(tasks[i]) => tasks[i] \in Pending
           /\ \A i \in 1..Len(Queue) : Queue[i] \in QueuedOps /\ Queue[i] \in Pending
<1>1. /\ \A i \in 1..Len(tasks) : tasks[i] \in Tasks
      /\ \A i \in 1..Len(Queue) : Queue[i] \in QueuedOps
    BY DEF Typed, Tasks, Queue
<1> QED BY <1>1, LegalIsOp DEF Pending, Tasks, QueuedOps

\* No call that is pending will begin a transaction by hand.
LEMMA PlainPending ==
    ASSUME Quiet
    PROVE  \A op \in Pending : op.kind \notin ByHand
BY DEF Quiet, NoByHandTask, NoByHandQueued, Pending, Queue

LEMMA Appended ==
    ASSUME NEW S, NEW s \in Seq(S), NEW x \in S
    PROVE  /\ Len(Append(s, x)) = Len(s) + 1
           /\ \A i \in 1..Len(s) : Append(s, x)[i] = s[i]
           /\ Append(s, x)[Len(s) + 1] = x
           /\ \A i \in 1..Len(Append(s, x)) : i \in 1..Len(s) \/ i = Len(s) + 1
           /\ \A i \in 1..Len(s) : i \in 1..Len(Append(s, x))
           /\ Len(s) + 1 \in 1..Len(Append(s, x)) /\ Len(s) \in Nat
<1>1. /\ Len(Append(s, x)) = Len(s) + 1 /\ Len(s) \in Nat
      /\ \A i \in 1..Len(s) : Append(s, x)[i] = s[i]
      /\ Append(s, x)[Len(s) + 1] = x
    OBVIOUS
<1> QED BY <1>1

LEMMA Removed ==
    ASSUME NEW S, NEW s \in Seq(S), s # <<>>
    PROVE  /\ Tail(s) \in Seq(S)
           /\ Len(Tail(s)) = Len(s) - 1 /\ Len(s) \in Nat
           /\ Head(s) = s[1] /\ 1 \in 1..Len(s) /\ Head(s) \in S
           /\ \A i \in 1..Len(Tail(s)) : Tail(s)[i] = s[i + 1] /\ i + 1 \in 1..Len(s)
           /\ \A i \in 1..Len(s) : i = 1 \/ i - 1 \in 1..Len(Tail(s))
OBVIOUS

\* A client sends a call.
LEMMA Sent ==
    ASSUME Typed, NEW op \in LegalOps, tasks' = Append(tasks, op), Queue' = Queue
    PROVE  /\ Pending' = Pending \cup {op}
           /\ \A i \in 1..Len(tasks) : tasks'[i] = tasks[i] /\ i \in 1..Len(tasks')
           /\ \A i \in 1..Len(tasks') :
                \/ i = Len(tasks) + 1 /\ tasks'[i] = op
                \/ i \in 1..Len(tasks) /\ tasks'[i] = tasks[i]
<1>1. /\ Len(tasks') = Len(tasks) + 1
      /\ \A i \in 1..Len(tasks) : tasks'[i] = tasks[i] /\ i \in 1..Len(tasks')
      /\ tasks'[Len(tasks) + 1] = op
      /\ \A i \in 1..Len(tasks') : i \in 1..Len(tasks) \/ i = Len(tasks) + 1
      /\ Len(tasks) + 1 \in 1..Len(tasks')
    BY Appended DEF Typed
<1>2. {tasks'[i] : i \in 1..Len(tasks')} = {tasks[i] : i \in 1..Len(tasks)} \cup {op}
    BY <1>1
<1>3. {Queue'[i] : i \in 1..Len(Queue')} = {Queue[i] : i \in 1..Len(Queue)}
    OBVIOUS
<1>4. IsOp(op)
    BY LegalIsOp
<1>5. \A x : x \in Pending' <=> (x \in Pending \/ x = op)
  <2> SUFFICES ASSUME NEW x PROVE x \in Pending' <=> (x \in Pending \/ x = op)
      OBVIOUS
  <2>1. x \in Pending' <=> ((\/ x \in {tasks'[i] : i \in 1..Len(tasks')}
                            \/ x \in {Queue'[i] : i \in 1..Len(Queue')}) /\ IsOp(x))
      BY DEF Pending, IsOp
  <2>2. x \in Pending <=> ((\/ x \in {tasks[i] : i \in 1..Len(tasks)}
                           \/ x \in {Queue[i] : i \in 1..Len(Queue)}) /\ IsOp(x))
      BY DEF Pending
  <2> QED BY <1>2, <1>3, <1>4, <2>1, <2>2
<1>6. Pending' = Pending \cup {op}
    BY <1>5
<1> QED BY <1>1, <1>6

\* A call that the client did not await, or the only one it awaits.
LEMMA SentApart ==
    ASSUME Typed, Apart, NEW op \in LegalOps, tasks' = Append(tasks, op), Queue' = Queue,
           life' = life,
           Awaited(op) => \A x \in Pending : Awaited(x) => x.client # op.client
    PROVE  Apart'
<1>1. \A x : Awaited(x)' <=> Awaited(x)
    BY DEF Awaited
<1>2. /\ \A i \in 1..Len(tasks') :
           \/ i = Len(tasks) + 1 /\ tasks'[i] = op
           \/ i \in 1..Len(tasks) /\ tasks'[i] = tasks[i]
      /\ \A i \in 1..Len(tasks) : Awaited(tasks[i]) => tasks[i] \in Pending
      /\ \A i \in 1..Len(Queue) : Queue[i] \in Pending
      /\ \A i \in 1..Len(Queue') : i \in 1..Len(Queue) /\ Queue'[i] = Queue[i]
    BY Sent, PendingLegal DEF Awaited
<1>3. ASSUME NEW i \in 1..Len(tasks'), NEW j \in 1..Len(tasks'),
             Awaited(tasks'[i]), Awaited(tasks'[j]), tasks'[i].client = tasks'[j].client
      PROVE  i = j
    BY <1>2, <1>3 DEF Apart
<1>4. ASSUME NEW i \in 1..Len(tasks'), NEW j \in 1..Len(Queue'),
             Awaited(tasks'[i]), Awaited(Queue'[j]), tasks'[i].client = Queue'[j].client
      PROVE  FALSE
    BY <1>2, <1>4 DEF Apart
<1>5. ASSUME NEW i \in 1..Len(Queue'), NEW j \in 1..Len(Queue'),
             Awaited(Queue'[i]), Awaited(Queue'[j]), Queue'[i].client = Queue'[j].client
      PROVE  i = j
    BY <1>2, <1>5 DEF Apart
<1> QED BY <1>1, <1>3, <1>4, <1>5 DEF Apart

LEMMA SentLast ==
    ASSUME Typed, EndIsLast, NEW op \in LegalOps, tasks' = Append(tasks, op), Queue' = Queue,
           late \subseteq late',
           \/ op.client \in late'
           \/ \A x \in Pending :
                 IsEnd(x) /\ x.tid # Forced /\ x.client = op.client => x.tid # op.tid
    PROVE  EndIsLast'
<1>1. /\ \A i \in 1..Len(tasks') :
           \/ i = Len(tasks) + 1 /\ tasks'[i] = op
           \/ i \in 1..Len(tasks) /\ tasks'[i] = tasks[i]
      /\ \A i \in 1..Len(tasks) : IsOp(tasks[i]) => tasks[i] \in Pending
      /\ \A i \in 1..Len(tasks) : i < Len(tasks) + 1
      /\ Len(tasks) \in Nat
    BY Sent, PendingLegal DEF Typed
<1>2. \A x : IsEnd(x) => IsOp(x)
    BY DEF IsEnd, IsOp
<1>3. ASSUME NEW i \in 1..Len(tasks'), NEW j \in 1..Len(tasks'),
             i < j, IsEnd(tasks'[i]), tasks'[i].tid # Forced, tasks'[i].client \notin late',
             IsOp(tasks'[j]), tasks'[j].client = tasks'[i].client
      PROVE  tasks'[j].tid # tasks'[i].tid
  <2>1. i \in 1..Len(tasks) /\ tasks'[i] = tasks[i] /\ tasks[i] \in Pending
      BY <1>1, <1>2, <1>3
  <2> QED BY <1>1, <1>3, <2>1 DEF EndIsLast
<1> QED BY <1>3 DEF EndIsLast, IsEnd, IsOp

\* The task at the head is over, and may have posted runQueuedOperations.
LEMMA Finished ==
    ASSUME Typed, Apart, EndIsLast, tasks # <<>>, UNCHANGED <<life, late>>, Queue' = Queue,
           tasks' = Tail(tasks) \/ tasks' = Append(Tail(tasks), RunQueuedOperations)
    PROVE  /\ Pending' \subseteq Pending
           /\ IsOp(Head(tasks)) => Head(tasks) \in Pending
           /\ Awaited(Head(tasks)) => \A x \in Pending' : Awaited(x) => x.client # Head(tasks).client
           /\ Apart' /\ EndIsLast'
           /\ IsEnd(Head(tasks)) /\ Head(tasks).tid # Forced /\ Head(tasks).client \notin late =>
                \A x \in Pending' : x.client = Head(tasks).client /\ x.tid = Head(tasks).tid
                                     => \E i \in 1..Len(Queue) : x = Queue[i]
<1> DEFINE op == tasks[1]
<1>1. /\ Head(tasks) = op /\ 1 \in 1..Len(tasks) /\ Len(tasks) \in Nat
      /\ \A i \in 1..Len(Tail(tasks)) :
           i \in Nat /\ Tail(tasks)[i] = tasks[i + 1] /\ i + 1 \in 1..Len(tasks)
      /\ Len(Tail(tasks)) = Len(tasks) - 1
      /\ Tail(tasks) \in Seq(Tasks)
    BY Removed DEF Typed, Tasks
<1>2. \A i \in 1..Len(tasks') :
        \/ ~IsOp(tasks'[i]) /\ ~IsEnd(tasks'[i])
        \/ i + 1 \in 1..Len(tasks) /\ tasks'[i] = tasks[i + 1] /\ i \in 1..Len(Tail(tasks))
  <2>1. CASE tasks' = Tail(tasks)
      BY <1>1, <2>1
  <2>2. CASE tasks' = Append(Tail(tasks), RunQueuedOperations)
    <3>1. RunQueuedOperations \in Tasks /\ ~IsOp(RunQueuedOperations) /\ ~IsEnd(RunQueuedOperations)
        BY DEF Tasks, IsOp, IsEnd, RunQueuedOperations
    <3>2. \A i \in 1..Len(tasks') :
            \/ tasks'[i] = RunQueuedOperations
            \/ i \in 1..Len(Tail(tasks)) /\ tasks'[i] = Tail(tasks)[i]
      <4> DEFINE t == Tail(tasks)
      <4>1. t \in Seq(Tasks) /\ tasks' = Append(t, RunQueuedOperations)
          BY <1>1, <2>2
      <4> HIDE DEF t
      <4>2. \A i \in 1..Len(tasks') :
              \/ tasks'[i] = RunQueuedOperations
              \/ i \in 1..Len(t) /\ tasks'[i] = t[i]
          BY <3>1, <4>1, Appended
      <4> QED BY <4>2 DEF t
    <3> QED BY <1>1, <3>1, <3>2
  <2> QED BY <2>1, <2>2
<1>3. /\ \A i \in 1..Len(tasks) : IsOp(tasks[i]) => tasks[i] \in Pending
      /\ \A i \in 1..Len(Queue) : Queue[i] \in Pending /\ IsOp(Queue[i])
      /\ \A x : IsEnd(x) => IsOp(x)
      /\ \A x : Awaited(x) => IsOp(x)
      /\ \A x : Awaited(x)' <=> Awaited(x)
      /\ Queue' = Queue
    BY PendingLegal DEF Awaited, IsEnd, IsOp, Pending
<1> HIDE DEF op
<1>4. \A x \in Pending' :
        \/ \E i \in 1..Len(tasks) : i # 1 /\ i > 1 /\ x = tasks[i] /\ IsOp(x)
        \/ \E i \in 1..Len(Queue) : x = Queue[i]
  <2> SUFFICES ASSUME NEW x \in Pending'
               PROVE  \/ \E i \in 1..Len(tasks) : i # 1 /\ i > 1 /\ x = tasks[i] /\ IsOp(x)
                      \/ \E i \in 1..Len(Queue) : x = Queue[i]
      OBVIOUS
  <2>1. /\ IsOp(x)
        /\ \/ \E i \in 1..Len(tasks') : x = tasks'[i]
           \/ \E i \in 1..Len(Queue') : x = Queue'[i]
      BY DEF Pending, IsOp
  <2>2. CASE \E i \in 1..Len(tasks') : x = tasks'[i]
    <3>1. PICK i \in 1..Len(tasks') : x = tasks'[i]
        BY <2>2
    <3>2. i + 1 \in 1..Len(tasks) /\ tasks'[i] = tasks[i + 1] /\ i \in 1..Len(Tail(tasks))
        BY <1>2, <2>1, <3>1
    <3>3. i + 1 # 1 /\ i + 1 > 1
        BY <3>2
    <3> QED BY <2>1, <3>1, <3>2, <3>3
  <2>3. CASE \E i \in 1..Len(Queue') : x = Queue'[i]
      BY <1>3, <2>3
  <2> QED BY <2>1, <2>2, <2>3
<1>5. Pending' \subseteq Pending
    BY <1>3, <1>4
<1>6. Awaited(op) => \A x \in Pending' : Awaited(x) => x.client # op.client
    BY <1>1, <1>4 DEF Apart, op
<1>7. IsEnd(op) /\ op.tid # Forced /\ op.client \notin late =>
        \A x \in Pending' : x.client = op.client /\ x.tid = op.tid => \E i \in 1..Len(Queue) : x = Queue[i]
    BY <1>1, <1>4 DEF EndIsLast, op
<1>8. Apart'
  <2>1. ASSUME NEW i \in 1..Len(tasks'), NEW j \in 1..Len(tasks'),
               Awaited(tasks'[i]), Awaited(tasks'[j]), tasks'[i].client = tasks'[j].client
        PROVE  i = j
    <3>1. /\ i + 1 \in 1..Len(tasks) /\ tasks'[i] = tasks[i + 1]
          /\ j + 1 \in 1..Len(tasks) /\ tasks'[j] = tasks[j + 1]
        BY <1>2, <1>3, <2>1
    <3>2. i + 1 = j + 1
        BY <2>1, <3>1 DEF Apart
    <3> QED BY <3>2
  <2>2. ASSUME NEW i \in 1..Len(tasks'), NEW j \in 1..Len(Queue),
               Awaited(tasks'[i]), Awaited(Queue[j]), tasks'[i].client = Queue[j].client
        PROVE  FALSE
    <3>1. i + 1 \in 1..Len(tasks) /\ tasks'[i] = tasks[i + 1]
        BY <1>2, <1>3, <2>2
    <3> QED BY <2>2, <3>1 DEF Apart
  <2> QED BY <1>3, <2>1, <2>2 DEF Apart
<1>9. EndIsLast'
  <2>1. ASSUME NEW i \in 1..Len(tasks'), NEW j \in 1..Len(tasks'),
               i < j, IsEnd(tasks'[i]), tasks'[i].tid # Forced, tasks'[i].client \notin late',
               IsOp(tasks'[j]), tasks'[j].client = tasks'[i].client
        PROVE  tasks'[j].tid # tasks'[i].tid
    <3>1. /\ i + 1 \in 1..Len(tasks) /\ tasks'[i] = tasks[i + 1]
          /\ j + 1 \in 1..Len(tasks) /\ tasks'[j] = tasks[j + 1]
          /\ i + 1 < j + 1
        BY <1>2, <1>3, <2>1
    <3> QED BY <2>1, <3>1 DEF EndIsLast
  <2> QED BY <2>1 DEF EndIsLast, IsEnd, IsOp
<1> QED BY <1>1, <1>3, <1>5, <1>6, <1>7, <1>8, <1>9

\* The task at the head goes to the queue.
LEMMA Moved ==
    ASSUME Typed, Apart, EndIsLast, tasks # <<>>, UNCHANGED <<life, late>>, Head(tasks) \in QueuedOps,
           tasks' = Tail(tasks), Queue' = Append(Queue, Head(tasks))
    PROVE  /\ Pending' = Pending /\ Head(tasks) \in Pending
           /\ Apart' /\ EndIsLast'
           /\ \A i \in 1..Len(Queue') :
                Queue'[i] = Head(tasks) \/ \E j \in 1..Len(Queue) : Queue'[i] = Queue[j]
<1> DEFINE op == tasks[1]
<1>1. /\ Head(tasks) = op /\ 1 \in 1..Len(tasks) /\ Len(tasks) \in Nat
      /\ \A i \in 1..Len(tasks') :
           i \in Nat /\ tasks'[i] = tasks[i + 1] /\ i + 1 \in 1..Len(tasks) /\ i + 1 # 1
      /\ \A i \in 1..Len(tasks) : i = 1 \/ i - 1 \in 1..Len(tasks')
    BY Removed DEF Typed, Tasks
<1>2. \A i \in 1..Len(tasks) : i = 1 \/ (i - 1 \in 1..Len(tasks') /\ tasks[i] = tasks'[i - 1])
    BY <1>1
<1>3. Queue \in Seq(QueuedOps) /\ op \in QueuedOps /\ IsOp(op)
    BY <1>1, LegalIsOp DEF Typed, Queue, QueuedOps
<1> HIDE DEF op
<1>4. /\ Len(Queue') = Len(Queue) + 1 /\ Len(Queue) \in Nat
      /\ \A i \in 1..Len(Queue) : Queue'[i] = Queue[i] /\ i \in 1..Len(Queue')
      /\ Queue'[Len(Queue) + 1] = op /\ Len(Queue) + 1 \in 1..Len(Queue')
      /\ \A i \in 1..Len(Queue') : i \in 1..Len(Queue) \/ i = Len(Queue) + 1
    BY <1>1, <1>3, Appended
<1>5. /\ \A i \in 1..Len(tasks) : IsOp(tasks[i]) => tasks[i] \in Pending
      /\ \A i \in 1..Len(Queue) : Queue[i] \in Pending /\ IsOp(Queue[i])
      /\ \A x : Awaited(x) => IsOp(x)
      /\ \A x : Awaited(x)' <=> Awaited(x)
    BY PendingLegal DEF Awaited, IsOp, Pending
<1>6. \A x : x \in Pending' <=> x \in Pending
  <2> SUFFICES ASSUME NEW x PROVE x \in Pending' <=> x \in Pending
      OBVIOUS
  <2>1. x \in Pending' <=> /\ \/ \E i \in 1..Len(tasks') : x = tasks'[i]
                              \/ \E i \in 1..Len(Queue') : x = Queue'[i]
                           /\ IsOp(x)
      BY DEF Pending, IsOp
  <2>2. x \in Pending <=> /\ \/ \E i \in 1..Len(tasks) : x = tasks[i]
                             \/ \E i \in 1..Len(Queue) : x = Queue[i]
                          /\ IsOp(x)
      BY DEF Pending
  <2>3. (\E i \in 1..Len(tasks) : x = tasks[i])
          <=> x = op \/ \E i \in 1..Len(tasks') : x = tasks'[i]
      BY <1>1, <1>2 DEF op
  <2>4. (\E i \in 1..Len(Queue') : x = Queue'[i])
          <=> x = op \/ \E i \in 1..Len(Queue) : x = Queue[i]
      BY <1>4
  <2> QED BY <2>1, <2>2, <2>3, <2>4
<1>7. Pending' = Pending /\ op \in Pending
    BY <1>1, <1>3, <1>5, <1>6 DEF op
<1>8. Apart'
  <2>1. ASSUME NEW i \in 1..Len(tasks'), NEW j \in 1..Len(tasks'),
               Awaited(tasks'[i]), Awaited(tasks'[j]), tasks'[i].client = tasks'[j].client
        PROVE  i = j
    <3>1. i + 1 = j + 1
        BY <1>1, <2>1 DEF Apart
    <3> QED BY <1>1, <3>1
  <2>2. ASSUME NEW i \in 1..Len(tasks'), NEW j \in 1..Len(Queue'),
               Awaited(tasks'[i]), Awaited(Queue'[j]), tasks'[i].client = Queue'[j].client
        PROVE  FALSE
    <3>1. CASE j \in 1..Len(Queue)
        BY <1>1, <1>4, <2>2, <3>1 DEF Apart
    <3>2. CASE j = Len(Queue) + 1
      <4>1. Awaited(tasks[1]) /\ Awaited(tasks[i + 1]) /\ tasks[i + 1].client = tasks[1].client
          BY <1>1, <1>4, <2>2, <3>2 DEF op
      <4> QED BY <1>1, <4>1 DEF Apart
    <3> QED BY <1>4, <3>1, <3>2
  <2>3. ASSUME NEW i \in 1..Len(Queue'), NEW j \in 1..Len(Queue'),
               Awaited(Queue'[i]), Awaited(Queue'[j]), Queue'[i].client = Queue'[j].client
        PROVE  i = j
    <3>1. CASE i \in 1..Len(Queue) /\ j \in 1..Len(Queue)
        BY <1>4, <2>3, <3>1 DEF Apart
    <3>2. CASE i \in 1..Len(Queue) /\ j = Len(Queue) + 1
      <4>1. Awaited(tasks[1]) /\ Awaited(Queue[i]) /\ Queue[i].client = tasks[1].client
          BY <1>4, <2>3, <3>2 DEF op
      <4> QED BY <1>1, <3>2, <4>1 DEF Apart
    <3>3. CASE j \in 1..Len(Queue) /\ i = Len(Queue) + 1
      <4>1. Awaited(tasks[1]) /\ Awaited(Queue[j]) /\ Queue[j].client = tasks[1].client
          BY <1>4, <2>3, <3>3 DEF op
      <4> QED BY <1>1, <3>3, <4>1 DEF Apart
    <3> QED BY <1>4, <3>1, <3>2, <3>3
  <2> QED BY <1>5, <2>1, <2>2, <2>3 DEF Apart
<1>9. EndIsLast'
  <2>1. ASSUME NEW i \in 1..Len(tasks'), NEW j \in 1..Len(tasks'),
               i < j, IsEnd(tasks'[i]), tasks'[i].tid # Forced, tasks'[i].client \notin late',
               IsOp(tasks'[j]), tasks'[j].client = tasks'[i].client
        PROVE  tasks'[j].tid # tasks'[i].tid
    <3>1. i + 1 < j + 1
        BY <1>1, <2>1
    <3> QED BY <1>1, <2>1, <3>1 DEF EndIsLast
  <2> QED BY <2>1 DEF EndIsLast, IsEnd, IsOp
<1> QED BY <1>1, <1>4, <1>7, <1>8, <1>9

\* The operation at the head of the queue is over.
LEMMA QueueFinished ==
    ASSUME Typed, Apart, EndIsLast, Queue # <<>>, UNCHANGED <<life, late>>, tasks' = tasks,
           Queue' = Tail(Queue)
    PROVE  /\ Pending' \subseteq Pending /\ Head(Queue) \in Pending
           /\ Awaited(Head(Queue)) => \A x \in Pending' : Awaited(x) => x.client # Head(Queue).client
           /\ Apart' /\ EndIsLast'
           /\ \A i \in 1..Len(Queue') : \E j \in 1..Len(Queue) : Queue'[i] = Queue[j]
<1> DEFINE op == Queue[1]
<1>1. /\ Head(Queue) = op /\ 1 \in 1..Len(Queue) /\ Len(Queue) \in Nat
      /\ \A i \in 1..Len(Queue') :
           i \in Nat /\ Queue'[i] = Queue[i + 1] /\ i + 1 \in 1..Len(Queue) /\ i + 1 # 1
    BY Removed DEF Typed, Queue
<1> HIDE DEF op
<1>2. /\ \A i \in 1..Len(tasks) : IsOp(tasks[i]) => tasks[i] \in Pending
      /\ \A i \in 1..Len(Queue) : Queue[i] \in Pending /\ IsOp(Queue[i])
      /\ \A x : Awaited(x) => IsOp(x)
      /\ \A x : Awaited(x)' <=> Awaited(x)
    BY PendingLegal DEF Awaited, IsOp, Pending
<1>3. \A x \in Pending' :
        \/ IsOp(x) /\ \E i \in 1..Len(tasks) : x = tasks[i]
        \/ \E i \in 1..Len(Queue) : i # 1 /\ x = Queue[i]
  <2> SUFFICES ASSUME NEW x \in Pending'
               PROVE  \/ IsOp(x) /\ \E i \in 1..Len(tasks) : x = tasks[i]
                      \/ \E i \in 1..Len(Queue) : i # 1 /\ x = Queue[i]
      OBVIOUS
  <2>1. /\ \/ \E i \in 1..Len(tasks') : x = tasks'[i]
           \/ \E i \in 1..Len(Queue') : x = Queue'[i]
        /\ IsOp(x)
      BY DEF Pending, IsOp
  <2> QED BY <1>1, <2>1
<1>4. Pending' \subseteq Pending /\ op \in Pending
    BY <1>1, <1>2, <1>3 DEF op
<1>5. Awaited(op) => \A x \in Pending' : Awaited(x) => x.client # op.client
    BY <1>1, <1>3 DEF Apart, op
<1>6. Apart'
  <2>1. ASSUME NEW i \in 1..Len(tasks), NEW j \in 1..Len(Queue'),
               Awaited(tasks[i]), Awaited(Queue'[j]), tasks[i].client = Queue'[j].client
        PROVE  FALSE
      BY <1>1, <2>1 DEF Apart
  <2>2. ASSUME NEW i \in 1..Len(Queue'), NEW j \in 1..Len(Queue'),
               Awaited(Queue'[i]), Awaited(Queue'[j]), Queue'[i].client = Queue'[j].client
        PROVE  i = j
    <3>1. i + 1 = j + 1
        BY <1>1, <2>2 DEF Apart
    <3> QED BY <1>1, <3>1
  <2>3. \A i, j \in 1..Len(tasks) :
          Awaited(tasks[i]) /\ Awaited(tasks[j]) /\ tasks[i].client = tasks[j].client => i = j
      BY DEF Apart
  <2> QED BY <1>2, <2>1, <2>2, <2>3 DEF Apart
<1>7. EndIsLast'
    BY DEF EndIsLast, IsEnd, IsOp
<1> QED BY <1>1, <1>4, <1>5, <1>6, <1>7

\* Nothing is sent and nothing runs; a client may have restarted.
LEMMA Waiting ==
    ASSUME Typed, tasks' = tasks, Queue' = Queue
    PROVE  /\ Pending' = Pending
           /\ late' = late => (EndIsLast => EndIsLast')
           /\ Apart /\ (\A x \in Pending : Awaited(x)' => Awaited(x)) => Apart'
<1>1. Pending' = Pending
    BY DEF Pending, IsOp
<1>2. late' = late => (EndIsLast => EndIsLast')
    BY DEF EndIsLast, IsEnd, IsOp
<1>3. ASSUME Apart, \A x \in Pending : Awaited(x)' => Awaited(x)
      PROVE  Apart'
  <2>1. \A i \in 1..Len(tasks) : IsOp(tasks[i]) => tasks[i] \in Pending
      BY PendingLegal
  <2>2. \A i \in 1..Len(Queue) : Queue[i] \in Pending
      BY PendingLegal
  <2>3. \A x : Awaited(x)' => IsOp(x)
      BY DEF Awaited, IsOp
  <2>4. /\ \A i \in 1..Len(tasks) : Awaited(tasks[i])' => Awaited(tasks[i])
        /\ \A i \in 1..Len(Queue) : Awaited(Queue[i])' => Awaited(Queue[i])
    <3>1. \A x : Awaited(x)' /\ x \in Pending => Awaited(x)
        BY <1>3
    <3>2. /\ \A i \in 1..Len(tasks) : Awaited(tasks[i])' => IsOp(tasks[i])
          /\ tasks' = tasks /\ Queue' = Queue
        BY <2>3 DEF Awaited, IsOp
    <3> QED BY <1>3, <2>1, <2>2, <3>2
  <2> QED BY <1>3, <2>4 DEF Apart
<1> QED BY <1>1, <1>2, <1>3

-----------------------------------------------------------------------------
(* The steps of the clients *)

NewOp(c, kind, tid) == [client |-> c, life |-> life[c], tid |-> tid, kind |-> kind]

\* A client that waits for nothing sends a call and awaits it.
AwaitsCall(c, kind, tid, state) ==
    /\ pc[c] \in {"idle", "active", "restarted"}
    /\ InTxn(state) <=> pc[c] = "active"
    /\ AwaitedIn(NewOp(c, kind, tid), state, txnId[c])
    /\ tid \in {Forced, NoId} \/ (tid = txnId[c] /\ pc[c] = "active")
    /\ tid = Forced => pc[c] = "restarted"
    /\ late' = late

\* Or the call is a statement of its transaction, which may be ending.
OfTxn(c, kind, tid, state) ==
    /\ InTxn(pc[c]) /\ state = pc[c]
    /\ kind \in {"write", "batch"} /\ tid = txnId[c]
    /\ late' = IF pc[c] \in {"active", "awaiting"} THEN late ELSE late \cup {c}

Sends(c, kind, tid, state) ==
    /\ Send(c, kind, tid) /\ pc' = [pc EXCEPT ![c] = state]
    /\ UNCHANGED <<txnId, life, reply, succeeded, failed, byHand>> /\ NativeUnchanged
    /\ AwaitsCall(c, kind, tid, state) \/ OfTxn(c, kind, tid, state)
    /\ kind = "begin" => tid = NoId
    /\ tid = Forced => kind = "rollback"
    /\ kind \in {"commit", "rollback"} => tid # NoId

LEMMA SendKeeps ==
    ASSUME OutcomeInv, NEW c \in Clients, NEW state \in States,
           NEW tid \in {Forced} \cup Nat, NEW kind \in PlainKinds,
           Sends(c, kind, tid, state)
    PROVE  OutcomeInv'
<1> USE DEF Sends
<1> PICK op : op = NewOp(c, kind, tid)
    OBVIOUS
<1>1. /\ op \in LegalOps /\ IsOp(op) /\ op.client = c /\ op.life = life[c]
      /\ op.tid = tid /\ op.kind = kind
  <2>1. kind \in Kinds
      BY PlainAreKinds
  <2>2. op \in LegalOps /\ op.client = c /\ op.life = life[c] /\ op.tid = tid /\ op.kind = kind
      BY <2>1 DEF LegalOps, NewOp, OutcomeInv, Inv, Typed
  <2> QED BY <2>2, LegalIsOp
<1>2. tasks' = Append(tasks, op) /\ Queue' = Queue
    BY DEF Send, NewOp, NativeUnchanged, Queue
<1>3. /\ UNCHANGED <<txnId, life, reply, succeeded, failed>>
      /\ UNCHANGED <<currentTransactionId, lastTransactionId, sessionOpen, sqliteOpen,
                     uncommitted, committed, lost>>
    BY DEF NativeUnchanged, gateVars, sqliteVars
<1>4. Inv' /\ Quiet'
    BY SendKeepsInv, PlainAreKinds DEF OutcomeInv
<1>5. Pending' = Pending \cup {op}
    BY <1>1, <1>2, Sent DEF OutcomeInv, Inv
<1>6. /\ pc'[c] = state /\ \A d \in Clients : d # c => pc'[d] = pc[d]
      /\ pc' \in [Clients -> States]
    BY DEF OutcomeInv, Recorded
<1>7. ASSUME AwaitsCall(c, kind, tid, state)
      PROVE  /\ \A x \in Pending : Awaited(x) => x.client # c
             /\ reply[c] = NoReply /\ ~reply[c].ok
  <2>1. \A x \in Pending : Awaited(x) => x.client # c
      BY <1>7 DEF AwaitsCall, OutcomeInv, InFlight, AwaitedIn
  <2>2. reply[c] = NoReply
      BY <1>7 DEF AwaitsCall, OutcomeInv, InFlight, Awaiting
  <2> QED BY <2>1, <2>2 DEF NoReply
<1>8. ASSUME OfTxn(c, kind, tid, state)
      PROVE  /\ pc' = pc /\ ~Awaited(op) /\ ~IsEnd(op) /\ txnId[c] # NoId
             /\ c \in late' \/ pc[c] \in {"active", "awaiting"}
  <2>1. pc' = pc /\ txnId[c] # NoId
      BY <1>8 DEF OfTxn, OutcomeInv, Recorded, TxnIds
  <2> QED BY <1>1, <1>8, <2>1 DEF OfTxn, Awaited, IsEnd
<1>9. \A x \in Pending : x \in LegalOps /\ IsOp(x) /\ x.client \in Clients
    BY PendingLegal, LegalIsOp DEF OutcomeInv, Inv, LegalOps
<1>10. Recorded' /\ late \subseteq late'
    BY <1>3, <1>6 DEF OutcomeInv, Recorded, AwaitsCall, OfTxn
<1>11. Apart'
    BY <1>1, <1>2, <1>3, <1>7, <1>8, SentApart DEF OutcomeInv, Inv
<1>12. pc[c] = "active" => txnId[c] # NoId /\ txnId[c] # Forced
    BY DEF OutcomeInv, TxnIds, InTxn, Inv, Typed, Forced
<1>13. EndIsLast'
  <2>1. op.client \in late' \/
        \A x \in Pending : IsEnd(x) /\ x.tid # Forced /\ x.client = op.client => x.tid # op.tid
    <3>1. CASE AwaitsCall(c, kind, tid, state)
        BY <1>1, <3>1 DEF AwaitsCall, OutcomeInv, Running, TxnIds
    <3>2. CASE OfTxn(c, kind, tid, state)
        BY <1>1, <1>8, <3>2 DEF OfTxn, OutcomeInv, Running
    <3> QED BY <3>1, <3>2
  <2> QED BY <1>1, <1>2, <1>10, <2>1, SentLast DEF OutcomeInv, Inv
<1>14. InFlight'
  <2>1. ASSUME NEW x \in Pending'
        PROVE  /\ x.life <= life'[x.client]
               /\ Awaited(x)' => /\ reply'[x.client] = NoReply
                                 /\ AwaitedIn(x, pc'[x.client], txnId'[x.client])
    <3>1. CASE x \in Pending
        BY <1>3, <1>6, <1>7, <1>8, <1>9, <3>1 DEF OutcomeInv, InFlight, Awaited
    <3>2. CASE x = op
      <4>1. x.life <= life'[x.client]
          BY <1>1, <1>3, <3>2 DEF OutcomeInv, Inv, Typed
      <4>2. Awaited(x)' => AwaitsCall(c, kind, tid, state)
          BY <1>1, <1>3, <1>8, <3>2 DEF Awaited
      <4>3. Awaited(x)' => reply'[x.client] = NoReply
          BY <1>1, <1>3, <1>7, <3>2, <4>2
      <4>4. Awaited(x)' => AwaitedIn(x, pc'[x.client], txnId'[x.client])
          BY <1>1, <1>3, <1>6, <3>2, <4>2 DEF AwaitsCall
      <4> QED BY <4>1, <4>3, <4>4
    <3> QED BY <1>5, <3>1, <3>2
  <2>2. ASSUME NEW d \in Clients, reply'[d] # NoReply PROVE pc'[d] \in Awaiting
      BY <1>3, <1>6, <1>7, <1>8, <2>2 DEF OutcomeInv, InFlight
  <2> QED BY <2>1, <2>2 DEF InFlight
<1>15. TxnIds'
  <2>1. \A d \in Clients : InTxn(pc'[d]) <=> txnId'[d] # NoId
      BY <1>3, <1>6, <1>8 DEF AwaitsCall, OutcomeInv, TxnIds, InTxn
  <2>2. \A d \in Clients :
          pc'[d] = "beginning" /\ reply'[d] # NoReply => (reply'[d].ok <=> reply'[d].id # NoId)
      BY <1>3, <1>6, <1>7, <1>8 DEF OutcomeInv, TxnIds
  <2>3. \A x \in Pending' : IsEnd(x) => x.tid # NoId
      BY <1>1, <1>5 DEF OutcomeInv, TxnIds, IsEnd
  <2> QED BY <1>3, <2>1, <2>2, <2>3 DEF OutcomeInv, TxnIds, InTxn, IsEnd
<1>16. Known'
  <2>1. tid <= lastTransactionId
      BY DEF AwaitsCall, OfTxn, OutcomeInv, Known, Inv, Typed, NoId, Forced
  <2> QED BY <1>1, <1>3, <1>5, <2>1 DEF OutcomeInv, Known
<1>17. Fresh'
  <2>1. \A d \in Clients : Begun(d)' => d # c /\ Begun(d)
      BY <1>3, <1>6, <1>7, <1>8 DEF Begun, OfTxn, InTxn
  <2> QED BY <1>1, <1>3, <1>5, <2>1 DEF OutcomeInv, Fresh, Begun
<1>18. Running'
  <2>1. state \in {"active", "awaiting"} => ~IsEnd(op) /\ pc[c] \in {"active", "awaiting"}
      BY <1>1, <1>8 DEF AwaitsCall, OfTxn, AwaitedIn, IsEnd, NewOp, InTxn
  <2>2. ASSUME NEW d \in Clients, pc'[d] \in {"active", "awaiting"}, NEW x \in Pending',
               IsEnd(x), x.client = d
        PROVE  x.tid # txnId'[d]
    <3>1. CASE d = c
      <4>1. pc[c] \in {"active", "awaiting"} /\ x \in Pending
          BY <1>5, <1>6, <2>1, <2>2, <3>1
      <4> QED BY <1>3, <2>2, <3>1, <4>1 DEF OutcomeInv, Running
    <3>2. CASE d # c
      <4>1. x \in Pending /\ pc[d] \in {"active", "awaiting"}
          BY <1>1, <1>5, <1>6, <2>2, <3>2
      <4> QED BY <1>3, <2>2, <4>1 DEF OutcomeInv, Running
    <3> QED BY <3>1, <3>2
  <2>3. \A d \in Clients : InTxn(pc'[d]) => InTxn(pc[d])
      BY <1>6, <1>8 DEF AwaitsCall, InTxn
  <2>4. \A d \in Clients : InTxn(pc'[d]) => <<d, txnId'[d]>> \notin succeeded' \cup failed'
      BY <1>3, <2>3 DEF OutcomeInv, Running
  <2> QED BY <2>2, <2>4 DEF Running, IsEnd, InTxn
<1>19. NotQueued' /\ LostIsOver'
    BY <1>2, <1>3 DEF OutcomeInv, NotQueued, LostIsOver
<1>20. Over'
  <2>1. ASSUME NEW d \in Clients \ late', NEW id \in 1..lastTransactionId, Done(d, id)'
        PROVE  Done(d, id) /\ (d = c => <<c, id>> \in succeeded /\ pc[c] # "committing")
    <3>1. CASE <<d, id>> \in succeeded' /\ d # c
        BY <1>3, <3>1 DEF Done
    <3>2. CASE pc'[d] = "committing" /\ reply'[d].ok /\ txnId'[d] = id /\ d # c
        BY <1>3, <1>6, <3>2 DEF Done
    <3>3. CASE AwaitsCall(c, kind, tid, state) /\ d = c
        BY <1>3, <1>7, <2>1, <3>3 DEF Done, AwaitsCall
    <3>4. CASE OfTxn(c, kind, tid, state) /\ d = c
        BY <1>3, <1>8, <2>1, <3>4 DEF Done
    <3> QED BY <2>1, <3>1, <3>2, <3>3, <3>4 DEF Done
  <2>2. ASSUME NEW id \in 1..lastTransactionId, <<c, id>> \in succeeded
        PROVE  tid # id
    <3>1. id # NoId /\ id # Forced
        BY DEF NoId, Forced
    <3> QED BY <2>2, <3>1 DEF AwaitsCall, OfTxn, OutcomeInv, Running, InTxn
  <2>3. ASSUME NEW d \in Clients \ late', NEW id \in 1..lastTransactionId', Done(d, id)'
        PROVE  /\ \A x \in Pending' : x.client = d => x.tid # id
               /\ id # currentTransactionId'
               /\ <<d, id>> \notin lost' \cup uncommitted'
    <3>1. Done(d, id) /\ (d = c => tid # id) /\ d \in Clients \ late
        BY <1>3, <1>10, <2>1, <2>2, <2>3
    <3> QED BY <1>1, <1>3, <1>5, <2>3, <3>1 DEF OutcomeInv, Over
  <2> QED BY <2>3 DEF Over
<1> QED
  BY <1>4, <1>10, <1>11, <1>13, <1>14, <1>15, <1>16, <1>17, <1>18, <1>19, <1>20 DEF OutcomeInv

LEMMA CallsSend ==
    ASSUME OutcomeInv, NEW c \in Clients,
           \/ CallWrite(c) \/ CallBatch(c) \/ BeginTransaction(c)
           \/ TxnWrite(c) \/ TxnBatch(c) \/ TxnCloseCursor(c)
           \/ EndTransaction(c, "commit") \/ EndTransaction(c, "rollback")
    PROVE  \E kind \in PlainKinds, tid \in Nat, state \in States :
              Sends(c, kind, tid, state) /\ pc[c] # "restarted"
<1> DEFINE Goal(kind, tid, state) == Sends(c, kind, tid, state) /\ pc[c] # "restarted"
<1> USE DEF history
<1>0. /\ txnId[c] \in Nat /\ NoId \in Nat /\ Forced \notin Nat
      /\ pc[c] = "active" => txnId[c] # NoId /\ pc = [pc EXCEPT ![c] = "active"]
      /\ pc[c] = "active" => txnId[c] # Forced /\ NoId # Forced
    BY DEF OutcomeInv, Inv, Typed, NoId, Forced, TxnIds, InTxn, Recorded
<1>1. CASE CallWrite(c)
  <2>1. /\ Send(c, "write", NoId) /\ UNCHANGED <<txnId, life, reply, history>>
        /\ NativeUnchanged /\ pc[c] = "idle" /\ pc' = [pc EXCEPT ![c] = "waiting"]
      BY <1>1 DEF CallWrite, Invoke, GoTo
  <2>2. AwaitedIn(NewOp(c, "write", NoId), "waiting", txnId[c])
      BY DEF AwaitedIn, NewOp
  <2>3. Goal("write", NoId, "waiting")
      BY <1>0, <2>1, <2>2 DEF Sends, AwaitsCall, InTxn, NoId, Forced
  <2> QED BY <1>0, <2>3 DEF PlainKinds, States
<1>2. CASE CallBatch(c)
  <2>1. /\ Send(c, "batch", NoId) /\ UNCHANGED <<txnId, life, reply, history>>
        /\ NativeUnchanged /\ pc[c] = "idle" /\ pc' = [pc EXCEPT ![c] = "waiting"]
      BY <1>2 DEF CallBatch, Invoke, GoTo
  <2>2. AwaitedIn(NewOp(c, "batch", NoId), "waiting", txnId[c])
      BY DEF AwaitedIn, NewOp
  <2>3. Goal("batch", NoId, "waiting")
      BY <1>0, <2>1, <2>2 DEF Sends, AwaitsCall, InTxn, NoId, Forced
  <2> QED BY <1>0, <2>3 DEF PlainKinds, States
<1>3. CASE BeginTransaction(c)
  <2>1. /\ Send(c, "begin", NoId) /\ UNCHANGED <<txnId, life, reply, history>>
        /\ NativeUnchanged /\ pc[c] = "idle" /\ pc' = [pc EXCEPT ![c] = "beginning"]
      BY <1>3 DEF BeginTransaction, Invoke, GoTo
  <2>2. AwaitedIn(NewOp(c, "begin", NoId), "beginning", txnId[c])
      BY DEF AwaitedIn, NewOp
  <2>3. Goal("begin", NoId, "beginning")
      BY <1>0, <2>1, <2>2 DEF Sends, AwaitsCall, InTxn, NoId, Forced
  <2> QED BY <1>0, <2>3 DEF PlainKinds, States
<1>4. CASE TxnCloseCursor(c)
  <2>1. /\ Send(c, "cancel", NoId) /\ UNCHANGED <<txnId, life, reply, history>>
        /\ NativeUnchanged /\ pc[c] = "active" /\ pc' = [pc EXCEPT ![c] = "awaiting"]
      BY <1>4 DEF TxnCloseCursor, Invoke, GoTo
  <2>2. AwaitedIn(NewOp(c, "cancel", NoId), "awaiting", txnId[c])
      BY DEF AwaitedIn, NewOp
  <2>3. Goal("cancel", NoId, "awaiting")
      BY <1>0, <2>1, <2>2 DEF Sends, AwaitsCall, InTxn, NoId, Forced
  <2> QED BY <1>0, <2>3 DEF PlainKinds, States
<1>5. CASE EndTransaction(c, "commit")
  <2>1. /\ Send(c, "commit", txnId[c]) /\ UNCHANGED <<txnId, life, reply, history>>
        /\ NativeUnchanged /\ pc[c] = "active" /\ pc' = [pc EXCEPT ![c] = "committing"]
      BY <1>5 DEF EndTransaction, Invoke, GoTo
  <2>2. AwaitedIn(NewOp(c, "commit", txnId[c]), "committing", txnId[c])
      BY DEF AwaitedIn, NewOp
  <2>3. Goal("commit", txnId[c], "committing")
      BY <1>0, <2>1, <2>2 DEF Sends, AwaitsCall, InTxn, NoId, Forced
  <2> QED BY <1>0, <2>3 DEF PlainKinds, States
<1>6. CASE EndTransaction(c, "rollback")
  <2>1. /\ Send(c, "rollback", txnId[c]) /\ UNCHANGED <<txnId, life, reply, history>>
        /\ NativeUnchanged /\ pc[c] = "active" /\ pc' = [pc EXCEPT ![c] = "rollingBack"]
      BY <1>6 DEF EndTransaction, Invoke, GoTo
  <2>2. AwaitedIn(NewOp(c, "rollback", txnId[c]), "rollingBack", txnId[c])
      BY DEF AwaitedIn, NewOp
  <2>3. Goal("rollback", txnId[c], "rollingBack")
      BY <1>0, <2>1, <2>2 DEF Sends, AwaitsCall, InTxn, NoId, Forced
  <2> QED BY <1>0, <2>3 DEF PlainKinds, States
<1>7. ASSUME NEW kind \in {"write", "batch"}, TxnCall(c, kind)
      PROVE  Goal(kind, txnId[c], pc[c]) /\ pc[c] \in States
  <2>1. /\ Send(c, kind, txnId[c]) /\ pc' = [pc EXCEPT ![c] = pc[c]]
        /\ UNCHANGED <<txnId, life, reply, succeeded, failed, byHand>> /\ NativeUnchanged
        /\ InTxn(pc[c]) /\ pc[c] # "restarted" /\ pc[c] \in States
      BY <1>7 DEF TxnCall, Invoke, InTxn, OutcomeInv, Recorded
  <2>2. OfTxn(c, kind, txnId[c], pc[c])
      BY <1>7, <2>1 DEF OfTxn, TxnCall
  <2> QED BY <1>0, <1>7, <2>1, <2>2 DEF Sends
<1>8. CASE TxnWrite(c)
    BY <1>0, <1>7, <1>8 DEF TxnWrite, PlainKinds
<1>9. CASE TxnBatch(c)
    BY <1>0, <1>7, <1>9 DEF TxnBatch, PlainKinds
<1> QED
  BY <1>1, <1>2, <1>3, <1>4, <1>5, <1>6, <1>8, <1>9

\* Nothing of the native side is in these steps.
LEMMA LocalFacts ==
    ASSUME OutcomeInv, UNCHANGED <<tasks, late>>, NativeUnchanged
    PROVE  /\ tasks' = tasks /\ Queue' = Queue /\ Pending' = Pending
           /\ UNCHANGED <<currentTransactionId, lastTransactionId, sessionOpen, sqliteOpen,
                          uncommitted, committed, lost>>
           /\ EndIsLast' /\ NotQueued' /\ LostIsOver'
           /\ (\A x \in Pending : Awaited(x)' => Awaited(x)) => Apart'
<1>1. /\ tasks' = tasks /\ Queue' = Queue
      /\ UNCHANGED <<currentTransactionId, lastTransactionId, sessionOpen, sqliteOpen,
                     uncommitted, committed, lost>>
    BY DEF NativeUnchanged, gateVars, sqliteVars, Queue
<1>2. /\ Pending' = Pending /\ EndIsLast'
      /\ (\A x \in Pending : Awaited(x)' => Awaited(x)) => Apart'
    BY <1>1, Waiting DEF OutcomeInv, Inv
<1>3. NotQueued' /\ LostIsOver'
    BY <1>1 DEF OutcomeInv, NotQueued, LostIsOver
<1> QED BY <1>1, <1>2, <1>3

\* The client is no longer what it was; its calls are of an earlier life.
LEMMA RestartKeepsOutcome ==
    ASSUME OutcomeInv, NEW c \in Clients, Restart(c)
    PROVE  OutcomeInv'
<1>1. /\ pc' = [pc EXCEPT ![c] = "restarted"]
      /\ life' = [life EXCEPT ![c] = @ + 1]
      /\ txnId' = [txnId EXCEPT ![c] = NoId]
      /\ reply' = [reply EXCEPT ![c] = NoReply]
      /\ UNCHANGED <<tasks, succeeded, failed, late>> /\ NativeUnchanged
    BY DEF Restart, GoTo, history
<1>2. /\ pc'[c] = "restarted" /\ life'[c] = life[c] + 1 /\ life[c] \in Nat
      /\ txnId'[c] = NoId /\ reply'[c] = NoReply /\ ~reply'[c].ok /\ reply'[c].id = Forced
      /\ \A d \in Clients : d # c => /\ pc'[d] = pc[d] /\ life'[d] = life[d]
                                     /\ txnId'[d] = txnId[d] /\ reply'[d] = reply[d]
      /\ pc' \in [Clients -> States]
    BY <1>1 DEF OutcomeInv, Recorded, Inv, Typed, NoReply, States
<1>3. \A x \in Pending : x \in LegalOps /\ IsOp(x) /\ x.client \in Clients /\ x.life \in Nat
    BY PendingLegal, LegalIsOp DEF OutcomeInv, Inv, LegalOps
<1>4. \A x \in Pending : /\ x.life <= life[x.client]
                         /\ Awaited(x)' => x.client # c /\ Awaited(x)
  <2>1. \A x \in Pending : x.life <= life[x.client]
      BY DEF OutcomeInv, InFlight
  <2>2. ASSUME NEW x \in Pending, Awaited(x)' PROVE x.client # c /\ Awaited(x)
      BY <1>2, <1>3, <2>1, <2>2 DEF Awaited, IsOp
  <2> QED BY <2>1, <2>2
<1>5. /\ tasks' = tasks /\ Queue' = Queue /\ Pending' = Pending
      /\ UNCHANGED <<currentTransactionId, lastTransactionId, sessionOpen, sqliteOpen,
                     uncommitted, committed, lost>>
      /\ EndIsLast' /\ NotQueued' /\ LostIsOver' /\ Apart'
    BY <1>1, <1>4, LocalFacts
<1>6. Inv' /\ Quiet'
    BY RestartKeepsInv DEF OutcomeInv
<1>7. Recorded'
    BY <1>1, <1>2, <1>5 DEF OutcomeInv, Recorded
<1>8. InFlight'
  <2>1. ASSUME NEW x \in Pending'
        PROVE  /\ x.life <= life'[x.client]
               /\ Awaited(x)' => /\ reply'[x.client] = NoReply
                                 /\ AwaitedIn(x, pc'[x.client], txnId'[x.client])
    <3>1. x \in Pending /\ x.client \in Clients /\ x.life <= life[x.client] /\ x.life \in Nat
        BY <1>3, <1>4, <1>5
    <3>2. x.life <= life'[x.client]
        BY <1>2, <3>1
    <3>3. Awaited(x)' => /\ reply'[x.client] = NoReply
                         /\ AwaitedIn(x, pc'[x.client], txnId'[x.client])
        BY <1>2, <1>4, <3>1 DEF OutcomeInv, InFlight
    <3> QED BY <3>2, <3>3
  <2>2. ASSUME NEW d \in Clients, reply'[d] # NoReply PROVE pc'[d] \in Awaiting
      BY <1>2, <2>2 DEF OutcomeInv, InFlight
  <2> QED BY <2>1, <2>2 DEF InFlight
<1>9. TxnIds'
  <2>1. \A d \in Clients : InTxn(pc'[d]) <=> txnId'[d] # NoId
      BY <1>2 DEF OutcomeInv, TxnIds, InTxn
  <2>2. \A d \in Clients :
          pc'[d] = "beginning" /\ reply'[d] # NoReply => (reply'[d].ok <=> reply'[d].id # NoId)
      BY <1>2 DEF OutcomeInv, TxnIds
  <2> QED BY <1>1, <1>5, <2>1, <2>2 DEF OutcomeInv, TxnIds, InTxn, IsEnd
<1>10. Known'
  <2>1. NoId <= lastTransactionId /\ Forced <= lastTransactionId
      BY DEF OutcomeInv, Inv, Typed, NoId, Forced
  <2>2. \A d \in Clients : txnId'[d] <= lastTransactionId /\ reply'[d].id <= lastTransactionId
      BY <1>2, <2>1 DEF OutcomeInv, Known
  <2> QED BY <1>1, <1>5, <2>2 DEF OutcomeInv, Known
<1>11. Fresh'
  <2>1. \A d \in Clients : Begun(d)' => d # c /\ Begun(d) /\ reply'[d] = reply[d]
      BY <1>2 DEF Begun
  <2> QED BY <1>1, <1>5, <2>1 DEF OutcomeInv, Fresh, Begun
<1>12. Running'
  <2>1. \A d \in Clients :
          InTxn(pc'[d]) => d # c /\ pc'[d] = pc[d] /\ txnId'[d] = txnId[d]
      BY <1>2 DEF InTxn
  <2>2. \A d \in Clients : pc'[d] \in {"active", "awaiting"} => InTxn(pc'[d])
      BY DEF InTxn
  <2> QED BY <1>1, <1>5, <2>1, <2>2 DEF OutcomeInv, Running, InTxn, IsEnd
<1>13. Over'
  <2>1. \A d \in Clients : \A id \in 1..lastTransactionId : Done(d, id)' => Done(d, id)
      BY <1>1, <1>2 DEF Done
  <2> QED BY <1>1, <1>5, <2>1 DEF OutcomeInv, Over, Done
<1> QED
  BY <1>5, <1>6, <1>7, <1>8, <1>9, <1>10, <1>11, <1>12, <1>13 DEF OutcomeInv

LEMMA ReopenKeepsOutcome ==
    ASSUME OutcomeInv, NEW c \in Clients, Reopen(c)
    PROVE  OutcomeInv'
<1>1. /\ pc[c] = "restarted"
      /\ UNCHANGED <<txnId, life, reply, history>> /\ NativeUnchanged
      /\ \/ Send(c, "rollback", Forced) /\ pc' = [pc EXCEPT ![c] = "reopening"]
         \/ pc' = [pc EXCEPT ![c] = "idle"] /\ UNCHANGED tasks
    BY DEF Reopen, GoTo
<1>2. CASE Send(c, "rollback", Forced) /\ pc' = [pc EXCEPT ![c] = "reopening"]
  <2>1. AwaitedIn(NewOp(c, "rollback", Forced), "reopening", txnId[c])
    BY DEF AwaitedIn, NewOp
  <2>2. Forced # NoId
    BY DEF Forced, NoId
  <2>3. Sends(c, "rollback", Forced, "reopening")
    BY <1>1, <1>2, <2>1, <2>2 DEF Sends, AwaitsCall, InTxn, history
  <2> QED
    BY <2>3, SendKeeps DEF PlainKinds, States
<1>3. CASE pc' = [pc EXCEPT ![c] = "idle"] /\ UNCHANGED tasks
  <2>1. /\ pc'[c] = "idle" /\ \A d \in Clients : d # c => pc'[d] = pc[d]
        /\ pc' \in [Clients -> States]
      BY <1>3 DEF OutcomeInv, Recorded, States
  <2>2. UNCHANGED <<txnId, life, reply, succeeded, failed, late>>
      BY <1>1 DEF history
  <2>3. \A x : Awaited(x)' => Awaited(x)
      BY <2>2 DEF Awaited, IsOp
  <2>4. /\ tasks' = tasks /\ Queue' = Queue /\ Pending' = Pending
        /\ UNCHANGED <<currentTransactionId, lastTransactionId, sessionOpen, sqliteOpen,
                       uncommitted, committed, lost>>
        /\ EndIsLast' /\ NotQueued' /\ LostIsOver' /\ Apart'
      BY <1>1, <1>3, <2>2, <2>3, LocalFacts
  <2>5. Inv' /\ Quiet'
      BY ReopenKeepsInv DEF OutcomeInv
  <2>6. Recorded'
      BY <2>1, <2>2, <2>4 DEF OutcomeInv, Recorded
  <2>7. reply[c] = NoReply /\ \A x \in Pending : Awaited(x) => x.client # c
      BY <1>1 DEF OutcomeInv, InFlight, Awaiting, AwaitedIn
  <2>8. \A x \in Pending : x.client \in Clients
      BY PendingLegal DEF OutcomeInv, Inv, LegalOps
  <2>9. InFlight'
      BY <2>1, <2>2, <2>3, <2>4, <2>7, <2>8 DEF OutcomeInv, InFlight, Awaited
  <2>10. TxnIds'
    <3>1. \A d \in Clients : InTxn(pc'[d]) <=> InTxn(pc[d])
        BY <1>1, <2>1 DEF InTxn
    <3>2. \A d \in Clients : pc'[d] = "beginning" => pc[d] = "beginning"
        BY <2>1
    <3> QED BY <2>2, <2>4, <3>1, <3>2 DEF OutcomeInv, TxnIds, IsEnd, InTxn
  <2>11. Known'
      BY <2>2, <2>4 DEF OutcomeInv, Known
  <2>12. Fresh'
    <3>1. \A d \in Clients : Begun(d)' => Begun(d)
        BY <2>1, <2>2 DEF Begun
    <3> QED BY <2>2, <2>4, <3>1 DEF OutcomeInv, Fresh, Begun
  <2>13. Running'
    <3>1. \A d \in Clients : InTxn(pc'[d]) => pc'[d] = pc[d]
        BY <2>1 DEF InTxn
    <3>2. \A d \in Clients : pc'[d] \in {"active", "awaiting"} => InTxn(pc'[d])
        BY DEF InTxn
    <3> QED BY <2>2, <2>4, <3>1, <3>2 DEF OutcomeInv, Running, InTxn, IsEnd
  <2>14. Over'
    <3>1. \A d \in Clients : \A id \in 1..lastTransactionId : Done(d, id)' => Done(d, id)
        BY <2>1, <2>2 DEF Done
    <3> QED BY <2>2, <2>4, <3>1 DEF OutcomeInv, Over, Done
  <2> QED
    BY <2>4, <2>5, <2>6, <2>9, <2>10, <2>11, <2>12, <2>13, <2>14 DEF OutcomeInv
<1> QED BY <1>1, <1>2, <1>3

LEMMA OnReplyKeepsOutcome ==
    ASSUME OutcomeInv, NEW c \in Clients, OnReply(c)
    PROVE  OutcomeInv'
<1> DEFINE tag == <<c, txnId[c]>>
<1>1. /\ reply[c] # NoReply
      /\ reply' = [reply EXCEPT ![c] = NoReply]
      /\ UNCHANGED <<life, tasks, late>> /\ NativeUnchanged
    BY DEF OnReply, history
<1>2. \/ /\ pc[c] \in {"waiting", "reopening"} /\ pc' = [pc EXCEPT ![c] = "idle"]
         /\ UNCHANGED <<txnId, succeeded, failed>>
      \/ /\ pc[c] = "beginning" /\ pc' = [pc EXCEPT ![c] = IF reply[c].ok THEN "active" ELSE "idle"]
         /\ txnId' = [txnId EXCEPT ![c] = reply[c].id]
         /\ UNCHANGED <<succeeded, failed>>
      \/ /\ pc[c] = "awaiting" /\ pc' = [pc EXCEPT ![c] = "active"]
         /\ UNCHANGED <<txnId, succeeded, failed>>
      \/ /\ pc[c] \in {"committing", "rollingBack"} /\ pc' = [pc EXCEPT ![c] = "idle"]
         /\ txnId' = [txnId EXCEPT ![c] = NoId]
         /\ \/ /\ pc[c] = "committing" /\ reply[c].ok
               /\ succeeded' = succeeded \cup {tag} /\ failed' = failed
            \/ failed' = failed \cup {tag} /\ succeeded' = succeeded
    BY DEF OnReply, GoTo, history
<1>3. /\ reply'[c] = NoReply /\ ~reply'[c].ok /\ reply'[c].id = Forced
      /\ \A d \in Clients : d # c => reply'[d] = reply[d]
      /\ reply[c].id \in Nat /\ reply[c].ok \in BOOLEAN /\ txnId[c] \in Nat
  <2>1. reply \in [Clients -> [ok : BOOLEAN, id : Nat] \cup {NoReply}] /\ txnId[c] \in Nat
      BY DEF OutcomeInv, Inv, Typed
  <2>2. reply[c] \in [ok : BOOLEAN, id : Nat]
      BY <1>1, <2>1
  <2>3. NoReply.ok = FALSE /\ NoReply.id = Forced
      BY DEF NoReply
  <2>4. reply'[c] = NoReply /\ \A d \in Clients : d # c => reply'[d] = reply[d]
      BY <1>1, <2>1
  <2> QED BY <2>1, <2>2, <2>3, <2>4
<1>4. /\ \A d \in Clients : d # c => pc'[d] = pc[d] /\ txnId'[d] = txnId[d]
      /\ pc' \in [Clients -> States]
      /\ succeeded' \subseteq succeeded \cup {tag} /\ failed' \subseteq failed \cup {tag}
    BY <1>2 DEF OutcomeInv, Recorded, Inv, Typed, States
<1>5. \A x : Awaited(x)' => Awaited(x)
    BY <1>1 DEF Awaited, IsOp
<1>6. /\ tasks' = tasks /\ Queue' = Queue /\ Pending' = Pending
      /\ UNCHANGED <<currentTransactionId, lastTransactionId, sessionOpen, sqliteOpen,
                     uncommitted, committed, lost>>
      /\ EndIsLast' /\ NotQueued' /\ LostIsOver' /\ Apart'
    BY <1>1, <1>5, LocalFacts
<1>7. Inv' /\ Quiet'
    BY OnReplyKeepsInv DEF OutcomeInv
<1>8. \A x \in Pending : x.client \in Clients /\ (Awaited(x) => x.client # c)
  <2>1. \A x \in Pending : x.client \in Clients
      BY PendingLegal DEF OutcomeInv, Inv, LegalOps
  <2>2. \A x \in Pending : Awaited(x) => reply[x.client] = NoReply
      BY DEF OutcomeInv, InFlight
  <2> QED BY <1>1, <2>1, <2>2
<1>9. InFlight'
  <2>1. ASSUME NEW x \in Pending'
        PROVE  /\ x.life <= life'[x.client]
               /\ Awaited(x)' => /\ reply'[x.client] = NoReply
                                 /\ AwaitedIn(x, pc'[x.client], txnId'[x.client])
      BY <1>1, <1>3, <1>4, <1>5, <1>6, <1>8 DEF OutcomeInv, InFlight
  <2>2. ASSUME NEW d \in Clients, reply'[d] # NoReply PROVE pc'[d] \in Awaiting
      BY <1>3, <1>4, <2>2 DEF OutcomeInv, InFlight
  <2> QED BY <2>1, <2>2 DEF InFlight
\* What is left depends on what the answer is to.
<1> DEFINE Other == \A d \in Clients : d # c =>
             /\ pc'[d] = pc[d] /\ txnId'[d] = txnId[d] /\ reply'[d] = reply[d]
             /\ \A id : /\ <<d, id>> \in succeeded' <=> <<d, id>> \in succeeded
                        /\ <<d, id>> \in failed' <=> <<d, id>> \in failed
<1>10. Other
  <2> SUFFICES ASSUME NEW d \in Clients, d # c
               PROVE  /\ pc'[d] = pc[d] /\ txnId'[d] = txnId[d] /\ reply'[d] = reply[d]
                      /\ \A id : /\ <<d, id>> \in succeeded' <=> <<d, id>> \in succeeded
                                 /\ <<d, id>> \in failed' <=> <<d, id>> \in failed
      OBVIOUS
  <2>1. \A id : <<d, id>> # tag
      OBVIOUS
  <2>2. /\ succeeded \subseteq succeeded' /\ failed \subseteq failed'
      BY <1>2
  <2> HIDE DEF tag
  <2> QED BY <1>3, <1>4, <2>1, <2>2
<1>11. /\ \A d \in Clients : InTxn(pc[d]) <=> txnId[d] # NoId
       /\ pc[c] = "beginning" => (reply[c].ok <=> reply[c].id # NoId)
       /\ txnId[c] <= lastTransactionId /\ reply[c].id <= lastTransactionId
       /\ NoId <= lastTransactionId /\ Forced <= lastTransactionId
    BY <1>1 DEF OutcomeInv, TxnIds, Known, Inv, Typed, NoId, Forced
<1>12. pc[c] \in {"committing", "rollingBack"} => InTxn(pc[c]) /\ txnId[c] # NoId
    BY <1>11 DEF InTxn
<1>13. Recorded'
  <2>1. tag \in Writes
      BY <1>3 DEF Writes
  <2> HIDE DEF tag
  <2> QED BY <1>1, <1>4, <1>6, <2>1 DEF OutcomeInv, Recorded
<1>14. TxnIds'
  <2>1. InTxn(pc'[c]) <=> txnId'[c] # NoId
    <3>1. CASE pc[c] = "beginning"
      <4>1. pc'[c] = (IF reply[c].ok THEN "active" ELSE "idle") /\ txnId'[c] = reply[c].id
          BY <1>2, <3>1 DEF OutcomeInv, Recorded, Inv, Typed
      <4>2. CASE reply[c].ok
          BY <1>11, <3>1, <4>1, <4>2 DEF InTxn
      <4>3. CASE ~reply[c].ok
          BY <1>11, <3>1, <4>1, <4>3 DEF InTxn
      <4> QED BY <4>2, <4>3
    <3>2. CASE pc[c] # "beginning"
        BY <1>2, <1>11, <3>2 DEF InTxn, OutcomeInv, Recorded, Inv, Typed
    <3> QED BY <3>1, <3>2
  <2>2. \A d \in Clients : InTxn(pc'[d]) <=> txnId'[d] # NoId
      BY <1>10, <1>11, <2>1 DEF InTxn
  <2>3. \A d \in Clients :
          pc'[d] = "beginning" /\ reply'[d] # NoReply => (reply'[d].ok <=> reply'[d].id # NoId)
      BY <1>3, <1>4 DEF OutcomeInv, TxnIds
  <2>4. \A t \in succeeded' : t[2] # NoId
    <3>1. ASSUME NEW t \in succeeded', t \notin succeeded PROVE t[2] # NoId
      <4>1. t = <<c, txnId[c]>> /\ pc[c] = "committing"
          BY <1>2, <3>1
      <4> QED BY <1>12, <4>1
    <3> QED BY <3>1 DEF OutcomeInv, TxnIds
  <2> QED BY <1>6, <2>2, <2>3, <2>4 DEF OutcomeInv, TxnIds, IsEnd, InTxn
<1>15. Known'
  <2>1. \A d \in Clients : txnId'[d] <= lastTransactionId /\ reply'[d].id <= lastTransactionId
    <3>1. txnId'[c] <= lastTransactionId
        BY <1>2, <1>11 DEF OutcomeInv, Inv, Typed
    <3> QED BY <1>3, <1>4, <1>11, <3>1 DEF OutcomeInv, Known
  <2>2. tag[2] <= lastTransactionId
      BY <1>11
  <2> HIDE DEF tag
  <2> QED BY <1>4, <1>6, <2>1, <2>2 DEF OutcomeInv, Known
<1>16. Fresh'
  <2>1. \A d \in Clients : Begun(d)' => d # c /\ Begun(d) /\ reply'[d] = reply[d]
      BY <1>3, <1>10 DEF Begun
  <2> QED BY <1>6, <1>10, <2>1 DEF OutcomeInv, Fresh, Begun
<1>17. Running'
  <2>1. ASSUME InTxn(pc'[c])
        PROVE  /\ pc'[c] = "active"
               /\ \A x \in Pending : IsEnd(x) /\ x.client = c => x.tid # txnId'[c]
               /\ <<c, txnId'[c]>> \notin succeeded' \cup failed'
    <3>1. CASE pc[c] = "beginning"
      <4>1. pc'[c] = (IF reply[c].ok THEN "active" ELSE "idle") /\ txnId'[c] = reply[c].id
            /\ UNCHANGED <<succeeded, failed>>
          BY <1>2, <3>1 DEF OutcomeInv, Recorded, Inv, Typed
      <4>2. reply[c].ok /\ pc'[c] = "active"
          BY <2>1, <4>1 DEF InTxn
      <4> QED BY <3>1, <4>1, <4>2 DEF OutcomeInv, Fresh, Begun
    <3>2. CASE pc[c] = "awaiting"
      <4>1. pc'[c] = "active" /\ UNCHANGED <<txnId, succeeded, failed>>
          BY <1>2, <3>2 DEF OutcomeInv, Recorded
      <4> QED BY <3>2, <4>1 DEF OutcomeInv, Running, InTxn
    <3> QED BY <1>2, <2>1, <3>1, <3>2 DEF InTxn, OutcomeInv, Recorded
  <2>2. ASSUME NEW d \in Clients
        PROVE  /\ pc'[d] \in {"active", "awaiting"} =>
                    \A x \in Pending' : IsEnd(x) /\ x.client = d => x.tid # txnId'[d]
               /\ InTxn(pc'[d]) => <<d, txnId'[d]>> \notin succeeded' \cup failed'
    <3>1. CASE d = c
        BY <1>6, <2>1, <3>1 DEF InTxn
    <3>2. CASE d # c
        BY <1>6, <1>10, <3>2 DEF OutcomeInv, Running
    <3> QED BY <3>1, <3>2
  <2> QED BY <2>2 DEF Running, IsEnd, InTxn
<1>18. Over'
  <2>1. ASSUME NEW d \in Clients, NEW id \in 1..lastTransactionId, Done(d, id)'
        PROVE  Done(d, id)
    <3>1. CASE d = c
      <4>1. ~reply'[c].ok
          BY <1>3
      <4>2. <<c, id>> \in succeeded'
          BY <2>1, <3>1, <4>1 DEF Done
      <4>3. \/ <<c, id>> \in succeeded
            \/ <<c, id>> = <<c, txnId[c]>> /\ pc[c] = "committing" /\ reply[c].ok
          BY <1>2, <4>2
      <4> QED BY <3>1, <4>3 DEF Done
    <3>2. CASE d # c
        BY <1>10, <2>1, <3>2 DEF Done
    <3> QED BY <3>1, <3>2
  <2> QED BY <1>1, <1>6, <2>1 DEF OutcomeInv, Over, Done
<1> QED
  BY <1>6, <1>7, <1>9, <1>13, <1>14, <1>15, <1>16, <1>17, <1>18 DEF OutcomeInv

-----------------------------------------------------------------------------
(* The steps of the worker *)

\* The answer goes to the client that awaits it.
Answered(op) ==
    \/ ~Awaited(op) /\ reply' = reply
    \/ Awaited(op) /\ \E ok \in BOOLEAN, id \in Nat :
         /\ reply' = [reply EXCEPT ![op.client] = [ok |-> ok, id |-> id]]
         /\ id <= lastTransactionId'
         /\ op.kind = "begin" =>
              \/ ok = TRUE /\ id = lastTransactionId + 1
              \/ ok = FALSE /\ id = NoId
         /\ op.kind = "commit" /\ ok = TRUE =>
              /\ sessionOpen /\ sqliteOpen /\ currentTransactionId' = NoId
              /\ uncommitted' = {} /\ lost' = lost

\* The writes that it makes.
Tag(op) == <<op.client, op.tid>>
Written(op) == {t \in {Tag(op)} : op.kind \in {"write", "batch"}}

\* What a statement that the gate let through does to the native side.
Effect(op) ==
    /\ Answered(op)
    /\ \/ lastTransactionId' = lastTransactionId
       \/ lastTransactionId' = lastTransactionId + 1
    /\ currentTransactionId' \in {currentTransactionId, NoId, lastTransactionId + 1}
    /\ currentTransactionId' <= lastTransactionId'
    /\ uncommitted' \subseteq uncommitted \cup Written(op)
    /\ committed' \subseteq committed \cup uncommitted \cup Written(op)
    /\ lost' \subseteq lost \cup uncommitted \cup Written(op)
    /\ sqliteOpen' =>
         /\ lost' = lost
         /\ \/ sqliteOpen /\ currentTransactionId' = currentTransactionId
            \/ currentTransactionId' = lastTransactionId + 1

LEMMA AnsweredIff ==
    ASSUME NEW op \in LegalOps
    PROVE  Awaited(op) <=> ~(\/ life[op.client] # op.life
                             \/ op.kind \in {"write", "batch"} /\ op.tid # NoId)
BY LegalIsOp DEF Awaited

LEMMA AnsweredOk ==
    ASSUME NEW op \in LegalOps, NEW id \in Nat, Answer(op, TRUE, id), id <= lastTransactionId',
           op.kind = "begin" => id = lastTransactionId + 1,
           op.kind = "commit" =>
             /\ sessionOpen /\ sqliteOpen /\ currentTransactionId' = NoId
             /\ uncommitted' = {} /\ lost' = lost
    PROVE  Answered(op)
<1>1. CASE ~Awaited(op)
    BY <1>1, AnsweredIff DEF Answered, Answer
<1>2. CASE Awaited(op)
  <2>1. reply' = [reply EXCEPT ![op.client] = [ok |-> TRUE, id |-> id]]
      BY <1>2, AnsweredIff DEF Answer
  <2> QED BY <1>2, <2>1 DEF Answered
<1> QED BY <1>1, <1>2

LEMMA AnsweredError ==
    ASSUME NEW op \in LegalOps, Answer(op, FALSE, NoId), lastTransactionId' \in Nat
    PROVE  Answered(op)
<1>0. NoId \in Nat /\ NoId <= lastTransactionId'
    BY DEF NoId
<1>1. CASE ~Awaited(op)
    BY <1>1, AnsweredIff DEF Answered, Answer
<1>2. CASE Awaited(op)
  <2>1. reply' = [reply EXCEPT ![op.client] = [ok |-> FALSE, id |-> NoId]]
      BY <1>2, AnsweredIff DEF Answer
  <2> QED BY <1>0, <1>2, <2>1 DEF Answered
<1> QED BY <1>1, <1>2

LEMMA ExecEffect ==
    ASSUME Inv, Recorded, currentTransactionId <= lastTransactionId,
           NEW op \in LegalOps, Exec(op), Passes(op) \/ op.kind = "batch",
           op.kind \notin ByHand, ~begunByHand
    PROVE  Effect(op)
<1> USE DEF NoId, Forced
<1>0. currentTransactionId \in Nat /\ lastTransactionId \in Nat
    BY DEF Inv, Typed
<1>1. CASE op.kind = "begin" /\ ExecBegin(op)
  <2>1. currentTransactionId = NoId /\ ~sessionOpen /\ ~sqliteOpen
    BY <1>1 DEF LegalOps, Passes, OfCurrentTransaction, GateMatchesSqlite, Inv
  <2>2. /\ UNCHANGED <<uncommitted, committed, lost>>
        /\ lastTransactionId' = lastTransactionId + 1
        /\ \/ /\ currentTransactionId' = lastTransactionId + 1
              /\ Answer(op, TRUE, lastTransactionId + 1)
           \/ /\ currentTransactionId' = NoId
              /\ UNCHANGED sqliteOpen
              /\ Answer(op, FALSE, NoId)
    BY <1>1, <2>1 DEF ExecBegin
  <2>3. Answered(op)
    <3>0. /\ lastTransactionId' \in Nat /\ lastTransactionId + 1 \in Nat
          /\ lastTransactionId + 1 <= lastTransactionId' /\ op.kind # "commit"
        BY <1>0, <1>1, <2>2
    <3>1. CASE Answer(op, TRUE, lastTransactionId + 1)
        BY <3>0, <3>1, AnsweredOk, Zenon
    <3>2. CASE Answer(op, FALSE, NoId)
        BY <3>0, <3>2, AnsweredError, Zenon
    <3> QED BY <2>2, <3>1, <3>2
  <2>4. /\ currentTransactionId' \in {currentTransactionId, NoId, lastTransactionId + 1}
        /\ currentTransactionId' <= lastTransactionId'
        /\ sqliteOpen' => currentTransactionId' = lastTransactionId + 1
    <3>1. \/ currentTransactionId' = lastTransactionId + 1
          \/ currentTransactionId' = NoId /\ ~sqliteOpen'
        BY <2>1, <2>2
    <3>2. lastTransactionId' = lastTransactionId + 1
        BY <2>2
    <3> QED BY <1>0, <2>1, <3>1, <3>2
  <2> QED
    BY <1>0, <2>2, <2>3, <2>4 DEF Effect
<1>2. CASE op.kind \in {"commit", "rollback"} /\ ExecEnd(op)
  <2>1. CASE /\ sessionOpen /\ sqliteOpen
             /\ sqliteOpen' = FALSE
             /\ uncommitted' = {}
             /\ IF op.kind = "commit"
                THEN committed' = committed \cup uncommitted /\ UNCHANGED lost
                ELSE lost' = lost \cup uncommitted /\ UNCHANGED committed
             /\ currentTransactionId' = NoId
             /\ UNCHANGED lastTransactionId
             /\ Answer(op, TRUE, NoId)
    <3>0. lastTransactionId' \in Nat /\ NoId \in Nat /\ NoId <= lastTransactionId' /\ op.kind # "begin"
        BY <1>0, <1>2, <2>1
    <3>1. Answered(op)
      <4>1. op.kind = "commit" =>
             /\ sessionOpen /\ sqliteOpen /\ currentTransactionId' = NoId
             /\ uncommitted' = {} /\ lost' = lost
          BY <2>1
      <4> QED BY <2>1, <3>0, <4>1, AnsweredOk, Zenon
    <3>2. /\ committed' \subseteq committed \cup uncommitted
          /\ lost' \subseteq lost \cup uncommitted
        BY <2>1
    <3> QED BY <1>0, <2>1, <3>1, <3>2 DEF Effect
  <2>2. CASE /\ UNCHANGED <<gateVars, sqliteOpen, uncommitted, committed, lost>>
             /\ Answer(op, FALSE, NoId)
    <3>1. UNCHANGED <<currentTransactionId, lastTransactionId>>
        BY <2>2 DEF gateVars
    <3>2. Answered(op)
      <4>1. lastTransactionId' \in Nat
          BY <1>0, <3>1
      <4> QED BY <2>2, <4>1, AnsweredError, Zenon
    <3> QED BY <1>0, <2>2, <3>1, <3>2 DEF Effect
  <2> QED
    BY <1>2, <2>1, <2>2 DEF ExecEnd
<1>3. CASE \/ op.kind = "write" /\ ExecWrite(op)
           \/ op.kind = "batch" /\ ExecBatch(op)
  <2>1. UNCHANGED <<currentTransactionId, lastTransactionId>>
      BY <1>3 DEF ExecWrite, ExecBatch, gateVars
  <2>2. Answer(op, TRUE, NoId) \/ Answer(op, FALSE, NoId)
      BY <1>3 DEF ExecWrite, ExecBatch
  <2>3. Answered(op)
    <3>0. /\ lastTransactionId' \in Nat /\ NoId \in Nat /\ NoId <= lastTransactionId'
          /\ op.kind # "begin" /\ op.kind # "commit"
        BY <1>0, <1>3, <2>1
    <3>1. CASE Answer(op, TRUE, NoId)
        BY <3>0, <3>1, AnsweredOk, Zenon
    <3>2. CASE Answer(op, FALSE, NoId)
        BY <3>0, <3>2, AnsweredError, Zenon
    <3> QED BY <2>2, <3>1, <3>2
  <2>4. /\ uncommitted' \subseteq uncommitted \cup Written(op)
        /\ committed' \subseteq committed \cup Written(op)
        /\ lost' \subseteq lost \cup uncommitted \cup Written(op)
        /\ sqliteOpen' => lost' = lost
      BY <1>3 DEF ExecWrite, ExecBatch, Apply, Tag, Written
  <2>5. sqliteOpen' => sqliteOpen
    <3>1. sqliteOpen' = sqliteOpen \/ sqliteOpen' = FALSE
        BY <1>3 DEF ExecWrite, ExecBatch, Apply
    <3> QED BY <3>1, Zenon
  <2> QED
      BY <1>0, <2>1, <2>3, <2>4, <2>5 DEF Effect
<1>4. CASE op.kind = "cancel" /\ ExecCancel(op)
  <2>1. /\ UNCHANGED <<currentTransactionId, lastTransactionId, sqliteOpen,
                       uncommitted, committed, lost>>
        /\ Answer(op, TRUE, NoId)
      BY <1>4 DEF ExecCancel, gateVars, sqliteVars
  <2>2. Answered(op)
    <3>1. /\ NoId \in Nat /\ NoId <= lastTransactionId'
          /\ op.kind # "begin" /\ op.kind # "commit"
        BY <1>0, <1>4, <2>1
    <3> QED BY <2>1, <3>1, AnsweredOk, Zenon
  <2> QED
      BY <1>0, <2>1, <2>2 DEF Effect
<1> QED
  BY <1>1, <1>2, <1>3, <1>4 DEF Exec, ByHand

\* Who is answered, and what.
AnswerFor(op, c) ==
    /\ Awaited(op) /\ op.client = c
    /\ AwaitedIn(op, pc[c], txnId[c])
    /\ reply'[c].id \in Nat /\ reply'[c].id <= lastTransactionId'
    /\ op.kind = "begin" => \/ reply'[c].ok = TRUE /\ reply'[c].id = lastTransactionId + 1
                            \/ reply'[c].ok = FALSE /\ reply'[c].id = NoId
    /\ op.kind = "commit" /\ reply'[c].ok = TRUE =>
         /\ sessionOpen /\ sqliteOpen /\ currentTransactionId' = NoId
         /\ uncommitted' = {} /\ lost' = lost

LEMMA AnswerArrives ==
    ASSUME OutcomeInv, NEW op \in LegalOps, op \in Pending, Effect(op),
           NEW c \in Clients, reply'[c] # reply[c]
    PROVE  AnswerFor(op, c)
<1>0. /\ op.client \in Clients
      /\ reply \in [Clients -> [ok : BOOLEAN, id : Nat] \cup {NoReply}]
    BY DEF LegalOps, OutcomeInv, Inv, Typed
<1>1. Awaited(op)
    BY DEF Effect, Answered
<1>2. PICK ok \in BOOLEAN, id \in Nat :
       /\ reply' = [reply EXCEPT ![op.client] = [ok |-> ok, id |-> id]]
       /\ id <= lastTransactionId'
       /\ op.kind = "begin" =>
            \/ ok = TRUE /\ id = lastTransactionId + 1
            \/ ok = FALSE /\ id = NoId
       /\ op.kind = "commit" /\ ok = TRUE =>
            /\ sessionOpen /\ sqliteOpen /\ currentTransactionId' = NoId
            /\ uncommitted' = {} /\ lost' = lost
    BY <1>1 DEF Effect, Answered
<1>3. op.client = c
    BY <1>0, <1>2
<1>4. reply'[c] = [ok |-> ok, id |-> id]
    BY <1>0, <1>2, <1>3
<1>5. reply'[c].ok = ok /\ reply'[c].id = id
    BY <1>4
<1>6. AwaitedIn(op, pc[c], txnId[c])
    BY <1>1, <1>3 DEF OutcomeInv, InFlight
<1> QED BY <1>1, <1>2, <1>3, <1>5, <1>6 DEF AnswerFor

\* A statement is over.  If it was the COMMIT of the current transaction, it
\* was the last call of that transaction.
LEMMA ExecKeepsOutcome ==
    ASSUME OutcomeInv, NEW op \in LegalOps, op \in Pending, Effect(op),
           Inv', Quiet', Apart', EndIsLast',
           UNCHANGED <<pc, txnId, life, succeeded, failed, late>>,
           Pending' \subseteq Pending,
           Awaited(op) => \A x \in Pending' : Awaited(x) => x.client # op.client,
           \A i \in 1..Len(Queue') : \E j \in 1..Len(Queue) : Queue'[i] = Queue[j],
           op.kind = "commit" /\ currentTransactionId # NoId =>
             /\ op.tid = currentTransactionId
             /\ op.client \in late \/ \A x \in Pending' : x.client = op.client => x.tid # op.tid
    PROVE  OutcomeInv'
<1>0. /\ currentTransactionId \in Nat /\ lastTransactionId \in Nat
      /\ lastTransactionId' \in Nat /\ lastTransactionId <= lastTransactionId'
      /\ currentTransactionId <= lastTransactionId
      /\ op.client \in Clients /\ op.tid \in Int /\ op.tid <= lastTransactionId
      /\ reply \in [Clients -> [ok : BOOLEAN, id : Nat] \cup {NoReply}]
  <2>1. /\ currentTransactionId \in Nat /\ lastTransactionId \in Nat /\ lastTransactionId' \in Nat
        /\ reply \in [Clients -> [ok : BOOLEAN, id : Nat] \cup {NoReply}]
      BY DEF OutcomeInv, Inv, Typed
  <2>2. currentTransactionId <= lastTransactionId /\ op.tid <= lastTransactionId
      BY DEF OutcomeInv, Known
  <2>3. lastTransactionId <= lastTransactionId'
      BY <2>1 DEF Effect
  <2>4. op.client \in Clients /\ op.tid \in Int
      BY DEF LegalOps, Forced
  <2> QED BY <2>1, <2>2, <2>3, <2>4
<1>1. /\ \A x \in Pending' : x \in LegalOps /\ x \in Pending /\ x.client \in Clients
      /\ \A x : Awaited(x)' <=> Awaited(x)
    BY PendingLegal DEF OutcomeInv, Inv, LegalOps, Awaited, IsOp
<1>2. ASSUME NEW c \in Clients, reply'[c] # reply[c]
      PROVE  AnswerFor(op, c)
    BY <1>2, AnswerArrives
<1>3. \A c \in Clients : pc'[c] = pc[c] /\ txnId'[c] = txnId[c] /\ life'[c] = life[c]
    OBVIOUS
<1>4. Written(op) \subseteq Writes
    BY DEF Tag, Written, Writes, LegalOps
<1>5. Recorded'
  <2>2. /\ uncommitted' \subseteq Writes /\ committed' \subseteq Writes /\ lost' \subseteq Writes
      BY <1>4 DEF Effect, OutcomeInv, Recorded
  <2> QED BY <2>2 DEF OutcomeInv, Recorded
<1>6. InFlight'
  <2>1. ASSUME NEW x \in Pending'
        PROVE  /\ x.life <= life'[x.client]
               /\ Awaited(x)' => /\ reply'[x.client] = NoReply
                                 /\ AwaitedIn(x, pc'[x.client], txnId'[x.client])
    <3>1. /\ x \in Pending /\ x.client \in Clients
          /\ x.life <= life[x.client]
          /\ Awaited(x) => reply[x.client] = NoReply /\ AwaitedIn(x, pc[x.client], txnId[x.client])
        BY <1>1 DEF OutcomeInv, InFlight
    <3>2. Awaited(x) => reply'[x.client] = reply[x.client]
        BY <1>2, <2>1, <3>1 DEF AnswerFor
    <3> QED BY <1>1, <1>3, <3>1, <3>2
  <2>2. ASSUME NEW d \in Clients, reply'[d] # NoReply PROVE pc'[d] \in Awaiting
    <3>1. CASE reply'[d] = reply[d]
        BY <1>3, <2>2, <3>1 DEF OutcomeInv, InFlight
    <3>2. CASE reply'[d] # reply[d]
        BY <1>2, <1>3, <3>2 DEF AwaitedIn, Awaiting, AnswerFor
    <3> QED BY <3>1, <3>2
  <2> QED BY <2>1, <2>2 DEF InFlight
<1>7. TxnIds'
  <2>1. ASSUME NEW d \in Clients, pc'[d] = "beginning", reply'[d] # NoReply
        PROVE  reply'[d].ok <=> reply'[d].id # NoId
    <3>1. CASE reply'[d] = reply[d]
        BY <1>3, <2>1, <3>1 DEF OutcomeInv, TxnIds
    <3>2. CASE reply'[d] # reply[d]
      <4>1. op.kind = "begin"
          BY <1>2, <1>3, <2>1, <3>2 DEF AwaitedIn, AnswerFor
      <4>2. \/ reply'[d].ok = TRUE /\ reply'[d].id = lastTransactionId + 1
            \/ reply'[d].ok = FALSE /\ reply'[d].id = NoId
          BY <1>2, <3>2, <4>1 DEF AnswerFor
      <4> QED BY <1>0, <4>2 DEF NoId
    <3> QED BY <3>1, <3>2
  <2>2. \A x \in Pending' : IsEnd(x) => x.tid # NoId
      BY <1>1 DEF OutcomeInv, TxnIds
  <2> QED BY <1>3, <2>1, <2>2 DEF OutcomeInv, TxnIds, IsEnd, InTxn
<1>8. Known'
  <2>1. ASSUME NEW t \in uncommitted' \cup committed' \cup lost' \cup succeeded' \cup failed'
        PROVE  t[2] <= lastTransactionId
    <3>1. CASE t \in Written(op)
        BY <1>0, <3>1 DEF Tag, Written
    <3>2. CASE t \notin Written(op)
        BY <2>1, <3>2 DEF Effect, OutcomeInv, Known
    <3> QED BY <3>1, <3>2
  <2>2. ASSUME NEW t \in uncommitted' \cup committed' \cup lost' \cup succeeded' \cup failed'
        PROVE  t[2] <= lastTransactionId'
    <3>1. t[2] \in Nat
      <4>1. t \in Writes
          BY <1>5, <2>2 DEF Recorded
      <4> QED BY <4>1 DEF Writes
    <3> QED BY <1>0, <2>1, <2>2, <3>1
  <2>3. ASSUME NEW x \in Pending' PROVE x.tid <= lastTransactionId'
    <3>1. x.tid \in Int /\ x.tid <= lastTransactionId
        BY <1>1 DEF LegalOps, Forced, OutcomeInv, Known
    <3> QED BY <1>0, <3>1
  <2>4. ASSUME NEW d \in Clients
        PROVE  txnId'[d] <= lastTransactionId' /\ reply'[d].id <= lastTransactionId'
    <3>0. txnId[d] \in Nat /\ txnId[d] <= lastTransactionId
        BY DEF OutcomeInv, Inv, Typed, Known
    <3>1. txnId[d] <= lastTransactionId'
        BY <1>0, <3>0
    <3>2. CASE reply'[d] = reply[d]
      <4>1. reply[d].id \in Int /\ reply[d].id <= lastTransactionId
          BY <1>0 DEF NoReply, Forced, OutcomeInv, Known
      <4> QED BY <1>0, <1>3, <3>1, <3>2, <4>1
    <3>3. CASE reply'[d] # reply[d]
        BY <1>0, <1>2, <1>3, <3>1, <3>3 DEF AnswerFor
    <3> QED BY <3>2, <3>3
  <2>5. currentTransactionId' <= lastTransactionId'
      BY DEF Effect
  <2> QED BY <2>2, <2>3, <2>4, <2>5 DEF Known
<1>9. Fresh'
  <2>1. ASSUME NEW d \in Clients, Begun(d)', reply'[d] = reply[d]
        PROVE  /\ \A x \in Pending' : x.client = d => x.tid # reply'[d].id
               /\ <<d, reply'[d].id>> \notin succeeded' \cup failed'
    <3>1. Begun(d)
        BY <1>3, <2>1 DEF Begun
    <3> QED BY <1>1, <2>1, <3>1 DEF OutcomeInv, Fresh
  <2>2. ASSUME NEW d \in Clients, Begun(d)', reply'[d] # reply[d]
        PROVE  /\ \A x \in Pending' : x.client = d => x.tid # reply'[d].id
               /\ <<d, reply'[d].id>> \notin succeeded' \cup failed'
    <3>1. pc[d] = "beginning" /\ reply'[d].ok
        BY <1>3, <2>2 DEF Begun
    <3>2. op.kind = "begin"
        BY <1>2, <2>2, <3>1 DEF AwaitedIn, AnswerFor
    <3>3. reply'[d].id = lastTransactionId + 1
        BY <1>2, <2>2, <3>1, <3>2 DEF AnswerFor
    <3>4. \A x \in Pending' : x.tid \in Int /\ x.tid <= lastTransactionId
        BY <1>1 DEF LegalOps, Forced, OutcomeInv, Known
    <3>5. \A t \in succeeded \cup failed : t[2] <= lastTransactionId
        BY DEF OutcomeInv, Known
    <3>6. \A x \in Pending' : x.tid # reply'[d].id
        BY <1>0, <3>3, <3>4
    <3>7. <<d, reply'[d].id>> \notin succeeded \cup failed
      <4>1. ~(lastTransactionId + 1 <= lastTransactionId)
          BY <1>0
      <4> QED BY <3>3, <3>5, <4>1
    <3> QED BY <3>6, <3>7
  <2> QED BY <2>1, <2>2 DEF Fresh, Begun
<1>10. Running'
    BY <1>1, <1>3 DEF OutcomeInv, Running, IsEnd, InTxn
<1>11. NotQueued'
  <2> SUFFICES ASSUME currentTransactionId' # NoId, NEW i \in 1..Len(Queue')
               PROVE  Queue'[i].tid # currentTransactionId'
      BY DEF NotQueued
  <2>1. PICK j \in 1..Len(Queue) : Queue'[i] = Queue[j]
      OBVIOUS
  <2>2. Queue[j] \in Pending /\ Queue[j] \in LegalOps
      BY PendingLegal DEF OutcomeInv, Inv, QueuedOps
  <2>3. Queue[j].tid \in Int /\ Queue[j].tid <= lastTransactionId
      BY <2>2 DEF OutcomeInv, Known, LegalOps, Forced
  <2>4. CASE currentTransactionId' = currentTransactionId
      BY <2>1, <2>4 DEF OutcomeInv, NotQueued
  <2>5. CASE currentTransactionId' = lastTransactionId + 1
      BY <1>0, <2>1, <2>3, <2>5
  <2> QED BY <2>4, <2>5 DEF Effect
<1>12. LostIsOver'
  <2> SUFFICES ASSUME sqliteOpen', NEW t \in lost' PROVE t[2] # currentTransactionId'
      BY DEF LostIsOver
  <2>1. /\ lost' = lost
        /\ \/ sqliteOpen /\ currentTransactionId' = currentTransactionId
           \/ currentTransactionId' = lastTransactionId + 1
      BY DEF Effect
  <2>2. t \in lost /\ t[2] \in Nat /\ t[2] <= lastTransactionId
    <3>1. t \in Writes
        BY <2>1 DEF OutcomeInv, Recorded
    <3> QED BY <2>1, <3>1 DEF Writes, OutcomeInv, Known
  <2>3. CASE currentTransactionId' = lastTransactionId + 1
      BY <1>0, <2>2, <2>3
  <2>4. CASE sqliteOpen /\ currentTransactionId' = currentTransactionId
      BY <2>2, <2>4 DEF OutcomeInv, LostIsOver
  <2> QED BY <2>1, <2>3, <2>4
<1>13. Over'
  <2> SUFFICES ASSUME NEW c \in Clients \ late, NEW id \in 1..lastTransactionId', Done(c, id)'
               PROVE  /\ \A x \in Pending' : x.client = c => x.tid # id
                      /\ id # currentTransactionId'
                      /\ <<c, id>> \notin lost' \cup uncommitted'
      BY DEF Over
  <2>0. id \in Nat /\ id # NoId
      BY <1>0 DEF NoId
  <2>1. CASE Done(c, id)
    <3>1. id <= lastTransactionId
      <4>1. CASE <<c, id>> \in succeeded
          BY <4>1 DEF OutcomeInv, Known
      <4>2. CASE txnId[c] = id
          BY <4>2 DEF OutcomeInv, Known
      <4> QED BY <2>1, <4>1, <4>2 DEF Done
    <3>2. /\ \A x \in Pending : x.client = c => x.tid # id
          /\ id # currentTransactionId
          /\ <<c, id>> \notin lost \cup uncommitted
      <4>1. id \in 1..lastTransactionId
          BY <1>0, <2>0, <3>1 DEF NoId
      <4> QED BY <2>1, <4>1 DEF OutcomeInv, Over
    <3>3. <<c, id>> \notin Written(op)
        BY <3>2 DEF Tag, Written
    <3>4. id # currentTransactionId'
        BY <1>0, <2>0, <3>1, <3>2 DEF Effect
    <3>5. <<c, id>> \notin lost' \cup uncommitted'
        BY <3>2, <3>3 DEF Effect
    <3> QED BY <3>2, <3>4, <3>5
  \* The answer to COMMIT is on its way now.
  <2>2. CASE ~Done(c, id)
    <3>1. pc[c] = "committing" /\ reply'[c].ok /\ txnId[c] = id /\ reply'[c] # reply[c]
        BY <1>3, <2>2 DEF Done
    <3>2. op.kind = "commit" /\ op.tid = id /\ op.client = c
        BY <1>2, <3>1 DEF AwaitedIn, AnswerFor
    <3>3. reply'[c].ok = TRUE
      <4>1. reply'[c].ok \in BOOLEAN
        <5>1. reply'[c] \in [ok : BOOLEAN, id : Nat] \cup {NoReply}
            BY DEF Inv, Typed
        <5>2. NoReply.ok = FALSE
            BY DEF NoReply
        <5>3. CASE reply'[c] \in [ok : BOOLEAN, id : Nat]
            BY <5>3
        <5>4. CASE reply'[c] = NoReply
            BY <5>2, <5>4
        <5> QED BY <5>1, <5>3, <5>4
      <4> QED BY <3>1, <4>1
    <3>4. /\ sessionOpen /\ sqliteOpen /\ currentTransactionId' = NoId
          /\ uncommitted' = {} /\ lost' = lost
        BY <1>2, <3>1, <3>2, <3>3 DEF AnswerFor
    <3>5. currentTransactionId # NoId
        BY <3>4 DEF OutcomeInv, Inv, Quiet, GateMatchesSqlite
    <3>6. op.tid = currentTransactionId /\ \A x \in Pending' : x.client = c => x.tid # id
        BY <3>2, <3>5
    <3>7. <<c, id>> \notin lost
        BY <3>2, <3>4, <3>6 DEF OutcomeInv, LostIsOver
    <3> QED BY <2>0, <3>4, <3>6, <3>7
  <2> QED BY <2>1, <2>2
<1> QED
  BY <1>5, <1>6, <1>7, <1>8, <1>9, <1>10, <1>11, <1>12, <1>13 DEF OutcomeInv

\* The head of the tasks is handled, but not run.
LEMMA UnrunKeepsOutcome ==
    ASSUME OutcomeInv, Inv', Quiet', Apart', EndIsLast',
           UNCHANGED <<pc, txnId, life, reply, succeeded, failed, late>>,
           UNCHANGED <<currentTransactionId, lastTransactionId, sessionOpen, sqliteOpen,
                       uncommitted, committed, lost>>,
           Pending' \subseteq Pending, NotQueued'
    PROVE  OutcomeInv'
<1>1. \A x : Awaited(x)' <=> Awaited(x)
    BY DEF Awaited, IsOp
<1>2. InFlight'
    BY <1>1 DEF OutcomeInv, InFlight
<1>3. Recorded' /\ LostIsOver'
    BY DEF OutcomeInv, Recorded, LostIsOver
<1>4. TxnIds' /\ Known'
    BY DEF OutcomeInv, TxnIds, Known, IsEnd, InTxn
<1>5. Fresh'
    BY DEF OutcomeInv, Fresh, Begun
<1>6. Running'
    BY DEF OutcomeInv, Running, IsEnd, InTxn
<1>7. Over'
    BY DEF OutcomeInv, Over, Done
<1> QED BY <1>2, <1>3, <1>4, <1>5, <1>6, <1>7 DEF OutcomeInv

LEMMA RunTaskKeepsOutcome ==
    ASSUME OutcomeInv, RunTask
    PROVE  OutcomeInv'
<1> DEFINE op == Head(tasks)
           queued == Head(Queue)
<1>1. /\ tasks # <<>> /\ Typed /\ Inv
      /\ UNCHANGED <<pc, txnId, life, succeeded, failed, late>>
      /\ \/ RunBatch(op) \/ RunFree(op) \/ RunInTransaction(op)
         \/ EnqueueOperation(op) \/ RunNextQueued(op) \/ EndRunQueued(op)
    BY DEF RunTask, OutcomeInv, Inv, dartVars, history
<1>2. Inv' /\ Quiet' /\ \A x \in Pending : x.kind \notin ByHand
    BY RunTaskKeepsInv, PlainPending DEF OutcomeInv
<1>3. op \in Tasks /\ (op.kind # "runQueued" => op \in LegalOps /\ IsOp(op))
  <2>1. op \in Tasks
      BY <1>1, Removed DEF Typed, Tasks
  <2> QED BY <2>1 DEF Tasks, IsOp, RunQueuedOperations
<1>4. Recorded /\ currentTransactionId <= lastTransactionId /\ ~begunByHand
    BY DEF OutcomeInv, Known, Quiet
<1>5. CASE RunBatch(op) \/ RunFree(op) \/ RunInTransaction(op)
  <2>1. /\ Exec(op) /\ Queue' = Queue /\ op.kind # "runQueued"
        /\ tasks' = Tail(tasks) \/ tasks' = Append(Tail(tasks), RunQueuedOperations)
        /\ Passes(op) \/ op.kind \in Ungated
      BY <1>5 DEF RunBatch, RunFree, RunInTransaction, Queue, Passes, Ungated
  <2>2. /\ Pending' \subseteq Pending /\ op \in Pending
        /\ Awaited(op) => \A x \in Pending' : Awaited(x) => x.client # op.client
        /\ Apart' /\ EndIsLast'
        /\ IsEnd(op) /\ op.tid # Forced /\ op.client \notin late =>
             \A x \in Pending' : x.client = op.client /\ x.tid = op.tid
                                  => \E i \in 1..Len(Queue) : x = Queue[i]
      BY <1>1, <1>3, <2>1, Finished DEF OutcomeInv
  <2>3. Effect(op)
    <3>1. op.kind \notin ByHand /\ (Passes(op) \/ op.kind = "batch")
        BY <1>2, <2>1, <2>2 DEF Ungated, ByHand
    <3> QED BY <1>1, <1>3, <1>4, <2>1, <3>1, ExecEffect
  <2>4. op \in LegalOps
      BY <1>3, <2>1
  <2> HIDE DEF op
  <2>5. ASSUME op.kind = "commit", currentTransactionId # NoId
        PROVE  /\ op.tid = currentTransactionId
               /\ \/ op.client \in late
                  \/ \A x \in Pending' : x.client = op.client => x.tid # op.tid
    <3>1. IsEnd(op) /\ op.tid # Forced
        BY <2>4, <2>5 DEF IsEnd, LegalOps
    <3>2. op.tid = currentTransactionId
        BY <2>1, <2>5, <3>1 DEF Passes, OfCurrentTransaction, Ungated
    <3>3. \A i \in 1..Len(Queue) : Queue[i].tid # op.tid
        BY <2>5, <3>2 DEF OutcomeInv, NotQueued
    <3> QED BY <2>2, <3>1, <3>2, <3>3
  <2>6. \A i \in 1..Len(Queue') : \E j \in 1..Len(Queue) : Queue'[i] = Queue[j]
      BY <2>1
  <2> QED BY <1>1, <1>2, <2>2, <2>3, <2>4, <2>5, <2>6, ExecKeepsOutcome
<1>6. CASE RunNextQueued(op)
  <2>1. /\ Exec(queued) /\ tasks' = tasks /\ currentTransactionId = NoId
        /\ Queue # <<>> /\ Queue' = Tail(Queue)
      BY <1>6 DEF RunNextQueued, Queue
  <2>2. /\ Pending' \subseteq Pending /\ queued \in Pending
        /\ Awaited(queued) => \A x \in Pending' : Awaited(x) => x.client # queued.client
        /\ Apart' /\ EndIsLast'
        /\ \A i \in 1..Len(Queue') : \E j \in 1..Len(Queue) : Queue'[i] = Queue[j]
      BY <1>1, <2>1, QueueFinished DEF OutcomeInv
  <2>3. queued \in LegalOps
      BY <1>1, <2>2, PendingLegal
  <2>4. Effect(queued)
    <3>1. Passes(queued) /\ queued.kind \notin ByHand
        BY <1>2, <2>1, <2>2 DEF Passes
    <3> QED BY <1>1, <1>4, <2>1, <2>3, <3>1, ExecEffect
  <2> HIDE DEF queued
  <2> QED BY <1>1, <1>2, <2>1, <2>2, <2>3, <2>4, ExecKeepsOutcome
<1>7. CASE EnqueueOperation(op)
  <2>1. /\ tasks' = Tail(tasks) /\ Queue' = Append(Queue, op)
        /\ op.kind \notin Ungated \cup {"runQueued"}
        /\ currentTransactionId # NoId /\ ~OfCurrentTransaction(op)
        /\ UNCHANGED reply
        /\ UNCHANGED <<currentTransactionId, lastTransactionId, sessionOpen, sqliteOpen,
                       uncommitted, committed, lost>>
      BY <1>7 DEF EnqueueOperation, Queue, gateVars, sqliteVars
  <2>2. op \in QueuedOps
      BY <1>3, <2>1 DEF QueuedOps
  <2>3. /\ Pending' = Pending /\ Apart' /\ EndIsLast'
        /\ \A i \in 1..Len(Queue') :
             Queue'[i] = op \/ \E j \in 1..Len(Queue) : Queue'[i] = Queue[j]
      BY <1>1, <2>1, <2>2, Moved DEF OutcomeInv
  <2> HIDE DEF op
  <2>4. op.tid # currentTransactionId
      BY <2>1 DEF OfCurrentTransaction
  <2>5. NotQueued'
      BY <2>1, <2>3, <2>4 DEF OutcomeInv, NotQueued
  <2> QED BY <1>1, <1>2, <2>1, <2>3, <2>5, UnrunKeepsOutcome
<1>8. CASE EndRunQueued(op)
  <2>1. /\ tasks' = Tail(tasks) /\ Queue' = Queue /\ UNCHANGED reply
        /\ UNCHANGED <<currentTransactionId, lastTransactionId, sessionOpen, sqliteOpen,
                       uncommitted, committed, lost>>
      BY <1>8 DEF EndRunQueued, NativeUnchanged, Queue, gateVars, sqliteVars
  <2>2. Pending' \subseteq Pending /\ Apart' /\ EndIsLast'
      BY <1>1, <2>1, Finished DEF OutcomeInv
  <2>3. NotQueued'
      BY <2>1 DEF OutcomeInv, NotQueued
  <2> QED BY <1>1, <1>2, <2>1, <2>2, <2>3, UnrunKeepsOutcome
<1> QED BY <1>1, <1>5, <1>6, <1>7, <1>8

-----------------------------------------------------------------------------
(* Success *)

LEMMA InitOutcome == Init => OutcomeInv
<1> SUFFICES ASSUME Init PROVE OutcomeInv
    OBVIOUS
<1>1. Inv /\ Quiet
    BY InitInv DEF IsolatedInv
<1>2. /\ tasks = <<>> /\ Queue = <<>> /\ Len(tasks) = 0 /\ Len(Queue) = 0
    BY DEF Init, Queue
<1>3. Pending = {} /\ Apart /\ EndIsLast
    BY <1>2 DEF Pending, Apart, EndIsLast
<1>4. Recorded
    BY DEF Init, Recorded, States
<1>5. InFlight /\ TxnIds
    BY <1>3 DEF Init, InFlight, TxnIds, InTxn
<1>6. Known
    BY <1>3 DEF Init, Known, NoReply, Forced, NoId
<1>7. Fresh /\ Running /\ NotQueued /\ LostIsOver
    BY <1>3 DEF Init, Fresh, Begun, Running, InTxn, NotQueued, LostIsOver
<1>8. Over
    BY DEF Init, Over, NoId
<1> QED BY <1>1, <1>3, <1>4, <1>5, <1>6, <1>7, <1>8 DEF OutcomeInv

LEMMA StutterKeepsOutcome ==
    ASSUME OutcomeInv, UNCHANGED vars
    PROVE  OutcomeInv'
<1>1. /\ UNCHANGED <<pc, txnId, life, reply, succeeded, failed, late>>
      /\ UNCHANGED <<currentTransactionId, lastTransactionId, sessionOpen, sqliteOpen,
                     uncommitted, committed, lost>>
      /\ tasks' = tasks /\ NativeUnchanged
    BY DEF vars, dartVars, gateVars, sqliteVars, history, NativeUnchanged
<1>2. \A x : Awaited(x)' => Awaited(x)
    BY <1>1 DEF Awaited, IsOp
<1>3. Pending' = Pending /\ EndIsLast' /\ NotQueued' /\ Apart'
    BY <1>1, <1>2, LocalFacts
<1>4. Inv' /\ Quiet'
    BY StutterKeepsInv DEF OutcomeInv
<1> QED BY <1>1, <1>3, <1>4, UnrunKeepsOutcome

LEMMA NextOutcome ==
    ASSUME OutcomeInv, [Next]_vars, ~byHand'
    PROVE  OutcomeInv'
<1>1. ASSUME NEW c \in Clients,
             \/ CallWrite(c) \/ CallBatch(c) \/ BeginTransaction(c)
             \/ TxnWrite(c) \/ TxnBatch(c) \/ TxnCloseCursor(c)
             \/ EndTransaction(c, "commit") \/ EndTransaction(c, "rollback")
      PROVE  OutcomeInv'
    BY <1>1, CallsSend, SendKeeps
<1>2. ASSUME NEW c \in Clients, OnReply(c) PROVE OutcomeInv'
    BY <1>2, OnReplyKeepsOutcome
<1>3. ASSUME NEW c \in Clients, Restart(c) PROVE OutcomeInv'
    BY <1>3, RestartKeepsOutcome
<1>4. ASSUME NEW c \in Clients, Reopen(c) PROVE OutcomeInv'
    BY <1>4, ReopenKeepsOutcome
<1>5. ASSUME NEW c \in Clients PROVE ~ExecuteByHand(c)
    BY DEF ExecuteByHand
<1>6. CASE RunTask
    BY <1>6, RunTaskKeepsOutcome
<1>7. CASE UNCHANGED vars
    BY <1>7, StutterKeepsOutcome
<1> QED BY <1>1, <1>2, <1>3, <1>4, <1>5, <1>6, <1>7 DEF Next

\* What clients did by hand, or too late, remains.
LEMMA HistoryGrows ==
    /\ Init => late = {} /\ ~byHand
    /\ [Next]_vars => late \subseteq late' /\ (byHand => byHand')
<1>1. Init => late = {} /\ ~byHand
    BY DEF Init
<1>2. ASSUME Next PROVE late \subseteq late' /\ (byHand => byHand')
    BY <1>2 DEF Next, CallWrite, CallBatch, BeginTransaction, TxnWrite, TxnBatch, TxnCall,
                TxnCloseCursor, ExecuteByHand, EndTransaction, OnReply, Restart, Reopen,
                RunTask, history
<1>3. ASSUME UNCHANGED vars PROVE late \subseteq late' /\ (byHand => byHand')
    BY <1>3 DEF vars, history
<1> QED BY <1>1, <1>2, <1>3

\* Whatever fails or restarts, and whatever other clients send past the gate
\* or too late: a transaction that was reported to have committed has no
\* write that was rolled back or that is still uncommitted.
THEOREM SuccessLasts == Spec => []SuccessIsDurable
<1> DEFINE I == Inv /\ (~byHand => OutcomeInv)
<1>1. Init => I
    BY InitOutcome, InitInv
<1>2. I /\ [Next]_vars => I'
  <2> SUFFICES ASSUME Inv, ~byHand => OutcomeInv, [Next]_vars PROVE I'
      OBVIOUS
  <2>1. Inv' /\ (byHand => byHand')
      BY NextInv, HistoryGrows
  <2> QED BY <2>1, NextOutcome
<1>3. I => SuccessIsDurable
  <2> SUFFICES ASSUME OutcomeInv, NEW t \in succeeded, t[1] \notin late
               PROVE  t \notin lost \cup uncommitted
      BY DEF SuccessIsDurable, Excused
  <2>1. PICK c \in Clients, id \in Nat : t = <<c, id>>
      BY DEF OutcomeInv, Recorded, Writes
  <2>2. id # NoId /\ id <= lastTransactionId /\ lastTransactionId \in Nat
      BY <2>1 DEF OutcomeInv, TxnIds, Known, Inv, Typed
  <2>3. id \in 1..lastTransactionId
      BY <2>2 DEF NoId
  <2> QED BY <2>1, <2>3 DEF OutcomeInv, Over, Done
<1> QED BY <1>1, <1>2, <1>3, PTL DEF Spec

-----------------------------------------------------------------------------
(* No restarts: whose the gate is, and atomicity *)

\* A restarted client sends a ROLLBACK that may end the transaction of
\* another client.
NoRestarts == "restart" \notin Calls \/ MaxRestarts = 0

Alive == \A c \in Clients : life[c] = 0 /\ pc[c] \notin {"restarted", "reopening"}

\* The id that the client has, or is about to receive.
IdOf(c) ==
    IF pc[c] # "beginning" THEN txnId[c] ELSE IF reply[c].ok THEN reply[c].id ELSE NoId

\* The answer to its COMMIT or ROLLBACK is on its way.
Ended(c) == pc[c] \in {"committing", "rollingBack"} /\ reply[c] # NoReply
Holds(c) == Begun(c) \/ (InTxn(pc[c]) /\ ~Ended(c))

\* The gate is held for the only client that has an id that is not over.
OwnIds ==
    /\ \A op \in Pending : op.tid # NoId =>
         op.tid = currentTransactionId /\ txnId[op.client] = op.tid
    /\ \A i \in 1..Len(Queue) : Queue[i].tid = NoId
    /\ \A c, d \in Clients : IdOf(c) # NoId /\ IdOf(c) = IdOf(d) => c = d
    /\ \A c \in Clients : Holds(c) => IdOf(c) = currentTransactionId

\* Nothing is left of a transaction that native code has ended, or refused to.
EndedIsOver ==
    \A c \in Clients : Ended(c) => \A op \in Pending : op.client = c => op.tid # txnId[c]

\* What is uncommitted with an id is of the transaction the gate is held for.
CurrentWrites == \A t \in uncommitted : t[2] # NoId => t[2] = currentTransactionId

\* As long as no client restarts, or calls a transaction that it has ended.
OwnInv ==
    /\ OutcomeInv /\ late = {}
    /\ Alive /\ OwnIds /\ EndedIsOver /\ CurrentWrites

\* A conflict ends a transaction behind the back of its client: what that
\* client still sends is then committed by itself.
NoAutomaticRollback == "conflict" \notin Faults

OpenWhileHeld == currentTransactionId # NoId => sqliteOpen

\* The writes of a transaction are where the transaction is.
OfTransactions ==
    /\ \A t \in committed \cup lost : t[2] # NoId => t[2] # currentTransactionId
    /\ \A t \in committed \cap lost : t[2] = NoId

\* The transaction of the client failed: it knows, or the answer is on the way.
Failed(c, id) ==
    \/ <<c, id>> \in failed
    \/ Ended(c) /\ txnId[c] = id /\ ~(pc[c] = "committing" /\ reply[c].ok)

\* The Java session is in no transaction any more when it failed, even if
\* SQLite still is: no COMMIT can make its writes durable.
FailedIsOver ==
    /\ \A t \in failed : t[2] # NoId
    /\ \A c \in Clients : \A id \in Nat \ {NoId} : Failed(c, id) =>
         /\ \A op \in Pending : op.client = c => op.tid # id
         /\ <<c, id>> \notin committed
         /\ <<c, id>> \in uncommitted => ~sessionOpen

AtomicInv == OwnInv /\ OpenWhileHeld /\ OfTransactions /\ FailedIsOver

\* The ways in which a statement may end.
BeginSucceeded(op) ==
    /\ op.kind = "begin" /\ currentTransactionId = NoId
    /\ currentTransactionId' = lastTransactionId + 1
    /\ sqliteOpen' /\ sessionOpen'
    /\ UNCHANGED <<uncommitted, committed, lost>>
    /\ Awaited(op) => reply'[op.client].ok

BeginFailed(op) ==
    /\ op.kind = "begin" /\ currentTransactionId = NoId /\ currentTransactionId' = NoId
    /\ ~sessionOpen /\ ~sessionOpen'
    /\ UNCHANGED <<uncommitted, committed, lost>>
    /\ Awaited(op) => ~reply'[op.client].ok

EndSucceeded(op) ==
    /\ IsEnd(op) /\ sessionOpen /\ sqliteOpen
    /\ currentTransactionId' = NoId /\ UNCHANGED lastTransactionId
    /\ uncommitted' = {}
    /\ \/ op.kind = "commit" /\ committed' = committed \cup uncommitted /\ UNCHANGED lost
       \/ op.kind = "rollback" /\ lost' = lost \cup uncommitted /\ UNCHANGED committed
    /\ Awaited(op) => reply'[op.client].ok

EndFailed(op) ==
    /\ IsEnd(op) /\ ~sessionOpen' /\ sqliteOpen' = sqliteOpen
    /\ ~sessionOpen \/ ~sqliteOpen \/ "commit" \in Faults
    /\ UNCHANGED <<currentTransactionId, lastTransactionId, uncommitted, committed, lost>>
    /\ Awaited(op) => ~reply'[op.client].ok

StatementRan(op) ==
    /\ op.kind \in {"write", "batch", "cancel"}
    /\ UNCHANGED <<currentTransactionId, lastTransactionId, sessionOpen, sqliteOpen, lost>>
    /\ uncommitted \subseteq uncommitted' /\ committed \subseteq committed'
    /\ \/ /\ sqliteOpen
          /\ uncommitted' \subseteq uncommitted \cup Written(op) /\ UNCHANGED committed
       \/ /\ ~sqliteOpen
          /\ committed' \subseteq committed \cup Written(op) /\ UNCHANGED uncommitted

RolledBack(op) ==
    /\ "conflict" \in Faults /\ op.kind \in {"write", "batch"}
    /\ UNCHANGED <<currentTransactionId, sessionOpen>>
    /\ uncommitted' = {}

Ends(op) ==
    \/ BeginSucceeded(op) \/ BeginFailed(op)
    \/ EndSucceeded(op) \/ EndFailed(op) \/ StatementRan(op) \/ RolledBack(op)

LEMMA ToldOk ==
    ASSUME Typed, NEW op \in LegalOps, NEW id, Answer(op, TRUE, id), Awaited(op)
    PROVE  reply'[op.client].ok
<1>1. reply' = [reply EXCEPT ![op.client] = [ok |-> TRUE, id |-> id]]
    BY AnsweredIff DEF Answer
<1>2. op.client \in Clients /\ reply = [c \in Clients |-> reply[c]]
    BY DEF LegalOps, Typed
<1>3. reply'[op.client] = [ok |-> TRUE, id |-> id]
    BY <1>1, <1>2
<1> QED BY <1>3

LEMMA ToldError ==
    ASSUME Typed, NEW op \in LegalOps, Answer(op, FALSE, NoId), Awaited(op)
    PROVE  ~reply'[op.client].ok
<1>1. reply' = [reply EXCEPT ![op.client] = [ok |-> FALSE, id |-> NoId]]
    BY AnsweredIff DEF Answer
<1>2. op.client \in Clients /\ reply = [c \in Clients |-> reply[c]]
    BY DEF LegalOps, Typed
<1>3. reply'[op.client] = [ok |-> FALSE, id |-> NoId]
    BY <1>1, <1>2
<1> QED BY <1>3

LEMMA ExecEnds ==
    ASSUME Inv, NEW op \in LegalOps, Exec(op), Passes(op) \/ op.kind = "batch",
           op.kind \notin ByHand, ~begunByHand
    PROVE  Ends(op)
<1>0. Typed
    BY DEF Inv
<1>1. CASE op.kind = "begin" /\ ExecBegin(op)
  <2>1. currentTransactionId = NoId /\ ~sessionOpen /\ ~sqliteOpen
    BY <1>1 DEF LegalOps, Passes, OfCurrentTransaction, GateMatchesSqlite, Inv, NoId, Forced
  <2>2. CASE /\ currentTransactionId' = lastTransactionId + 1
             /\ sessionOpen' = TRUE /\ sqliteOpen' = TRUE
             /\ Answer(op, TRUE, lastTransactionId + 1)
             /\ UNCHANGED <<uncommitted, committed, lost>>
    <3>1. Awaited(op) => reply'[op.client].ok
        BY <1>0, <2>2, ToldOk, Zenon
    <3> QED BY <1>1, <2>1, <2>2, <3>1 DEF BeginSucceeded, Ends
  <2>3. CASE /\ currentTransactionId' = NoId
             /\ UNCHANGED sessionOpen
             /\ Answer(op, FALSE, NoId)
             /\ UNCHANGED <<uncommitted, committed, lost>>
    <3>1. Awaited(op) => ~reply'[op.client].ok
        BY <1>0, <2>3, ToldError, Zenon
    <3>2. ~sessionOpen'
        BY <2>1, <2>3, Zenon
    <3> QED BY <1>1, <2>1, <2>3, <3>1, <3>2 DEF BeginFailed, Ends
  <2> QED
    BY <1>1, <2>1, <2>2, <2>3 DEF ExecBegin
<1>2. CASE op.kind \in {"commit", "rollback"} /\ ExecEnd(op)
  <2>1. CASE /\ sessionOpen /\ sqliteOpen
             /\ uncommitted' = {}
             /\ IF op.kind = "commit"
                THEN committed' = committed \cup uncommitted /\ UNCHANGED lost
                ELSE lost' = lost \cup uncommitted /\ UNCHANGED committed
             /\ currentTransactionId' = NoId
             /\ UNCHANGED lastTransactionId
             /\ Answer(op, TRUE, NoId)
    <3>1. Awaited(op) => reply'[op.client].ok
        BY <1>0, <2>1, ToldOk, Zenon
    <3>2. CASE op.kind = "commit"
        BY <2>1, <3>1, <3>2 DEF EndSucceeded, IsEnd, Ends
    <3>3. CASE op.kind = "rollback"
        BY <2>1, <3>1, <3>3 DEF EndSucceeded, IsEnd, Ends
    <3> QED BY <1>2, <3>2, <3>3
  <2>2. CASE /\ \/ ~sessionOpen
                \/ ~sqliteOpen
                \/ op.kind = "commit" /\ "commit" \in Faults
             /\ sessionOpen' = FALSE
             /\ UNCHANGED <<gateVars, sqliteOpen, uncommitted, committed, lost>>
             /\ Answer(op, FALSE, NoId)
    <3>1. Awaited(op) => ~reply'[op.client].ok
        BY <1>0, <2>2, ToldError, Zenon
    <3>2. IsEnd(op) /\ UNCHANGED <<currentTransactionId, lastTransactionId>>
        BY <1>2, <2>2 DEF IsEnd, gateVars
    <3>3. ~sessionOpen \/ ~sqliteOpen \/ "commit" \in Faults
        BY <2>2, Zenon
    <3> QED BY <2>2, <3>1, <3>2, <3>3 DEF EndFailed, Ends
  <2> QED
    BY <1>2, <2>1, <2>2 DEF ExecEnd
<1>3. CASE \/ op.kind = "write" /\ ExecWrite(op)
           \/ op.kind = "batch" /\ ExecBatch(op)
  <2>1. /\ UNCHANGED <<gateVars, sessionOpen>>
        /\ \/ /\ UNCHANGED <<sqliteOpen, lost>>
              /\ Apply(op) \/ UNCHANGED <<uncommitted, committed>>
           \/ "conflict" \in Faults /\ uncommitted' = {}
    BY <1>3 DEF ExecWrite, ExecBatch, Apply
  <2>2. UNCHANGED <<currentTransactionId, lastTransactionId>>
    BY <2>1 DEF gateVars
  <2>3. Written(op) = {<<op.client, op.tid>>}
    BY <1>3 DEF Written, Tag
  <2>4. CASE "conflict" \in Faults /\ uncommitted' = {}
    BY <1>3, <2>1, <2>2, <2>4 DEF RolledBack, Ends
  <2>5. CASE /\ sqliteOpen /\ UNCHANGED <<sqliteOpen, lost>>
             /\ Apply(op) \/ UNCHANGED <<uncommitted, committed>>
    <3>1. /\ uncommitted' \subseteq uncommitted \cup Written(op) /\ UNCHANGED committed
          /\ uncommitted \subseteq uncommitted' /\ committed \subseteq committed'
        BY <2>3, <2>5 DEF Apply
    <3> QED BY <1>3, <2>1, <2>2, <2>5, <3>1 DEF StatementRan, Ends
  <2>6. CASE /\ ~sqliteOpen /\ UNCHANGED <<sqliteOpen, lost>>
             /\ Apply(op) \/ UNCHANGED <<uncommitted, committed>>
    <3>1. /\ committed' \subseteq committed \cup Written(op) /\ UNCHANGED uncommitted
          /\ uncommitted \subseteq uncommitted' /\ committed \subseteq committed'
        BY <2>3, <2>6 DEF Apply
    <3> QED BY <1>3, <2>1, <2>2, <2>6, <3>1 DEF StatementRan, Ends
  <2> QED BY <2>1, <2>4, <2>5, <2>6
<1>4. CASE op.kind = "cancel" /\ ExecCancel(op)
  <2>1. UNCHANGED <<currentTransactionId, lastTransactionId, sessionOpen, sqliteOpen, lost,
                   uncommitted, committed>>
    BY <1>4 DEF ExecCancel, gateVars, sqliteVars
  <2>2. sqliteOpen \/ ~sqliteOpen
    OBVIOUS
  <2> QED BY <1>4, <2>1, <2>2 DEF StatementRan, Ends
<1> QED
  BY <1>1, <1>2, <1>3, <1>4 DEF Exec, ByHand

\* What is known of the clients and their calls.
LEMMA OwnFacts ==
    ASSUME OwnInv
    PROVE  /\ currentTransactionId \in Nat /\ lastTransactionId \in Nat
           /\ currentTransactionId <= lastTransactionId
           /\ \A c \in Clients : IdOf(c) \in Nat /\ IdOf(c) <= lastTransactionId
           /\ \A c \in Clients : Holds(c) => IdOf(c) # NoId
           /\ \A c \in Clients : InTxn(pc[c]) => txnId[c] # NoId /\ IdOf(c) = txnId[c]
           /\ \A x \in Pending : x \in LegalOps /\ x.client \in Clients
           /\ \A x \in Pending : x.kind \notin {"write", "batch"} => Awaited(x)
           /\ \A x \in Pending : Awaited(x) => /\ reply[x.client] = NoReply
                                              /\ AwaitedIn(x, pc[x.client], txnId[x.client])
           /\ \A x \in Pending : IsEnd(x) => x.tid = currentTransactionId /\ x.tid # NoId
           /\ ~NoReply.ok
<1>1. /\ currentTransactionId \in Nat /\ lastTransactionId \in Nat
      /\ currentTransactionId <= lastTransactionId
      /\ reply \in [Clients -> [ok : BOOLEAN, id : Nat] \cup {NoReply}]
      /\ txnId \in [Clients -> Nat]
      /\ ~NoReply.ok
    BY DEF OwnInv, OutcomeInv, Inv, Typed, Known, NoReply
<1>2. \A c \in Clients : IdOf(c) \in Nat /\ IdOf(c) <= lastTransactionId
  <2> SUFFICES ASSUME NEW c \in Clients PROVE IdOf(c) \in Nat /\ IdOf(c) <= lastTransactionId
      OBVIOUS
  <2>1. txnId[c] <= lastTransactionId /\ reply[c].id <= lastTransactionId /\ txnId[c] \in Nat
      BY <1>1 DEF OwnInv, OutcomeInv, Known
  <2>2. NoId \in Nat /\ NoId <= lastTransactionId
      BY <1>1 DEF NoId
  <2>3. reply[c].ok => reply[c].id \in Nat
      BY <1>1
  <2> QED BY <2>1, <2>2, <2>3 DEF IdOf
<1>3. \A c \in Clients : InTxn(pc[c]) => txnId[c] # NoId /\ IdOf(c) = txnId[c]
    BY DEF OwnInv, OutcomeInv, TxnIds, InTxn, IdOf
<1>4. \A c \in Clients : Holds(c) => IdOf(c) # NoId
  <2> SUFFICES ASSUME NEW c \in Clients, Begun(c) PROVE IdOf(c) # NoId
      BY <1>3 DEF Holds
  <2>1. reply[c] # NoReply /\ pc[c] = "beginning" /\ reply[c].ok
      BY <1>1 DEF Begun
  <2> QED BY <2>1 DEF OwnInv, OutcomeInv, TxnIds, IdOf
<1>5. \A x \in Pending : x \in LegalOps /\ x.client \in Clients /\ IsOp(x)
    BY PendingLegal, LegalIsOp DEF OwnInv, OutcomeInv, Inv, LegalOps
<1>6. ASSUME NEW x \in Pending, x.kind \notin {"write", "batch"}
      PROVE  Awaited(x)
  <2>1. x.life \in Nat /\ x.life <= life[x.client] /\ life[x.client] = 0
      BY <1>5 DEF LegalOps, OwnInv, OutcomeInv, InFlight, Alive
  <2>2. x.life = life[x.client]
      BY <2>1
  <2> QED BY <1>5, <1>6, <2>2 DEF Awaited
<1>7. \A x \in Pending : Awaited(x) => /\ reply[x.client] = NoReply
                                      /\ AwaitedIn(x, pc[x.client], txnId[x.client])
    BY DEF OwnInv, OutcomeInv, InFlight
<1>8. \A x \in Pending : IsEnd(x) => x.tid = currentTransactionId /\ x.tid # NoId
    BY DEF OwnInv, OutcomeInv, TxnIds, OwnIds
<1> QED BY <1>1, <1>2, <1>3, <1>4, <1>5, <1>6, <1>7, <1>8

\* The ids change when a BEGIN succeeds, and hands out a new one.
LEMMA ExecIds ==
    ASSUME OwnInv, NEW op \in LegalOps, op \in Pending, Effect(op),
           UNCHANGED <<pc, txnId>>
    PROVE  /\ \A d \in Clients : reply'[d] # reply[d] => d = op.client /\ reply'[d] # NoReply
           /\ op.kind # "begin" => \A d \in Clients : IdOf(d)' = IdOf(d)
           /\ op.kind = "begin" =>
                \A d \in Clients : \/ IdOf(d)' = IdOf(d)
                                   \/ d = op.client /\ IdOf(d)' = lastTransactionId + 1
           /\ op.kind = "begin" /\ ~reply'[op.client].ok => IdOf(op.client)' = IdOf(op.client)
           /\ \A d \in Clients : d # op.client =>
                (Holds(d)' <=> Holds(d)) /\ (Ended(d)' <=> Ended(d)) /\ reply'[d] = reply[d]
           /\ op.kind \notin {"begin", "commit", "rollback"} =>
                \A d \in Clients : (Holds(d)' => Holds(d)) /\ (Ended(d)' <=> Ended(d))
           /\ op.kind = "begin" => \A d \in Clients : (Ended(d)' <=> Ended(d))
           /\ IsEnd(op) => /\ pc[op.client] \in {"committing", "rollingBack"}
                           /\ (pc[op.client] = "committing" <=> op.kind = "commit")
                           /\ Ended(op.client)' /\ ~Holds(op.client)'
                           /\ txnId[op.client] = op.tid /\ IdOf(op.client) = op.tid
           /\ op.kind = "begin" => pc[op.client] = "beginning" /\ IdOf(op.client) = NoId
<1>0. op.client \in Clients
    BY DEF LegalOps
<1>1. ASSUME NEW d \in Clients, reply'[d] # reply[d]
      PROVE  AnswerFor(op, d)
    BY <1>1, AnswerArrives DEF OwnInv
<1>2. ASSUME NEW d \in Clients, reply'[d] # reply[d]
      PROVE  d = op.client /\ reply'[d] # NoReply /\ Awaited(op)
  <2>1. reply'[d].id \in Nat /\ d = op.client /\ Awaited(op)
      BY <1>1, <1>2 DEF AnswerFor
  <2>2. NoReply.id \notin Nat
      BY DEF NoReply, Forced
  <2> QED BY <2>1, <2>2
<1>3. Awaited(op) => reply[op.client] = NoReply /\ AwaitedIn(op, pc[op.client], txnId[op.client])
    BY OwnFacts
<1>4. Awaited(op) => reply'[op.client] # NoReply
  <2> SUFFICES ASSUME Awaited(op) PROVE reply'[op.client] # NoReply
      OBVIOUS
  <2>1. PICK ok \in BOOLEAN, id \in Nat :
          reply' = [reply EXCEPT ![op.client] = [ok |-> ok, id |-> id]]
      BY DEF Effect, Answered
  <2>2. reply'[op.client] = [ok |-> ok, id |-> id]
      BY <1>0, <2>1 DEF OwnInv, OutcomeInv, Inv, Typed
  <2>3. reply'[op.client].id = id /\ NoReply.id \notin Nat
      BY <2>2 DEF NoReply, Forced
  <2> QED BY <2>3
<1>5. /\ \A d \in Clients : d # op.client => reply'[d] = reply[d]
      /\ ~Awaited(op) => \A d \in Clients : reply'[d] = reply[d]
    BY <1>2
<1>6. \A d \in Clients : d # op.client =>
        (Holds(d)' <=> Holds(d)) /\ (Ended(d)' <=> Ended(d)) /\ IdOf(d)' = IdOf(d)
    BY <1>5 DEF Holds, Begun, Ended, InTxn, IdOf
<1>7. CASE ~Awaited(op)
  <2>1. op.kind \in {"write", "batch"}
      BY <1>7, OwnFacts
  <2>2. \A d \in Clients : (Holds(d)' <=> Holds(d)) /\ (Ended(d)' <=> Ended(d)) /\ IdOf(d)' = IdOf(d)
      BY <1>5, <1>7 DEF Holds, Begun, Ended, InTxn, IdOf
  <2> QED BY <1>2, <1>5, <1>6, <2>1, <2>2 DEF IsEnd
<1>8. CASE Awaited(op)
  <2> DEFINE c == op.client
  <2>1. /\ reply[c] = NoReply /\ reply'[c] # NoReply /\ AwaitedIn(op, pc[c], txnId[c])
        /\ pc'[c] = pc[c] /\ txnId'[c] = txnId[c] /\ c \in Clients
      BY <1>0, <1>3, <1>4, <1>8
  <2>2. op.kind \in {"begin", "commit", "rollback", "write", "batch", "cancel"}
      BY <2>1 DEF AwaitedIn
  <2>3. CASE op.kind = "begin"
    <3>1. pc[c] = "beginning"
        BY <2>1, <2>3 DEF AwaitedIn
    <3>2. ~NoReply.ok
        BY OwnFacts
    <3>3. IdOf(c) = NoId
        BY <2>1, <3>1, <3>2 DEF IdOf
    <3>4. \/ reply'[c].ok = TRUE /\ reply'[c].id = lastTransactionId + 1
          \/ reply'[c].ok = FALSE /\ reply'[c].id = NoId
        BY <1>1, <2>1, <2>3 DEF AnswerFor
    <3>5. IdOf(c)' = IdOf(c) \/ IdOf(c)' = lastTransactionId + 1
        BY <2>1, <3>1, <3>3, <3>4 DEF IdOf
    <3>6. ~reply'[c].ok => IdOf(c)' = IdOf(c)
        BY <2>1, <3>1, <3>3 DEF IdOf
    <3>7. Ended(c)' <=> Ended(c)
        BY <2>1, <3>1 DEF Ended
    <3> HIDE DEF c
    <3> QED BY <1>2, <1>5, <1>6, <2>1, <2>3, <3>1, <3>3, <3>5, <3>6, <3>7 DEF c, IsEnd
  <2>4. CASE IsEnd(op)
    <3>1. /\ pc[c] \in {"committing", "rollingBack"} \/ op.tid = Forced
          /\ op.tid # Forced => txnId[c] = op.tid
          /\ op.tid # Forced => (pc[c] = "committing" <=> op.kind = "commit")
        BY <2>1, <2>4 DEF AwaitedIn, IsEnd
    <3>2. op.tid # Forced
        BY <2>4, OwnFacts DEF Forced
    <3>3. Ended(c)' /\ ~Holds(c)'
        BY <2>1, <3>1, <3>2 DEF Ended, Holds, Begun
    <3>4. IdOf(c)' = IdOf(c) /\ IdOf(c) = op.tid
        BY <2>1, <3>1, <3>2 DEF IdOf
    <3>5. op.kind \in {"commit", "rollback"}
        BY <2>4 DEF IsEnd
    <3> HIDE DEF c
    <3> QED BY <1>2, <1>5, <1>6, <2>1, <3>1, <3>2, <3>3, <3>4, <3>5 DEF c
  <2>5. CASE op.kind \in {"write", "batch", "cancel"}
    <3>1. pc[c] \in {"waiting", "awaiting"}
        BY <2>1, <2>5 DEF AwaitedIn
    <3>2. IdOf(c)' = IdOf(c) /\ (Ended(c)' <=> Ended(c)) /\ (Holds(c)' => Holds(c))
        BY <2>1, <3>1 DEF IdOf, Ended, Holds, Begun, InTxn
    <3> HIDE DEF c
    <3> QED BY <1>2, <1>5, <1>6, <2>1, <2>5, <3>2 DEF c, IsEnd
  <2> QED BY <2>2, <2>3, <2>4, <2>5 DEF IsEnd
<1> QED BY <1>7, <1>8

\* What native code does when it runs a statement: it was the last of its
\* transaction if it was to end it.
Ran(op) ==
    /\ op \in Pending /\ Effect(op) /\ Ends(op)
    /\ Passes(op) \/ op.kind = "batch"
    /\ UNCHANGED <<pc, txnId, life, succeeded, failed, late>>
    /\ Pending' \subseteq Pending
    /\ \A i \in 1..Len(Queue') : \E j \in 1..Len(Queue) : Queue'[i] = Queue[j]
    /\ IsEnd(op) => \A x \in Pending' : x.client = op.client => x.tid # op.tid

\* The head of the tasks is handled, but not run.
Unrun ==
    /\ UNCHANGED <<pc, txnId, life, reply, succeeded, failed, late>>
    /\ UNCHANGED <<currentTransactionId, lastTransactionId, sessionOpen, sqliteOpen,
                   uncommitted, committed, lost>>
    /\ Pending' \subseteq Pending
    /\ \A i \in 1..Len(Queue') : Queue'[i].tid = NoId

\* The answer to the end of a transaction comes from the end.
LEMMA EndedBy ==
    ASSUME OwnInv, NEW op \in LegalOps, Ran(op), NEW d \in Clients, Ended(d)', ~Ended(d)
    PROVE  IsEnd(op) /\ d = op.client /\ txnId[d] = op.tid
<1>1. /\ d # op.client => (Ended(d)' <=> Ended(d))
      /\ op.kind \notin {"begin", "commit", "rollback"} => (Ended(d)' <=> Ended(d))
      /\ op.kind = "begin" => (Ended(d)' <=> Ended(d))
      /\ IsEnd(op) => txnId[op.client] = op.tid
    BY ExecIds DEF Ran
<1> QED BY <1>1 DEF IsEnd

\* When a transaction ends, nobody has its id any more, and no call.
LEMMA EndIsAlone ==
    ASSUME OwnInv, NEW op \in LegalOps, Ran(op), IsEnd(op)
    PROVE  /\ op.tid = currentTransactionId /\ currentTransactionId # NoId
           /\ \A d \in Clients : ~Holds(d)'
           /\ \A x \in Pending' : x.tid = NoId
<1> DEFINE c == op.client
<1>0. c \in Clients /\ \A d \in Clients : Holds(d) => IdOf(d) = currentTransactionId
    BY DEF LegalOps, OwnInv, OwnIds
<1>1. op.tid = currentTransactionId /\ op.tid # NoId
    BY OwnFacts DEF Ran
<1>2. IdOf(c) = op.tid /\ ~Holds(c)'
    BY ExecIds DEF Ran
<1>3. \A d \in Clients : IdOf(d) = IdOf(c) => d = c
    BY <1>0, <1>1, <1>2 DEF OwnInv, OwnIds
<1>4. ASSUME NEW d \in Clients, Holds(d)' PROVE FALSE
  <2>1. d # c
      BY <1>2, <1>4
  <2>2. Holds(d)
      BY <1>4, <2>1, ExecIds DEF Ran
  <2> QED BY <1>0, <1>1, <1>2, <1>3, <2>1, <2>2
<1>5. ASSUME NEW x \in Pending', x.tid # NoId PROVE FALSE
  <2>1. x \in Pending /\ x.client \in Clients /\ x.tid = op.tid /\ txnId[x.client] = op.tid
      BY <1>1, <1>5, OwnFacts DEF Ran, OwnInv, OwnIds
  <2>2. IdOf(x.client) = op.tid
    <3>1. InTxn(pc[x.client])
        BY <1>1, <2>1 DEF OwnInv, OutcomeInv, TxnIds, InTxn
    <3> QED BY <2>1, <3>1, OwnFacts
  <2>3. x.client = c
      BY <1>2, <1>3, <2>1, <2>2
  <2> QED BY <1>5, <2>1, <2>3 DEF Ran
<1> QED BY <1>1, <1>4, <1>5

\* A statement is over.
LEMMA ExecKeepsOwn ==
    ASSUME OwnInv, OutcomeInv', NEW op \in LegalOps, Ran(op)
    PROVE  OwnInv'
<1> DEFINE c == op.client
<1>0. /\ currentTransactionId \in Nat /\ lastTransactionId \in Nat
      /\ c \in Clients /\ op.tid \in Int /\ lastTransactionId + 1 # NoId
      /\ \A d \in Clients : IdOf(d) \in Nat /\ IdOf(d) <= lastTransactionId
      /\ \A d \in Clients : IdOf(d) # lastTransactionId + 1
    BY OwnFacts DEF LegalOps, Forced, NoId
<1> USE DEF Ran
<1>1. Alive'
    BY DEF OwnInv, Alive
<1>2. \A i \in 1..Len(Queue') : Queue'[i].tid = NoId
    BY DEF OwnInv, OwnIds
<1>3. \A x \in Pending' : /\ x \in Pending /\ x.client \in Clients
                          /\ x.tid # NoId => x.tid = currentTransactionId /\ txnId[x.client] = x.tid
    BY OwnFacts DEF OwnInv, OwnIds
<1>4. \A d \in Clients : Holds(d) => IdOf(d) = currentTransactionId /\ IdOf(d) # NoId
    BY OwnFacts DEF OwnInv, OwnIds
<1>5. \A d, e \in Clients : IdOf(d)' # NoId /\ IdOf(d)' = IdOf(e)' => d = e
  <2>1. \A d, e \in Clients : IdOf(d) # NoId /\ IdOf(d) = IdOf(e) => d = e
      BY DEF OwnInv, OwnIds
  <2>2. \A d \in Clients : \/ IdOf(d)' = IdOf(d)
                           \/ d = c /\ IdOf(d)' = lastTransactionId + 1
      BY ExecIds
  <2> HIDE DEF c
  <2> QED BY <1>0, <2>1, <2>2
<1>6. CurrentWrites
    BY DEF OwnInv
<1>7. EndedIsOver'
  <2> SUFFICES ASSUME NEW d \in Clients, Ended(d)', NEW x \in Pending', x.client = d
               PROVE  x.tid # txnId'[d]
      BY DEF EndedIsOver
  <2>1. CASE Ended(d)
      BY <2>1 DEF OwnInv, EndedIsOver
  <2>2. CASE ~Ended(d)
      BY <2>2, EndedBy
  <2> QED BY <2>1, <2>2
<1>8. SUFFICES OwnIds' /\ CurrentWrites'
    BY <1>1, <1>7 DEF OwnInv
<1>9. CASE BeginSucceeded(op)
  <2>1. /\ op.kind = "begin" /\ currentTransactionId = NoId
        /\ currentTransactionId' = lastTransactionId + 1
        /\ uncommitted' = uncommitted
      BY <1>9 DEF BeginSucceeded
  <2>2. \A x \in Pending' : x.tid = NoId
      BY <1>3, <2>1
  <2>3. \A d \in Clients : Holds(d)' => IdOf(d)' = lastTransactionId + 1
    <3> SUFFICES ASSUME NEW d \in Clients, Holds(d)' PROVE IdOf(d)' = lastTransactionId + 1
        OBVIOUS
    <3>1. d = c
        BY <1>4, <2>1, ExecIds
    <3>2. pc[c] = "beginning" /\ pc'[c] = pc[c]
        BY <2>1, ExecIds
    <3>3. reply'[c].ok
        BY <3>1, <3>2 DEF Holds, Begun, InTxn
    <3>4. reply'[c] # reply[c]
        BY <3>2, <3>3, <1>4, <2>1, <1>0 DEF Holds, Begun
    <3>5. reply'[c].id = lastTransactionId + 1
        BY <1>0, <2>1, <3>3, <3>4, AnswerArrives DEF AnswerFor, OwnInv
    <3> QED BY <3>1, <3>2, <3>3, <3>5 DEF IdOf
  <2>4. OwnIds'
      BY <1>2, <1>5, <2>1, <2>2, <2>3 DEF OwnIds
  <2>5. CurrentWrites'
      BY <1>6, <2>1 DEF CurrentWrites
  <2> QED BY <2>4, <2>5
<1>10. CASE BeginFailed(op)
  <2>1. /\ op.kind = "begin" /\ currentTransactionId = NoId
        /\ currentTransactionId' = NoId /\ uncommitted' = uncommitted
      BY <1>10 DEF BeginFailed
  <2>2. \A d \in Clients : ~Holds(d)'
    <3> SUFFICES ASSUME NEW d \in Clients, Holds(d)' PROVE FALSE
        OBVIOUS
    <3>1. d = c
        BY <1>4, <2>1, ExecIds
    <3>2. pc[c] = "beginning" /\ pc'[c] = pc[c]
        BY <2>1, ExecIds
    <3>3. reply'[c].ok
        BY <3>1, <3>2 DEF Holds, Begun, InTxn
    <3>4. Awaited(op)
        BY <2>1, OwnFacts
    <3> QED BY <1>10, <3>3, <3>4 DEF BeginFailed
  <2>3. OwnIds'
      BY <1>2, <1>3, <1>5, <2>1, <2>2 DEF OwnIds
  <2> QED BY <1>6, <2>1, <2>3 DEF CurrentWrites
<1>11. CASE EndSucceeded(op) \/ EndFailed(op)
  <2>1. /\ IsEnd(op)
        /\ \/ uncommitted' = {} /\ currentTransactionId' = NoId
           \/ UNCHANGED <<uncommitted, currentTransactionId>>
      BY <1>11 DEF EndSucceeded, EndFailed
  <2>2. (\A d \in Clients : ~Holds(d)') /\ (\A x \in Pending' : x.tid = NoId)
      BY <2>1, EndIsAlone
  <2>3. OwnIds'
      BY <1>2, <1>5, <2>2 DEF OwnIds
  <2> QED BY <1>6, <2>1, <2>3 DEF CurrentWrites
<1>12. CASE StatementRan(op) \/ RolledBack(op)
  <2>1. /\ op.kind \in {"write", "batch", "cancel"}
        /\ UNCHANGED currentTransactionId
        /\ uncommitted' \subseteq uncommitted \cup Written(op)
      BY <1>12 DEF StatementRan, RolledBack
  <2>2. \A d \in Clients : (Holds(d)' => Holds(d)) /\ IdOf(d)' = IdOf(d)
      BY <2>1, ExecIds
  <2>3. /\ op.tid # NoId => op.tid = currentTransactionId
        /\ \A t \in Written(op) : t[2] = op.tid
      BY DEF OwnInv, OwnIds, Written, Tag
  <2>4. UNCHANGED txnId
      OBVIOUS
  <2> HIDE DEF c, Ran
  <2>5. OwnIds'
      BY <1>2, <1>3, <1>4, <1>5, <2>1, <2>2, <2>4 DEF OwnIds
  <2>6. CurrentWrites'
      BY <1>6, <2>1, <2>3 DEF CurrentWrites
  <2> QED BY <2>5, <2>6
<1> QED BY <1>9, <1>10, <1>11, <1>12 DEF Ends

\* And what it wrote or ended is atomic, if SQLite does not roll back by
\* itself.
LEMMA ExecKeepsAtomic ==
    ASSUME AtomicInv, OwnInv', NoAutomaticRollback, NEW op \in LegalOps, Ran(op)
    PROVE  AtomicInv'
<1> DEFINE c == op.client
<1>0. /\ OwnInv /\ OutcomeInv /\ c \in Clients
      /\ currentTransactionId \in Nat /\ lastTransactionId \in Nat
      /\ currentTransactionId <= lastTransactionId /\ lastTransactionId + 1 # NoId
    BY OwnFacts DEF AtomicInv, OwnInv, LegalOps, NoId
<1> USE DEF Ran
<1>1. \A x \in Pending' : x.tid # NoId => x.tid = currentTransactionId
    BY <1>0 DEF OwnInv, OwnIds
<1>2. /\ \A t \in uncommitted : t[2] # NoId => t[2] = currentTransactionId
      /\ \A t \in committed \cup lost : t[2] # NoId => t[2] # currentTransactionId
      /\ \A t \in committed \cap lost : t[2] = NoId
    BY <1>0 DEF AtomicInv, OfTransactions, OwnInv, CurrentWrites
<1>3. \A d \in Clients : \A id \in Nat \ {NoId} : Failed(d, id) =>
         /\ \A x \in Pending : x.client = d => x.tid # id
         /\ <<d, id>> \notin committed
         /\ <<d, id>> \in uncommitted => ~sessionOpen
    BY DEF AtomicInv, FailedIsOver
<1>4. \A t \in failed' : t[2] # NoId
    BY DEF AtomicInv, FailedIsOver
\* A client learns of the failure of a transaction from the end of it only.
<1>5. ASSUME NEW d \in Clients, NEW id, Failed(d, id)', ~Failed(d, id)
      PROVE  /\ IsEnd(op) /\ d = c /\ id = op.tid
             /\ op.kind = "commit" => ~reply'[c].ok
  <2>1. /\ Ended(d)' /\ txnId[d] = id /\ pc'[d] = pc[d]
        /\ ~(pc[d] = "committing" /\ reply'[d].ok) /\ reply'[d] # reply[d]
      BY <1>5 DEF Failed, Ended
  <2>2. d = c
      BY <1>0, <2>1, ExecIds
  <2>3. ~Ended(d)
    <3>1. Awaited(op)
        BY <1>0, <2>1, AnswerArrives DEF AnswerFor
    <3>2. reply[d] = NoReply
        BY <1>0, <2>2, <3>1, OwnFacts
    <3> QED BY <3>2 DEF Ended
  <2>4. IsEnd(op) /\ txnId[d] = op.tid
      BY <1>0, <2>1, <2>3, EndedBy
  <2>5. pc[c] = "committing" <=> op.kind = "commit"
      BY <1>0, <2>4, ExecIds
  <2> QED BY <2>1, <2>2, <2>4, <2>5
<1>6. CASE BeginSucceeded(op)
  <2>1. /\ op.kind = "begin" /\ currentTransactionId = NoId
        /\ currentTransactionId' = lastTransactionId + 1 /\ sqliteOpen'
        /\ UNCHANGED <<uncommitted, committed, lost>>
      BY <1>6 DEF BeginSucceeded
  <2>2. \A x \in Pending' : x.tid = NoId
      BY <1>1, <2>1
  <2>3. OpenWhileHeld'
      BY <2>1 DEF OpenWhileHeld
  <2>4. OfTransactions'
    <3>1. \A t \in committed \cup lost : t[2] # lastTransactionId + 1
      <4>1. \A t \in committed \cup lost : t[2] <= lastTransactionId
          BY <1>0 DEF OutcomeInv, Known
      <4>2. ~(lastTransactionId + 1 <= lastTransactionId)
          BY <1>0
      <4> QED BY <4>1, <4>2
    <3> QED BY <1>2, <2>1, <3>1 DEF OfTransactions
  <2>5. FailedIsOver'
    <3>1. ASSUME NEW d \in Clients, NEW id \in Nat \ {NoId}, Failed(d, id)'
          PROVE  /\ \A x \in Pending' : x.client = d => x.tid # id
                 /\ <<d, id>> \notin committed'
                 /\ <<d, id>> \in uncommitted' => ~sessionOpen'
      <4>1. Failed(d, id)
          BY <1>5, <2>1, <3>1 DEF IsEnd
      <4>2. <<d, id>> \notin uncommitted
          BY <1>2, <2>1
      <4> QED BY <1>3, <2>1, <2>2, <4>1, <4>2
    <3> QED BY <1>4, <3>1 DEF FailedIsOver
  <2> QED BY <2>3, <2>4, <2>5 DEF AtomicInv
<1>7. CASE BeginFailed(op)
  <2>1. /\ op.kind = "begin" /\ currentTransactionId = NoId
        /\ currentTransactionId' = NoId /\ ~sessionOpen'
        /\ UNCHANGED <<uncommitted, committed, lost>>
      BY <1>7 DEF BeginFailed
  <2>2. OpenWhileHeld' /\ OfTransactions'
      BY <1>2, <2>1 DEF OpenWhileHeld, OfTransactions
  <2>3. FailedIsOver'
    <3>1. \A d \in Clients : \A id \in Nat \ {NoId} : Failed(d, id)' => Failed(d, id)
        BY <1>5, <2>1 DEF IsEnd
    <3> QED BY <1>3, <1>4, <2>1, <3>1 DEF FailedIsOver
  <2> QED BY <2>2, <2>3 DEF AtomicInv
<1>8. CASE EndSucceeded(op)
  <2>1. /\ IsEnd(op) /\ sessionOpen
        /\ currentTransactionId' = NoId
        /\ uncommitted' = {}
        /\ \/ op.kind = "commit" /\ committed' = committed \cup uncommitted /\ lost' = lost
           \/ op.kind = "rollback" /\ lost' = lost \cup uncommitted /\ committed' = committed
        /\ Awaited(op) => reply'[c].ok
      BY <1>8 DEF EndSucceeded
  <2>2. op.tid = currentTransactionId /\ \A x \in Pending' : x.tid = NoId
      BY <1>0, <2>1, EndIsAlone
  <2>3. OpenWhileHeld' /\ OfTransactions'
      BY <1>2, <2>1 DEF OpenWhileHeld, OfTransactions
  <2>4. FailedIsOver'
    <3>1. ASSUME NEW d \in Clients, NEW id \in Nat \ {NoId}, Failed(d, id)'
          PROVE  <<d, id>> \notin committed'
      <4>1. CASE Failed(d, id)
          BY <1>3, <2>1, <4>1
      <4>2. CASE ~Failed(d, id)
        <5>1. op.kind # "commit"
          <6>1. op.kind = "commit" => Awaited(op) /\ ~reply'[c].ok
              BY <1>0, <1>5, <3>1, <4>2, OwnFacts
          <6> QED BY <2>1, <6>1
        <5>2. id = currentTransactionId /\ committed' = committed
            BY <1>5, <2>1, <2>2, <3>1, <4>2, <5>1
        <5> QED BY <1>2, <5>2
      <4> QED BY <4>1, <4>2
    <3> QED BY <1>4, <2>1, <2>2, <3>1 DEF FailedIsOver
  <2> QED BY <2>3, <2>4 DEF AtomicInv
<1>9. CASE EndFailed(op)
  <2>1. /\ IsEnd(op) /\ ~sessionOpen' /\ sqliteOpen' = sqliteOpen
        /\ UNCHANGED <<currentTransactionId, uncommitted, committed, lost>>
      BY <1>9 DEF EndFailed
  <2>2. op.tid = currentTransactionId /\ \A x \in Pending' : x.tid = NoId
      BY <1>0, <2>1, EndIsAlone
  <2>3. OpenWhileHeld' /\ OfTransactions'
      BY <1>2, <2>1 DEF AtomicInv, OpenWhileHeld, OfTransactions
  <2>4. FailedIsOver'
    <3>1. ASSUME NEW d \in Clients, NEW id \in Nat \ {NoId}, Failed(d, id)'
          PROVE  <<d, id>> \notin committed
      <4>1. CASE Failed(d, id)
          BY <1>3, <4>1
      <4>2. CASE ~Failed(d, id)
          BY <1>2, <1>5, <2>2, <3>1, <4>2
      <4> QED BY <4>1, <4>2
    <3> QED BY <1>4, <2>1, <2>2, <3>1 DEF FailedIsOver
  <2> QED BY <2>3, <2>4 DEF AtomicInv
<1>10. CASE StatementRan(op)
  <2>1. /\ op.kind \in {"write", "batch", "cancel"}
        /\ UNCHANGED <<currentTransactionId, sessionOpen, sqliteOpen, lost>>
        /\ \/ /\ sqliteOpen
              /\ uncommitted' \subseteq uncommitted \cup Written(op) /\ committed' = committed
           \/ /\ ~sqliteOpen
              /\ committed' \subseteq committed \cup Written(op) /\ uncommitted' = uncommitted
      BY <1>10 DEF StatementRan
  <2>2. \A d \in Clients : \A id \in Nat \ {NoId} : Failed(d, id)' => Failed(d, id)
      BY <1>5, <2>1 DEF IsEnd
  <2>3. /\ op.tid # NoId => op.tid = currentTransactionId /\ sqliteOpen
        /\ \A t \in Written(op) : t[2] = op.tid /\ t = <<c, op.tid>>
      BY <1>0 DEF AtomicInv, OwnInv, OwnIds, OpenWhileHeld, Written, Tag
  <2>4. \A d \in Clients : \A id \in Nat \ {NoId} : Failed(d, id) => (op.client = d => op.tid # id)
      BY <1>3
  <2>5. Pending' \subseteq Pending
      OBVIOUS
  <2> HIDE DEF c, Ran
  <2>6. OpenWhileHeld'
      BY <2>1 DEF AtomicInv, OpenWhileHeld
  <2>7. OfTransactions'
      BY <1>2, <2>1, <2>3 DEF OfTransactions
  <2>8. FailedIsOver'
    <3>1. ASSUME NEW d \in Clients, NEW id \in Nat \ {NoId}, Failed(d, id)'
          PROVE  /\ \A x \in Pending' : x.client = d => x.tid # id
                 /\ <<d, id>> \notin committed'
                 /\ <<d, id>> \in uncommitted' => ~sessionOpen'
      <4>1. Failed(d, id)
          BY <2>2, <3>1
      <4>2. <<d, id>> \notin Written(op)
          BY <2>3, <2>4, <4>1 DEF c
      <4> QED BY <1>3, <2>1, <2>5, <4>1, <4>2
    <3> QED BY <1>4, <3>1 DEF FailedIsOver
  <2> QED BY <2>6, <2>7, <2>8 DEF AtomicInv
<1>11. CASE RolledBack(op)
    BY <1>11 DEF RolledBack, NoAutomaticRollback
<1> QED BY <1>6, <1>7, <1>8, <1>9, <1>10, <1>11 DEF Ends

\* A client sends a call of its transaction, or one without a transaction.
LEMMA SendIds ==
    ASSUME OwnInv, NEW c \in Clients, NEW state \in States,
           NEW tid \in Nat, NEW kind \in PlainKinds, Sends(c, kind, tid, state), late' = {}
    PROVE  /\ \A d \in Clients : (IdOf(d)' = IdOf(d)) /\ (Holds(d)' <=> Holds(d))
                                /\ (Ended(d)' <=> Ended(d))
           /\ \A d \in Clients : Ended(d) => pc'[d] = pc[d]
           /\ ~Ended(c) /\ (InTxn(pc[c]) => Holds(c) /\ IdOf(c) = txnId[c])
           /\ \A d \in Clients : pc'[d] = pc[d] \/ (d = c /\ pc'[d] = state)
           /\ pc[c] # "restarted" => state \notin {"restarted", "reopening"}
<1>1. /\ UNCHANGED <<txnId, reply>> /\ pc' = [pc EXCEPT ![c] = state]
      /\ \/ /\ pc[c] \in {"idle", "active", "restarted"} /\ (InTxn(state) <=> pc[c] = "active")
            /\ pc[c] # "restarted" => state \notin {"restarted", "reopening"}
         \/ pc[c] \in {"active", "awaiting"} /\ state = pc[c]
    BY DEF Sends, AwaitsCall, OfTxn, AwaitedIn, NewOp, InTxn
<1>2. /\ pc'[c] = state /\ \A d \in Clients : d # c => pc'[d] = pc[d]
      /\ pc[c] \notin {"active", "awaiting"} => txnId[c] = NoId /\ ~reply[c].ok
  <2>1. pc[c] \in {"idle", "restarted"} => reply[c] = NoReply
      BY DEF OwnInv, OutcomeInv, InFlight, Awaiting
  <2>2. pc'[c] = state /\ \A d \in Clients : d # c => pc'[d] = pc[d]
      BY <1>1 DEF OwnInv, OutcomeInv, Recorded
  <2>3. pc[c] \in {"idle", "restarted"} => txnId[c] = NoId
      BY DEF OwnInv, OutcomeInv, TxnIds, InTxn
  <2> QED BY <1>1, <2>1, <2>2, <2>3 DEF NoReply
<1>3. \A d \in Clients : d # c =>
        (IdOf(d)' = IdOf(d)) /\ (Holds(d)' <=> Holds(d)) /\ (Ended(d)' <=> Ended(d))
    BY <1>1, <1>2 DEF IdOf, Holds, Begun, Ended, InTxn
<1>4. ~Ended(c) /\ ~Ended(c)' /\ ~Begun(c) /\ ~Begun(c)'
  <2>1. reply[c] = NoReply \/ pc[c] = "awaiting"
      BY <1>1 DEF OwnInv, OutcomeInv, InFlight, Awaiting
  <2>2. ~NoReply.ok
      BY DEF NoReply
  <2> QED BY <1>1, <1>2, <2>1, <2>2 DEF Ended, Begun
<1>5. Holds(c)' <=> Holds(c)
    BY <1>1, <1>2, <1>4 DEF Holds, InTxn
<1>6. IdOf(c)' = IdOf(c)
  <2>1. pc[c] \in {"active", "awaiting"} => reply[c] = NoReply \/ state = pc[c]
      BY <1>1 DEF OwnInv, OutcomeInv, InFlight, Awaiting
  <2>2. ~NoReply.ok
      BY DEF NoReply
  <2> QED BY <1>1, <1>2, <2>1, <2>2 DEF IdOf, InTxn
<1>7. InTxn(pc[c]) => Holds(c) /\ IdOf(c) = txnId[c]
    BY <1>4 DEF Holds, InTxn, IdOf
<1>8. pc[c] # "restarted" => state \notin {"restarted", "reopening"}
    BY <1>1
<1> QED BY <1>2, <1>3, <1>4, <1>5, <1>6, <1>7, <1>8

LEMMA SendKeepsOwn ==
    ASSUME OwnInv, OutcomeInv', NEW c \in Clients, NEW state \in States,
           NEW tid \in Nat, NEW kind \in PlainKinds, Sends(c, kind, tid, state),
           pc[c] # "restarted", late' = {}
    PROVE  OwnInv'
<1> PICK op : op = NewOp(c, kind, tid)
    OBVIOUS
<1>1. /\ op \in LegalOps /\ op.client = c /\ op.tid = tid
      /\ tid = NoId \/ (tid = txnId[c] /\ InTxn(pc[c]))
  <2>1. kind \in Kinds /\ life[c] \in Nat
      BY PlainAreKinds DEF OwnInv, OutcomeInv, Inv, Typed
  <2>2. op \in LegalOps /\ op.client = c /\ op.tid = tid
      BY <2>1 DEF LegalOps, NewOp, Sends
  <2>3. tid = NoId \/ (tid = txnId[c] /\ InTxn(pc[c]))
      BY DEF Sends, AwaitsCall, OfTxn, InTxn, Forced
  <2> QED BY <2>2, <2>3
<1>2. tasks' = Append(tasks, op) /\ Queue' = Queue
    BY DEF Sends, Send, NewOp, NativeUnchanged, Queue
<1>3. /\ UNCHANGED <<txnId, life, reply>>
      /\ UNCHANGED <<currentTransactionId, uncommitted>>
    BY DEF Sends, NativeUnchanged, gateVars, sqliteVars
<1>4. Pending' = Pending \cup {op}
    BY <1>1, <1>2, Sent DEF OwnInv, OutcomeInv, Inv
<1>5. Alive'
    BY <1>3, SendIds DEF OwnInv, Alive
<1>6. CurrentWrites'
    BY <1>3 DEF OwnInv, CurrentWrites
<1>7. OwnIds'
  <2>1. tid # NoId => tid = currentTransactionId /\ txnId[c] = tid
      BY <1>1, SendIds DEF OwnInv, OwnIds
  <2>2. \A x \in Pending' : x.tid # NoId => x.tid = currentTransactionId /\ txnId[x.client] = x.tid
      BY <1>1, <1>4, <2>1 DEF OwnInv, OwnIds
  <2>3. \A i \in 1..Len(Queue') : Queue'[i].tid = NoId
      BY <1>2 DEF OwnInv, OwnIds
  <2>4. /\ \A d, e \in Clients : IdOf(d)' # NoId /\ IdOf(d)' = IdOf(e)' => d = e
        /\ \A d \in Clients : Holds(d)' => IdOf(d)' = currentTransactionId
    <3>1. \A d \in Clients : (IdOf(d)' = IdOf(d)) /\ (Holds(d)' <=> Holds(d))
        BY SendIds
    <3> QED BY <3>1 DEF OwnInv, OwnIds
  <2> QED BY <1>3, <2>2, <2>3, <2>4 DEF OwnIds
<1>8. EndedIsOver'
  <2> SUFFICES ASSUME NEW d \in Clients, Ended(d)', NEW x \in Pending', x.client = d
               PROVE  x.tid # txnId'[d]
      BY DEF EndedIsOver
  <2>1. Ended(d) /\ d # c
      BY SendIds
  <2>2. x \in Pending
      BY <1>1, <1>4, <2>1
  <2> QED BY <1>3, <2>1, <2>2 DEF OwnInv, EndedIsOver
<1> QED BY <1>5, <1>6, <1>7, <1>8 DEF OwnInv

LEMMA SendKeepsAtomic ==
    ASSUME AtomicInv, OwnInv', NEW c \in Clients, NEW state \in States,
           NEW tid \in Nat, NEW kind \in PlainKinds, Sends(c, kind, tid, state), late' = {}
    PROVE  AtomicInv'
<1> PICK op : op = NewOp(c, kind, tid)
    OBVIOUS
<1>0. OwnInv /\ OutcomeInv
    BY DEF AtomicInv, OwnInv
<1>1. /\ op \in LegalOps /\ op.client = c /\ op.tid = tid
      /\ tid \in {Forced, NoId} \/ (tid = txnId[c] /\ InTxn(pc[c]))
  <2>1. kind \in Kinds /\ life[c] \in Nat
      BY <1>0, PlainAreKinds DEF OutcomeInv, Inv, Typed
  <2>2. op \in LegalOps /\ op.client = c /\ op.tid = tid
      BY <2>1 DEF LegalOps, NewOp, Sends
  <2>3. tid \in {Forced, NoId} \/ (tid = txnId[c] /\ InTxn(pc[c]))
      BY DEF Sends, AwaitsCall, OfTxn, InTxn
  <2> QED BY <2>2, <2>3
<1>2. tasks' = Append(tasks, op) /\ Queue' = Queue
    BY DEF Sends, Send, NewOp, NativeUnchanged, Queue
<1>3. /\ UNCHANGED <<txnId, life, reply, succeeded, failed>>
      /\ UNCHANGED <<currentTransactionId, lastTransactionId, sessionOpen, sqliteOpen,
                     uncommitted, committed, lost>>
    BY DEF Sends, NativeUnchanged, gateVars, sqliteVars
<1>4. Pending' = Pending \cup {op}
    BY <1>0, <1>1, <1>2, Sent DEF OutcomeInv, Inv
<1>5. OpenWhileHeld' /\ OfTransactions'
    BY <1>3 DEF AtomicInv, OpenWhileHeld, OfTransactions
<1>6. FailedIsOver'
  <2>1. ASSUME NEW d \in Clients, NEW id \in Nat \ {NoId}, Failed(d, id)'
        PROVE  Failed(d, id)
      BY <1>0, <1>3, <2>1, SendIds DEF Failed
  <2>2. ASSUME NEW id \in Nat \ {NoId}, Failed(c, id) PROVE tid # id
    <3>1. <<c, id>> \in failed
        BY <1>0, <2>2, SendIds DEF Failed
    <3> QED BY <1>0, <1>1, <3>1 DEF OutcomeInv, Running, InTxn, Forced
  <2>3. ASSUME NEW d \in Clients, NEW id \in Nat \ {NoId}, Failed(d, id)'
        PROVE  /\ \A x \in Pending' : x.client = d => x.tid # id
               /\ <<d, id>> \notin committed'
               /\ <<d, id>> \in uncommitted' => ~sessionOpen'
    <3>1. Failed(d, id) /\ (d = c => tid # id)
        BY <2>1, <2>2, <2>3
    <3> QED BY <1>1, <1>3, <1>4, <3>1 DEF AtomicInv, FailedIsOver
  <2>4. \A t \in failed' : t[2] # NoId
      BY <1>3 DEF AtomicInv, FailedIsOver
  <2> QED BY <2>3, <2>4 DEF FailedIsOver
<1> QED BY <1>5, <1>6 DEF AtomicInv

\* A client takes an answer.  It keeps its id, or the transaction is over.
LEMMA ReplyIds ==
    ASSUME OwnInv, NEW c \in Clients, OnReply(c)
    PROVE  /\ \A d \in Clients : d # c => /\ IdOf(d)' = IdOf(d) /\ (Holds(d)' <=> Holds(d))
                                          /\ Ended(d)' <=> Ended(d)
                                          /\ pc'[d] = pc[d] /\ txnId'[d] = txnId[d]
           /\ ~Ended(c)'
           /\ \/ /\ ~Ended(c) /\ UNCHANGED failed
                 /\ IdOf(c)' = IdOf(c) /\ (Holds(c)' <=> Holds(c))
                 /\ pc[c] # "beginning" => txnId'[c] = txnId[c]
              \/ /\ Ended(c) /\ txnId'[c] = NoId /\ IdOf(c)' = NoId /\ ~Holds(c)'
                 /\ IdOf(c) = txnId[c] /\ txnId[c] # NoId
                 /\ \/ Done(c, txnId[c]) /\ UNCHANGED failed
                    \/ Failed(c, txnId[c]) /\ failed' = failed \cup {<<c, txnId[c]>>}
           /\ pc'[c] \in {"idle", "active"}
<1> DEFINE tag == <<c, txnId[c]>>
<1>1. /\ reply[c] # NoReply
      /\ reply' = [reply EXCEPT ![c] = NoReply]
    BY DEF OnReply
<1>2. \/ /\ pc[c] \in {"waiting", "reopening"} /\ pc' = [pc EXCEPT ![c] = "idle"]
         /\ UNCHANGED <<txnId, failed>>
      \/ /\ pc[c] = "beginning" /\ pc' = [pc EXCEPT ![c] = IF reply[c].ok THEN "active" ELSE "idle"]
         /\ txnId' = [txnId EXCEPT ![c] = reply[c].id]
         /\ UNCHANGED failed
      \/ /\ pc[c] = "awaiting" /\ pc' = [pc EXCEPT ![c] = "active"]
         /\ UNCHANGED <<txnId, failed>>
      \/ /\ pc[c] \in {"committing", "rollingBack"} /\ pc' = [pc EXCEPT ![c] = "idle"]
         /\ txnId' = [txnId EXCEPT ![c] = NoId]
         /\ \/ pc[c] = "committing" /\ reply[c].ok /\ failed' = failed
            \/ ~(pc[c] = "committing" /\ reply[c].ok) /\ failed' = failed \cup {tag}
    BY DEF OnReply, GoTo, history
<1>3. /\ reply'[c] = NoReply /\ ~reply'[c].ok
      /\ \A d \in Clients : d # c => reply'[d] = reply[d]
  <2>1. NoReply.ok = FALSE
      BY DEF NoReply
  <2>2. reply'[c] = NoReply /\ \A d \in Clients : d # c => reply'[d] = reply[d]
      BY <1>1 DEF OwnInv, OutcomeInv, Inv, Typed
  <2> QED BY <2>1, <2>2
<1>4. pc \in [Clients -> States] /\ txnId \in [Clients -> Nat]
    BY DEF OwnInv, OutcomeInv, Recorded, Inv, Typed
<1>5. \A d \in Clients : d # c => pc'[d] = pc[d] /\ txnId'[d] = txnId[d]
    BY <1>2, <1>4
<1>6. \A d \in Clients : d # c =>
        (IdOf(d)' = IdOf(d)) /\ (Holds(d)' <=> Holds(d)) /\ (Ended(d)' <=> Ended(d))
    BY <1>3, <1>5 DEF IdOf, Holds, Begun, Ended, InTxn
<1>7. ~Ended(c)' /\ ~Begun(c)'
    BY <1>3 DEF Ended, Begun
<1>8. CASE pc[c] \in {"waiting", "reopening"} \/ pc[c] = "awaiting"
  <2>1. /\ pc'[c] = IF pc[c] = "awaiting" THEN "active" ELSE "idle"
        /\ UNCHANGED <<txnId, failed>>
      BY <1>2, <1>4, <1>8
  <2>2. ~Ended(c) /\ IdOf(c)' = IdOf(c)
      BY <1>8, <2>1 DEF Ended, IdOf
  <2>3. Holds(c)' <=> Holds(c)
      BY <1>7, <1>8, <2>1, <2>2 DEF Holds, InTxn, Begun
  <2> QED BY <1>5, <1>6, <1>7, <2>1, <2>2, <2>3
<1>9. CASE pc[c] = "beginning"
  <2>1. /\ pc'[c] = IF reply[c].ok THEN "active" ELSE "idle"
        /\ txnId'[c] = reply[c].id /\ UNCHANGED failed
        /\ reply[c].ok <=> reply[c].id # NoId
      BY <1>1, <1>2, <1>4, <1>9 DEF OwnInv, OutcomeInv, TxnIds
  <2>2. ~Ended(c)
      BY <1>9 DEF Ended
  <2>3. IdOf(c)' = IdOf(c)
      BY <1>9, <2>1 DEF IdOf
  <2>4. Holds(c)' <=> Holds(c)
      BY <1>7, <1>9, <2>1, <2>2 DEF Holds, InTxn, Begun
  <2>5. pc'[c] \in {"idle", "active"}
      BY <2>1
  <2> QED BY <1>5, <1>6, <1>7, <1>9, <2>1, <2>2, <2>3, <2>4, <2>5
<1>10. CASE pc[c] \in {"committing", "rollingBack"}
  <2>1. /\ pc'[c] = "idle" /\ txnId'[c] = NoId
        /\ \/ pc[c] = "committing" /\ reply[c].ok /\ failed' = failed
           \/ ~(pc[c] = "committing" /\ reply[c].ok) /\ failed' = failed \cup {tag}
      BY <1>2, <1>4, <1>10
  <2>2. Ended(c) /\ IdOf(c)' = NoId /\ ~Holds(c)'
      BY <1>1, <1>7, <1>10, <2>1 DEF Ended, IdOf, Holds, InTxn
  <2>3. IdOf(c) = txnId[c] /\ txnId[c] # NoId
      BY <1>10, OwnFacts DEF InTxn
  <2>4. \/ Done(c, txnId[c]) /\ UNCHANGED failed
        \/ Failed(c, txnId[c]) /\ failed' = failed \cup {<<c, txnId[c]>>}
      BY <2>1, <2>2 DEF Done, Failed
  <2> QED BY <1>5, <1>6, <1>7, <2>1, <2>2, <2>3, <2>4
<1> QED BY <1>2, <1>8, <1>9, <1>10

LEMMA OnReplyKeepsOwn ==
    ASSUME OwnInv, OutcomeInv', NEW c \in Clients, OnReply(c)
    PROVE  OwnInv'
<1>1. UNCHANGED <<tasks, late>> /\ UNCHANGED life /\ NativeUnchanged
    BY DEF OnReply, history
<1>2. /\ Queue' = Queue /\ Pending' = Pending
      /\ UNCHANGED <<currentTransactionId, uncommitted>>
    BY <1>1, LocalFacts DEF OwnInv
<1>3. Alive'
    BY <1>1, ReplyIds DEF OwnInv, Alive
<1>4. CurrentWrites'
    BY <1>2 DEF OwnInv, CurrentWrites
<1>5. EndedIsOver'
  <2> SUFFICES ASSUME NEW d \in Clients, Ended(d)', NEW x \in Pending, x.client = d
               PROVE  x.tid # txnId'[d]
      BY <1>2 DEF EndedIsOver
  <2>1. Ended(d) /\ txnId'[d] = txnId[d]
      BY ReplyIds
  <2> QED BY <2>1 DEF OwnInv, EndedIsOver
<1>6. OwnIds'
  <2>1. ASSUME NEW x \in Pending', x.tid # NoId
        PROVE  x.tid = currentTransactionId' /\ txnId'[x.client] = x.tid
    <3>1. x \in Pending /\ x.tid = currentTransactionId /\ txnId[x.client] = x.tid /\ x.client \in Clients
        BY <1>2, <2>1, OwnFacts DEF OwnInv, OwnIds
    <3>2. x.client = c => pc[c] # "beginning" /\ ~Ended(c)
        BY <2>1, <3>1 DEF OwnInv, EndedIsOver, OutcomeInv, TxnIds, InTxn
    <3>3. txnId'[x.client] = txnId[x.client]
        BY <3>1, <3>2, ReplyIds
    <3> QED BY <1>2, <3>1, <3>3
  <2>2. \A i \in 1..Len(Queue') : Queue'[i].tid = NoId
      BY <1>2 DEF OwnInv, OwnIds
  <2>3. \A d, e \in Clients : IdOf(d)' # NoId /\ IdOf(d)' = IdOf(e)' => d = e
    <3>1. \A d \in Clients : IdOf(d)' = IdOf(d) \/ IdOf(d)' = NoId
        BY ReplyIds
    <3> QED BY <3>1 DEF OwnInv, OwnIds
  <2>4. \A d \in Clients : Holds(d)' => IdOf(d)' = currentTransactionId'
    <3>1. \A d \in Clients : Holds(d)' => Holds(d) /\ IdOf(d)' = IdOf(d)
        BY ReplyIds
    <3> QED BY <1>2, <3>1 DEF OwnInv, OwnIds
  <2> QED BY <2>1, <2>2, <2>3, <2>4 DEF OwnIds
<1> QED BY <1>1, <1>3, <1>4, <1>5, <1>6 DEF OwnInv

LEMMA OnReplyKeepsAtomic ==
    ASSUME AtomicInv, OwnInv', NEW c \in Clients, OnReply(c)
    PROVE  AtomicInv'
<1>0. OwnInv /\ OutcomeInv
    BY DEF AtomicInv, OwnInv
<1>1. UNCHANGED <<tasks, late>> /\ UNCHANGED life /\ NativeUnchanged
    BY DEF OnReply, history
<1>2. /\ Pending' = Pending
      /\ UNCHANGED <<currentTransactionId, lastTransactionId, sessionOpen, sqliteOpen,
                     uncommitted, committed, lost>>
    BY <1>0, <1>1, LocalFacts
<1>3. OpenWhileHeld' /\ OfTransactions'
    BY <1>2 DEF AtomicInv, OpenWhileHeld, OfTransactions
<1>4. FailedIsOver'
  <2>1. ASSUME NEW d \in Clients, NEW id \in Nat \ {NoId}, Failed(d, id)'
        PROVE  Failed(d, id)
    <3>1. CASE <<d, id>> \in failed'
      <4>1. CASE failed' = failed \cup {<<c, txnId[c]>>} /\ Failed(c, txnId[c])
          BY <3>1, <4>1 DEF Failed
      <4>2. CASE UNCHANGED failed
          BY <3>1, <4>2 DEF Failed
      <4> QED BY <1>0, <4>1, <4>2, ReplyIds
    <3>2. CASE Ended(d)' /\ txnId'[d] = id /\ ~(pc'[d] = "committing" /\ reply'[d].ok)
      <4>1. d # c
          BY <1>0, <3>2, ReplyIds
      <4>2. reply'[d] = reply[d]
          BY <1>0, <4>1 DEF OnReply, OutcomeInv, Inv, Typed
      <4> QED BY <1>0, <3>2, <4>1, <4>2, ReplyIds DEF Failed
    <3> QED BY <2>1, <3>1, <3>2 DEF Failed
  <2>2. \A t \in failed' : t[2] # NoId
      BY <1>0, ReplyIds DEF AtomicInv, FailedIsOver
  <2> QED BY <1>2, <2>1, <2>2 DEF AtomicInv, FailedIsOver
<1> QED BY <1>3, <1>4 DEF AtomicInv

LEMMA UnrunKeepsOwn ==
    ASSUME OwnInv, OutcomeInv', Unrun
    PROVE  OwnInv'
<1>1. \A d \in Clients : (IdOf(d)' = IdOf(d)) /\ (Holds(d)' <=> Holds(d)) /\ (Ended(d)' <=> Ended(d))
    BY DEF Unrun, IdOf, Holds, Begun, Ended, InTxn
<1>2. Alive' /\ CurrentWrites'
    BY DEF Unrun, OwnInv, Alive, CurrentWrites
<1>3. OwnIds'
    BY <1>1 DEF Unrun, OwnInv, OwnIds
<1>4. EndedIsOver'
    BY <1>1 DEF Unrun, OwnInv, EndedIsOver
<1> QED BY <1>2, <1>3, <1>4 DEF OwnInv, Unrun

LEMMA UnrunKeepsAtomic ==
    ASSUME AtomicInv, OwnInv', Unrun
    PROVE  AtomicInv'
<1>1. OpenWhileHeld' /\ OfTransactions'
    BY DEF Unrun, AtomicInv, OpenWhileHeld, OfTransactions
<1>2. \A d \in Clients : \A id : Failed(d, id)' <=> Failed(d, id)
    BY DEF Unrun, Failed, Ended
<1>3. FailedIsOver'
    BY <1>2 DEF Unrun, AtomicInv, FailedIsOver
<1> QED BY <1>1, <1>3 DEF AtomicInv

\* A task runs a statement, or none.
LEMMA RunTaskDoes ==
    ASSUME OwnInv, RunTask
    PROVE  (\E op \in LegalOps : Ran(op)) \/ Unrun
<1> DEFINE op == Head(tasks)
           queued == Head(Queue)
<1>1. /\ tasks # <<>> /\ Typed /\ Inv /\ OutcomeInv
      /\ UNCHANGED <<pc, txnId, life, succeeded, failed, late>>
      /\ life' = life /\ ~begunByHand /\ \A x \in Pending : x.kind \notin ByHand
      /\ \/ RunBatch(op) \/ RunFree(op) \/ RunInTransaction(op)
         \/ EnqueueOperation(op) \/ RunNextQueued(op) \/ EndRunQueued(op)
  <2>1. OutcomeInv /\ Quiet
      BY DEF OwnInv, OutcomeInv
  <2> QED BY <2>1, PlainPending DEF RunTask, OutcomeInv, Inv, Quiet, dartVars, history
<1>2. op \in Tasks /\ (op.kind # "runQueued" => op \in LegalOps /\ IsOp(op))
  <2>1. op \in Tasks
      BY <1>1, Removed DEF Typed, Tasks
  <2> QED BY <2>1 DEF Tasks, IsOp, RunQueuedOperations
<1>3. Recorded /\ currentTransactionId <= lastTransactionId
    BY DEF OwnInv, OutcomeInv, Known
<1>4. \A i \in 1..Len(Queue) : Queue[i].tid = NoId
    BY DEF OwnInv, OwnIds
<1>5. CASE RunBatch(op) \/ RunFree(op) \/ RunInTransaction(op)
  <2>1. /\ Exec(op) /\ Queue' = Queue /\ op.kind # "runQueued"
        /\ tasks' = Tail(tasks) \/ tasks' = Append(Tail(tasks), RunQueuedOperations)
        /\ Passes(op) \/ op.kind \in Ungated
      BY <1>5 DEF RunBatch, RunFree, RunInTransaction, Queue, Passes, Ungated
  <2>2. /\ Pending' \subseteq Pending /\ op \in Pending
        /\ IsEnd(op) /\ op.tid # Forced /\ op.client \notin late =>
             \A x \in Pending' : x.client = op.client /\ x.tid = op.tid
                                  => \E i \in 1..Len(Queue) : x = Queue[i]
      BY <1>1, <1>2, <2>1, Finished DEF OutcomeInv
  <2>3. op \in LegalOps /\ op.kind \notin ByHand /\ (Passes(op) \/ op.kind = "batch")
      BY <1>1, <1>2, <2>1, <2>2 DEF Ungated, ByHand
  <2>4. Effect(op)
      BY <1>1, <1>3, <2>1, <2>3, ExecEffect
  <2>5. Ends(op)
      BY <1>1, <2>1, <2>3, ExecEnds
  <2> HIDE DEF op
  <2>6. IsEnd(op) => \A x \in Pending' : x.client = op.client => x.tid # op.tid
    <3> SUFFICES ASSUME IsEnd(op) PROVE \A x \in Pending' : x.client = op.client => x.tid # op.tid
        OBVIOUS
    <3>1. op.tid # NoId /\ op.tid # Forced /\ op.client \notin late
        BY <2>2, OwnFacts DEF Forced, OwnInv
    <3> QED BY <1>4, <2>2, <3>1
  <2>7. \A i \in 1..Len(Queue') : \E j \in 1..Len(Queue) : Queue'[i] = Queue[j]
      BY <2>1
  <2> QED BY <1>1, <2>1, <2>2, <2>3, <2>4, <2>5, <2>6, <2>7 DEF Ran
<1>6. CASE RunNextQueued(op)
  <2>1. /\ Exec(queued) /\ tasks' = tasks /\ currentTransactionId = NoId
        /\ Queue # <<>> /\ Queue' = Tail(Queue)
      BY <1>6 DEF RunNextQueued, Queue
  <2>2. /\ Pending' \subseteq Pending /\ queued \in Pending
        /\ \A i \in 1..Len(Queue') : \E j \in 1..Len(Queue) : Queue'[i] = Queue[j]
      BY <1>1, <2>1, QueueFinished DEF OutcomeInv
  <2>3. queued \in LegalOps
      BY <1>1, <2>2, PendingLegal
  <2>4. Passes(queued) /\ queued.kind \notin ByHand
      BY <1>1, <2>1, <2>2 DEF Passes
  <2>5. Effect(queued)
      BY <1>1, <1>3, <2>1, <2>3, <2>4, ExecEffect
  <2>6. Ends(queued)
      BY <1>1, <2>1, <2>3, <2>4, ExecEnds
  <2> HIDE DEF queued
  <2>7. ~IsEnd(queued)
      BY <2>1, <2>2, OwnFacts
  <2> QED BY <1>1, <2>2, <2>3, <2>4, <2>5, <2>6, <2>7 DEF Ran
<1>7. CASE EnqueueOperation(op)
  <2>1. /\ tasks' = Tail(tasks) /\ Queue' = Append(Queue, op)
        /\ op.kind \notin Ungated \cup {"runQueued"}
        /\ currentTransactionId # NoId /\ ~OfCurrentTransaction(op)
        /\ UNCHANGED reply
        /\ UNCHANGED <<currentTransactionId, lastTransactionId, sessionOpen, sqliteOpen,
                       uncommitted, committed, lost>>
      BY <1>7 DEF EnqueueOperation, Queue, gateVars, sqliteVars
  <2>2. op \in QueuedOps
      BY <1>2, <2>1 DEF QueuedOps
  <2>3. /\ Pending' = Pending
        /\ \A i \in 1..Len(Queue') :
             Queue'[i] = op \/ \E j \in 1..Len(Queue) : Queue'[i] = Queue[j]
      BY <1>1, <2>1, <2>2, Moved DEF OutcomeInv
  <2>4. op \in Pending
      BY <1>1, <1>2, <2>1, Removed, PendingLegal DEF Typed
  <2> HIDE DEF op
  <2>5. op.tid = NoId
      BY <2>1, <2>4 DEF OfCurrentTransaction, OwnInv, OwnIds
  <2>6. \A i \in 1..Len(Queue') : Queue'[i].tid = NoId
      BY <1>4, <2>3, <2>5
  <2> QED BY <1>1, <2>1, <2>3, <2>6 DEF Unrun
<1>8. CASE EndRunQueued(op)
  <2>1. /\ tasks' = Tail(tasks) /\ Queue' = Queue /\ UNCHANGED reply
        /\ UNCHANGED <<currentTransactionId, lastTransactionId, sessionOpen, sqliteOpen,
                       uncommitted, committed, lost>>
      BY <1>8 DEF EndRunQueued, NativeUnchanged, Queue, gateVars, sqliteVars
  <2>2. Pending' \subseteq Pending
      BY <1>1, <2>1, Finished DEF OutcomeInv
  <2> QED BY <1>1, <1>4, <2>1, <2>2 DEF Unrun
<1> QED BY <1>1, <1>5, <1>6, <1>7, <1>8

LEMMA InitAtomic == Init => AtomicInv
<1> SUFFICES ASSUME Init PROVE AtomicInv
    OBVIOUS
<1>1. OutcomeInv /\ late = {}
    BY InitOutcome DEF Init
<1>2. Pending = {} /\ Len(Queue) = 0
    BY DEF Init, Pending, Queue
<1>3. \A c \in Clients : /\ pc[c] = "idle" /\ IdOf(c) = NoId
                         /\ ~Holds(c) /\ ~Ended(c)
    BY DEF Init, IdOf, Holds, Begun, InTxn, Ended
<1>4. OwnIds /\ EndedIsOver
    BY <1>2, <1>3 DEF OwnIds, EndedIsOver
<1>5. Alive /\ OpenWhileHeld /\ CurrentWrites /\ OfTransactions
    BY DEF Init, Alive, OpenWhileHeld, CurrentWrites, OfTransactions
<1>6. FailedIsOver
    BY <1>2, <1>3 DEF Init, FailedIsOver, Failed
<1> QED BY <1>1, <1>4, <1>5, <1>6 DEF AtomicInv, OwnInv

LEMMA StutterIsUnrun ==
    ASSUME OwnInv, UNCHANGED vars
    PROVE  Unrun
<1>1. /\ UNCHANGED <<pc, txnId, life, reply, succeeded, failed, late>>
      /\ UNCHANGED <<currentTransactionId, lastTransactionId, sessionOpen, sqliteOpen,
                     uncommitted, committed, lost>>
      /\ tasks' = tasks /\ NativeUnchanged
    BY DEF vars, dartVars, gateVars, sqliteVars, history, NativeUnchanged
<1>2. Pending' = Pending /\ Queue' = Queue
    BY <1>1, LocalFacts DEF OwnInv
<1> QED BY <1>1, <1>2 DEF Unrun, OwnInv, OwnIds

LEMMA NextOwn ==
    ASSUME NoRestarts, OwnInv, [Next]_vars, late' = {}, ~byHand'
    PROVE  OwnInv'
<1>0. OutcomeInv /\ OutcomeInv'
    BY NextOutcome DEF OwnInv
<1>1. ASSUME NEW c \in Clients,
             \/ CallWrite(c) \/ CallBatch(c) \/ BeginTransaction(c)
             \/ TxnWrite(c) \/ TxnBatch(c) \/ TxnCloseCursor(c)
             \/ EndTransaction(c, "commit") \/ EndTransaction(c, "rollback")
      PROVE  OwnInv'
    BY <1>0, <1>1, CallsSend, SendKeepsOwn
<1>2. ASSUME NEW c \in Clients, OnReply(c) PROVE OwnInv'
    BY <1>0, <1>2, OnReplyKeepsOwn
<1>3. ASSUME NEW c \in Clients, Restart(c) PROVE FALSE
    BY <1>3 DEF Restart, NoRestarts, OwnInv, Alive
<1>4. ASSUME NEW c \in Clients, Reopen(c) PROVE FALSE
    BY <1>4 DEF Reopen, OwnInv, Alive
<1>7. ASSUME NEW c \in Clients PROVE ~ExecuteByHand(c)
    BY DEF ExecuteByHand
<1>5. CASE RunTask
    BY <1>0, <1>5, RunTaskDoes, ExecKeepsOwn, UnrunKeepsOwn
<1>6. CASE UNCHANGED vars
    BY <1>0, <1>6, StutterIsUnrun, UnrunKeepsOwn
<1> QED BY <1>1, <1>2, <1>3, <1>4, <1>5, <1>6, <1>7 DEF Next

LEMMA NextAtomic ==
    ASSUME NoRestarts, NoAutomaticRollback, AtomicInv, [Next]_vars,
           late' = {}, ~byHand'
    PROVE  AtomicInv'
<1>0. OwnInv /\ OwnInv' /\ OutcomeInv
    BY NextOwn DEF AtomicInv, OwnInv
<1>1. ASSUME NEW c \in Clients,
             \/ CallWrite(c) \/ CallBatch(c) \/ BeginTransaction(c)
             \/ TxnWrite(c) \/ TxnBatch(c) \/ TxnCloseCursor(c)
             \/ EndTransaction(c, "commit") \/ EndTransaction(c, "rollback")
      PROVE  AtomicInv'
    BY <1>0, <1>1, CallsSend, SendKeepsAtomic
<1>2. ASSUME NEW c \in Clients, OnReply(c) PROVE AtomicInv'
    BY <1>0, <1>2, OnReplyKeepsAtomic
<1>3. ASSUME NEW c \in Clients, Restart(c) \/ Reopen(c) PROVE FALSE
    BY <1>0, <1>3 DEF Restart, Reopen, NoRestarts, OwnInv, Alive
<1>4. ASSUME NEW c \in Clients PROVE ~ExecuteByHand(c)
    BY DEF ExecuteByHand
<1>5. CASE RunTask
    BY <1>0, <1>5, RunTaskDoes, ExecKeepsAtomic, UnrunKeepsAtomic
<1>6. CASE UNCHANGED vars
    BY <1>0, <1>6, StutterIsUnrun, UnrunKeepsAtomic
<1> QED BY <1>1, <1>2, <1>3, <1>4, <1>5, <1>6 DEF Next

\* `transaction' is "all or nothing", whatever else fails, as long as no
\* client restarts or calls a transaction it has ended, and no statement makes
\* SQLite roll the transaction back by itself: the writes of one transaction
\* are never partly durable, and none is durable when the caller was told that
\* the transaction failed.  (Atomic excuses transactions begun by hand.)
THEOREM TransactionsAreAtomic ==
    ASSUME NoRestarts, NoAutomaticRollback
    PROVE  Spec => [](late = {} => Atomic)
<1> DEFINE I == late = {} /\ ~byHand => AtomicInv
<1>1. Init => I
    BY InitAtomic
<1>2. I /\ [Next]_vars => I'
  <2> SUFFICES ASSUME I, [Next]_vars, late' = {}, ~byHand' PROVE AtomicInv'
      OBVIOUS
  <2>1. late = {} /\ ~byHand
      BY HistoryGrows
  <2> QED BY <2>1, NextAtomic
<1>3. I => (late = {} => Atomic)
  <2> SUFFICES ASSUME I, late = {}, ~byHand PROVE Atomic
      BY DEF Atomic, Excused
  <2>0. AtomicInv
      OBVIOUS
  <2>1. \A t \in committed \cap lost : t[2] = NoId
      BY <2>0 DEF AtomicInv, OfTransactions
  <2>2. ASSUME NEW t \in failed, t \in committed PROVE FALSE
    <3>1. PICK c \in Clients, id \in Nat : t = <<c, id>>
        BY <2>0 DEF AtomicInv, OwnInv, OutcomeInv, Recorded, Writes
    <3>2. id # NoId
        BY <2>0, <3>1 DEF AtomicInv, FailedIsOver
    <3> QED BY <2>0, <2>2, <3>1, <3>2 DEF AtomicInv, FailedIsOver, Failed
  <2> QED BY <2>1, <2>2 DEF Atomic
<1> QED BY <1>1, <1>2, <1>3, PTL DEF Spec

-----------------------------------------------------------------------------
(* The holder of the gate *)

\* A COMMIT that fails leaves the gate closed for a transaction that its
\* client is done with.
NoFailedCommit == "commit" \notin Faults

Kept ==
    /\ currentTransactionId # NoId =>
         sessionOpen /\ \E c \in Clients : IdOf(c) = currentTransactionId
    /\ \A c \in Clients : Ended(c) => txnId[c] # currentTransactionId

HeldInv == AtomicInv /\ Kept

LEMMA ExecKeepsHolder ==
    ASSUME NoAutomaticRollback, NoFailedCommit, HeldInv, NEW op \in LegalOps, Ran(op)
    PROVE  Kept'
<1> DEFINE c == op.client
<1>0. /\ AtomicInv /\ OwnInv /\ OutcomeInv /\ Kept /\ c \in Clients
      /\ lastTransactionId \in Nat
      /\ \A d \in Clients : txnId[d] <= lastTransactionId
      /\ op \in Pending /\ Effect(op) /\ UNCHANGED <<pc, txnId>>
    BY OwnFacts DEF HeldInv, AtomicInv, OwnInv, OutcomeInv, Known, LegalOps, Ran
<1>1. \A d \in Clients : Ended(d)' => txnId[d] # NoId
    BY <1>0 DEF OutcomeInv, TxnIds, Ended, InTxn
<1>2. ASSUME currentTransactionId' = NoId PROVE Kept'
    BY <1>0, <1>1, <1>2 DEF Kept
<1>3. CASE BeginSucceeded(op)
  <2>1. /\ op.kind = "begin" /\ sessionOpen' /\ currentTransactionId' = lastTransactionId + 1
        /\ Awaited(op) => reply'[c].ok
      BY <1>3 DEF BeginSucceeded
  <2>2. reply'[c].ok /\ reply[c] = NoReply /\ ~NoReply.ok
      BY <1>0, <2>1, OwnFacts
  <2>3. reply'[c].id = lastTransactionId + 1
      BY <1>0, <2>1, <2>2, AnswerArrives DEF AnswerFor
  <2>4. pc'[c] = "beginning"
      BY <1>0, <2>1, ExecIds
  <2>5. IdOf(c)' = currentTransactionId'
      BY <2>1, <2>2, <2>3, <2>4 DEF IdOf
  <2>6. \A d \in Clients : txnId'[d] # currentTransactionId'
      BY <1>0, <2>1
  <2> HIDE DEF c
  <2> QED BY <1>0, <2>1, <2>5, <2>6 DEF Kept
<1>4. CASE BeginFailed(op) \/ EndSucceeded(op)
    BY <1>2, <1>4 DEF BeginFailed, EndSucceeded
\* Neither the Java session nor SQLite has left the transaction.
<1>5. CASE EndFailed(op)
  <2>1. op.tid = currentTransactionId /\ currentTransactionId # NoId
      BY <1>0, <1>5, OwnFacts DEF EndFailed
  <2>2. sessionOpen /\ sqliteOpen
      BY <1>0, <2>1 DEF Kept, AtomicInv, OpenWhileHeld
  <2> QED BY <1>5, <2>2 DEF EndFailed, NoFailedCommit
<1>6. CASE StatementRan(op)
  <2>1. /\ op.kind \in {"write", "batch", "cancel"}
        /\ UNCHANGED <<currentTransactionId, sessionOpen>>
      BY <1>6 DEF StatementRan
  <2>2. \A d \in Clients : IdOf(d)' = IdOf(d) /\ (Ended(d)' <=> Ended(d))
      BY <1>0, <2>1, ExecIds
  <2> QED BY <1>0, <2>1, <2>2 DEF Kept
<1>7. CASE RolledBack(op)
    BY <1>7 DEF RolledBack, NoAutomaticRollback
<1> QED BY <1>3, <1>4, <1>5, <1>6, <1>7 DEF Ran, Ends

LEMMA NextHolder ==
    ASSUME NoRestarts, NoAutomaticRollback, NoFailedCommit, HeldInv, [Next]_vars,
           late' = {}, ~byHand'
    PROVE  HeldInv'
<1>0. AtomicInv /\ OwnInv /\ OutcomeInv /\ Kept /\ AtomicInv'
    BY NextAtomic DEF HeldInv, AtomicInv, OwnInv
<1>1. ASSUME UNCHANGED <<currentTransactionId, sessionOpen>>,
             \A d \in Clients : \/ IdOf(d)' = IdOf(d)
                                \/ Ended(d) /\ IdOf(d) = txnId[d],
             \A d \in Clients : Ended(d)' => Ended(d) /\ txnId'[d] = txnId[d]
      PROVE  Kept'
    BY <1>0, <1>1 DEF Kept
<1>2. ASSUME UNCHANGED <<pc, txnId, reply, currentTransactionId, sessionOpen>>
      PROVE  Kept'
  <2>1. \A d \in Clients : IdOf(d)' = IdOf(d) /\ (Ended(d)' <=> Ended(d))
      BY <1>2 DEF IdOf, Ended
  <2> QED BY <1>1, <1>2, <2>1
<1>3. ASSUME NEW c \in Clients,
             \/ CallWrite(c) \/ CallBatch(c) \/ BeginTransaction(c)
             \/ TxnWrite(c) \/ TxnBatch(c) \/ TxnCloseCursor(c)
             \/ EndTransaction(c, "commit") \/ EndTransaction(c, "rollback")
      PROVE  Kept'
  <2>1. PICK kind \in PlainKinds, tid \in Nat, state \in States : Sends(c, kind, tid, state)
      BY <1>0, <1>3, CallsSend
  <2>2. UNCHANGED <<txnId, currentTransactionId, sessionOpen>>
      BY <2>1 DEF Sends, NativeUnchanged, gateVars, sqliteVars
  <2>3. \A d \in Clients : (IdOf(d)' = IdOf(d)) /\ (Ended(d)' <=> Ended(d))
      BY <1>0, <2>1, SendIds
  <2> QED BY <1>1, <2>2, <2>3
<1>4. ASSUME NEW c \in Clients, OnReply(c) PROVE Kept'
  <2>1. UNCHANGED <<currentTransactionId, sessionOpen>>
      BY <1>4 DEF OnReply, NativeUnchanged, gateVars, sqliteVars
  <2>2. \A d \in Clients : \/ IdOf(d)' = IdOf(d)
                           \/ Ended(d) /\ IdOf(d) = txnId[d]
      BY <1>0, <1>4, ReplyIds
  <2>3. \A d \in Clients : Ended(d)' => Ended(d) /\ txnId'[d] = txnId[d]
      BY <1>0, <1>4, ReplyIds
  <2> QED BY <1>1, <2>1, <2>2, <2>3
<1>5. ASSUME NEW c \in Clients, Restart(c) \/ Reopen(c) PROVE FALSE
    BY <1>0, <1>5 DEF Restart, Reopen, NoRestarts, OwnInv, Alive
<1>10. ASSUME NEW c \in Clients PROVE ~ExecuteByHand(c)
    BY DEF ExecuteByHand
<1>6. ASSUME Unrun PROVE Kept'
    BY <1>2, <1>6 DEF Unrun
<1>7. ASSUME RunTask PROVE Kept'
    BY <1>0, <1>6, <1>7, RunTaskDoes, ExecKeepsHolder
<1>8. ASSUME UNCHANGED vars PROVE Kept'
    BY <1>0, <1>6, <1>8, StutterIsUnrun
<1>9. Kept'
    BY <1>3, <1>4, <1>5, <1>7, <1>8, <1>10 DEF Next
<1> QED BY <1>0, <1>9 DEF HeldInv

\* The gate is never left closed by a transaction that nobody can end, as
\* long as no client restarts, calls a transaction that it has ended or begins
\* one by hand, and no COMMIT or automatic rollback ends a transaction behind
\* its back: some client has the current transaction, or is about to receive
\* its id.
THEOREM GateIsHeldByClient ==
    ASSUME NoRestarts, NoAutomaticRollback, NoFailedCommit
    PROVE  Spec => [](late = {} /\ ~byHand => HeldByLiveTransaction)
<1> DEFINE I == late = {} /\ ~byHand => HeldInv
<1>1. Init => I
  <2> SUFFICES ASSUME Init PROVE Kept
      BY InitAtomic DEF HeldInv
  <2> QED BY DEF Init, Kept, Ended
<1>2. I /\ [Next]_vars => I'
  <2> SUFFICES ASSUME I, [Next]_vars, late' = {}, ~byHand' PROVE HeldInv'
      OBVIOUS
  <2>1. late = {} /\ ~byHand
      BY HistoryGrows
  <2> QED BY <2>1, NextHolder
<1>3. I => (late = {} /\ ~byHand => HeldByLiveTransaction)
  <2> SUFFICES ASSUME HeldInv, currentTransactionId # NoId
               PROVE  \E c \in Clients :
                         \/ pc[c] # "idle" /\ txnId[c] = currentTransactionId
                         \/ pc[c] = "beginning" /\ reply[c].id = currentTransactionId
      BY DEF HeldByLiveTransaction
  <2>1. PICK c \in Clients : IdOf(c) = currentTransactionId
      BY DEF HeldInv, Kept
  <2>2. txnId[c] # NoId => InTxn(pc[c])
      BY DEF HeldInv, AtomicInv, OwnInv, OutcomeInv, TxnIds
  <2> QED BY <2>1, <2>2 DEF IdOf, InTxn
<1> QED BY <1>1, <1>2, <1>3, PTL DEF Spec

-----------------------------------------------------------------------------
(* Batches in transactions *)

NoLooseBatch == "batch" \notin Calls

\* What passes the gate without being asked has a transaction.
BatchesHaveTransaction == \A op \in Pending : op.kind = "batch" => op.tid # NoId

\* GateIsolates excludes every batch; those of transactions need to know whose
\* the ids are that they carry.
BatchInv == OwnInv /\ BatchesHaveTransaction /\ StrictlyIsolated

LEMMA SendsKeepBatches ==
    ASSUME OutcomeInv, BatchesHaveTransaction, NoLooseBatch, NEW c \in Clients,
           \/ CallWrite(c) \/ CallBatch(c) \/ BeginTransaction(c)
           \/ TxnWrite(c) \/ TxnBatch(c) \/ TxnCloseCursor(c)
           \/ EndTransaction(c, "commit") \/ EndTransaction(c, "rollback")
    PROVE  BatchesHaveTransaction'
<1>0. /\ Typed /\ txnId[c] \in Nat /\ life[c] \in Nat /\ NoId \in Nat /\ Forced \notin Nat
      /\ InTxn(pc[c]) => txnId[c] # NoId
    BY DEF OutcomeInv, Inv, Typed, NoId, Forced, TxnIds, InTxn
<1>1. PICK kind \in PlainKinds, tid \in Nat :
        /\ Send(c, kind, tid) /\ NativeUnchanged
        /\ kind = "begin" => tid = NoId
        /\ kind = "batch" => tid = txnId[c] /\ InTxn(pc[c])
    BY <1>0 DEF CallWrite, CallBatch, BeginTransaction, TxnWrite, TxnBatch, TxnCall,
                TxnCloseCursor, EndTransaction, Invoke, NoLooseBatch, PlainKinds, InTxn
<1> PICK op : op = NewOp(c, kind, tid)
    OBVIOUS
<1>2. /\ op \in LegalOps /\ op.kind = kind /\ op.tid = tid
      /\ tasks' = Append(tasks, op) /\ Queue' = Queue
  <2>1. kind \in Kinds
      BY PlainAreKinds
  <2> QED BY <1>0, <1>1, <2>1 DEF LegalOps, NewOp, Send, NativeUnchanged, gateVars, Queue
<1>3. Pending' = Pending \cup {op}
    BY <1>0, <1>2, Sent
<1> QED BY <1>0, <1>1, <1>2, <1>3 DEF BatchesHaveTransaction

LEMMA ExecKeepsIsolated ==
    ASSUME BatchInv, OwnInv', NEW op \in LegalOps, Ran(op)
    PROVE  StrictlyIsolated'
<1>1. \A t \in uncommitted' : t[2] # NoId => t[2] = currentTransactionId'
    BY DEF OwnInv, CurrentWrites
<1>2. \A t \in uncommitted : t[2] # NoId
    BY DEF BatchInv, StrictlyIsolated
<1>3. CASE uncommitted' \subseteq uncommitted
    BY <1>1, <1>2, <1>3 DEF StrictlyIsolated
<1>4. CASE ~(uncommitted' \subseteq uncommitted)
  <2>1. /\ op.kind \in {"write", "batch", "cancel"} /\ sqliteOpen
        /\ uncommitted' \subseteq uncommitted \cup Written(op)
      BY <1>4 DEF Ran, Ends, BeginSucceeded, BeginFailed, EndSucceeded, EndFailed,
                  StatementRan, RolledBack
  <2>2. currentTransactionId # NoId
      BY <2>1 DEF BatchInv, OwnInv, OutcomeInv, Inv, GateMatchesSqlite, Quiet
  <2>3. op.kind # "batch" => op.tid # NoId
      BY <2>2 DEF Ran, Passes, OfCurrentTransaction
  <2>4. op.tid # NoId
      BY <2>3 DEF BatchInv, BatchesHaveTransaction, Ran
  <2>5. \A t \in Written(op) : t[2] # NoId
      BY <2>4 DEF Written, Tag
  <2> QED BY <1>1, <1>2, <2>1, <2>5 DEF StrictlyIsolated
<1> QED BY <1>3, <1>4

LEMMA NextBatches ==
    ASSUME NoRestarts, NoLooseBatch, BatchInv, [Next]_vars, late' = {}, ~byHand'
    PROVE  BatchInv'
<1>0. OwnInv /\ OutcomeInv /\ OwnInv' /\ BatchesHaveTransaction /\ StrictlyIsolated
    BY NextOwn DEF BatchInv, OwnInv
<1>1. ASSUME Pending' \subseteq Pending PROVE BatchesHaveTransaction'
    BY <1>0, <1>1 DEF BatchesHaveTransaction
<1>2. ASSUME UNCHANGED <<uncommitted, currentTransactionId>> PROVE StrictlyIsolated'
    BY <1>0, <1>2 DEF StrictlyIsolated
<1>3. ASSUME NEW c \in Clients,
             \/ CallWrite(c) \/ CallBatch(c) \/ BeginTransaction(c)
             \/ TxnWrite(c) \/ TxnBatch(c) \/ TxnCloseCursor(c)
             \/ EndTransaction(c, "commit") \/ EndTransaction(c, "rollback")
      PROVE  BatchesHaveTransaction' /\ StrictlyIsolated'
  <2>1. NativeUnchanged
      BY <1>3 DEF CallWrite, CallBatch, BeginTransaction, TxnWrite, TxnBatch, TxnCall,
                  TxnCloseCursor, EndTransaction
  <2>2. UNCHANGED <<uncommitted, currentTransactionId>>
      BY <2>1 DEF NativeUnchanged, gateVars, sqliteVars
  <2> QED BY <1>0, <1>2, <1>3, <2>2, SendsKeepBatches
<1>4. ASSUME NEW c \in Clients, OnReply(c) PROVE BatchesHaveTransaction' /\ StrictlyIsolated'
  <2>1. UNCHANGED <<tasks, late>> /\ NativeUnchanged
      BY <1>4 DEF OnReply, history
  <2>2. Pending' = Pending /\ UNCHANGED <<uncommitted, currentTransactionId>>
      BY <1>0, <2>1, LocalFacts
  <2> QED BY <1>1, <1>2, <2>2
<1>5. ASSUME NEW c \in Clients, Restart(c) \/ Reopen(c) PROVE FALSE
    BY <1>0, <1>5 DEF Restart, Reopen, NoRestarts, OwnInv, Alive
<1>6. ASSUME NEW op \in LegalOps, Ran(op) PROVE BatchesHaveTransaction' /\ StrictlyIsolated'
    BY <1>0, <1>1, <1>6, ExecKeepsIsolated DEF Ran
<1>7. ASSUME Unrun PROVE BatchesHaveTransaction' /\ StrictlyIsolated'
    BY <1>1, <1>2, <1>7 DEF Unrun
<1>8. ASSUME RunTask PROVE BatchesHaveTransaction' /\ StrictlyIsolated'
    BY <1>0, <1>6, <1>7, <1>8, RunTaskDoes
<1>9. ASSUME UNCHANGED vars PROVE BatchesHaveTransaction' /\ StrictlyIsolated'
    BY <1>0, <1>7, <1>9, StutterIsUnrun
<1>10. BatchesHaveTransaction' /\ StrictlyIsolated'
  <2>1. ASSUME NEW c \in Clients PROVE ~ExecuteByHand(c)
      BY DEF ExecuteByHand
  <2> QED BY <1>3, <1>4, <1>5, <1>8, <1>9, <2>1 DEF Next
<1> QED BY <1>0, <1>10 DEF BatchInv

\* Batches that transactions send, which the gate lets through unasked, stay
\* in them: uncommitted writes are those of the transaction that the gate is
\* held for, whatever fails, as long as no client sends a batch outside of a
\* transaction or on one that it has ended, and no client restarts.
\* (Isolated excuses transactions begun by hand.)
THEOREM BatchesAreIsolated ==
    ASSUME NoRestarts, NoLooseBatch
    PROVE  Spec => [](late = {} => Isolated)
<1> DEFINE I == late = {} /\ ~byHand => BatchInv
<1>1. Init => I
  <2> SUFFICES ASSUME Init PROVE BatchesHaveTransaction /\ StrictlyIsolated
      BY InitAtomic DEF BatchInv, AtomicInv
  <2>1. Pending = {}
      BY DEF Init, Pending, Queue
  <2> QED BY <2>1 DEF Init, BatchesHaveTransaction, StrictlyIsolated
<1>2. I /\ [Next]_vars => I'
  <2> SUFFICES ASSUME I, [Next]_vars, late' = {}, ~byHand' PROVE BatchInv'
      OBVIOUS
  <2>1. late = {} /\ ~byHand
      BY HistoryGrows
  <2> QED BY <2>1, NextBatches
<1>3. I => (late = {} => Isolated)
    BY DEF BatchInv, Isolated, StrictlyIsolated, Excused
<1> QED BY <1>1, <1>2, <1>3, PTL DEF Spec

-----------------------------------------------------------------------------
(* Transactions one by one *)

\* Writes that are not durable, and history, are of the client that has the
\* id, if anybody has.
Owned ==
    \A t \in uncommitted \cup failed : \A c \in Clients :
        t[2] # NoId /\ IdOf(c) = t[2] => c = t[1]

SerialInv == AtomicInv /\ BatchesHaveTransaction /\ StrictlyIsolated /\ Owned

\* What was written, or refused, belongs to an id that was given.
LEMMA SerialFacts ==
    ASSUME SerialInv
    PROVE  /\ OwnInv /\ OutcomeInv
           /\ currentTransactionId \in Nat /\ lastTransactionId \in Nat
           /\ \A t \in uncommitted : t[2] = currentTransactionId /\ t[2] # NoId
           /\ \A t \in uncommitted \cup succeeded \cup failed :
                /\ t[1] \in Clients /\ t[2] \in Nat /\ t[2] <= lastTransactionId
                /\ t = <<t[1], t[2]>>
           /\ \A t \in succeeded \cup failed : t[2] \in 1..lastTransactionId
           /\ \A t \in succeeded : t[2] # currentTransactionId
<1>1. OwnInv /\ OutcomeInv /\ Recorded /\ Known
    BY DEF SerialInv, AtomicInv, OwnInv, OutcomeInv
<1>2. currentTransactionId \in Nat /\ lastTransactionId \in Nat
    BY <1>1, OwnFacts
<1>3. \A t \in uncommitted : t[2] = currentTransactionId /\ t[2] # NoId
    BY DEF SerialInv, StrictlyIsolated
<1>4. \A t \in uncommitted \cup succeeded \cup failed :
        /\ t[1] \in Clients /\ t[2] \in Nat /\ t[2] <= lastTransactionId
        /\ t = <<t[1], t[2]>>
    BY <1>1 DEF Recorded, Writes, Known
<1>5. \A t \in succeeded \cup failed : t[2] # NoId
    BY DEF SerialInv, AtomicInv, OwnInv, OutcomeInv, TxnIds, FailedIsOver
<1>6. \A t \in succeeded \cup failed : t[2] \in 1..lastTransactionId
    BY <1>2, <1>4, <1>5 DEF NoId
<1>7. \A t \in succeeded : t[2] # currentTransactionId
  <2> SUFFICES ASSUME NEW t \in succeeded PROVE t[2] # currentTransactionId
      OBVIOUS
  <2>1. Done(t[1], t[2])
      BY <1>4 DEF Done
  <2> QED BY <1>1, <1>4, <1>6, <2>1 DEF OutcomeInv, OwnInv, Over
<1> QED BY <1>1, <1>2, <1>3, <1>4, <1>6, <1>7

\* A statement that ran belongs to the client that has the current id, or to
\* no transaction.
LEMMA RanFor ==
    ASSUME SerialInv, NEW op \in LegalOps, Ran(op), op.tid # NoId
    PROVE  /\ op.client \in Clients /\ op.tid = currentTransactionId
           /\ IdOf(op.client) = op.tid
           /\ <<op.client, op.tid>> \notin succeeded \cup failed
           /\ \A t \in uncommitted : t[1] = op.client
           /\ \A t \in failed : t[2] # currentTransactionId
<1> DEFINE c == op.client
<1>1. c \in Clients /\ op \in Pending
    BY DEF Ran, LegalOps
<1>2. op.tid = currentTransactionId /\ txnId[c] = op.tid
    BY <1>1, SerialFacts DEF OwnInv, OwnIds
<1>3. InTxn(pc[c])
    BY <1>1, <1>2, SerialFacts DEF OutcomeInv, TxnIds
<1>4. IdOf(c) = op.tid
    BY <1>1, <1>2, <1>3, SerialFacts, OwnFacts
<1>5. <<c, op.tid>> \notin succeeded \cup failed
    BY <1>1, <1>2, <1>3, SerialFacts DEF OutcomeInv, Running
<1>6. \A t \in uncommitted : t[1] = c
    BY <1>1, <1>2, <1>4, SerialFacts DEF SerialInv, Owned
<1>7. ASSUME NEW t \in failed, t[2] = currentTransactionId PROVE FALSE
  <2>1. t[1] = c
      BY <1>1, <1>2, <1>4, <1>7 DEF SerialInv, Owned
  <2>2. t = <<c, op.tid>>
      BY <1>2, <1>7, <2>1, SerialFacts
  <2> QED BY <1>5, <1>7, <2>2
<1> QED BY <1>1, <1>2, <1>4, <1>5, <1>6, <1>7

LEMMA RanKeepsOwned ==
    ASSUME SerialInv, NEW op \in LegalOps, Ran(op)
    PROVE  Owned'
<1>0. /\ OwnInv /\ UNCHANGED failed /\ UNCHANGED <<pc, txnId>> /\ op \in Pending /\ Effect(op)
      /\ uncommitted' \subseteq uncommitted \cup Written(op)
    BY SerialFacts DEF Ran, Effect
<1> SUFFICES ASSUME NEW t \in uncommitted' \cup failed, NEW d \in Clients,
                    t[2] # NoId, IdOf(d)' = t[2]
             PROVE  d = t[1]
    BY <1>0 DEF Owned
<1>1. CASE t \in uncommitted \cup failed
  <2>1. lastTransactionId \in Nat /\ t[2] \in Nat /\ t[2] <= lastTransactionId
      BY <1>1, SerialFacts
  <2>2. IdOf(d)' = IdOf(d) \/ IdOf(d)' = lastTransactionId + 1
      BY <1>0, ExecIds
  <2>3. IdOf(d) = t[2]
      BY <2>1, <2>2
  <2> QED BY <1>1, <2>3 DEF SerialInv, Owned
<1>2. CASE t \in Written(op)
  <2>1. op.kind # "begin" /\ t[1] = op.client /\ t[2] = op.tid
      BY <1>2 DEF Written, Tag
  <2>2. IdOf(d)' = IdOf(d)
      BY <1>0, <2>1, ExecIds
  <2>3. IdOf(op.client) = op.tid /\ op.client \in Clients
      BY <2>1, RanFor
  <2> QED BY <1>0, <2>1, <2>2, <2>3 DEF OwnInv, OwnIds
<1> QED BY <1>0, <1>1, <1>2

LEMMA SendKeepsOwned ==
    ASSUME SerialInv, NEW c \in Clients, NEW state \in States,
           NEW tid \in Nat, NEW kind \in PlainKinds, Sends(c, kind, tid, state), late' = {}
    PROVE  Owned' /\ UNCHANGED Serial!vars
<1>1. \A d \in Clients : IdOf(d)' = IdOf(d)
    BY SerialFacts, SendIds
<1>2. UNCHANGED <<currentTransactionId, lastTransactionId, uncommitted, committed, lost,
                  succeeded, failed>>
    BY DEF Sends, NativeUnchanged, gateVars, sqliteVars
<1> QED BY <1>1, <1>2 DEF SerialInv, Owned, Serial!vars

LEMMA UnrunKeepsOwned ==
    ASSUME SerialInv, Unrun
    PROVE  Owned' /\ UNCHANGED Serial!vars
<1>1. \A d \in Clients : IdOf(d)' = IdOf(d)
    BY DEF Unrun, IdOf
<1> QED BY <1>1 DEF Unrun, SerialInv, Owned, Serial!vars

LEMMA OnReplyKeepsOwned ==
    ASSUME SerialInv, NEW c \in Clients, OnReply(c)
    PROVE  Owned'
<1>0. OwnInv /\ UNCHANGED uncommitted
    BY SerialFacts DEF OnReply, NativeUnchanged, sqliteVars
<1> SUFFICES ASSUME NEW t \in uncommitted \cup failed', NEW d \in Clients,
                    t[2] # NoId, IdOf(d)' = t[2]
             PROVE  d = t[1]
    BY <1>0 DEF Owned
<1>1. IdOf(d)' = IdOf(d) \/ IdOf(d)' = NoId
    BY <1>0, ReplyIds
<1>2. CASE t \in uncommitted \cup failed
    BY <1>1, <1>2 DEF SerialInv, Owned
<1>3. CASE t \notin uncommitted \cup failed
  <2>1. t = <<c, txnId[c]>> /\ IdOf(c) = txnId[c]
      BY <1>0, <1>3, ReplyIds
  <2> QED BY <1>0, <1>1, <2>1 DEF OwnInv, OwnIds
<1> QED BY <1>2, <1>3

LEMMA NextSerial ==
    ASSUME NoRestarts, NoAutomaticRollback, NoLooseBatch, SerialInv, [Next]_vars,
           late' = {}, ~byHand'
    PROVE  SerialInv'
<1>0. OwnInv /\ OutcomeInv /\ BatchInv
    BY SerialFacts DEF SerialInv, BatchInv
<1>1. AtomicInv' /\ BatchInv'
    BY <1>0, NextAtomic, NextBatches DEF SerialInv
<1>2. ASSUME NEW c \in Clients,
             \/ CallWrite(c) \/ CallBatch(c) \/ BeginTransaction(c)
             \/ TxnWrite(c) \/ TxnBatch(c) \/ TxnCloseCursor(c)
             \/ EndTransaction(c, "commit") \/ EndTransaction(c, "rollback")
      PROVE  Owned'
    BY <1>0, <1>2, CallsSend, SendKeepsOwned
<1>3. ASSUME NEW c \in Clients, OnReply(c) PROVE Owned'
    BY <1>3, OnReplyKeepsOwned
<1>4. ASSUME NEW c \in Clients, Restart(c) \/ Reopen(c) PROVE FALSE
    BY <1>0, <1>4 DEF Restart, Reopen, NoRestarts, OwnInv, Alive
<1>5. ASSUME RunTask PROVE Owned'
    BY <1>0, <1>5, RunTaskDoes, RanKeepsOwned, UnrunKeepsOwned
<1>6. ASSUME UNCHANGED vars PROVE Owned'
    BY <1>0, <1>6, StutterIsUnrun, UnrunKeepsOwned
<1>7. Owned'
  <2>1. ASSUME NEW c \in Clients PROVE ~ExecuteByHand(c)
      BY DEF ExecuteByHand
  <2> QED BY <1>2, <1>3, <1>4, <1>5, <1>6, <2>1 DEF Next
<1> QED BY <1>1, <1>7 DEF SerialInv, BatchInv

\* What the statements do is what a transaction that is executed alone does.
LEMMA RanIsSerial ==
    ASSUME SerialInv, NoAutomaticRollback, NEW op \in LegalOps, Ran(op)
    PROVE  Serial!Next \/ UNCHANGED Serial!vars
<1> DEFINE c == op.client
<1>0. /\ OwnInv /\ OutcomeInv /\ c \in Clients /\ op \in Pending
      /\ UNCHANGED <<succeeded, failed>>
      /\ currentTransactionId \in Nat /\ lastTransactionId \in Nat
      /\ NoId = 0 /\ Serial!NoId = 0
    BY SerialFacts DEF Ran, LegalOps, NoId, Serial!NoId
<1>1. CASE BeginSucceeded(op) \/ BeginFailed(op)
  <2>1. /\ currentTransactionId = 0
        /\ lastTransactionId' \in {lastTransactionId, lastTransactionId + 1}
        /\ currentTransactionId' \in {0, lastTransactionId + 1}
        /\ currentTransactionId' <= lastTransactionId'
        /\ UNCHANGED <<uncommitted, committed, lost>>
      BY <1>0, <1>1 DEF BeginSucceeded, BeginFailed, Ran, Effect
  <2>2. CASE lastTransactionId' = lastTransactionId
    <3>1. currentTransactionId' = 0
        BY <1>0, <2>1, <2>2
    <3> QED BY <1>0, <2>1, <2>2, <3>1 DEF Serial!vars
  <2>3. CASE lastTransactionId' = lastTransactionId + 1
    <3>1. Serial!Begin
        BY <1>0, <2>1, <2>3 DEF Serial!Begin
    <3> QED BY <3>1 DEF Serial!Next
  <2> QED BY <2>1, <2>2, <2>3
<1>2. CASE EndSucceeded(op)
  <2>1. op.tid # NoId /\ IsEnd(op) /\ op.tid = currentTransactionId
      BY <1>0, <1>2, OwnFacts DEF EndSucceeded
  <2>2. \A t \in succeeded \cup failed : t[2] # currentTransactionId
      BY <2>1, RanFor, SerialFacts
  <2>3. Serial!Commit \/ Serial!Rollback
      BY <1>0, <1>2, <2>1, <2>2 DEF EndSucceeded, Serial!Commit, Serial!Rollback
  <2> QED BY <2>3 DEF Serial!Next
<1>3. CASE EndFailed(op)
    BY <1>0, <1>3 DEF EndFailed, Serial!vars
<1>4. CASE StatementRan(op)
  <2>1. /\ UNCHANGED <<currentTransactionId, lastTransactionId, lost>>
        /\ uncommitted \subseteq uncommitted' /\ committed \subseteq committed'
        /\ op.kind \in {"write", "batch", "cancel"}
        /\ Written(op) \subseteq {<<c, op.tid>>}
      BY <1>4 DEF StatementRan, Written, Tag
  <2>2. CASE UNCHANGED <<uncommitted, committed>>
      BY <1>0, <2>1, <2>2 DEF Serial!vars
  <2>3. CASE ~UNCHANGED <<uncommitted, committed>> /\ sqliteOpen
    <3>1. uncommitted' = uncommitted \cup {<<c, op.tid>>} /\ UNCHANGED committed
        BY <1>4, <2>1, <2>3 DEF StatementRan
    <3>2. currentTransactionId # NoId
        BY <2>3, <1>0 DEF OutcomeInv, Inv, GateMatchesSqlite, Quiet
    <3>3. op.tid # NoId
        BY <2>1, <3>2 DEF Ran, Passes, OfCurrentTransaction, SerialInv, BatchesHaveTransaction
    <3>4. Serial!WriteInTransaction(c)
        BY <1>0, <2>1, <3>1, <3>2, <3>3, RanFor DEF Serial!WriteInTransaction
    <3> QED BY <1>0, <3>4 DEF Serial!Next
  <2>4. CASE ~UNCHANGED <<uncommitted, committed>> /\ ~sqliteOpen
    <3>1. committed' = committed \cup {<<c, op.tid>>} /\ UNCHANGED uncommitted
        BY <1>4, <2>1, <2>4 DEF StatementRan
    <3>2. currentTransactionId = NoId
        BY <2>4 DEF SerialInv, AtomicInv, OpenWhileHeld
    <3>3. op.tid = NoId
        BY <1>0, <3>2 DEF OwnInv, OwnIds
    <3>4. Serial!Write(c)
        BY <1>0, <2>1, <3>1, <3>2, <3>3 DEF Serial!Write
    <3> QED BY <1>0, <3>4 DEF Serial!Next
  <2> QED BY <2>2, <2>3, <2>4
<1>5. CASE RolledBack(op)
    BY <1>5 DEF RolledBack, NoAutomaticRollback
<1> QED BY <1>1, <1>2, <1>3, <1>4, <1>5 DEF Ran, Ends

\* Verdicts are given once, and are true.
LEMMA OnReplyIsSerial ==
    ASSUME SerialInv, NEW c \in Clients, OnReply(c)
    PROVE  Serial!Next \/ UNCHANGED Serial!vars
<1> DEFINE id == txnId[c]
<1>0. /\ OwnInv /\ OutcomeInv
      /\ UNCHANGED <<currentTransactionId, lastTransactionId, uncommitted, committed, lost>>
    BY SerialFacts DEF OnReply, NativeUnchanged, gateVars, sqliteVars
<1>1. CASE UNCHANGED <<succeeded, failed>>
    BY <1>0, <1>1 DEF Serial!vars
<1>2. CASE ~UNCHANGED <<succeeded, failed>>
  <2>1. /\ pc[c] \in {"committing", "rollingBack"} /\ reply[c] # NoReply
        /\ \/ /\ pc[c] = "committing" /\ reply[c].ok
              /\ succeeded' = succeeded \cup {<<c, id>>} /\ UNCHANGED failed
           \/ /\ ~(pc[c] = "committing" /\ reply[c].ok)
              /\ failed' = failed \cup {<<c, id>>} /\ UNCHANGED succeeded
      BY <1>2 DEF OnReply, history
  <2>2. /\ <<c, id>> \notin succeeded \cup failed
        /\ id \in Nat /\ id # NoId /\ id <= lastTransactionId /\ lastTransactionId \in Nat
      BY <1>0, <2>1, SerialFacts DEF OutcomeInv, Running, TxnIds, Known, InTxn, Inv, Typed
  <2>3. id \in 1..lastTransactionId
      BY <2>2 DEF NoId
  <2>4. CASE pc[c] = "committing" /\ reply[c].ok
    <3>1. Done(c, id)
        BY <2>4 DEF Done
    <3>2. id # currentTransactionId /\ <<c, id>> \notin lost \cup uncommitted
        BY <1>0, <2>3, <3>1 DEF OutcomeInv, OwnInv, Over
    <3>3. Serial!Succeed(c, id)
        BY <1>0, <2>1, <2>2, <2>4, <3>2 DEF Serial!Succeed
    <3> QED BY <2>3, <3>3 DEF Serial!Next
  <2>5. CASE ~(pc[c] = "committing" /\ reply[c].ok)
    <3>1. Failed(c, id)
        BY <2>1, <2>5 DEF Failed, Ended
    <3>2. <<c, id>> \notin committed
        BY <2>2, <3>1 DEF SerialInv, AtomicInv, FailedIsOver
    <3>3. Serial!Fail(c, id)
        BY <1>0, <2>1, <2>2, <2>5, <3>2 DEF Serial!Fail
    <3> QED BY <2>3, <3>3 DEF Serial!Next
  <2> QED BY <2>4, <2>5
<1> QED BY <1>1, <1>2

\* The gate, its queue and the pool are a way to execute transactions one by
\* one: if no client restarts, no statement makes SQLite roll back by itself,
\* and no batch is sent outside of a transaction, the clients see what
\* SerialTransactions allows, whatever else fails, until one of them calls a
\* transaction that it has ended or begins one by hand.
THEOREM GateIsSerial ==
    ASSUME NoRestarts, NoAutomaticRollback, NoLooseBatch
    PROVE  Spec => ImplementsSerialTransactions
<1> DEFINE I == late = {} /\ ~byHand => SerialInv
<1>1. Init => I /\ Serial!Init
  <2> SUFFICES ASSUME Init PROVE SerialInv /\ Serial!Init
      OBVIOUS
  <2>1. Pending = {}
      BY DEF Init, Pending, Queue
  <2>2. BatchesHaveTransaction /\ StrictlyIsolated /\ Owned
      BY <2>1 DEF Init, BatchesHaveTransaction, StrictlyIsolated, Owned
  <2>3. Serial!Init
      BY DEF Init, Serial!Init, NoId, Serial!NoId
  <2> QED BY <2>2, <2>3, InitAtomic DEF SerialInv
<1>2. I /\ [Next]_vars => I'
  <2> SUFFICES ASSUME I, [Next]_vars, late' = {}, ~byHand' PROVE SerialInv'
      OBVIOUS
  <2>1. late = {} /\ ~byHand
      BY HistoryGrows
  <2> QED BY <2>1, NextSerial
<1>3. I /\ [Next]_vars => [late' = {} /\ ~byHand' => Serial!Next]_(Serial!vars)
  <2> SUFFICES ASSUME I, [Next]_vars, late' = {}, ~byHand'
               PROVE  Serial!Next \/ UNCHANGED Serial!vars
      OBVIOUS
  <2>6. SerialInv
      BY HistoryGrows
  <2>7. ASSUME NEW c \in Clients PROVE ~ExecuteByHand(c)
      BY DEF ExecuteByHand
  <2> HIDE DEF I
  <2>0. OwnInv /\ OutcomeInv
      BY <2>6, SerialFacts
  <2>1. ASSUME NEW c \in Clients,
               \/ CallWrite(c) \/ CallBatch(c) \/ BeginTransaction(c)
               \/ TxnWrite(c) \/ TxnBatch(c) \/ TxnCloseCursor(c)
               \/ EndTransaction(c, "commit") \/ EndTransaction(c, "rollback")
        PROVE  UNCHANGED Serial!vars
      BY <2>0, <2>1, <2>6, CallsSend, SendKeepsOwned
  <2>2. ASSUME NEW c \in Clients, OnReply(c) PROVE Serial!Next \/ UNCHANGED Serial!vars
      BY <2>2, <2>6, OnReplyIsSerial
  <2>3. ASSUME NEW c \in Clients, Restart(c) \/ Reopen(c) PROVE FALSE
      BY <2>0, <2>3 DEF Restart, Reopen, NoRestarts, OwnInv, Alive
  <2>4. ASSUME RunTask PROVE Serial!Next \/ UNCHANGED Serial!vars
      BY <2>0, <2>4, <2>6, RunTaskDoes, RanIsSerial, UnrunKeepsOwned
  <2>5. ASSUME UNCHANGED vars PROVE UNCHANGED Serial!vars
      BY <2>0, <2>5, <2>6, StutterIsUnrun, UnrunKeepsOwned
  <2> QED BY <2>1, <2>2, <2>3, <2>4, <2>5, <2>7 DEF Next
<1> QED
  BY <1>1, <1>2, <1>3, PTL DEF Spec, ImplementsSerialTransactions

-----------------------------------------------------------------------------
(* Types *)

\* The BEGINs in a list of calls, and the calls that clients made.
Begins(s) == {i \in 1..Len(s) : s[i].kind = "begin"}
Made == {x \in Clients \X (1..MaxCalls) : x[2] <= calls[x[1]]}

\* An id is given to a BEGIN, and BEGIN is a call that some client made.
Counted ==
    Cardinality(Begins(tasks)) + Cardinality(Begins(Queue)) + lastTransactionId
        <= Cardinality(Made)

Bounded ==
    /\ calls \in [Clients -> 0..MaxCalls]
    /\ life \in [Clients -> 0..MaxRestarts]
    /\ Counted

\* Calls of a client that restarted carry earlier lives, and no call an id
\* that was not given.
Given == {op \in LegalOps : op.life <= life[op.client] /\ op.tid <= lastTransactionId}
Numbered ==
    /\ tasks \in Seq(Given \cup {RunQueuedOperations})
    /\ Queue \in Seq(Given)
    /\ currentTransactionId <= lastTransactionId
    /\ \A c \in Clients : txnId[c] <= lastTransactionId /\ reply[c].id <= lastTransactionId
    /\ \A t \in uncommitted \cup committed \cup lost \cup succeeded \cup failed :
         t[2] <= lastTransactionId

TypeInv == Inv /\ Recorded /\ Numbered /\ Bounded

Weight(op) == IF op.kind = "begin" THEN 1 ELSE 0

LEMMA BeginsFinite ==
    ASSUME NEW S, NEW s \in Seq(S)
    PROVE  IsFiniteSet(Begins(s)) /\ Cardinality(Begins(s)) \in Nat
<1>1. Len(s) \in Nat /\ Begins(s) \in SUBSET (1..Len(s))
    BY DEF Begins
<1>2. IsFiniteSet(1..Len(s))
    BY <1>1, FS_Interval
<1>3. IsFiniteSet(Begins(s))
    BY <1>1, <1>2, FS_Subset
<1> QED BY <1>3, FS_CardinalityType

LEMMA BeginsAppended ==
    ASSUME NEW S, NEW s \in Seq(S), NEW x \in S
    PROVE  Cardinality(Begins(Append(s, x))) = Cardinality(Begins(s)) + Weight(x)
<1>1. /\ Len(Append(s, x)) = Len(s) + 1 /\ Len(s) \in Nat
      /\ \A i \in 1..Len(s) : Append(s, x)[i] = s[i]
      /\ Append(s, x)[Len(s) + 1] = x
      /\ Append(s, x) \in Seq(S)
    BY AppendProperties
<1>2. /\ IsFiniteSet(Begins(s)) /\ Cardinality(Begins(s)) \in Nat
      /\ Len(s) + 1 \notin Begins(s)
    BY <1>1, BeginsFinite DEF Begins
<1>3. CASE x.kind = "begin"
  <2>1. Begins(Append(s, x)) = Begins(s) \cup {Len(s) + 1}
      BY <1>1, <1>3 DEF Begins
  <2> QED BY <1>2, <1>3, <2>1, FS_AddElement DEF Weight
<1>4. CASE x.kind # "begin"
  <2>1. Begins(Append(s, x)) = Begins(s)
      BY <1>1, <1>4 DEF Begins
  <2> QED BY <1>2, <1>4, <2>1 DEF Weight
<1> QED BY <1>3, <1>4

LEMMA BeginsRemoved ==
    ASSUME NEW S, NEW s \in Seq(S), s # <<>>
    PROVE  Cardinality(Begins(Tail(s))) + Weight(Head(s)) <= Cardinality(Begins(s))
<1>1. /\ Len(s) \in Nat \ {0} /\ Tail(s) \in Seq(S) /\ Len(Tail(s)) = Len(s) - 1
      /\ \A i \in 1..(Len(s) - 1) : Tail(s)[i] = s[i + 1]
      /\ Head(s) = s[1]
    BY HeadTailProperties, EmptySeq
<1>2. /\ IsFiniteSet(Begins(s)) /\ Cardinality(Begins(s)) \in Nat
      /\ IsFiniteSet(Begins(Tail(s))) /\ Cardinality(Begins(Tail(s))) \in Nat
    BY <1>1, BeginsFinite
<1> DEFINE Later == Begins(s) \ {1}
           f == [i \in Begins(Tail(s)) |-> i + 1]
<1>3. IsFiniteSet(Later) /\ Cardinality(Later) + Weight(Head(s)) = Cardinality(Begins(s))
  <2>1. 1 \in Begins(s) <=> Head(s).kind = "begin"
      BY <1>1 DEF Begins
  <2>2. /\ IsFiniteSet(Later)
        /\ Cardinality(Later) = IF 1 \in Begins(s) THEN Cardinality(Begins(s)) - 1
                                ELSE Cardinality(Begins(s))
    <3>1. IsFiniteSet(Begins(s))
        BY <1>2
    <3> QED BY ONLY <3>1, FS_RemoveElement
  <2>3. Weight(Head(s)) = IF 1 \in Begins(s) THEN 1 ELSE 0
      BY <2>1 DEF Weight
  <2> QED BY <1>2, <2>2, <2>3
<1>4. f \in Injection(Begins(Tail(s)), Later)
  <2>1. \A i \in Begins(Tail(s)) : i \in Nat /\ i + 1 \in Later
      BY <1>1 DEF Begins
  <2>2. f \in [Begins(Tail(s)) -> Later]
      BY <2>1
  <2>3. \A a, b \in DOMAIN f : f[a] = f[b] => a = b
      BY <2>1
  <2> QED BY <2>2, <2>3 DEF Injection, IsInjective
<1>5. Cardinality(Begins(Tail(s))) <= Cardinality(Later)
    BY <1>3, <1>4, FS_Injection
<1>6. Cardinality(Later) \in Nat /\ Weight(Head(s)) \in Nat
    BY <1>3, FS_CardinalityType DEF Weight
<1> QED BY <1>2, <1>3, <1>5, <1>6

LEMMA MadeFinite ==
    ASSUME IsFiniteSet(Clients), GateAssumption
    PROVE  /\ IsFiniteSet(Made) /\ Cardinality(Made) \in Nat
           /\ MaxId \in Nat /\ Cardinality(Made) <= MaxId
<1> DEFINE All == Clients \X (1..MaxCalls)
<1>1. MaxCalls \in Nat /\ IsFiniteSet(1..MaxCalls) /\ Cardinality(1..MaxCalls) = MaxCalls
    BY FS_Interval DEF GateAssumption
<1>2. IsFiniteSet(All) /\ Cardinality(All) = MaxId
    BY <1>1, FS_Product DEF MaxId
<1>3. Made \in SUBSET All
    BY DEF Made
<1>4. IsFiniteSet(Made) /\ Cardinality(Made) <= Cardinality(All)
    BY <1>2, <1>3, FS_Subset
<1> QED BY <1>2, <1>4, FS_CardinalityType

\* A client makes one more call, which is counted.
LEMMA InvokeKeepsBounded ==
    ASSUME IsFiniteSet(Clients), GateAssumption, Typed, Bounded, NEW c \in Clients,
           NEW kind \in Kinds, NEW tid \in Nat, Invoke(c, kind, tid),
           UNCHANGED life, NativeUnchanged
    PROVE  Bounded'
<1> DEFINE x == <<c, calls[c] + 1>>
<1>1. /\ calls \in [Clients -> 0..MaxCalls] /\ MaxCalls \in Nat /\ calls[c] < MaxCalls
      /\ calls' = [calls EXCEPT ![c] = calls[c] + 1]
    BY DEF Bounded, Invoke, GateAssumption
<1>2. calls' \in [Clients -> 0..MaxCalls] /\ calls'[c] = calls[c] + 1
      /\ \A d \in Clients : d # c => calls'[d] = calls[d]
    BY <1>1
<1>3. Made' = Made \cup {x} /\ x \notin Made
  <2>1. x \in Clients \X (1..MaxCalls) /\ x[1] = c /\ x[2] = calls[c] + 1
      BY <1>1
  <2>2. x \notin Made
      BY <1>1, <2>1 DEF Made
  <2>3. ASSUME NEW y \in Clients \X (1..MaxCalls)
        PROVE  y[2] <= calls'[y[1]] <=> (y[2] <= calls[y[1]] \/ y = x)
    <3>1. y[1] \in Clients /\ y[2] \in Nat /\ y = <<y[1], y[2]>>
        BY <1>1
    <3>2. CASE y[1] # c
        BY <1>2, <2>1, <3>1, <3>2
    <3>3. CASE y[1] = c
      <4>1. y = x <=> y[2] = calls[c] + 1
          BY <3>1, <3>3
      <4> QED BY <1>1, <1>2, <3>1, <3>3, <4>1
    <3> QED BY <3>2, <3>3
  <2> QED BY <2>1, <2>2, <2>3 DEF Made
<1>4. Cardinality(Made') = Cardinality(Made) + 1
    BY <1>3, MadeFinite, FS_AddElement
<1> DEFINE op == [client |-> c, life |-> life[c], tid |-> tid, kind |-> kind]
<1>5. Cardinality(Begins(tasks')) <= Cardinality(Begins(tasks)) + 1
  <2>1. tasks' = Append(tasks, op)
      BY DEF Invoke, Send
  <2>2. tasks \in Seq(LegalOps \cup {RunQueuedOperations} \cup {op})
      BY DEF Typed
  <2>3. Cardinality(Begins(tasks')) = Cardinality(Begins(tasks)) + Weight(op)
      BY <2>1, <2>2, BeginsAppended
  <2>4. Weight(op) \in {0, 1} /\ Cardinality(Begins(tasks)) \in Nat
      BY <2>2, BeginsFinite DEF Weight
  <2> QED BY <2>3, <2>4
<1>6. Queue' = Queue /\ lastTransactionId' = lastTransactionId
    BY DEF NativeUnchanged, gateVars, Queue
<1>7. /\ Cardinality(Begins(tasks)) \in Nat /\ Cardinality(Begins(tasks')) \in Nat
      /\ Cardinality(Begins(Queue)) \in Nat /\ Cardinality(Made) \in Nat
      /\ lastTransactionId \in Nat
  <2>1. tasks' \in Seq(LegalOps \cup {RunQueuedOperations} \cup {op})
      BY AppendProperties DEF Typed, Invoke, Send
  <2> QED BY <2>1, BeginsFinite, MadeFinite DEF Typed, Queue
<1>8. Counted'
    BY <1>4, <1>5, <1>6, <1>7 DEF Bounded, Counted
<1> QED BY <1>2, <1>8 DEF Bounded

\* Nothing is counted that was not before.
LEMMA KeepsCounted ==
    ASSUME Counted, UNCHANGED <<tasks, calls, lastTransactionId, noTransactionOperationQueue>>
    PROVE  Counted'
BY DEF Counted, Made, Queue

\* The ROLLBACK of openDatabase is no call of the client, and gets no id.
LEMMA ReopenKeepsBounded ==
    ASSUME Typed, Bounded, NEW c \in Clients, Reopen(c)
    PROVE  Bounded'
<1>1. /\ UNCHANGED <<calls, life>> /\ UNCHANGED <<lastTransactionId, noTransactionOperationQueue>>
    BY DEF Reopen, NativeUnchanged, gateVars
<1>2. CASE UNCHANGED tasks
    BY <1>1, <1>2, KeepsCounted DEF Bounded
<1>3. CASE Send(c, "rollback", Forced)
  <2> DEFINE op == [client |-> c, life |-> life[c], tid |-> Forced, kind |-> "rollback"]
  <2>1. tasks' = Append(tasks, op) /\ Weight(op) = 0
      BY <1>3 DEF Send, Weight
  <2>2. tasks \in Seq(LegalOps \cup {RunQueuedOperations} \cup {op})
      BY DEF Typed
  <2>3. Cardinality(Begins(tasks')) = Cardinality(Begins(tasks))
      BY <2>1, <2>2, BeginsAppended, BeginsFinite
  <2> QED BY <1>1, <2>3 DEF Bounded, Counted, Made, Queue
<1> QED BY <1>2, <1>3 DEF Reopen

\* Only BEGIN takes an id.
LEMMA ExecTakes ==
    ASSUME Typed, NEW op, Exec(op)
    PROVE  lastTransactionId' \in Nat /\ lastTransactionId' <= lastTransactionId + Weight(op)
<1>1. \/ op.kind = "begin" /\ lastTransactionId' = lastTransactionId + 1
      \/ lastTransactionId' = lastTransactionId
    BY DEF Exec, ExecBegin, ExecBeginByHand, ExecEndInBatch, ExecEnd, ExecWrite, ExecBatch,
           ExecCancel, gateVars
<1> QED BY <1>1 DEF Weight, Typed

\* A call leaves the list when it runs, or waits.
LEMMA RunTaskKeepsBounded ==
    ASSUME IsFiniteSet(Clients), GateAssumption, Typed, Bounded, RunTask
    PROVE  Bounded'
<1> PICK op : op = Head(tasks)
    OBVIOUS
<1>0. /\ tasks # <<>> /\ UNCHANGED <<calls, life>> /\ Made' = Made
    BY DEF RunTask, dartVars, Made
<1>1. /\ tasks \in Seq(Tasks) /\ op \in Tasks /\ Tail(tasks) \in Seq(Tasks)
      /\ Queue \in Seq(LegalOps)
  <2>1. tasks \in Seq(Tasks) /\ Queue \in Seq(LegalOps)
      BY DEF Typed, Tasks, Queue, QueuedOps
  <2> QED BY <1>0, <2>1, Removed
<1> DEFINE t == Cardinality(Begins(tasks))
           r == Cardinality(Begins(Tail(tasks)))
           q == Cardinality(Begins(Queue))
<1>2. /\ t \in Nat /\ r \in Nat /\ q \in Nat /\ Weight(op) \in Nat /\ lastTransactionId \in Nat
      /\ r + Weight(op) <= t
      /\ t + q + lastTransactionId <= Cardinality(Made) /\ Cardinality(Made) \in Nat
  <2>1. t \in Nat /\ r \in Nat /\ q \in Nat
      BY <1>1, BeginsFinite
  <2>2. r + Weight(op) <= t
      BY <1>0, <1>1, BeginsRemoved
  <2> QED BY <2>1, <2>2, MadeFinite DEF Weight, Typed, Bounded, Counted
<1> HIDE DEF t, r, q
<1>3. CASE /\ Exec(op) /\ Queue' = Queue
           /\ tasks' = Tail(tasks) \/ tasks' = Append(Tail(tasks), RunQueuedOperations)
  <2>1. Cardinality(Begins(tasks')) = r
    <3>1. CASE tasks' = Tail(tasks)
        BY <3>1 DEF r
    <3>2. CASE tasks' = Append(Tail(tasks), RunQueuedOperations)
      <4>1. RunQueuedOperations \in Tasks /\ Weight(RunQueuedOperations) = 0
          BY DEF Tasks, RunQueuedOperations, Weight
      <4>2. Cardinality(Begins(tasks')) = r + 0
          BY <1>1, <3>2, <4>1, BeginsAppended DEF r
      <4> QED BY <1>2, <4>2
    <3> QED BY <1>3, <3>1, <3>2
  <2>2. lastTransactionId' \in Nat /\ lastTransactionId' <= lastTransactionId + Weight(op)
      BY <1>3, ExecTakes
  <2>3. Counted'
      BY <1>0, <1>2, <1>3, <2>1, <2>2 DEF Counted, q
  <2> QED BY <1>0, <2>3 DEF Bounded
<1>4. CASE EnqueueOperation(op)
  <2>1. /\ tasks' = Tail(tasks) /\ Queue' = Append(Queue, op)
        /\ lastTransactionId' = lastTransactionId /\ op \in LegalOps
      BY <1>1, <1>4 DEF EnqueueOperation, gateVars, Queue, Tasks, RunQueuedOperations
  <2>2. Cardinality(Begins(Queue')) = q + Weight(op)
      BY <1>1, <2>1, BeginsAppended DEF q
  <2>3. Counted'
      BY <1>0, <1>2, <2>1, <2>2 DEF Counted, r
  <2> QED BY <1>0, <2>3 DEF Bounded
<1>5. CASE RunNextQueued(op)
  <2> PICK x : x = Head(Queue)
      OBVIOUS
  <2>1. Queue # <<>> /\ Queue' = Tail(Queue) /\ tasks' = tasks /\ Exec(x)
      BY <1>5 DEF RunNextQueued, Queue
  <2>2. lastTransactionId' \in Nat /\ lastTransactionId' <= lastTransactionId + Weight(x)
      BY <2>1, ExecTakes
  <2>3. /\ Cardinality(Begins(Queue')) + Weight(x) <= q
        /\ Cardinality(Begins(Queue')) \in Nat /\ Weight(x) \in Nat
    <3>1. Queue' \in Seq(LegalOps)
        BY <1>1, <2>1, Removed
    <3> QED BY <1>1, <2>1, <3>1, BeginsRemoved, BeginsFinite DEF q, Weight
  <2>4. Counted'
      BY <1>0, <1>2, <2>1, <2>2, <2>3 DEF Counted, t
  <2> QED BY <1>0, <2>4 DEF Bounded
<1>6. CASE EndRunQueued(op)
  <2>1. tasks' = Tail(tasks) /\ Queue' = Queue /\ lastTransactionId' = lastTransactionId
      BY <1>6 DEF EndRunQueued, NativeUnchanged, gateVars, Queue
  <2>2. Counted'
      BY <1>0, <1>2, <2>1 DEF Counted, r, q
  <2> QED BY <1>0, <2>2 DEF Bounded
<1>7. \/ /\ Exec(op) /\ Queue' = Queue
         /\ tasks' = Tail(tasks) \/ tasks' = Append(Tail(tasks), RunQueuedOperations)
      \/ EnqueueOperation(op) \/ RunNextQueued(op) \/ EndRunQueued(op)
    BY DEF RunTask, RunBatch, RunFree, RunInTransaction, Queue
<1> QED BY <1>3, <1>4, <1>5, <1>6, <1>7

LEMMA NextBounded ==
    ASSUME IsFiniteSet(Clients), GateAssumption, Typed, Bounded, [Next]_vars
    PROVE  Bounded'
<1>1. ASSUME NEW c \in Clients,
             \/ CallWrite(c) \/ CallBatch(c) \/ BeginTransaction(c)
             \/ TxnWrite(c) \/ TxnBatch(c) \/ TxnCloseCursor(c) \/ ExecuteByHand(c)
             \/ EndTransaction(c, "commit") \/ EndTransaction(c, "rollback")
      PROVE  Bounded'
  <2>1. txnId[c] \in Nat /\ NoId \in Nat
      BY DEF Typed, NoId
  <2>2. PICK kind \in Kinds, tid \in Nat :
          Invoke(c, kind, tid) /\ UNCHANGED life /\ NativeUnchanged
      BY <1>1, <2>1 DEF CallWrite, CallBatch, BeginTransaction, TxnWrite, TxnBatch, TxnCall,
                        TxnCloseCursor, ExecuteByHand, EndTransaction, Kinds
  <2> QED BY <2>2, InvokeKeepsBounded
<1>2. ASSUME NEW c \in Clients, OnReply(c) PROVE Bounded'
  <2>1. UNCHANGED <<tasks, calls, life, lastTransactionId, noTransactionOperationQueue>>
      BY <1>2 DEF OnReply, NativeUnchanged, gateVars
  <2> QED BY <2>1, KeepsCounted DEF Bounded
<1>3. ASSUME NEW c \in Clients, Restart(c) PROVE Bounded'
  <2>1. /\ UNCHANGED <<tasks, calls, lastTransactionId, noTransactionOperationQueue>>
        /\ life[c] < MaxRestarts /\ life' = [life EXCEPT ![c] = life[c] + 1]
      BY <1>3 DEF Restart, NativeUnchanged, gateVars
  <2>2. life' \in [Clients -> 0..MaxRestarts]
      BY <2>1 DEF Bounded, GateAssumption
  <2> QED BY <2>1, <2>2, KeepsCounted DEF Bounded
<1>4. ASSUME NEW c \in Clients, Reopen(c) PROVE Bounded'
    BY <1>4, ReopenKeepsBounded
<1>5. CASE RunTask
    BY <1>5, RunTaskKeepsBounded
<1>6. CASE UNCHANGED vars
  <2>1. UNCHANGED <<tasks, calls, life, lastTransactionId, noTransactionOperationQueue>>
      BY <1>6 DEF vars, dartVars, gateVars
  <2> QED BY <2>1, KeepsCounted DEF Bounded
<1> QED BY <1>1, <1>2, <1>3, <1>4, <1>5, <1>6 DEF Next

LEMMA InitBounded ==
    ASSUME IsFiniteSet(Clients), GateAssumption, Init
    PROVE  Bounded
<1>1. Begins(tasks) = {} /\ Begins(Queue) = {} /\ lastTransactionId = 0
    BY DEF Init, Begins, Queue, NoId
<1>2. Cardinality({}) = 0 /\ Cardinality(Made) \in Nat
    BY FS_EmptySet, MadeFinite
<1>3. Counted
    BY <1>1, <1>2 DEF Counted
<1>4. calls \in [Clients -> 0..MaxCalls] /\ life \in [Clients -> 0..MaxRestarts]
    BY DEF Init, GateAssumption
<1> QED BY <1>3, <1>4 DEF Bounded

LEMMA SeqOf ==
    ASSUME NEW S, NEW T, NEW s \in Seq(S), S \subseteq T
    PROVE  s \in Seq(T)
OBVIOUS

LEMMA GivenGrows ==
    ASSUME Typed, Typed', Numbered,
           lastTransactionId <= lastTransactionId', \A c \in Clients : life[c] <= life'[c]
    PROVE  /\ Given \subseteq Given'
           /\ tasks \in Seq(Given' \cup {RunQueuedOperations}) /\ Queue \in Seq(Given')
<1>1. ASSUME NEW op \in Given PROVE op \in Given'
  <2>1. /\ op \in LegalOps /\ op.client \in Clients /\ op.life \in Nat /\ op.tid \in Int
        /\ op.life <= life[op.client] /\ op.tid <= lastTransactionId
      BY DEF Given, LegalOps, Forced
  <2>2. /\ life[op.client] \in Nat /\ life'[op.client] \in Nat
        /\ lastTransactionId \in Nat /\ lastTransactionId' \in Nat
      BY <2>1 DEF Typed
  <2>3. op.life <= life'[op.client] /\ op.tid <= lastTransactionId'
      BY <2>1, <2>2
  <2> QED BY <2>1, <2>3 DEF Given
<1>2. Given \cup {RunQueuedOperations} \subseteq Given' \cup {RunQueuedOperations}
    BY <1>1
<1> QED BY <1>1, <1>2, SeqOf DEF Numbered

\* A client makes a call, or openDatabase sends its ROLLBACK.
LEMMA SendKeepsTypes ==
    ASSUME Inv, Inv', Recorded, Numbered, NEW c \in Clients, NEW state \in States,
           pc' = [pc EXCEPT ![c] = state],
           \/ UNCHANGED tasks
           \/ \E kind \in Kinds, tid \in {Forced, NoId, txnId[c]} :
                Send(c, kind, tid) /\ NewOp(c, kind, tid) \in LegalOps,
           UNCHANGED <<txnId, life, reply, succeeded, failed>>, late' \subseteq Clients,
           NativeUnchanged
    PROVE  Recorded' /\ Numbered'
<1>1. /\ Queue' = Queue
      /\ UNCHANGED <<currentTransactionId, lastTransactionId, uncommitted, committed, lost>>
    BY DEF NativeUnchanged, gateVars, sqliteVars, Queue
<1>2. Recorded'
    BY <1>1 DEF Recorded
<1>3. /\ lastTransactionId \in Nat /\ life \in [Clients -> Nat] /\ Typed /\ Typed'
      /\ Forced <= lastTransactionId /\ NoId <= lastTransactionId
    BY DEF Inv, Typed, Forced, NoId
<1>4. Given' = Given
    BY <1>1 DEF Given
<1>5. tasks' \in Seq(Given' \cup {RunQueuedOperations})
  <2>1. CASE UNCHANGED tasks
      BY <1>4, <2>1 DEF Numbered
  <2>2. ASSUME NEW kind \in Kinds, NEW tid \in {Forced, NoId, txnId[c]},
               Send(c, kind, tid), NewOp(c, kind, tid) \in LegalOps
        PROVE  tasks' \in Seq(Given' \cup {RunQueuedOperations})
    <3>1. tid <= lastTransactionId /\ life[c] <= life[c]
        BY <1>3 DEF Numbered
    <3>2. NewOp(c, kind, tid) \in Given
        BY <2>2, <3>1 DEF Given, NewOp
    <3>3. tasks' = Append(tasks, NewOp(c, kind, tid))
        BY <2>2 DEF Send, NewOp
    <3> QED BY <1>4, <3>2, <3>3, AppendProperties DEF Numbered
  <2> QED BY <2>1, <2>2
<1>6. Queue' \in Seq(Given')
    BY <1>1, <1>4 DEF Numbered
<1> QED BY <1>1, <1>2, <1>5, <1>6 DEF Numbered

LEMMA OnReplyKeepsTypes ==
    ASSUME Inv, Inv', Recorded, Numbered, NEW c \in Clients, OnReply(c)
    PROVE  Recorded' /\ Numbered'
<1>1. /\ UNCHANGED <<tasks, life>> /\ Queue' = Queue
      /\ UNCHANGED <<currentTransactionId, lastTransactionId, uncommitted, committed, lost>>
    BY DEF OnReply, NativeUnchanged, gateVars, sqliteVars, Queue
<1>2. /\ reply' = [reply EXCEPT ![c] = NoReply] /\ late' = late
      /\ \E state \in {"idle", "active"} : pc' = [pc EXCEPT ![c] = state]
      /\ \E id \in {txnId[c], reply[c].id, NoId} : txnId' = [txnId EXCEPT ![c] = id]
      /\ succeeded' \subseteq succeeded \cup {<<c, txnId[c]>>}
      /\ failed' \subseteq failed \cup {<<c, txnId[c]>>}
  <2>1. txnId' = txnId => txnId' = [txnId EXCEPT ![c] = txnId[c]]
      BY DEF Inv, Typed
  <2> QED BY <2>1 DEF OnReply, GoTo, history
<1>3. /\ txnId \in [Clients -> Nat] /\ reply \in [Clients -> [ok : BOOLEAN, id : Nat] \cup {NoReply}]
      /\ lastTransactionId \in Nat /\ NoReply.id = Forced
      /\ Forced <= lastTransactionId /\ NoId <= lastTransactionId
    BY DEF Inv, Typed, NoReply, Forced, NoId
<1>4. Recorded'
  <2>1. pc' \in [Clients -> States]
      BY <1>2 DEF Recorded, States
  <2>2. <<c, txnId[c]>> \in Writes
      BY <1>3 DEF Writes
  <2>3. succeeded' \subseteq Writes /\ failed' \subseteq Writes
      BY <1>2, <2>2 DEF Recorded
  <2> QED BY <1>1, <1>2, <2>1, <2>3 DEF Recorded
<1>5. \A d \in Clients : txnId'[d] <= lastTransactionId /\ reply'[d].id <= lastTransactionId
    BY <1>2, <1>3 DEF Numbered
<1>6. \A t \in succeeded' \cup failed' : t[2] <= lastTransactionId
    BY <1>2 DEF Numbered
<1>7. Given' = Given
    BY <1>1 DEF Given
<1> QED BY <1>1, <1>4, <1>5, <1>6, <1>7 DEF Numbered

LEMMA RestartKeepsTypes ==
    ASSUME Inv, Inv', Recorded, Numbered, NEW c \in Clients, Restart(c)
    PROVE  Recorded' /\ Numbered'
<1>1. /\ UNCHANGED <<tasks, succeeded, failed, late>> /\ Queue' = Queue
      /\ UNCHANGED <<currentTransactionId, lastTransactionId, uncommitted, committed, lost>>
      /\ pc' = [pc EXCEPT ![c] = "restarted"] /\ life' = [life EXCEPT ![c] = @ + 1]
      /\ txnId' = [txnId EXCEPT ![c] = NoId] /\ reply' = [reply EXCEPT ![c] = NoReply]
    BY DEF Restart, GoTo, NativeUnchanged, gateVars, sqliteVars, history, Queue
<1>2. Recorded'
    BY <1>1 DEF Recorded, States
<1>3. /\ lastTransactionId \in Nat /\ life \in [Clients -> Nat] /\ Typed /\ Typed'
      /\ NoReply.id = Forced /\ Forced <= lastTransactionId /\ NoId <= lastTransactionId
      /\ \A d \in Clients : life[d] <= life'[d]
    BY <1>1 DEF Inv, Typed, NoReply, Forced, NoId
<1>4. \A d \in Clients : txnId'[d] <= lastTransactionId /\ reply'[d].id <= lastTransactionId
    BY <1>1, <1>3 DEF Inv, Typed, Numbered
<1>5. tasks \in Seq(Given' \cup {RunQueuedOperations}) /\ Queue \in Seq(Given')
    BY <1>1, <1>3, GivenGrows
<1> QED BY <1>1, <1>2, <1>4, <1>5 DEF Numbered

\* What a statement leaves behind has the ids of its writer and of the gate.
LEMMA ExecKeepsNumbers ==
    ASSUME Inv, Recorded, Numbered, NEW op \in Given, Exec(op)
    PROVE  /\ lastTransactionId <= lastTransactionId'
           /\ currentTransactionId' <= lastTransactionId'
           /\ \A c \in Clients : reply'[c].id <= lastTransactionId'
           /\ \A t \in uncommitted' \cup committed' \cup lost' :
                t \in Writes /\ t[2] <= lastTransactionId'
<1>0. /\ lastTransactionId \in Nat /\ currentTransactionId \in Nat
      /\ currentTransactionId <= lastTransactionId
      /\ op.client \in Clients /\ op.tid \in Int /\ op.tid <= lastTransactionId
      /\ op.tid = Forced => op.kind = "rollback"
      /\ op.tid # Forced => op.tid \in Nat
      /\ reply \in [Clients -> [ok : BOOLEAN, id : Nat] \cup {NoReply}]
      /\ NoReply.id = Forced
    BY DEF Inv, Typed, Numbered, Given, LegalOps, NoReply, Forced
<1>1. /\ \/ lastTransactionId' = lastTransactionId
         \/ lastTransactionId' = lastTransactionId + 1
      /\ currentTransactionId' \in {currentTransactionId, NoId, lastTransactionId'}
      /\ \E ok \in BOOLEAN, id \in {NoId, lastTransactionId'} : Answer(op, ok, id)
    BY DEF Exec, ExecBegin, ExecBeginByHand, ExecEndInBatch, ExecEnd, ExecWrite, ExecBatch,
           ExecCancel, gateVars
<1>2. /\ lastTransactionId' \in Nat /\ lastTransactionId <= lastTransactionId'
      /\ currentTransactionId' <= lastTransactionId'
      /\ NoId <= lastTransactionId' /\ Forced <= lastTransactionId'
    BY <1>0, <1>1 DEF NoId, Forced
<1>3. \A c \in Clients : reply'[c].id <= lastTransactionId'
  <2> SUFFICES ASSUME NEW c \in Clients PROVE reply'[c].id <= lastTransactionId'
      OBVIOUS
  <2>1. reply[c].id <= lastTransactionId /\ reply[c].id \in Int
      BY <1>0 DEF Numbered, Forced
  <2>2. PICK ok \in BOOLEAN, id \in {NoId, lastTransactionId'} : Answer(op, ok, id)
      BY <1>1
  <2>3. reply'[c] = reply[c] \/ reply'[c] = [ok |-> ok, id |-> id]
      BY <1>0, <2>2 DEF Answer
  <2>4. reply'[c].id = reply[c].id \/ reply'[c].id = id
      BY <2>3
  <2> QED BY <1>0, <1>2, <2>1, <2>4
<1>4. uncommitted' \cup committed' \cup lost' \subseteq
        uncommitted \cup committed \cup lost \cup
          {t \in {<<op.client, op.tid>>} : op.kind \in {"write", "batch"}}
  <2>1. CASE op.kind \notin {"write", "batch"}
      BY <2>1 DEF Exec, ExecBegin, ExecBeginByHand, ExecEndInBatch, ExecEnd, ExecCancel, sqliteVars
  <2>2. CASE op.kind = "write"
      BY <2>2 DEF Exec, ExecWrite, Apply
  <2>3. CASE op.kind = "batch"
      BY <2>3 DEF Exec, ExecBatch, Apply
  <2> QED BY <2>1, <2>2, <2>3
<1>5. op.kind \in {"write", "batch"} => <<op.client, op.tid>> \in Writes
    BY <1>0 DEF Writes
<1>6. \A t \in uncommitted \cup committed \cup lost :
        t \in Writes /\ t[2] \in Nat /\ t[2] <= lastTransactionId
    BY DEF Recorded, Numbered, Writes
<1>7. \A t \in uncommitted \cup committed \cup lost : t \in Writes /\ t[2] <= lastTransactionId'
    BY <1>0, <1>2, <1>6
<1>8. op.tid <= lastTransactionId'
    BY <1>0, <1>2
<1> QED BY <1>2, <1>3, <1>4, <1>5, <1>7, <1>8

LEMMA RunTaskKeepsTypes ==
    ASSUME Inv, Inv', Recorded, Numbered, RunTask
    PROVE  Recorded' /\ Numbered'
<1> DEFINE All == Given \cup {RunQueuedOperations}
<1> PICK op : op = Head(tasks)
    OBVIOUS
<1>0. /\ tasks # <<>> /\ UNCHANGED <<pc, txnId, life, succeeded, failed, late>>
      /\ Typed /\ Typed' /\ \A c \in Clients : life[c] <= life'[c]
    BY DEF RunTask, dartVars, history, Inv, Typed
<1>1. /\ tasks \in Seq(All) /\ Queue \in Seq(Given) /\ Tail(tasks) \in Seq(All)
      /\ op \in All /\ RunQueuedOperations \in All
      /\ op.kind # "runQueued" => op \in Given
    BY <1>0, Removed DEF Numbered, RunQueuedOperations
<1>2. ASSUME NEW x \in Given, Exec(x), tasks' \in Seq(All), Queue' \in Seq(Given)
      PROVE  Recorded' /\ Numbered'
  <2>1. /\ lastTransactionId <= lastTransactionId'
        /\ currentTransactionId' <= lastTransactionId'
        /\ \A c \in Clients : reply'[c].id <= lastTransactionId'
        /\ \A t \in uncommitted' \cup committed' \cup lost' :
             t \in Writes /\ t[2] <= lastTransactionId'
      BY <1>2, ExecKeepsNumbers
  <2>2. Given \subseteq Given' /\ All \subseteq Given' \cup {RunQueuedOperations}
      BY <1>0, <2>1, GivenGrows
  <2>3. tasks' \in Seq(Given' \cup {RunQueuedOperations}) /\ Queue' \in Seq(Given')
      BY <1>2, <2>2, SeqOf
  <2>4. /\ lastTransactionId \in Nat /\ lastTransactionId' \in Nat /\ txnId \in [Clients -> Nat]
        /\ \A c \in Clients : txnId[c] <= lastTransactionId
      BY <1>0 DEF Typed, Numbered
  <2>5. \A c \in Clients : txnId'[c] <= lastTransactionId'
      BY <1>0, <2>1, <2>4
  <2>6. \A t \in succeeded' \cup failed' : t[2] \in Nat /\ t[2] <= lastTransactionId
      BY <1>0 DEF Recorded, Numbered, Writes
  <2>7. \A t \in succeeded' \cup failed' : t[2] <= lastTransactionId'
      BY <2>1, <2>4, <2>6
  <2>8. Recorded'
      BY <1>0, <2>1 DEF Recorded
  <2> QED BY <2>1, <2>3, <2>5, <2>7, <2>8 DEF Numbered
<1>3. ASSUME tasks' \in Seq(All), Queue' \in Seq(Given), UNCHANGED reply,
             UNCHANGED <<currentTransactionId, lastTransactionId, uncommitted, committed, lost>>
      PROVE  Recorded' /\ Numbered'
  <2>1. Given' = Given
      BY <1>0, <1>3 DEF Given
  <2> QED BY <1>0, <1>3, <2>1 DEF Recorded, Numbered
<1>4. CASE RunBatch(op) \/ RunFree(op) \/ RunInTransaction(op)
  <2>1. /\ Exec(op) /\ Queue' = Queue /\ op.kind # "runQueued"
        /\ tasks' = Tail(tasks) \/ tasks' = Append(Tail(tasks), RunQueuedOperations)
      BY <1>4 DEF RunBatch, RunFree, RunInTransaction, Queue, Ungated
  <2>2. tasks' \in Seq(All) /\ Queue' \in Seq(Given)
    <3> DEFINE t == Tail(tasks)
    <3>1. t \in Seq(All) /\ (tasks' = t \/ tasks' = Append(t, RunQueuedOperations))
        BY <1>1, <2>1
    <3>2. RunQueuedOperations \in All
        BY <1>1
    <3> HIDE DEF t, All
    <3>3. Append(t, RunQueuedOperations) \in Seq(All)
        BY <3>1, <3>2, AppendProperties
    <3>4. tasks' \in Seq(All)
        BY <3>1, <3>3
    <3> QED BY <1>1, <2>1, <3>4
  <2> QED BY <1>1, <1>2, <2>1, <2>2
<1>5. CASE EnqueueOperation(op)
  <2>1. /\ tasks' = Tail(tasks) /\ Queue' = Append(Queue, op) /\ op.kind # "runQueued"
        /\ UNCHANGED reply
        /\ UNCHANGED <<currentTransactionId, lastTransactionId, uncommitted, committed, lost>>
      BY <1>5 DEF EnqueueOperation, Queue, gateVars, sqliteVars
  <2> QED BY <1>1, <1>3, <2>1, AppendProperties
<1>6. CASE RunNextQueued(op)
  <2>1. Exec(Head(Queue)) /\ Queue # <<>> /\ Queue' = Tail(Queue) /\ tasks' = tasks
      BY <1>6 DEF RunNextQueued, Queue
  <2>2. Head(Queue) \in Given /\ Tail(Queue) \in Seq(Given)
      BY <1>1, <2>1, Removed
  <2> QED BY <1>1, <1>2, <2>1, <2>2
<1>7. CASE EndRunQueued(op)
  <2>1. /\ tasks' = Tail(tasks) /\ Queue' = Queue /\ UNCHANGED reply
        /\ UNCHANGED <<currentTransactionId, lastTransactionId, uncommitted, committed, lost>>
      BY <1>7 DEF EndRunQueued, NativeUnchanged, Queue, gateVars, sqliteVars
  <2> QED BY <1>1, <1>3, <2>1
<1> QED BY <1>4, <1>5, <1>6, <1>7 DEF RunTask

LEMMA NextTypes ==
    ASSUME Inv, Inv', Recorded, Numbered, [Next]_vars
    PROVE  Recorded' /\ Numbered'
<1>0. /\ txnId \in [Clients -> Nat] /\ life \in [Clients -> Nat] /\ NoId \in Nat
      /\ pc \in [Clients -> States] /\ late \subseteq Clients /\ Forced \notin Nat /\ NoId # Forced
    BY DEF Inv, Typed, Recorded, NoId, Forced
<1>1. ASSUME NEW c \in Clients,
             \/ CallWrite(c) \/ CallBatch(c) \/ BeginTransaction(c)
             \/ TxnWrite(c) \/ TxnBatch(c) \/ TxnCloseCursor(c) \/ ExecuteByHand(c)
             \/ EndTransaction(c, "commit") \/ EndTransaction(c, "rollback")
      PROVE  Recorded' /\ Numbered'
  <2>1. /\ \E kind \in Kinds, tid \in {NoId, txnId[c]} :
             Send(c, kind, tid) /\ (kind = "begin" => tid = NoId)
        /\ UNCHANGED <<txnId, life, reply, succeeded, failed>> /\ NativeUnchanged
        /\ late' \subseteq late \cup {c}
      BY <1>1 DEF CallWrite, CallBatch, BeginTransaction, TxnWrite, TxnBatch, TxnCall,
                  TxnCloseCursor, ExecuteByHand, EndTransaction, Invoke, Kinds, history
  <2>2. \E state \in States : pc' = [pc EXCEPT ![c] = state]
    <3>1. pc[c] \in States /\ pc = [pc EXCEPT ![c] = pc[c]]
        BY <1>0
    <3>2. \/ pc' = pc
          \/ \E state \in {"waiting", "beginning", "awaiting", "committing", "rollingBack"} :
               pc' = [pc EXCEPT ![c] = state]
        BY <1>1 DEF CallWrite, CallBatch, BeginTransaction, TxnWrite, TxnBatch, TxnCall,
                    TxnCloseCursor, ExecuteByHand, EndTransaction, GoTo
    <3> QED BY <3>1, <3>2 DEF States
  <2>3. PICK kind \in Kinds, tid \in {NoId, txnId[c]} :
          Send(c, kind, tid) /\ (kind = "begin" => tid = NoId)
      BY <2>1
  <2>4. NewOp(c, kind, tid) \in LegalOps /\ tid \in {Forced, NoId, txnId[c]}
      BY <1>0, <2>3 DEF NewOp, LegalOps
  <2>5. late' \subseteq Clients
      BY <1>0, <2>1
  <2> QED BY <2>1, <2>2, <2>3, <2>4, <2>5, SendKeepsTypes
<1>2. ASSUME NEW c \in Clients, OnReply(c) PROVE Recorded' /\ Numbered'
    BY <1>2, OnReplyKeepsTypes
<1>3. ASSUME NEW c \in Clients, Restart(c) PROVE Recorded' /\ Numbered'
    BY <1>3, RestartKeepsTypes
<1>4. ASSUME NEW c \in Clients, Reopen(c) PROVE Recorded' /\ Numbered'
  <2>1. /\ \E state \in States : pc' = [pc EXCEPT ![c] = state]
        /\ UNCHANGED tasks \/ Send(c, "rollback", Forced)
        /\ UNCHANGED <<txnId, life, reply, succeeded, failed, late>> /\ NativeUnchanged
      BY <1>4 DEF Reopen, GoTo, States, history
  <2>2. NewOp(c, "rollback", Forced) \in LegalOps /\ "rollback" \in Kinds
      BY <1>0 DEF NewOp, LegalOps, Kinds
  <2> QED BY <1>0, <2>1, <2>2, SendKeepsTypes
<1>5. CASE RunTask
    BY <1>5, RunTaskKeepsTypes
<1>6. CASE UNCHANGED vars
  <2>1. /\ UNCHANGED <<pc, txnId, life, reply, tasks, succeeded, failed, late>> /\ Queue' = Queue
        /\ UNCHANGED <<currentTransactionId, lastTransactionId, uncommitted, committed, lost>>
      BY <1>6 DEF vars, dartVars, gateVars, sqliteVars, history, Queue
  <2>2. Given' = Given
      BY <2>1 DEF Given
  <2> QED BY <2>1, <2>2 DEF Recorded, Numbered
<1> QED BY <1>1, <1>2, <1>3, <1>4, <1>5, <1>6 DEF Next

LEMMA InitTypes ==
    ASSUME Init
    PROVE  Recorded /\ Numbered
<1>1. Recorded
    BY InitOutcome DEF OutcomeInv
<1>2. tasks = <<>> /\ Queue = <<>>
    BY DEF Init, Queue
<1> QED BY <1>1, <1>2 DEF Init, Numbered, NoReply, NoId, Forced

LEMMA TypeInvTypes ==
    ASSUME IsFiniteSet(Clients), GateAssumption, TypeInv, byHand \in BOOLEAN
    PROVE  TypeOK
<1>0. Typed /\ Recorded /\ Numbered /\ Bounded
    BY DEF TypeInv, Inv
<1>1. MaxId \in Nat /\ lastTransactionId \in Nat /\ lastTransactionId <= MaxId
  <2>1. /\ Cardinality(Begins(tasks)) \in Nat /\ Cardinality(Begins(Queue)) \in Nat
      BY <1>0, BeginsFinite DEF Typed, Queue
  <2> QED BY <1>0, <2>1, MadeFinite DEF Typed, Bounded, Counted
<1>2. \A n \in Nat : n <= lastTransactionId => n \in {NoId} \cup Ids
    BY <1>1 DEF NoId, Ids
<1>3. Given \subseteq Op
  <2> SUFFICES ASSUME NEW op \in Given PROVE op \in Op
      OBVIOUS
  <2>1. op \in LegalOps /\ op.life <= life[op.client] /\ op.tid <= lastTransactionId
      BY DEF Given
  <2>2. life[op.client] \in 0..MaxRestarts /\ MaxRestarts \in Nat
      BY <1>0, <2>1 DEF Bounded, LegalOps, GateAssumption
  <2>3. op.life \in 0..MaxRestarts /\ op.tid \in {Forced, NoId} \cup Ids
      BY <1>2, <2>1, <2>2 DEF LegalOps
  <2> QED BY <2>1, <2>3 DEF LegalOps, Op
<1>4. tasks \in Seq(Op \cup {RunQueuedOperations}) /\ noTransactionOperationQueue \in Seq(Op)
  <2>1. Given \cup {RunQueuedOperations} \subseteq Op \cup {RunQueuedOperations}
      BY <1>3
  <2> QED BY <1>0, <1>3, <2>1, SeqOf DEF Numbered, Queue
<1>6. reply \in [Clients -> Replies]
  <2> SUFFICES ASSUME NEW c \in Clients PROVE reply[c] \in Replies
      BY <1>0 DEF Typed
  <2>1. reply[c] \in [ok : BOOLEAN, id : Nat] \cup {NoReply} /\ reply[c].id <= lastTransactionId
      BY <1>0 DEF Typed, Numbered
  <2> QED BY <1>2, <2>1 DEF Replies
<1>7. txnId \in [Clients -> {NoId} \cup Ids]
  <2>1. \A c \in Clients : txnId[c] \in {NoId} \cup Ids
      BY <1>0, <1>2 DEF Typed, Numbered
  <2> QED BY <1>0, <2>1 DEF Typed
<1>8. currentTransactionId \in {NoId} \cup Ids /\ lastTransactionId \in {NoId} \cup Ids
    BY <1>0, <1>1, <1>2 DEF Typed, Numbered
<1>9. \A t \in uncommitted \cup committed \cup lost \cup succeeded \cup failed : t \in Tags
  <2> SUFFICES ASSUME NEW t \in uncommitted \cup committed \cup lost \cup succeeded \cup failed
               PROVE  t \in Tags
      OBVIOUS
  <2>1. t \in Writes /\ t[2] <= lastTransactionId
      BY <1>0 DEF Recorded, Numbered
  <2>2. t = <<t[1], t[2]>> /\ t[1] \in Clients /\ t[2] \in Nat
      BY <2>1 DEF Writes
  <2> QED BY <1>2, <2>1, <2>2 DEF Tags
<1>10. /\ transactionDepth \in Nat /\ sessionOpen \in BOOLEAN /\ sqliteOpen \in BOOLEAN
       /\ begunByHand \in BOOLEAN /\ late \in SUBSET Clients
    BY <1>0 DEF Typed, Recorded
<1>11. /\ pc \in [Clients -> {"idle", "waiting", "beginning", "active", "awaiting",
                              "committing", "rollingBack", "restarted", "reopening"}]
       /\ life \in [Clients -> 0..MaxRestarts] /\ calls \in [Clients -> 0..MaxCalls]
    BY <1>0 DEF Recorded, States, Bounded
<1> QED BY <1>4, <1>6, <1>7, <1>8, <1>9, <1>10, <1>11 DEF TypeOK

\* Types, and the bound of the ids: each id was given to a BEGIN that a client
\* sent, so there are no more of them than calls, whatever clients do, whatever
\* fails and whoever restarts.
THEOREM GateIsTyped ==
    ASSUME IsFiniteSet(Clients)
    PROVE  Spec => []TypeOK
<1> DEFINE I == TypeInv /\ byHand \in BOOLEAN
<1>1. Init => I
    BY InitInv, InitTypes, InitBounded, GateAssumption DEF TypeInv, Init
<1>2. I /\ [Next]_vars => I'
  <2> SUFFICES ASSUME TypeInv, byHand \in BOOLEAN, [Next]_vars PROVE I'
      OBVIOUS
  <2>1. Inv /\ Typed /\ Recorded /\ Numbered /\ Bounded
      BY DEF TypeInv, Inv
  <2>2. Inv'
      BY <2>1, NextInv
  <2>3. Recorded' /\ Numbered' /\ Bounded'
      BY <2>1, <2>2, NextTypes, NextBounded, GateAssumption
  <2>4. byHand' \in BOOLEAN
    <3>1. byHand' = byHand \/ byHand' = TRUE
        BY DEF Next, CallWrite, CallBatch, BeginTransaction, TxnWrite, TxnBatch, TxnCall,
               TxnCloseCursor, ExecuteByHand, EndTransaction, OnReply, Restart, Reopen,
               RunTask, history, vars
    <3> QED BY <3>1
  <2> QED BY <2>2, <2>3, <2>4 DEF TypeInv
<1>3. I => TypeOK
    BY TypeInvTypes, GateAssumption
<1> QED BY <1>1, <1>2, <1>3, PTL DEF Spec
=============================================================================
