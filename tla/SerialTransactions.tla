------------------------- MODULE SerialTransactions -------------------------
(***************************************************************************)
(* What `transaction' promises, without gates, queues, blocks and replies: *)
(* the clients have the database in turn.  While one has a transaction all *)
(* writes are its own; they become durable together or are undone          *)
(* together, and it is told no success before they are durable and no      *)
(* failure afterwards.  An id is given to one transaction only.            *)
(*                                                                         *)
(* The gates of Android and of iOS and macOS both implement it.            *)
(***************************************************************************)
EXTENDS Integers

CONSTANT Clients

NoId == 0

VARIABLES
    holder,              \* id of the transaction that is open
    lastId,              \* the last one that was given
    pending,             \* writes of the open transaction: client and id
    durable, undone,     \* writes that were committed, or rolled back
    succeeded, failed    \* transactions, as their clients were told

vars == <<holder, lastId, pending, durable, undone, succeeded, failed>>

Init ==
    /\ holder = NoId /\ lastId = NoId
    /\ pending = {} /\ durable = {} /\ undone = {}
    /\ succeeded = {} /\ failed = {}

\* transaction(): an id is given, and used up even if BEGIN fails.
Begin ==
    /\ holder = NoId
    /\ lastId' = lastId + 1
    /\ holder' \in {NoId, lastId'}
    /\ UNCHANGED <<pending, durable, undone, succeeded, failed>>

\* A write of the client whose transaction is open.
WriteInTransaction(c) ==
    /\ holder # NoId
    /\ \A t \in pending : t[1] = c
    /\ <<c, holder>> \notin succeeded \cup failed
    /\ pending' = pending \cup {<<c, holder>>}
    /\ UNCHANGED <<holder, lastId, durable, undone, succeeded, failed>>

\* A write of any client, outside of transactions.
Write(c) ==
    /\ holder = NoId
    /\ durable' = durable \cup {<<c, NoId>>}
    /\ UNCHANGED <<holder, lastId, pending, undone, succeeded, failed>>

\* COMMIT of a transaction nobody was told anything about.
Commit ==
    /\ holder # NoId
    /\ \A t \in succeeded \cup failed : t[2] # holder
    /\ durable' = durable \cup pending
    /\ pending' = {}
    /\ holder' = NoId
    /\ UNCHANGED <<lastId, undone, succeeded, failed>>

Rollback ==
    /\ holder # NoId
    /\ \A t \in succeeded \cup failed : t[2] # holder
    /\ undone' = undone \cup pending
    /\ pending' = {}
    /\ holder' = NoId
    /\ UNCHANGED <<lastId, durable, succeeded, failed>>

\* transaction() returns...
Succeed(c, id) ==
    /\ id # holder
    /\ <<c, id>> \notin pending \cup undone \cup succeeded \cup failed
    /\ succeeded' = succeeded \cup {<<c, id>>}
    /\ UNCHANGED <<holder, lastId, pending, durable, undone, failed>>

\* ... or throws.  The transaction may still be open, if COMMIT failed.
Fail(c, id) ==
    /\ <<c, id>> \notin durable \cup succeeded \cup failed
    /\ failed' = failed \cup {<<c, id>>}
    /\ UNCHANGED <<holder, lastId, pending, durable, undone, succeeded>>

Next ==
    \/ Begin \/ Commit \/ Rollback
    \/ \E c \in Clients :
         \/ WriteInTransaction(c) \/ Write(c)
         \/ \E id \in 1..lastId : Succeed(c, id) \/ Fail(c, id)

Spec == Init /\ [][Next]_vars
=============================================================================
