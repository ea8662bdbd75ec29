--------------------------- MODULE SerialExecutor ---------------------------
(***************************************************************************)
(* What DatabaseWorkerPool.post promises to the plugin, without workers'   *)
(* bookkeeping: the tasks of each database execute in the order in which   *)
(* they were posted, which is that of their ids, one at a time, on some    *)
(* worker; a worker executes one task at a time; while a transaction of a  *)
(* database is open only the worker that opened it executes its tasks.     *)
(* Different databases are independent.                                    *)
(***************************************************************************)
EXTENDS Integers

CONSTANTS Workers, Databases, Ids, Nothing, Nobody

VARIABLES
    queue,      \* per database: the ids of the tasks not finished
    current,    \* per worker: the database whose first task it executes
    owner       \* per database: the worker of its open transaction

vars == <<queue, current, owner>>

Init ==
    /\ queue = [d \in Databases |-> {}]
    /\ current = [w \in Workers |-> Nothing]
    /\ owner = [d \in Databases |-> Nobody]

\* A task is posted: last of all that are not finished.
Submit(d, id) ==
    /\ \A e \in Databases : \A k \in queue[e] : k < id
    /\ queue' = [queue EXCEPT ![d] = @ \cup {id}]
    /\ UNCHANGED <<current, owner>>

\* The first task of d begins to execute on worker w.
Execute(d, w) ==
    /\ queue[d] # {}
    /\ current[w] = Nothing
    /\ \A v \in Workers : current[v] # d
    /\ owner[d] \in {Nobody, w}
    /\ current' = [current EXCEPT ![w] = d]
    /\ UNCHANGED <<queue, owner>>

\* It ends, and leaves the transaction open or not.
Complete(d, w) ==
    /\ current[w] = d
    /\ current' = [current EXCEPT ![w] = Nothing]
    /\ \E first \in queue[d] :
         /\ \A k \in queue[d] : first <= k
         /\ queue' = [queue EXCEPT ![d] = @ \ {first}]
    /\ \E o \in {Nobody, w} : owner' = [owner EXCEPT ![d] = o]

Next ==
    \E d \in Databases :
       \/ \E id \in Ids : Submit(d, id)
       \/ \E w \in Workers : Execute(d, w) \/ Complete(d, w)

Spec == Init /\ [][Next]_vars
=============================================================================
