--------------------------- MODULE SqlConnection ---------------------------
(***************************************************************************)
(* What the headers of the iOS and macOS library declare of a connection   *)
(* (SqfliteDarwinDatabase.h) and of its result sets                        *)
(* (SqfliteDarwinResultSet.h): a result set is open from the query that    *)
(* returned it until it is closed, closes itself at the end of its rows,   *)
(* and stands on a row of its own, which no other result set and no update *)
(* moves.  Statements, their reuse and their handles are no part of it:    *)
(* DarwinConnection has them, and implements this module.                  *)
(***************************************************************************)
EXTENDS Naturals

CONSTANTS
    ResultSets,
    MaxRows          \* bound: rows of a query

VARIABLES
    isOpen,          \* isOpen
    open,            \* the result sets that are open
    autoClose,       \* those that close themselves
    live,            \* those that can give rows
    row              \* the row a result set stands on, 0 for none

vars == <<isOpen, open, autoClose, live, row>>

Init ==
    /\ isOpen = FALSE
    /\ open = {}
    /\ autoClose = {}
    /\ live = {}
    /\ row = [r \in ResultSets |-> 0]

Closing(rs) ==
    /\ open' = open \ rs
    /\ autoClose' = autoClose \ rs
    /\ live' = live \ rs
    /\ row' = [r \in ResultSets |-> IF r \in rs THEN 0 ELSE row[r]]

\* open, openWithFlags: nothing happens to a database that is open.
Open ==
    /\ isOpen' = TRUE
    /\ UNCHANGED <<open, autoClose, live, row>>

\* close: the result sets are closed with the database.
Close ==
    /\ isOpen' = FALSE
    /\ Closing(open)

\* The queries differ in how their arguments are given.  One that fails
\* returns nil.
ExecuteQuery(r) ==
    /\ isOpen
    /\ r \notin open
    /\ open' = open \cup {r}
    /\ live' = live \cup {r}
    /\ autoClose' = autoClose \cup {r}
    /\ UNCHANGED <<isOpen, row>>

\* prepare: the set can be bound and stepped through again and again.
Prepare(r) ==
    /\ isOpen
    /\ r \notin open
    /\ open' = open \cup {r}
    /\ live' = live \cup {r}
    /\ UNCHANGED <<isOpen, autoClose, row>>

\* Updates move no result set, nor do schema changes or executeStatements.
ExecuteUpdate == isOpen /\ UNCHANGED vars

\* next, step: the next row, or the end, or an error.
NextRow(r) ==
    /\ r \in live
    /\ row[r] < MaxRows
    /\ row' = [row EXCEPT ![r] = @ + 1]
    /\ UNCHANGED <<isOpen, open, autoClose, live>>

NoMoreRows(r) ==
    /\ r \in open
    /\ IF r \in autoClose
       THEN Closing({r})
       ELSE row' = [row EXCEPT ![r] = 0] /\ UNCHANGED <<open, autoClose, live>>
    /\ UNCHANGED isOpen

\* bindWithArray, bindWithDictionary: back before the first row.
Bind(r) ==
    /\ r \in open \ autoClose
    /\ row' = [row EXCEPT ![r] = 0]
    /\ UNCHANGED <<isOpen, open, autoClose, live>>

CloseResultSet(r) ==
    /\ Closing({r})
    /\ UNCHANGED isOpen

CloseOpenResultSets ==
    /\ Closing(open)
    /\ UNCHANGED isOpen

\* clearCachedStatements: a result set whose statement is cached keeps its
\* place among the open ones, and gives no row any more.
ClearCachedStatements ==
    /\ \E rs \in SUBSET live :
         /\ live' = live \ rs
         /\ row' = [r \in ResultSets |-> IF r \in rs THEN 0 ELSE row[r]]
    /\ UNCHANGED <<isOpen, open, autoClose>>

Next ==
    \/ Open \/ Close
    \/ \E r \in ResultSets :
         \/ ExecuteQuery(r) \/ Prepare(r)
         \/ NextRow(r) \/ NoMoreRows(r) \/ Bind(r) \/ CloseResultSet(r)
    \/ ExecuteUpdate \/ CloseOpenResultSets \/ ClearCachedStatements

Spec == Init /\ [][Next]_vars
=============================================================================
