-------------------------- MODULE DarwinConnection --------------------------
(***************************************************************************)
(* A connection of the iOS and macOS library: SqfliteDarwinDatabase with   *)
(* its SqfliteDarwinResultSet and SqfliteDarwinStatement objects, and the  *)
(* statement handles SQLite has for it.                                    *)
(*                                                                         *)
(* A statement object owns a handle (its `statement' is not nil) and       *)
(* finalizes it when it is closed or freed.  It is referenced by the       *)
(* result set that uses it and, if statements are cached, by the cache,    *)
(* where a later query finds it once it is not in use.  Two calls finalize *)
(* handles without telling the objects that own them: a bind that fails,   *)
(* and the close of a connection that has handles left.                    *)
(*                                                                         *)
(* ARC frees a statement object with its last reference: the action that   *)
(* takes it includes that.  A result set that is freed closes itself       *)
(* first: it is one that is closed, and its name is used again.            *)
(***************************************************************************)
EXTENDS Naturals, FiniteSets

CONSTANTS
    Queries,
    ResultSets,
    Statements,      \* bound: statement objects that exist at a time
    NoStatement,     \* nil
    MaxRows,         \* bound: rows of a query
    Calls            \* what the callers do besides queries and updates

ASSUME ConnectionAssumption ==
    /\ MaxRows \in Nat
    /\ NoStatement \notin Statements
    /\ Calls \subseteq {"cache", "prepare", "bind", "misbind", "detach"}

VARIABLES
    isOpen,
    shouldCacheStatements,
    cachedStatements,      \* the statement objects of each query
    openResultSets,        \* the database's list, which retains nothing
    statementOf,           \* the statement of a result set, nil once closed
    shouldAutoClose,       \* the result sets that close themselves
    pointer,               \* statement objects whose handle is not nil
    inUse,                 \* statement objects that say they are in use
    handles,               \* SQLite: handles that are not finalized
    row                    \* SQLite: the row a handle stands on, 0 for none

statementVars == <<pointer, inUse, handles, row>>
vars == <<isOpen, shouldCacheStatements, cachedStatements, openResultSets,
          statementOf, shouldAutoClose, statementVars>>

Init ==
    /\ isOpen = FALSE
    /\ shouldCacheStatements = FALSE
    /\ cachedStatements = [q \in Queries |-> {}]
    /\ openResultSets = {}
    /\ statementOf = [r \in ResultSets |-> NoStatement]
    /\ shouldAutoClose = {}
    /\ pointer = {} /\ inUse = {} /\ handles = {}
    /\ row = [s \in Statements |-> 0]

-----------------------------------------------------------------------------
(* Statement objects *)

OpenSets == {r \in ResultSets : statementOf[r] # NoStatement}
Cached == UNION {cachedStatements[q] : q \in Queries}
UsedBy(rs) == {statementOf[r] : r \in rs \cap OpenSets}

Unallocated == Statements \ (Cached \cup UsedBy(ResultSets) \cup pointer \cup handles)

ResetRows(ss) == row' = [s \in Statements |-> IF s \in ss THEN 0 ELSE row[s]]

\* Mutant: a statement object that is freed forgets its handle.
FreeAndForget(freed) ==
    /\ pointer' = pointer \ freed
    /\ UNCHANGED handles

\* The last reference to these objects is gone: dealloc closes them.
Free(freed) ==
    /\ pointer' = pointer \ freed
    /\ handles' = handles \ (freed \cap pointer)

\* Mutant: the database is not told.
CloseUntold(rs) ==
    LET released == UsedBy(rs)
        others   == ResultSets \ rs
    IN
    /\ statementOf' = [r \in ResultSets |-> IF r \in rs THEN NoStatement ELSE statementOf[r]]
    /\ shouldAutoClose' = shouldAutoClose \ rs
    /\ UNCHANGED openResultSets
    /\ inUse' = inUse \ released
    /\ ResetRows(released)
    /\ Free(released \ (Cached \cup UsedBy(others)))

\* close of the result sets rs: each resets its statement and drops it, and
\* tells the database, which has it in its list or not.
CloseSets(rs) ==
    LET released == UsedBy(rs)
        others   == ResultSets \ rs
    IN
    /\ statementOf' = [r \in ResultSets |-> IF r \in rs THEN NoStatement ELSE statementOf[r]]
    /\ shouldAutoClose' = shouldAutoClose \ rs
    /\ openResultSets' = openResultSets \ rs
    /\ inUse' = inUse \ released
    /\ ResetRows(released)
    /\ Free(released \ (Cached \cup UsedBy(others)))

-----------------------------------------------------------------------------
(* Queries and updates *)

\* cachedStatementForQuery, or a statement prepared for the query.
StatementFor(q) ==
    LET found == cachedStatements[q] \ inUse IN
    IF shouldCacheStatements /\ found # {} THEN found ELSE Unallocated

\* The statement gets a handle if it is new, is reset if it is not, and is
\* cached.
Obtain(q, s) ==
    /\ pointer' = pointer \cup {s}
    /\ handles' = IF s \in pointer THEN handles ELSE handles \cup {s}
    /\ ResetRows({s})
    /\ cachedStatements' =
         IF shouldCacheStatements THEN [cachedStatements EXCEPT ![q] = @ \cup {s}]
                                  ELSE cachedStatements

\* Mutant: nobody says that the statement is in use.
TakeUnmarked(r, q) ==
    /\ isOpen
    /\ statementOf[r] = NoStatement
    /\ \E s \in StatementFor(q) :
         /\ Obtain(q, s)
         /\ statementOf' = [statementOf EXCEPT ![r] = s]
         /\ UNCHANGED inUse
    /\ openResultSets' = openResultSets \cup {r}
    /\ UNCHANGED <<isOpen, shouldCacheStatements>>

\* A result set for the query.  Without a connection, or when the statement
\* cannot be prepared or a new one not be bound, nil is returned and nothing
\* is left of it.
Take(r, q) ==
    /\ isOpen
    /\ statementOf[r] = NoStatement
    /\ \E s \in StatementFor(q) :
         /\ Obtain(q, s)
         /\ statementOf' = [statementOf EXCEPT ![r] = s]
         /\ inUse' = inUse \cup {s}
    /\ openResultSets' = openResultSets \cup {r}
    /\ UNCHANGED <<isOpen, shouldCacheStatements>>

ExecuteQuery(r, q) ==
    /\ Take(r, q)
    /\ shouldAutoClose' = shouldAutoClose \cup {r}

Prepare(r, q) ==
    /\ "prepare" \in Calls
    /\ Take(r, q)
    /\ UNCHANGED shouldAutoClose

\* The bind of a cached statement fails: its handle is finalized, but the
\* statement stays in the cache.
MisbindCached(q) ==
    /\ "misbind" \in Calls
    /\ isOpen /\ shouldCacheStatements
    /\ \E s \in cachedStatements[q] \ inUse :
         /\ handles' = handles \ {s}
         /\ ResetRows({s})
    /\ UNCHANGED <<isOpen, shouldCacheStatements, cachedStatements, openResultSets,
                   statementOf, shouldAutoClose, pointer, inUse>>

\* executeUpdate: its result set is freed before it returns.  What is left
\* is a cached statement, reset.
ExecuteUpdate(q) ==
    /\ isOpen /\ shouldCacheStatements
    /\ \E s \in StatementFor(q) : Obtain(q, s)
    /\ UNCHANGED <<isOpen, shouldCacheStatements, openResultSets, statementOf,
                   shouldAutoClose, inUse>>

-----------------------------------------------------------------------------
(* Result sets *)

NextRow(r) ==
    LET s == statementOf[r] IN
    /\ s \in pointer
    /\ row[s] < MaxRows
    /\ row' = [row EXCEPT ![s] = @ + 1]
    /\ UNCHANGED <<isOpen, shouldCacheStatements, cachedStatements, openResultSets,
                   statementOf, shouldAutoClose, pointer, inUse, handles>>

\* Mutant: shouldAutoClose is not looked at.
NoMoreRowsStayOpen(r) ==
    /\ r \in OpenSets
    /\ ResetRows({statementOf[r]})
    /\ UNCHANGED <<openResultSets, statementOf, shouldAutoClose, pointer, inUse, handles>>
    /\ UNCHANGED <<isOpen, shouldCacheStatements, cachedStatements>>

\* internalStepWithError: the end of the rows, an error, or no handle.  After
\* it a set that does not close itself would start again.
NoMoreRows(r) ==
    /\ r \in OpenSets
    /\ IF r \in shouldAutoClose
       THEN CloseSets({r})
       ELSE /\ ResetRows({statementOf[r]})
            /\ UNCHANGED <<openResultSets, statementOf, shouldAutoClose, pointer, inUse, handles>>
    /\ UNCHANGED <<isOpen, shouldCacheStatements, cachedStatements>>

\* bindWithArray, of a prepared set: resetting the statement also says that
\* it is not in use; if the bind fails its handle is finalized.
Bind(r) ==
    /\ "bind" \in Calls
    /\ r \in OpenSets \ shouldAutoClose
    /\ ResetRows({statementOf[r]})
    /\ inUse' = inUse \ {statementOf[r]}
    /\ \/ UNCHANGED handles
       \/ "misbind" \in Calls /\ handles' = handles \ {statementOf[r]}
    /\ UNCHANGED <<isOpen, shouldCacheStatements, cachedStatements, openResultSets,
                   statementOf, shouldAutoClose, pointer>>

CloseResultSet(r) ==
    /\ r \in OpenSets
    /\ CloseSets({r})
    /\ UNCHANGED <<isOpen, shouldCacheStatements, cachedStatements>>

\* resultSetDidClose, called for a result set that is not closed: how
\* SqfliteDatabase keeps the result set of a cursor.
Detach(r) ==
    /\ "detach" \in Calls
    /\ r \in openResultSets
    /\ openResultSets' = openResultSets \ {r}
    /\ UNCHANGED <<isOpen, shouldCacheStatements, cachedStatements, statementOf,
                   shouldAutoClose, statementVars>>

-----------------------------------------------------------------------------
(* The connection *)

Open ==
    /\ ~isOpen
    /\ isOpen' = TRUE
    /\ UNCHANGED <<shouldCacheStatements, cachedStatements, openResultSets, statementOf,
                   shouldAutoClose, statementVars>>

CloseOpenResultSets ==
    /\ CloseSets(openResultSets)
    /\ UNCHANGED <<isOpen, shouldCacheStatements, cachedStatements>>

\* Mutant: the statement objects keep the handle they have finalized.
ClearAndKeep ==
    /\ cachedStatements' = [q \in Queries |-> {}]
    /\ inUse' = inUse \ Cached
    /\ ResetRows(Cached)
    /\ pointer' = pointer \ (Cached \ UsedBy(ResultSets))
    /\ handles' = handles \ (Cached \cap pointer)
    /\ UNCHANGED <<isOpen, shouldCacheStatements, openResultSets, statementOf, shouldAutoClose>>

\* The statements of the cache are closed, those in use too.
ClearCachedStatements ==
    /\ cachedStatements' = [q \in Queries |-> {}]
    /\ inUse' = inUse \ Cached
    /\ ResetRows(Cached)
    /\ Free(Cached)
    /\ UNCHANGED <<isOpen, shouldCacheStatements, openResultSets, statementOf, shouldAutoClose>>

\* Without the cache, its statements live as long as their result sets.
SetShouldCacheStatements(value) ==
    LET freed == IF value THEN {} ELSE Cached \ UsedBy(ResultSets) IN
    /\ "cache" \in Calls
    /\ shouldCacheStatements' = value
    /\ cachedStatements' = IF value THEN cachedStatements ELSE [q \in Queries |-> {}]
    /\ inUse' = inUse \ freed
    /\ ResetRows(freed)
    /\ Free(freed)
    /\ UNCHANGED <<isOpen, openResultSets, statementOf, shouldAutoClose>>

\* close: the cache is cleared, the result sets of the list are closed, and
\* handles that are still there are finalized ("Closing leaked statement").
Close ==
    LET kept == UsedBy(OpenSets \ openResultSets) IN
    /\ isOpen
    /\ isOpen' = FALSE
    /\ cachedStatements' = [q \in Queries |-> {}]
    /\ openResultSets' = {}
    /\ statementOf' = [r \in ResultSets |->
                         IF r \in openResultSets THEN NoStatement ELSE statementOf[r]]
    /\ shouldAutoClose' = shouldAutoClose \ openResultSets
    /\ inUse' = (inUse \cap kept) \ (Cached \cup UsedBy(openResultSets))
    /\ pointer' = (pointer \cap kept) \ Cached
    /\ handles' = {}
    /\ row' = [s \in Statements |-> 0]
    /\ UNCHANGED shouldCacheStatements

-----------------------------------------------------------------------------
Next ==
    \/ Open \/ Close \/ CloseOpenResultSets \/ ClearCachedStatements
    \/ \E value \in BOOLEAN : SetShouldCacheStatements(value)
    \/ \E q \in Queries : ExecuteUpdate(q) \/ MisbindCached(q)
    \/ \E r \in ResultSets :
         \/ \E q \in Queries : ExecuteQuery(r, q) \/ Prepare(r, q)
         \/ NextRow(r) \/ NoMoreRows(r) \/ Bind(r) \/ CloseResultSet(r) \/ Detach(r)

Spec == Init /\ [][Next]_vars

-----------------------------------------------------------------------------
(* Properties *)

TypeOK ==
    /\ isOpen \in BOOLEAN
    /\ shouldCacheStatements \in BOOLEAN
    /\ cachedStatements \in [Queries -> SUBSET Statements]
    /\ openResultSets \in SUBSET ResultSets
    /\ statementOf \in [ResultSets -> Statements \cup {NoStatement}]
    /\ shouldAutoClose \in SUBSET ResultSets
    /\ pointer \in SUBSET Statements
    /\ inUse \in SUBSET Statements
    /\ handles \in SUBSET Statements
    /\ row \in [Statements -> 0..MaxRows]

\* Whatever the callers do: a handle that SQLite still has belongs to a
\* statement object that can be reached and will finalize it.
NoLeakedStatement == handles \subseteq pointer \cap (Cached \cup UsedBy(ResultSets))

\* The list of open result sets retains nothing: a result set must have left
\* it when it is closed or freed, whoever closes it.
ListedSetsAreOpen == openResultSets \subseteq OpenSets

\* No statement object has a handle that was finalized: it would step it,
\* reset it or finalize it once more.  (Neither detached result sets nor
\* binds that fail.)
NoDanglingStatement == pointer \subseteq handles

\* inUse, "Indication of whether the statement is in use": a statement that
\* is cached is never given to two open result sets.
ExclusiveStatements ==
    \A r1, r2 \in OpenSets : r1 # r2 => statementOf[r1] # statementOf[r2]

\* What the headers promise: result sets close with the connection or at the
\* end of their rows, and each stands on a row of its own, though statements
\* are reused, cleared and dropped.
C == INSTANCE SqlConnection WITH
        open <- OpenSets,
        autoClose <- shouldAutoClose,
        live <- {r \in OpenSets : statementOf[r] \in pointer},
        row <- [r \in ResultSets |->
                  IF statementOf[r] = NoStatement THEN 0 ELSE row[statementOf[r]]]

ImplementsConnection == C!Spec
=============================================================================
