---------------------------- MODULE DarwinPlugin ----------------------------
(***************************************************************************)
(* SqflitePlugin.m: the databases of iOS and macOS, their maps, and the    *)
(* blocks through which their connections are used and closed.             *)
(*                                                                         *)
(* The handlers of method calls run one after the other.  They read and    *)
(* change the maps; what concerns a connection they leave to a block that  *)
(* they give to a concurrent queue of the system, and which waits for its  *)
(* turn on the serial queue of the connection: blocks run in any order,    *)
(* after the handler returned and long after the maps were changed.  The   *)
(* serial queue opens its connection again when a block finds it closed    *)
(* (module DarwinQueue), and the connection is closed for good when the    *)
(* last block or operation that holds it is gone.                          *)
(*                                                                         *)
(* A database has a gate too (module DarwinGate): while a transaction      *)
(* holds it, the block of any other statement ends without an answer, and  *)
(* its operation waits in the database, which it holds in turn.  Here the  *)
(* gate is held or not; whose statement ends it is left open.              *)
(*                                                                         *)
(* A caller is a pending call of some isolate; which database objects an   *)
(* isolate has is left out, so that any id may be used at any time.        *)
(***************************************************************************)
EXTENDS Naturals, Sequences

CONSTANTS
    Callers,
    Paths,
    MaxDatabases,      \* bound: databases opened in a behaviour
    MayFail            \* a connection may fail to open again

ASSUME PluginAssumption ==
    /\ MaxDatabases \in Nat
    /\ MayFail \in BOOLEAN

NoDatabase == 0
NoCaller == "nobody"

VARIABLES
    database,                    \* per id: path and singleInstance
    databaseMap,                 \* ids
    singleInstanceDatabaseMap,   \* per path, an id or NoDatabase
    blocks,                      \* blocks that did not run yet
    held,                        \* ids whose gate a transaction holds
    waiting,                     \* statements that wait in a gate, by their blocks
    connections,                 \* ids whose connection is open
    files,                       \* paths that exist
    call,                        \* what each caller waits for, or "none"
    deleted                      \* paths deleted, and not opened since

mapVars == <<database, databaseMap, singleInstanceDatabaseMap>>
gateVars == <<held, waiting>>
vars == <<mapVars, blocks, gateVars, connections, files, call, deleted>>

Ids == DOMAIN database
Init ==
    /\ database = <<>>
    /\ databaseMap = {}
    /\ singleInstanceDatabaseMap = [p \in Paths |-> NoDatabase]
    /\ blocks = {}
    /\ held = {} /\ waiting = {}
    /\ connections = {}
    /\ files = {}
    /\ call = [c \in Callers |-> "none"]
    /\ deleted = {}

-----------------------------------------------------------------------------
(* The handlers *)

\* dispatch_async, with the caller waiting for the answer.
Dispatch(c, kind, id) ==
    /\ blocks' = blocks \cup {[kind |-> kind, id |-> id, caller |-> c]}
    /\ call' = [call EXCEPT ![c] = kind]

\* The new database gets an id and goes into the maps.
Register(p, single) ==
    LET id == Len(database) + 1 IN
    /\ database' = Append(database, [path |-> p, single |-> single])
    /\ databaseMap' = databaseMap \cup {id}
    /\ singleInstanceDatabaseMap' =
         IF single THEN [singleInstanceDatabaseMap EXCEPT ![p] = id]
         ELSE singleInstanceDatabaseMap

\* handleOpenDatabaseCall that does not find a single instance (one it finds
\* is answered at once): the queue opens its connection, and a block is sent
\* to prepare it, which nobody waits for.  (If the open fails, nothing is
\* changed.)
OpenDatabase(c, p, single) ==
    /\ call[c] = "none"
    /\ Len(database) < MaxDatabases
    /\ single => singleInstanceDatabaseMap[p] = NoDatabase
    /\ Register(p, single)
    /\ connections' = connections \cup {Len(database) + 1}
    /\ files' = files \cup {p}
    /\ deleted' = deleted \ {p}
    /\ blocks' = blocks \cup {[kind |-> "prepare", id |-> Len(database) + 1,
                               caller |-> NoCaller]}
    /\ UNCHANGED <<gateVars, call>>

\* query, insert, update, execute, batch and queryCursorNext: a database
\* that is not in the map is an error at once.
Statement(c, id) ==
    /\ call[c] = "none"
    /\ id \in databaseMap
    /\ Dispatch(c, "statement", id)
    /\ UNCHANGED <<mapVars, gateVars, connections, files, deleted>>

\* Mutant: the path is freed by the databases that are not its instance.
UnregisterPath(id) ==
    /\ databaseMap' = databaseMap \ {id}
    /\ singleInstanceDatabaseMap' =
         [singleInstanceDatabaseMap EXCEPT ![database[id].path] = NoDatabase]
    /\ UNCHANGED database

\* closeDatabase, what it does under the lock of the maps.
Unregister(id) ==
    /\ databaseMap' = databaseMap \ {id}
    /\ singleInstanceDatabaseMap' =
         IF database[id].single
         THEN [singleInstanceDatabaseMap EXCEPT ![database[id].path] = NoDatabase]
         ELSE singleInstanceDatabaseMap
    /\ UNCHANGED database

CloseDatabase(c, id) ==
    /\ call[c] = "none"
    /\ id \in databaseMap
    /\ Unregister(id)
    /\ Dispatch(c, "close", id)
    /\ UNCHANGED <<gateVars, connections, files, deleted>>

\* handleDeleteDatabaseCall closes the single instance of the path first,
\* and deletes the file in the same block; without one it does so at once.
DeleteDatabase(c, p) ==
    LET found == singleInstanceDatabaseMap[p] IN
    /\ call[c] = "none"
    /\ IF found # NoDatabase
       THEN /\ Unregister(found)
            /\ Dispatch(c, "delete", found)
            /\ UNCHANGED <<files, deleted>>
       ELSE /\ files' = files \ {p}
            /\ deleted' = deleted \cup {p}
            /\ UNCHANGED <<mapVars, blocks, call>>
    /\ UNCHANGED <<gateVars, connections>>

-----------------------------------------------------------------------------
(* The blocks *)

\* Mutant: the queue stays in the memory.
KeepConnections(b, open) == connections' = open

\* The end of a block.  When no map, no other block and no waiting operation
\* has the database, its queue is deallocated, and with it the connection.  (An
\* operation that waits has a handler that has the database, which has the
\* operation: they keep each other.)
ReleaseConnections(b, open) ==
    connections' = IF \/ b.id \in databaseMap
                      \/ \E other \in (blocks \ {b}) \cup waiting' : other.id = b.id
                   THEN open
                   ELSE open \ {b.id}

\* The results of these blocks are the answers to their calls.
Answer(done) ==
    call' = [c \in Callers |-> IF \E b \in done : b.caller = c THEN "none" ELSE call[c]]

WaitingFor(id) == {w \in waiting : w.id = id}

\* Mutant: the gate is opened and nobody looks who waits.
OpenOnly(b) ==
    /\ b.id \in held
    /\ held' = held \ {b.id}
    /\ Answer({b})
    /\ UNCHANGED waiting

\* COMMIT or ROLLBACK opens the gate, and the operations that wait are run,
\* until one of them is a BEGIN that holds it again.  (They are run in their
\* order, which is left out.)
EndTransaction(b) ==
    /\ b.id \in held
    /\ \E ran \in SUBSET WaitingFor(b.id) :
         /\ waiting' = waiting \ ran
         /\ Answer(ran \cup {b})
         /\ \/ ran = WaitingFor(b.id) /\ held' = held \ {b.id}
            \/ ran # {} /\ UNCHANGED held

\* The handler of a statement: it runs, in the gate or because no transaction
\* holds it, and may be the BEGIN of one; or it is enqueued, and nobody is
\* answered; or it ends the transaction.  SQLite lets no transaction begin or
\* end if the connection could not be opened.
RunStatement(b, isOpen) ==
    \/ /\ held' \in IF isOpen THEN {held, held \cup {b.id}} ELSE {held}
       /\ Answer({b})
       /\ UNCHANGED waiting
    \/ /\ b.id \in held
       /\ waiting' = waiting \cup {b}
       /\ UNCHANGED <<held, call>>
    \/ isOpen /\ EndTransaction(b)

\* inDatabase: database opens a closed connection again, with the flag that
\* creates the file, before the block runs.
RunInDatabase(b) ==
    /\ \E isOpen \in IF MayFail /\ b.id \notin connections THEN BOOLEAN ELSE {TRUE} :
         /\ \/ b.kind = "prepare" /\ Answer({b}) /\ UNCHANGED gateVars
            \/ b.kind = "statement" /\ RunStatement(b, isOpen)
         /\ ReleaseConnections(b, IF isOpen THEN connections \cup {b.id} ELSE connections)
         /\ files' = IF isOpen /\ b.id \notin connections
                     THEN files \cup {database[b.id].path}
                     ELSE files
    /\ UNCHANGED deleted

\* Mutant: the database is looked up when the block runs.
ClosePath(b) ==
    LET id == singleInstanceDatabaseMap[database[b.id].path] IN
    /\ b.kind = "close"
    /\ Answer({b})
    /\ UNCHANGED <<gateVars, files, deleted>>
    /\ ReleaseConnections(b, connections \ {b.id, id})

RunClose(b) ==
    /\ b.kind = "close"
    /\ Answer({b})
    /\ UNCHANGED <<gateVars, files, deleted>>
    /\ ReleaseConnections(b, connections \ {b.id})

\* The block of deleteDatabase: its callback deletes the file, outside of
\* the serial queue, when close has returned.
RunDelete(b) ==
    /\ b.kind = "delete"
    /\ connections' = connections \ {b.id}
    /\ blocks' = (blocks \ {b}) \cup {[kind |-> "deleteFile", id |-> b.id, caller |-> b.caller]}
    /\ UNCHANGED <<gateVars, files, deleted, call>>

RunDeleteFile(b) ==
    /\ b.kind = "deleteFile"
    /\ Answer({b})
    /\ UNCHANGED gateVars
    /\ ReleaseConnections(b, connections)
    /\ files' = files \ {database[b.id].path}
    /\ deleted' = deleted \cup {database[b.id].path}

RunBlock(b) ==
    /\ \/ RunDelete(b)
       \/ /\ blocks' = blocks \ {b}
          /\ RunInDatabase(b) \/ RunClose(b) \/ RunDeleteFile(b)
    /\ UNCHANGED mapVars

-----------------------------------------------------------------------------
Next ==
    \/ \E c \in Callers :
         \/ \E p \in Paths, single \in BOOLEAN : OpenDatabase(c, p, single)
         \/ \E id \in Ids : Statement(c, id) \/ CloseDatabase(c, id)
         \/ \E p \in Paths : DeleteDatabase(c, p)
    \/ \E b \in blocks : RunBlock(b)

Spec == Init /\ [][Next]_vars

RunBlockOf(c) == \E b \in blocks : b.caller = c /\ RunBlock(b)
Prepare(id) == \E b \in blocks : b.kind = "prepare" /\ b.id = id /\ RunBlock(b)

\* The system runs every block it was given: a caller has one at a time, and
\* so has a database that is to be prepared.
FairSpec ==
    /\ Spec
    /\ \A c \in Callers : WF_vars(RunBlockOf(c))
    /\ \A id \in 1..MaxDatabases : WF_vars(Prepare(id))

-----------------------------------------------------------------------------
(* Properties *)

\* A path has one single instance at most, and openDatabase finds it: the
\* map of the paths has exactly the single instances of the map of the ids,
\* though each is changed by handlers that know one of them only.
OneInstance ==
    \A p \in Paths, id \in Ids :
        (singleInstanceDatabaseMap[p] = id) <=>
        (id \in databaseMap /\ database[id].single /\ database[id].path = p)

\* A database that can be called has its connection: no block of one that
\* was closed before, on the same path even, takes it away.
UsableHandles == databaseMap \subseteq connections

\* A connection is open only while a map, a block or an operation that waits
\* in the gate has it: none outlives the last of them, also when a late block
\* opened it again.  (An operation may wait for ever: if the isolate that held
\* the gate is gone, a statement that came late keeps a closed database open.)
NoLeakedConnection ==
    \A id \in connections : id \in databaseMap \/ \E b \in blocks \cup waiting : b.id = id

\* "it will properly close any existing database connection": a path that
\* was deleted does not exist until somebody opens it again.
DeleteIsFinal == deleted \cap files = {}

\* Every call is answered, those whose database was closed meanwhile too,
\* except an operation that waits in a gate that stays held: nobody stays
\* behind in one that opens.  (The gate of a database that was closed in the
\* middle of a transaction is held for ever: a statement that came late, and
\* opened it again, is not answered.)
EveryCallAnswered ==
    \A c \in Callers :
        \/ []<>(call[c] = "none")
        \/ <>[](\E w \in waiting : w.caller = c /\ w.id \in held)
=============================================================================
