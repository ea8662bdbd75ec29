-------------------------- MODULE DatabaseFactory --------------------------
(***************************************************************************)
(* Opening, closing and deleting databases: the open helpers of the Dart   *)
(* factory (sqflite_common, factory_mixin.dart and database.dart), the     *)
(* part of doOpen and _closeDatabase that talks to the native side, and    *)
(* the maps and the worker pool of the Android plugin (SqflitePlugin.java).*)
(*                                                                         *)
(* A user is one path in one isolate: a factory keeps one open helper and  *)
(* one lock per path, and isolates share nothing on the Dart side, so two  *)
(* users meet in the plugin only.  The lock of the path is held from the   *)
(* start of an operation to its end.  The plugin handles a call at once    *)
(* and posts a task to its pool; with the default THREAD_COUNT of 1 the    *)
(* pool is a single thread and `pool' is its message queue.                *)
(*                                                                         *)
(* An open helper opens one database object only, so a helper and its      *)
(* object are one handle here: helper k's sqfliteDatabase is null or k.    *)
(***************************************************************************)
EXTENDS Integers, Sequences

CONSTANTS
    Users,
    Paths,
    PathOf,        \* the path of each user
    MaxHandles,    \* bound: database objects created in a behaviour
    MaxCloses,     \* bound: calls of close() on one handle
    Calls,         \* what users do besides open and close
    OpenMayFail    \* the native open, or a callback of doOpen, may fail

ASSUME FactoryAssumption ==
    /\ Users # {}
    /\ PathOf \in [Users -> Paths]
    /\ MaxHandles \in Nat /\ MaxCloses \in Nat
    /\ Calls \subseteq {"delete", "multiple"}
    /\ OpenMayFail \in BOOLEAN

Handles == 1..MaxHandles
NoHandle == 0
NoDatabase == 0
Databases == 1..MaxHandles     \* native ids: at most one per native open

\* A task in the message queue of the pool's thread.
Task == [kind : {"open", "close", "delete"}, user : Users,
         database : {NoDatabase} \cup Databases]
NoTask == [kind |-> "none"]

VARIABLES
    \* Dart, per user
    busy,          \* the operation that holds the lock of the path
    helper,        \* databaseOpenHelpers[path]
    answer,        \* answer of the plugin to the pending call
    \* Dart, per handle
    owner,         \* user that created it
    single,        \* options.singleInstance
    phase,         \* "new", "opening", "open", "closing", "closed", "failed"
    helperOpen,    \* openHelper.isOpen
    nativeId,      \* Database.id
    closes,        \* number of calls of close()
    \* Android plugin
    databaseMap,
    singleInstancesByPath,
    lastDatabaseId,
    instance,      \* per id: [path, single, open] of the native Database
    handling,      \* task a handler is about to post, after it left the locker
    pool,
    poolStarted    \* databaseWorkerPool # null

dartVars   == <<busy, helper, answer, owner, single, phase, helperOpen, nativeId, closes>>
pluginVars == <<databaseMap, singleInstancesByPath, lastDatabaseId, instance,
                handling, pool, poolStarted>>
vars == <<dartVars, pluginVars>>

Idle == [kind |-> "idle", handle |-> NoHandle]
Operations == [kind : {"open", "configure", "fail", "close", "delete"}, handle : {NoHandle} \cup Handles]
              \cup {Idle}

NoAnswer == [ok |-> FALSE, id |-> -1]
Answers == [ok : BOOLEAN, id : {NoDatabase} \cup Databases] \cup {NoAnswer}

Init ==
    /\ busy = [u \in Users |-> Idle]
    /\ helper = [u \in Users |-> NoHandle]
    /\ answer = [u \in Users |-> NoAnswer]
    /\ owner = [k \in Handles |-> CHOOSE u \in Users : TRUE]
    /\ single = [k \in Handles |-> TRUE]
    /\ phase = [k \in Handles |-> "new"]
    /\ helperOpen = [k \in Handles |-> FALSE]
    /\ nativeId = [k \in Handles |-> NoDatabase]
    /\ closes = [k \in Handles |-> 0]
    /\ databaseMap = {}
    /\ singleInstancesByPath = [p \in Paths |-> NoDatabase]
    /\ lastDatabaseId = 0
    /\ instance = <<>>
    /\ handling = NoTask
    /\ pool = <<>>
    /\ poolStarted = FALSE

-----------------------------------------------------------------------------
(* Android plugin: the handlers of the method calls *)

Reply(u, ok, id) == answer' = [answer EXCEPT ![u] = [ok |-> ok, id |-> id]]

\* Mutants: the path is not looked at; no single instance is ever found.
AnyInstance(p) ==
    LET open == {id \in databaseMap : instance[id].open} IN
    IF open # {} THEN CHOOSE id \in open : TRUE ELSE NoDatabase
NoInstance(p) == NoDatabase

\* The native database openDatabase may reuse, and delete closes.
SingleInstance(p) ==
    LET id == singleInstancesByPath[p] IN
    IF id \in databaseMap /\ instance[id].open THEN id ELSE NoDatabase

\* Mutant: all the databases of the path leave the map.
UnregisterPath(id) ==
    /\ databaseMap' = {x \in databaseMap : instance[x].path # instance[id].path}
    /\ singleInstancesByPath' = [singleInstancesByPath EXCEPT ![instance[id].path] = NoDatabase]

\* "Remove from map right away."
Unregister(id) ==
    /\ databaseMap' = databaseMap \ {id}
    /\ singleInstancesByPath' =
         IF instance[id].single
         THEN [singleInstancesByPath EXCEPT ![instance[id].path] = NoDatabase]
         ELSE singleInstancesByPath

NewTask(u, kind, id) == [kind |-> kind, user |-> u, database |-> id]

\* Mutant: the id is read before it is incremented.
StaleId == lastDatabaseId

\* ++databaseId
NewId == lastDatabaseId + 1

\* Mutant: a database that is not a single instance is not closed.
SingleClosed(id) == IF instance[id].single THEN [instance EXCEPT ![id].open = FALSE]
                    ELSE instance

\* database.close()
Closed(id) == [instance EXCEPT ![id].open = FALSE]

\* onOpenDatabaseCall: reuse the single instance, or post an open task; the
\* pool is created and posted to under databaseMapLocker.
PluginOpen(u, isSingle) ==
    LET found == SingleInstance(PathOf[u])
        new   == NewId
    IN  /\ handling = NoTask
        /\ IF isSingle /\ found # NoDatabase
           THEN /\ Reply(u, TRUE, found)
                /\ UNCHANGED <<lastDatabaseId, instance, pool, poolStarted>>
           ELSE /\ lastDatabaseId' = new
                /\ instance' = Append(instance, [path |-> PathOf[u], single |-> isSingle,
                                                 open |-> FALSE])
                /\ poolStarted' = TRUE
                /\ pool' = Append(pool, NewTask(u, "open", new))
                /\ UNCHANGED answer
        /\ UNCHANGED <<databaseMap, singleInstancesByPath, handling>>

\* onCloseDatabaseCall: the database leaves the maps at once, then a task
\* is posted (PostTask).
PluginClose(u, id) ==
    /\ handling = NoTask
    /\ IF id \in databaseMap
       THEN /\ Unregister(id)
            /\ handling' = NewTask(u, "close", id)
            /\ UNCHANGED answer
       ELSE /\ Reply(u, FALSE, NoDatabase)
            /\ UNCHANGED <<databaseMap, singleInstancesByPath, handling>>
    /\ UNCHANGED <<lastDatabaseId, instance, pool, poolStarted>>

\* onDeleteDatabaseCall: the single instance of the path leaves the maps.
PluginDelete(u) ==
    LET found == SingleInstance(PathOf[u]) IN
    /\ handling = NoTask
    /\ IF found # NoDatabase THEN Unregister(found)
       ELSE UNCHANGED <<databaseMap, singleInstancesByPath>>
    /\ handling' = NewTask(u, "delete", found)
    /\ UNCHANGED <<answer, lastDatabaseId, instance, pool, poolStarted>>

\* The end of both handlers, outside of databaseMapLocker.  If the pool was
\* quit meanwhile, delete runs its task itself, and close throws: the
\* channel answers the call with an error.
PostTask ==
    /\ handling # NoTask
    /\ handling' = NoTask
    /\ \/ /\ poolStarted
          /\ pool' = Append(pool, handling)
          /\ UNCHANGED <<answer, instance>>
       \/ /\ ~poolStarted
          /\ handling.kind = "close"
          /\ Reply(handling.user, FALSE, NoDatabase)
          /\ UNCHANGED <<instance, pool>>
       \/ /\ ~poolStarted
          /\ handling.kind = "delete"
          /\ Reply(handling.user, TRUE, NoDatabase)
          /\ instance' = IF handling.database = NoDatabase THEN instance
                         ELSE Closed(handling.database)
          /\ UNCHANGED pool
    /\ UNCHANGED <<busy, helper, owner, single, phase, helperOpen, nativeId, closes>>
    /\ UNCHANGED <<databaseMap, singleInstancesByPath, lastDatabaseId, poolStarted>>

(* Android plugin: the tasks *)

OpenTask(t) ==
    /\ t.kind = "open"
    /\ \/ /\ instance' = [instance EXCEPT ![t.database].open = TRUE]
          /\ databaseMap' = databaseMap \cup {t.database}
          /\ singleInstancesByPath' =
               IF instance[t.database].single
               THEN [singleInstancesByPath EXCEPT ![instance[t.database].path] = t.database]
               ELSE singleInstancesByPath
          /\ Reply(t.user, TRUE, t.database)
       \/ /\ OpenMayFail
          /\ Reply(t.user, FALSE, NoDatabase)
          /\ UNCHANGED <<instance, databaseMap, singleInstancesByPath>>
    /\ pool' = Tail(pool)
    /\ UNCHANGED <<lastDatabaseId, poolStarted>>

\* closeDatabase: when no database is left in the map the pool quits, and
\* the messages its thread has not taken yet are dropped with it.
CloseTask(t) ==
    /\ t.kind \in {"close", "delete"}
    /\ IF t.database = NoDatabase
       THEN /\ pool' = Tail(pool)
            /\ UNCHANGED <<instance, poolStarted>>
       ELSE /\ instance' = Closed(t.database)
            /\ poolStarted' = (databaseMap # {})
            /\ pool' = IF databaseMap = {} THEN <<>> ELSE Tail(pool)
    /\ Reply(t.user, TRUE, NoDatabase)
    /\ UNCHANGED <<databaseMap, singleInstancesByPath, lastDatabaseId>>

RunTask ==
    /\ pool # <<>>
    /\ OpenTask(Head(pool)) \/ CloseTask(Head(pool))
    /\ UNCHANGED <<busy, helper, owner, single, phase, helperOpen, nativeId, closes,
                   handling>>

-----------------------------------------------------------------------------
(* Dart factory: operations of the application *)

Begin(u, kind, k) == busy' = [busy EXCEPT ![u] = [kind |-> kind, handle |-> k]]
End(u) ==
    /\ busy' = [busy EXCEPT ![u] = Idle]
    /\ answer' = [answer EXCEPT ![u] = NoAnswer]

\* Mutant: an error is no answer.
Succeeded(u, kind) == busy[u].kind = kind /\ answer[u] # NoAnswer /\ answer[u].ok

Answered(u, kind) == busy[u].kind = kind /\ answer[u] # NoAnswer

RemoveHelper(u) == helper' = [helper EXCEPT ![u] = NoHandle]

\* Mutant: whatever options.singleInstance is.
RemoveHelperAnyway(u, isSingle) == RemoveHelper(u)

\* if (options?.singleInstance != false) removeDatabaseOpenHelper(path)
RemoveHelperIf(u, isSingle) == IF isSingle THEN RemoveHelper(u) ELSE UNCHANGED helper

\* openDatabase with no open helper yet for the path, or not as a single
\* instance.  (With one, the caller gets the same object: no step.)
StartOpen(u, isSingle) ==
    /\ busy[u] = Idle
    /\ isSingle => helper[u] = NoHandle
    /\ ~isSingle => "multiple" \in Calls
    /\ \E k \in Handles :
         /\ phase[k] = "new" /\ \A j \in 1..(k - 1) : phase[j] # "new"
         /\ phase' = [phase EXCEPT ![k] = "opening"]
         /\ owner' = [owner EXCEPT ![k] = u]
         /\ single' = [single EXCEPT ![k] = isSingle]
         /\ helper' = IF isSingle THEN [helper EXCEPT ![u] = k] ELSE helper
         /\ Begin(u, "open", k)
    /\ PluginOpen(u, isSingle)
    /\ UNCHANGED <<helperOpen, nativeId, closes>>

\* doOpen, the native side has answered: the callbacks run, under the lock.
OnOpened(u) ==
    LET k == busy[u].handle IN
    /\ Answered(u, "open") /\ answer[u].ok
    /\ nativeId' = [nativeId EXCEPT ![k] = answer[u].id]
    /\ answer' = [answer EXCEPT ![u] = NoAnswer]
    /\ Begin(u, "configure", k)
    /\ UNCHANGED <<helper, owner, single, phase, helperOpen, closes>>
    /\ UNCHANGED pluginVars

\* They returned, and the helper has its database.
OnConfigured(u) ==
    LET k == busy[u].handle IN
    /\ busy[u].kind = "configure"
    /\ phase' = [phase EXCEPT ![k] = "open"]
    /\ helperOpen' = [helperOpen EXCEPT ![k] = TRUE]
    /\ End(u)
    /\ UNCHANGED <<helper, owner, single, nativeId, closes>>
    /\ UNCHANGED pluginVars

\* One of them threw: doOpen closes the database before it rethrows.
OnCallbackError(u) ==
    LET k == busy[u].handle IN
    /\ OpenMayFail
    /\ busy[u].kind = "configure"
    /\ Begin(u, "fail", k)
    /\ PluginClose(u, nativeId[k])
    /\ UNCHANGED <<helper, owner, single, phase, helperOpen, nativeId, closes>>

\* openDatabase rethrows an error of the native open or of a callback.
OnOpenFailed(u) ==
    LET k == busy[u].handle IN
    /\ \/ Answered(u, "open") /\ ~answer[u].ok
       \/ Answered(u, "fail")
    /\ phase' = [phase EXCEPT ![k] = "failed"]
    /\ RemoveHelperIf(u, single[k])
    /\ End(u)
    /\ UNCHANGED <<owner, single, helperOpen, nativeId, closes>>
    /\ UNCHANGED pluginVars

\* factory.closeDatabase, again or for the first time.  A helper that is not
\* open any more has nothing to close, but the factory still removes the
\* open helper of the path, whichever it is.
StartClose(u, k) ==
    /\ busy[u] = Idle
    /\ owner[k] = u
    /\ phase[k] \in {"open", "closed"}
    /\ closes[k] < MaxCloses
    /\ closes' = [closes EXCEPT ![k] = @ + 1]
    /\ \/ /\ helperOpen[k]
          /\ phase' = [phase EXCEPT ![k] = "closing"]
          /\ Begin(u, "close", k)
          /\ PluginClose(u, nativeId[k])
          /\ UNCHANGED helper
       \/ /\ ~helperOpen[k]
          /\ RemoveHelperIf(u, single[k])
          /\ UNCHANGED <<busy, answer, phase>>
          /\ UNCHANGED pluginVars
    /\ UNCHANGED <<owner, single, helperOpen, nativeId>>

\* An error of the native close is caught: close never fails.
OnClosed(u) ==
    LET k == busy[u].handle IN
    /\ Answered(u, "close")
    /\ phase' = [phase EXCEPT ![k] = "closed"]
    /\ helperOpen' = [helperOpen EXCEPT ![k] = FALSE]
    /\ RemoveHelperIf(u, single[k])
    /\ End(u)
    /\ UNCHANGED <<owner, single, nativeId, closes>>
    /\ UNCHANGED pluginVars

StartDelete(u) ==
    /\ "delete" \in Calls
    /\ busy[u] = Idle
    /\ RemoveHelper(u)
    /\ Begin(u, "delete", NoHandle)
    /\ PluginDelete(u)
    /\ UNCHANGED <<owner, single, phase, helperOpen, nativeId, closes>>

OnDeleted(u) ==
    /\ Answered(u, "delete")
    /\ End(u)
    /\ UNCHANGED <<helper, owner, single, phase, helperOpen, nativeId, closes>>
    /\ UNCHANGED pluginVars

-----------------------------------------------------------------------------
Next ==
    \/ \E u \in Users :
         \/ \E isSingle \in BOOLEAN : StartOpen(u, isSingle)
         \/ OnOpened(u) \/ OnConfigured(u) \/ OnCallbackError(u) \/ OnOpenFailed(u)
         \/ \E k \in Handles : StartClose(u, k)
         \/ OnClosed(u)
         \/ StartDelete(u) \/ OnDeleted(u)
    \/ PostTask
    \/ RunTask

Spec == Init /\ [][Next]_vars

\* The threads of the plugin run what was posted to them, the Dart event
\* loop delivers answers, and the callbacks of an open terminate.
FairSpec ==
    /\ Spec
    /\ WF_vars(PostTask) /\ WF_vars(RunTask)
    /\ \A u \in Users :
         /\ WF_vars(OnOpened(u)) /\ WF_vars(OnOpenFailed(u))
         /\ WF_vars(OnConfigured(u) \/ OnCallbackError(u))
         /\ WF_vars(OnClosed(u)) /\ WF_vars(OnDeleted(u))

-----------------------------------------------------------------------------
(* Properties *)

TypeOK ==
    /\ busy \in [Users -> Operations]
    /\ helper \in [Users -> {NoHandle} \cup Handles]
    /\ answer \in [Users -> Answers]
    /\ owner \in [Handles -> Users]
    /\ single \in [Handles -> BOOLEAN]
    /\ phase \in [Handles -> {"new", "opening", "open", "closing", "closed", "failed"}]
    /\ helperOpen \in [Handles -> BOOLEAN]
    /\ nativeId \in [Handles -> {NoDatabase} \cup Databases]
    /\ closes \in [Handles -> 0..MaxCloses]
    /\ databaseMap \subseteq 1..lastDatabaseId
    /\ singleInstancesByPath \in [Paths -> 0..lastDatabaseId]
    /\ lastDatabaseId \in 0..MaxHandles
    /\ Len(instance) = lastDatabaseId
    /\ handling \in Task \cup {NoTask}
    /\ pool \in Seq(Task)
    /\ poolStarted \in BOOLEAN

\* "A single database instance is returned for a given path": a factory
\* never has two open database objects for one path, both opened as its
\* single instance.
OneInstance ==
    \A j, k \in Handles :
        /\ phase[j] = "open" /\ phase[k] = "open"
        /\ single[j] /\ single[k] /\ owner[j] = owner[k]
        => j = k

\* What openDatabase returns, now or again, has a native database behind
\* it that the plugin finds and that is open; and a path is not bound to an
\* object that could not be opened or is closed, for it would never be
\* opened again.
UsableHandles ==
    /\ \A k \in Handles :
          phase[k] = "open" /\ (helper[owner[k]] = k \/ ~single[k])
          => nativeId[k] \in databaseMap /\ instance[nativeId[k]].open
    /\ \A u \in Users :
          helper[u] # NoHandle => phase[helper[u]] \in {"opening", "open", "closing"}

\* Database objects that are not a single instance of one path never share
\* a connection: closing or locking one does not touch the other.
NoSharedConnection ==
    \A j, k \in Handles :
        /\ phase[j] = "open" /\ phase[k] = "open"
        /\ nativeId[j] = nativeId[k]
        => j = k

\* No connection is forgotten: one that is open is about to be closed, or can
\* be found through the map and somebody has it or waits for it.  (One that
\* is left in the map when a callback of its open threw would be handed to
\* the next open of its path.)
ToBeClosed(id) ==
    \/ handling # NoTask /\ handling.database = id
    \/ \E i \in 1..Len(pool) : pool[i].database = id
Wanted(id) ==
    \/ \E u \in Users : answer[u].id = id
    \/ \E k \in Handles : nativeId[k] = id /\ phase[k] \in {"opening", "open"}
NoLeakedConnection ==
    \A id \in 1..lastDatabaseId :
        instance[id].open => ToBeClosed(id) \/ (id \in databaseMap /\ Wanted(id))

\* deleteDatabase "will properly close any existing database connection":
\* when the file is deleted, no single instance of the path is left open.
DeleteClosesConnections ==
    [][\A u \in Users :
         busy[u].kind = "delete" /\ answer[u] = NoAnswer /\ answer'[u] # NoAnswer =>
             \A id \in 1..lastDatabaseId :
                 instance[id].path = PathOf[u] /\ instance[id].single
                 => ~instance'[id].open]_vars

\* open, close and delete end, and the lock of their path is free again.
EveryOperationEnds == \A u \in Users : (busy[u] # Idle) ~> (busy[u] = Idle)
=============================================================================
