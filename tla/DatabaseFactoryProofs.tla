----------------------- MODULE DatabaseFactoryProofs -----------------------
(***************************************************************************)
(* Proofs about DatabaseFactory, for any number of database objects.       *)
(*                                                                         *)
(* Everything rests on what is in flight: a user waits for one call at     *)
(* most, which is a task that is posted or about to be, or an answer that  *)
(* was not delivered yet (InFlight).  The types need no more.              *)
(*                                                                         *)
(* The other properties fail for some values of the constants, as the runs *)
(* showed, so each theorem names the use of the factory that it is about:  *)
(*  - OneInstanceOpen: no object is closed twice and no path is deleted,   *)
(*    for the second close removes the open helper of another object;      *)
(*  - ConnectionsOfHandles: also one isolate, for two isolates are given   *)
(*    the same native database (Connections);                              *)
(*  - ConnectionsAreKept, DeleteCloses: one path in one isolate, closed    *)
(*    and deleted at will, for the pool that the last close of a path      *)
(*    quits drops the tasks of the others (Tidy).                          *)
(***************************************************************************)
EXTENDS DatabaseFactory, SequenceTheorems, TLAPS

Instances == [path : Paths, single : BOOLEAN, open : BOOLEAN]

\* The tasks that are posted, or about to be.
Pending == {pool[i] : i \in 1..Len(pool)}
           \cup (IF handling = NoTask THEN {} ELSE {handling})

\* A user has one task at most.
Apart ==
    /\ \A i, j \in 1..Len(pool) : pool[i].user = pool[j].user => i = j
    /\ handling # NoTask => \A i \in 1..Len(pool) : pool[i].user # handling.user

-----------------------------------------------------------------------------
(* Types *)

DartTypes ==
    /\ busy \in [Users -> Operations]
    /\ helper \in [Users -> {NoHandle} \cup Handles]
    /\ owner \in [Handles -> Users]
    /\ single \in [Handles -> BOOLEAN]
    /\ phase \in [Handles -> {"new", "opening", "open", "closing", "closed", "failed"}]
    /\ helperOpen \in [Handles -> BOOLEAN]
    /\ nativeId \in [Handles -> {NoDatabase} \cup Databases]
    /\ closes \in [Handles -> 0..MaxCloses]

PluginTypes ==
    /\ answer \in [Users -> Answers]
    /\ databaseMap \subseteq 1..lastDatabaseId
    /\ singleInstancesByPath \in [Paths -> 0..lastDatabaseId]
    /\ lastDatabaseId \in 0..MaxHandles
    /\ instance \in Seq(Instances)
    /\ Len(instance) = lastDatabaseId
    /\ handling \in Task \cup {NoTask}
    /\ pool \in Seq(Task)
    /\ poolStarted \in BOOLEAN

\* A task is for a database that was created, and a pool with tasks was.
PostedTasks ==
    /\ \A t \in Pending :
         /\ t.database <= lastDatabaseId
         /\ t.kind # "delete" => t.database # NoDatabase
    /\ pool # <<>> => poolStarted

\* Each handle opens one native database at most.
NewHandles == \A k \in Handles : phase[k] = "new" => lastDatabaseId < k

Typed == DartTypes /\ PluginTypes /\ PostedTasks /\ NewHandles

-----------------------------------------------------------------------------
(* Sequences *)

LEMMA Appended ==
    ASSUME NEW S, NEW s \in Seq(S), NEW x \in S
    PROVE  /\ Append(s, x) \in Seq(S)
           /\ Len(Append(s, x)) = Len(s) + 1
           /\ Append(s, x) # <<>>
           /\ \A i \in 1..Len(s) : Append(s, x)[i] = s[i]
           /\ Append(s, x)[Len(s) + 1] = x
           /\ {Append(s, x)[i] : i \in 1..Len(Append(s, x))}
                = {s[i] : i \in 1..Len(s)} \cup {x}
<1>1. /\ Append(s, x) \in Seq(S)
      /\ Len(Append(s, x)) = Len(s) + 1
      /\ \A i \in 1..Len(s) : Append(s, x)[i] = s[i]
      /\ Append(s, x)[Len(s) + 1] = x
    OBVIOUS
<1>2. Append(s, x) # <<>>
    BY <1>1
<1>3. 1..(Len(s) + 1) = 1..Len(s) \cup {Len(s) + 1}
    OBVIOUS
<1> DEFINE a == Append(s, x)
<1>4. {a[i] : i \in 1..Len(a)} = {s[i] : i \in 1..Len(s)} \cup {x}
  <2> HIDE DEF a
  <2>1. /\ Len(a) = Len(s) + 1 /\ a[Len(s) + 1] = x
        /\ \A i \in 1..Len(s) : a[i] = s[i]
      BY <1>1 DEF a
  <2>2. ASSUME NEW i \in 1..Len(a) PROVE a[i] \in {s[j] : j \in 1..Len(s)} \cup {x}
      BY <2>1, <1>3
  <2>3. ASSUME NEW i \in 1..Len(s) PROVE s[i] \in {a[j] : j \in 1..Len(a)}
      BY <2>1, <1>3
  <2>4. x \in {a[j] : j \in 1..Len(a)}
      BY <2>1, <1>3
  <2> QED BY <2>2, <2>3, <2>4
<1> QED BY <1>1, <1>2, <1>4

LEMMA Removed ==
    ASSUME NEW S, NEW s \in Seq(S), s # <<>>
    PROVE  /\ Tail(s) \in Seq(S)
           /\ Len(Tail(s)) = Len(s) - 1
           /\ Head(s) = s[1] /\ 1 \in 1..Len(s) /\ Head(s) \in S
           /\ \A i \in 1..Len(Tail(s)) : Tail(s)[i] = s[i + 1] /\ i + 1 \in 1..Len(s)
OBVIOUS

SetOpen(s, id, b) == [s EXCEPT ![id].open = b]

\* A database that is opened or closed keeps its path and its options.
LEMMA InstanceSet ==
    ASSUME NEW s \in Seq(Instances), NEW id \in 1..Len(s), NEW b \in BOOLEAN
    PROVE  /\ SetOpen(s, id, b) \in Seq(Instances)
           /\ Len(SetOpen(s, id, b)) = Len(s)
           /\ SetOpen(s, id, b)[id].open = b
           /\ \A j \in 1..Len(s) :
                /\ SetOpen(s, id, b)[j].path = s[j].path
                /\ SetOpen(s, id, b)[j].single = s[j].single
                /\ j # id => SetOpen(s, id, b)[j].open = s[j].open
<1> DEFINE t == SetOpen(s, id, b)
<1>1. \A j \in 1..Len(s) : s[j] \in Instances
    OBVIOUS
<1>2. t = [s EXCEPT ![id] = [s[id] EXCEPT !.open = b]]
    BY DEF SetOpen
<1> HIDE DEF t
<1>3. [s[id] EXCEPT !.open = b] \in Instances
    BY <1>1 DEF Instances
<1>4. t \in Seq(Instances) /\ Len(t) = Len(s) /\ t[id] = [s[id] EXCEPT !.open = b]
      /\ \A j \in 1..Len(s) : j # id => t[j] = s[j]
    BY <1>2, <1>3, ExceptSeq
<1>5. /\ t \in Seq(Instances) /\ Len(t) = Len(s) /\ t[id].open = b
      /\ \A j \in 1..Len(s) :
           /\ t[j].path = s[j].path /\ t[j].single = s[j].single
           /\ j # id => t[j].open = s[j].open
    BY <1>1, <1>4 DEF Instances
<1> QED BY <1>5 DEF t

-----------------------------------------------------------------------------
(* What the steps do to the pending tasks *)

LEMMA PendingTasks ==
    ASSUME PluginTypes
    PROVE  /\ Pending \subseteq Task
           /\ handling # NoTask => handling \in Pending
           /\ handling = NoTask => Pending = {pool[i] : i \in 1..Len(pool)}
<1>1. \A i \in 1..Len(pool) : pool[i] \in Task
    BY DEF PluginTypes
<1> QED BY <1>1 DEF Pending, PluginTypes

LEMMA NotNoTask ==
    ASSUME NEW t \in Task PROVE t # NoTask
<1>1. "kind" \in DOMAIN t /\ t.kind \in {"open", "close", "delete"}
    BY DEF Task
<1>2. NoTask.kind = "none"
    BY DEF NoTask
<1> QED BY <1>1, <1>2

\* A handler that goes on to post a task has it pending.
LEMMA HandlingPending ==
    ASSUME PluginTypes, handling = NoTask, NEW t \in Task, handling' = t, pool' = pool
    PROVE  Pending' = Pending \cup {t}
BY NotNoTask DEF Pending

\* So has the one that posts it at once.
LEMMA PostedPending ==
    ASSUME PluginTypes, handling = NoTask, NEW t \in Task, handling' = NoTask,
           pool' = Append(pool, t)
    PROVE  Pending' = Pending \cup {t}
<1>1. {pool'[i] : i \in 1..Len(pool')} = {pool[i] : i \in 1..Len(pool)} \cup {t}
    BY Appended DEF PluginTypes
<1> QED BY <1>1 DEF Pending

\* The thread of the pool takes a task, and may drop the others.
LEMMA TakenPending ==
    ASSUME PluginTypes, Apart, pool # <<>>, UNCHANGED handling,
           pool' = Tail(pool) \/ pool' = <<>>
    PROVE  /\ Head(pool) \in Pending /\ Pending' \subseteq Pending \ {Head(pool)}
           /\ handling # NoTask => handling \in Pending \ {Head(pool)}
           /\ pool' = <<>> => Pending' = IF handling = NoTask THEN {} ELSE {handling}
           /\ Apart'
<1>1. /\ Head(pool) = pool[1] /\ 1 \in 1..Len(pool)
      /\ Len(Tail(pool)) = Len(pool) - 1
      /\ \A i \in 1..Len(Tail(pool)) : Tail(pool)[i] = pool[i + 1] /\ i + 1 \in 1..Len(pool)
      /\ \A i \in 1..Len(Tail(pool)) : i + 1 # 1
      /\ Len(pool) \in Nat
    BY Removed DEF PluginTypes
<1>2. /\ \A i \in 1..Len(pool') :
            i + 1 \in 1..Len(pool) /\ i + 1 # 1 /\ pool'[i] = pool[i + 1]
      /\ \A i, j \in 1..Len(pool') : i + 1 = j + 1 => i = j
      /\ pool' = <<>> => Len(pool') = 0
    BY <1>1
<1>3. \A i \in 1..Len(pool') : pool'[i] \in Pending /\ pool'[i] # Head(pool)
    BY <1>1, <1>2 DEF Pending, Apart
<1>4. handling # NoTask => handling \in Pending /\ handling # Head(pool)
    BY <1>1 DEF Pending, Apart
<1>5. Apart'
  <2>1. ASSUME NEW i \in 1..Len(pool'), NEW j \in 1..Len(pool'),
               pool'[i].user = pool'[j].user
        PROVE  i = j
      BY <1>2, <2>1 DEF Apart
  <2>2. ASSUME handling # NoTask, NEW i \in 1..Len(pool')
        PROVE  pool'[i].user # handling.user
      BY <1>2, <2>2 DEF Apart
  <2> QED BY <2>1, <2>2 DEF Apart
<1>6. pool' = <<>> => {pool'[i] : i \in 1..Len(pool')} = {}
    BY <1>2
<1> QED BY <1>1, <1>3, <1>4, <1>5, <1>6 DEF Pending

LEMMA PostTaskPending ==
    ASSUME PluginTypes, Apart, PostTask, pool # <<>> => poolStarted
    PROVE  /\ handling \in Pending /\ Pending' \subseteq Pending
           /\ poolStarted => Pending' = Pending
           /\ ~poolStarted => Pending' = {}
           /\ Apart'
<1>1. handling \in Task /\ handling # NoTask /\ handling' = NoTask
    BY DEF PluginTypes, PostTask
<1>2. CASE poolStarted
  <2>1. pool' = Append(pool, handling)
      BY <1>2 DEF PostTask
  <2>2. /\ Len(pool') = Len(pool) + 1
        /\ \A i \in 1..Len(pool) : pool'[i] = pool[i]
        /\ pool'[Len(pool) + 1] = handling
        /\ {pool'[i] : i \in 1..Len(pool')} = {pool[i] : i \in 1..Len(pool)} \cup {handling}
        /\ Len(pool) \in Nat
      BY <2>1, <1>1, Appended DEF PluginTypes
  <2>3. \A i \in 1..Len(pool') : i \in 1..Len(pool) \/ i = Len(pool) + 1
      BY <2>2
  <2>4. ASSUME NEW i \in 1..Len(pool'), NEW j \in 1..Len(pool'),
               pool'[i].user = pool'[j].user
        PROVE  i = j
      BY <1>1, <2>2, <2>3, <2>4 DEF Apart
  <2> QED BY <1>1, <1>2, <2>2, <2>4 DEF Pending, Apart
<1>3. CASE ~poolStarted
  <2>1. pool' = pool /\ pool = <<>>
      BY <1>3 DEF PostTask
  <2>2. {pool'[i] : i \in 1..Len(pool')} = {}
      BY <2>1
  <2>3. Apart'
      BY <1>1, <2>1 DEF Apart
  <2> QED BY <1>1, <1>3, <2>2, <2>3 DEF Pending
<1> QED BY <1>2, <1>3 DEF PluginTypes

LEMMA PendingUsers ==
    ASSUME PluginTypes, Apart
    PROVE  \A s, t \in Pending : s.user = t.user => s = t
BY DEF Pending, Apart


-----------------------------------------------------------------------------
(* What the handlers and the tasks of the plugin do *)

\* A native database is created for user u, and its open task is posted.
Created(u, isSingle) ==
    /\ NewTask(u, "open", NewId) \in Task
    /\ Pending' = Pending \cup {NewTask(u, "open", NewId)}
    /\ lastDatabaseId' = NewId /\ NewId \in 1..MaxHandles
    /\ \A id \in 1..lastDatabaseId : instance'[id] = instance[id]
    /\ instance'[NewId] = [path |-> PathOf[u], single |-> isSingle, open |-> FALSE]
    /\ poolStarted'
    /\ UNCHANGED <<answer, databaseMap, singleInstancesByPath, handling>>

LEMMA SingleInstanceFound ==
    ASSUME PluginTypes, NEW p \in Paths, SingleInstance(p) # NoDatabase
    PROVE  /\ SingleInstance(p) = singleInstancesByPath[p]
           /\ SingleInstance(p) \in databaseMap /\ SingleInstance(p) \in Databases
           /\ instance[SingleInstance(p)].open
<1>1. \A id \in databaseMap : id \in Databases
    BY FactoryAssumption DEF PluginTypes, Databases
<1>2. /\ SingleInstance(p) = singleInstancesByPath[p]
      /\ SingleInstance(p) \in databaseMap
      /\ instance[SingleInstance(p)].open
    BY DEF SingleInstance
<1> QED BY <1>1, <1>2

LEMMA OpenHandled ==
    ASSUME Typed, NEW u \in Users, NEW isSingle \in BOOLEAN, lastDatabaseId < MaxHandles,
           PluginOpen(u, isSingle)
    PROVE  /\ PluginTypes' /\ PostedTasks'
           /\ \/ /\ isSingle /\ SingleInstance(PathOf[u]) # NoDatabase
                 /\ Reply(u, TRUE, SingleInstance(PathOf[u]))
                 /\ UNCHANGED pluginVars /\ Pending' = Pending
              \/ Created(u, isSingle)
           /\ handling = NoTask /\ handling' = NoTask
           /\ pool' = pool \/ pool' = Append(pool, NewTask(u, "open", NewId))
<1> DEFINE found == SingleInstance(PathOf[u])
           new == [path |-> PathOf[u], single |-> isSingle, open |-> FALSE]
<1>1. PathOf[u] \in Paths /\ handling = NoTask /\ handling' = handling
      /\ UNCHANGED <<databaseMap, singleInstancesByPath>>
    BY FactoryAssumption DEF PluginOpen
<1>2. CASE isSingle /\ found # NoDatabase
  <2>1. Reply(u, TRUE, found) /\ UNCHANGED pluginVars
      BY <1>2 DEF PluginOpen, pluginVars
  <2>2. found \in Databases
      BY <1>1, <1>2, SingleInstanceFound DEF Typed
  <2>3. answer' \in [Users -> Answers]
      BY <2>1, <2>2 DEF Typed, PluginTypes, Reply, Answers
  <2>4. Pending' = Pending
      BY <2>1 DEF pluginVars, Pending
  <2> QED BY <1>1, <1>2, <2>1, <2>3, <2>4 DEF Typed, PluginTypes, PostedTasks, pluginVars
<1>3. CASE ~(isSingle /\ found # NoDatabase)
  <2>1. /\ lastDatabaseId' = NewId
        /\ instance' = Append(instance, new)
        /\ poolStarted' = TRUE
        /\ pool' = Append(pool, NewTask(u, "open", NewId))
        /\ UNCHANGED answer
      BY <1>3 DEF PluginOpen
  <2>2. NewId \in 1..MaxHandles /\ NewId = lastDatabaseId + 1 /\ lastDatabaseId \in Nat
      BY FactoryAssumption DEF NewId, Typed, PluginTypes
  <2>3. NewTask(u, "open", NewId) \in Task
      BY <2>2 DEF NewTask, Task, Databases
  <2>4. new \in Instances
      BY <1>1 DEF Instances
  <2>5. /\ instance' \in Seq(Instances) /\ Len(instance') = NewId
        /\ \A id \in 1..lastDatabaseId : instance'[id] = instance[id]
        /\ instance'[NewId] = new
      BY <2>1, <2>2, <2>4, Appended DEF Typed, PluginTypes
  <2>6. pool' \in Seq(Task)
      BY <2>1, <2>3, Appended DEF Typed, PluginTypes
  <2>7. Pending' = Pending \cup {NewTask(u, "open", NewId)}
      BY <1>1, <2>1, <2>3, PostedPending DEF Typed
  <2>8. PluginTypes'
      BY <1>1, <2>1, <2>2, <2>5, <2>6 DEF Typed, PluginTypes
  <2>9. NewTask(u, "open", NewId).database = NewId
      BY DEF NewTask
  <2>10. \A t \in Pending : t \in Task /\ t.database <= NewId
    <3>1. \A t \in Pending : t \in Task /\ t.database <= lastDatabaseId
        BY PendingTasks DEF Typed, PostedTasks
    <3>2. \A t \in Task : t.database \in Nat
        BY FactoryAssumption DEF Task, Databases, NoDatabase
    <3> QED BY <2>2, <3>1, <3>2
  <2>11. PostedTasks'
      BY <2>1, <2>2, <2>7, <2>9, <2>10 DEF Typed, PostedTasks, NoDatabase
  <2>12. Created(u, isSingle)
      BY <1>1, <2>1, <2>2, <2>3, <2>5, <2>7 DEF Created
  <2> QED BY <1>1, <2>1, <2>8, <2>11, <2>12
<1> QED BY <1>2, <1>3

LEMMA UnregisterTypes ==
    ASSUME PluginTypes, NEW id \in databaseMap, Unregister(id)
    PROVE  /\ databaseMap' = databaseMap \ {id}
           /\ id \in Databases /\ id \in 1..lastDatabaseId
           /\ singleInstancesByPath' \in [Paths -> 0..lastDatabaseId]
           /\ \A p \in Paths : singleInstancesByPath'[p] =
                IF instance[id].single /\ instance[id].path = p THEN NoDatabase
                ELSE singleInstancesByPath[p]
<1>1. id \in 1..lastDatabaseId /\ lastDatabaseId \in 0..MaxHandles
    BY DEF PluginTypes
<1>2. id \in Databases
    BY <1>1, FactoryAssumption DEF Databases
<1>3. instance[id] \in Instances
    BY <1>1 DEF PluginTypes
<1>4. instance[id].single \in BOOLEAN /\ instance[id].path \in Paths
    BY <1>3 DEF Instances
<1>5. CASE instance[id].single
    BY <1>1, <1>2, <1>4, <1>5 DEF Unregister, PluginTypes, NoDatabase
<1>6. CASE ~instance[id].single
    BY <1>1, <1>2, <1>4, <1>6 DEF Unregister, PluginTypes, NoDatabase
<1> QED BY <1>5, <1>6

LEMMA CloseHandled ==
    ASSUME Typed, NEW u \in Users, NEW id, PluginClose(u, id)
    PROVE  /\ PluginTypes' /\ PostedTasks'
           /\ handling = NoTask /\ pool' = pool
           /\ UNCHANGED <<lastDatabaseId, instance, poolStarted>>
           /\ \/ /\ id \in databaseMap /\ Unregister(id)
                 /\ NewTask(u, "close", id) \in Task
                 /\ handling' = NewTask(u, "close", id)
                 /\ Pending' = Pending \cup {NewTask(u, "close", id)}
                 /\ UNCHANGED answer
              \/ /\ id \notin databaseMap
                 /\ Reply(u, FALSE, NoDatabase)
                 /\ UNCHANGED pluginVars /\ Pending' = Pending
<1>1. handling = NoTask /\ UNCHANGED <<lastDatabaseId, instance, pool, poolStarted>>
    BY DEF PluginClose
<1>2. CASE id \in databaseMap
  <2>1. Unregister(id) /\ handling' = NewTask(u, "close", id) /\ UNCHANGED answer
      BY <1>2 DEF PluginClose
  <2>2. /\ databaseMap' = databaseMap \ {id}
        /\ id \in Databases /\ id \in 1..lastDatabaseId
        /\ singleInstancesByPath' \in [Paths -> 0..lastDatabaseId]
      BY <1>2, <2>1, UnregisterTypes DEF Typed
  <2>3. NewTask(u, "close", id) \in Task
      BY <2>2 DEF NewTask, Task
  <2>4. Pending' = Pending \cup {NewTask(u, "close", id)}
      BY <1>1, <2>1, <2>3, HandlingPending DEF Typed
  <2>5. NewTask(u, "close", id).database = id /\ id <= lastDatabaseId /\ id # NoDatabase
      BY <2>2 DEF NewTask, NoDatabase, Typed, PluginTypes
  <2>6. PluginTypes'
      BY <1>1, <2>1, <2>2, <2>3 DEF Typed, PluginTypes
  <2>7. PostedTasks'
      BY <1>1, <2>4, <2>5 DEF Typed, PostedTasks
  <2> QED BY <1>1, <1>2, <2>1, <2>3, <2>4, <2>6, <2>7
<1>3. CASE id \notin databaseMap
  <2>1. Reply(u, FALSE, NoDatabase) /\ UNCHANGED pluginVars
      BY <1>1, <1>3 DEF PluginClose, pluginVars
  <2>2. answer' \in [Users -> Answers]
      BY <2>1 DEF Typed, PluginTypes, Reply, Answers
  <2>3. Pending' = Pending
      BY <2>1 DEF pluginVars, Pending
  <2>4. PluginTypes'
      BY <2>1, <2>2 DEF Typed, PluginTypes, pluginVars
  <2>5. PostedTasks'
      BY <2>1, <2>3 DEF Typed, PostedTasks, pluginVars
  <2> QED BY <1>1, <1>3, <2>1, <2>3, <2>4, <2>5
<1> QED BY <1>2, <1>3

LEMMA DeleteHandled ==
    ASSUME Typed, NEW u \in Users, PluginDelete(u)
    PROVE  /\ PluginTypes' /\ PostedTasks'
           /\ handling = NoTask /\ pool' = pool
           /\ UNCHANGED <<answer, lastDatabaseId, instance, poolStarted>>
           /\ \/ /\ SingleInstance(PathOf[u]) # NoDatabase
                 /\ Unregister(SingleInstance(PathOf[u]))
              \/ /\ SingleInstance(PathOf[u]) = NoDatabase
                 /\ UNCHANGED <<databaseMap, singleInstancesByPath>>
           /\ NewTask(u, "delete", SingleInstance(PathOf[u])) \in Task
           /\ handling' = NewTask(u, "delete", SingleInstance(PathOf[u]))
           /\ Pending' = Pending \cup {NewTask(u, "delete", SingleInstance(PathOf[u]))}
<1> DEFINE found == SingleInstance(PathOf[u])
<1>1. /\ PathOf[u] \in Paths /\ handling = NoTask /\ handling' = NewTask(u, "delete", found)
      /\ UNCHANGED <<answer, lastDatabaseId, instance, pool, poolStarted>>
    BY FactoryAssumption DEF PluginDelete
<1>2. \/ found # NoDatabase /\ Unregister(found)
      \/ found = NoDatabase /\ UNCHANGED <<databaseMap, singleInstancesByPath>>
    BY DEF PluginDelete
<1>3. found = NoDatabase \/ (found \in databaseMap /\ found \in Databases)
    BY <1>1, SingleInstanceFound DEF Typed
<1> HIDE DEF found
<1>4. /\ databaseMap' \subseteq 1..lastDatabaseId
      /\ singleInstancesByPath' \in [Paths -> 0..lastDatabaseId]
      /\ found = NoDatabase \/ found \in 1..lastDatabaseId
  <2>1. CASE found = NoDatabase
      BY <1>2, <2>1, UnregisterTypes DEF Typed, PluginTypes
  <2>2. CASE found # NoDatabase
      BY <1>2, <1>3, <2>2, UnregisterTypes DEF Typed, PluginTypes
  <2> QED BY <2>1, <2>2
<1>5. NewTask(u, "delete", found) \in Task
    BY <1>3 DEF NewTask, Task
<1>6. Pending' = Pending \cup {NewTask(u, "delete", found)}
    BY <1>1, <1>5, HandlingPending DEF Typed
<1>7. /\ NewTask(u, "delete", found).database = found
      /\ NewTask(u, "delete", found).kind = "delete"
      /\ found <= lastDatabaseId
    BY <1>4 DEF NewTask, NoDatabase, Typed, PluginTypes
<1>8. PluginTypes'
    BY <1>1, <1>4, <1>5 DEF Typed, PluginTypes
<1>9. PostedTasks'
    BY <1>1, <1>6, <1>7 DEF Typed, PostedTasks
<1> QED BY <1>1, <1>2, <1>5, <1>6, <1>8, <1>9 DEF found

LEMMA DatabaseClosed ==
    ASSUME PluginTypes, NEW id \in 1..lastDatabaseId, instance' = Closed(id)
    PROVE  /\ instance' \in Seq(Instances) /\ Len(instance') = lastDatabaseId
           /\ ~instance'[id].open
           /\ \A j \in 1..lastDatabaseId :
                /\ instance'[j].path = instance[j].path
                /\ instance'[j].single = instance[j].single
                /\ j # id => instance'[j].open = instance[j].open
<1>1. instance' = SetOpen(instance, id, FALSE)
    BY DEF Closed, SetOpen
<1>2. instance \in Seq(Instances) /\ Len(instance) = lastDatabaseId
    BY DEF PluginTypes
<1>3. /\ instance' \in Seq(Instances) /\ Len(instance') = Len(instance)
      /\ instance'[id].open = FALSE
      /\ \A j \in 1..Len(instance) :
           /\ instance'[j].path = instance[j].path
           /\ instance'[j].single = instance[j].single
           /\ j # id => instance'[j].open = instance[j].open
  <2>1. id \in 1..Len(instance)
      BY <1>2
  <2> DEFINE t == SetOpen(instance, id, FALSE)
  <2>2. /\ t \in Seq(Instances) /\ Len(t) = Len(instance) /\ t[id].open = FALSE
        /\ \A j \in 1..Len(instance) :
             /\ t[j].path = instance[j].path
             /\ t[j].single = instance[j].single
             /\ j # id => t[j].open = instance[j].open
      BY <1>2, <2>1, InstanceSet
  <2> QED BY <1>1, <2>2
<1> QED BY <1>2, <1>3

LEMMA TaskPosted ==
    ASSUME Typed, Apart, PostTask
    PROVE  /\ PluginTypes' /\ PostedTasks'
           /\ Pending' \subseteq Pending
           /\ UNCHANGED <<databaseMap, singleInstancesByPath, lastDatabaseId, poolStarted>>
           /\ \/ poolStarted /\ Pending' = Pending /\ UNCHANGED <<answer, instance>>
              \/ /\ ~poolStarted
                 /\ handling \in Pending /\ Pending' = {}
                 /\ handling.user \in Users
                 /\ \/ /\ handling.kind = "close"
                       /\ Reply(handling.user, FALSE, NoDatabase)
                       /\ UNCHANGED instance
                    \/ /\ handling.kind = "delete"
                       /\ Reply(handling.user, TRUE, NoDatabase)
                       /\ handling.database = NoDatabase
                       /\ UNCHANGED instance
                    \/ /\ handling.kind = "delete"
                       /\ Reply(handling.user, TRUE, NoDatabase)
                       /\ handling.database \in 1..lastDatabaseId
                       /\ instance' = Closed(handling.database)
<1>1. /\ handling \in Task /\ handling \in Pending
      /\ handling' = NoTask
      /\ UNCHANGED <<databaseMap, singleInstancesByPath, lastDatabaseId, poolStarted>>
    BY PendingTasks DEF PostTask, Typed, PluginTypes
<1>2. /\ Pending' \subseteq Pending
      /\ poolStarted => Pending' = Pending
      /\ ~poolStarted => Pending' = {}
    BY PostTaskPending DEF Typed, PostedTasks
<1>3. /\ handling.user \in Users
      /\ handling.database \in {NoDatabase} \cup 1..lastDatabaseId
  <2>1. handling.user \in Users /\ handling.database \in {NoDatabase} \cup Databases
      BY <1>1 DEF Task
  <2>2. handling.database <= lastDatabaseId
      BY <1>1 DEF Typed, PostedTasks
  <2> QED BY <2>1, <2>2, FactoryAssumption DEF Databases, NoDatabase, Typed, PluginTypes
<1>4. CASE poolStarted
  <2>1. pool' = Append(pool, handling) /\ UNCHANGED <<answer, instance>>
      BY <1>4 DEF PostTask
  <2>2. pool' \in Seq(Task)
      BY <1>1, <2>1, Appended DEF Typed, PluginTypes
  <2>3. PluginTypes'
      BY <1>1, <2>1, <2>2 DEF Typed, PluginTypes
  <2>4. PostedTasks'
      BY <1>1, <1>2, <1>4 DEF Typed, PostedTasks
  <2> QED BY <1>1, <1>2, <1>4, <2>1, <2>3, <2>4
<1>5. CASE ~poolStarted
  <2>1. /\ pool' = pool
        /\ \/ /\ handling.kind = "close"
              /\ Reply(handling.user, FALSE, NoDatabase)
              /\ UNCHANGED instance
           \/ /\ handling.kind = "delete"
              /\ Reply(handling.user, TRUE, NoDatabase)
              /\ instance' = IF handling.database = NoDatabase THEN instance
                             ELSE Closed(handling.database)
      BY <1>5 DEF PostTask
  <2>2. answer' \in [Users -> Answers]
    <3>1. \A b \in BOOLEAN : [ok |-> b, id |-> NoDatabase] \in Answers
        BY DEF Answers
    <3> QED BY <2>1, <3>1 DEF Reply, Typed, PluginTypes
  <2>3. instance' \in Seq(Instances) /\ Len(instance') = Len(instance)
    <3>1. handling.database = NoDatabase \/ handling.database \in 1..lastDatabaseId
        BY <1>3
    <3> QED BY <2>1, <3>1, DatabaseClosed DEF Typed, PluginTypes
  <2>4. PluginTypes'
      BY <1>1, <2>1, <2>2, <2>3 DEF Typed, PluginTypes
  <2>5. PostedTasks'
      BY <1>1, <1>2, <1>5, <2>1 DEF Typed, PostedTasks
  <2>6. \/ /\ handling.kind = "close"
           /\ Reply(handling.user, FALSE, NoDatabase)
           /\ UNCHANGED instance
        \/ /\ handling.kind = "delete"
           /\ Reply(handling.user, TRUE, NoDatabase)
           /\ handling.database = NoDatabase
           /\ UNCHANGED instance
        \/ /\ handling.kind = "delete"
           /\ Reply(handling.user, TRUE, NoDatabase)
           /\ handling.database \in 1..lastDatabaseId
           /\ instance' = Closed(handling.database)
      BY <1>3, <2>1
  <2> QED BY <1>1, <1>2, <1>3, <1>5, <2>4, <2>5, <2>6
<1> QED BY <1>4, <1>5 DEF Typed, PluginTypes

-----------------------------------------------------------------------------
(* The thread of the pool *)

Opened(t) ==
    /\ t.kind = "open" /\ t.database \in 1..lastDatabaseId
    /\ instance' = [instance EXCEPT ![t.database].open = TRUE]
    /\ databaseMap' = databaseMap \cup {t.database}
    /\ singleInstancesByPath' =
         IF instance[t.database].single
         THEN [singleInstancesByPath EXCEPT ![instance[t.database].path] = t.database]
         ELSE singleInstancesByPath
    /\ Reply(t.user, TRUE, t.database)
    /\ UNCHANGED poolStarted

NotOpened(t) ==
    /\ t.kind = "open"
    /\ Reply(t.user, FALSE, NoDatabase)
    /\ UNCHANGED <<instance, databaseMap, singleInstancesByPath, poolStarted>>

NothingToClose(t) ==
    /\ t.kind \in {"close", "delete"} /\ t.database = NoDatabase
    /\ Reply(t.user, TRUE, NoDatabase)
    /\ UNCHANGED <<instance, databaseMap, singleInstancesByPath, poolStarted>>

ClosedBy(t) ==
    /\ t.kind \in {"close", "delete"} /\ t.database \in 1..lastDatabaseId
    /\ instance' = Closed(t.database)
    /\ poolStarted' = (databaseMap # {})
    /\ Reply(t.user, TRUE, NoDatabase)
    /\ UNCHANGED <<databaseMap, singleInstancesByPath>>

LEMMA DatabaseOpened ==
    ASSUME PluginTypes, NEW t, Opened(t)
    PROVE  /\ instance' \in Seq(Instances) /\ Len(instance') = lastDatabaseId
           /\ instance'[t.database].open
           /\ \A j \in 1..lastDatabaseId :
                /\ instance'[j].path = instance[j].path
                /\ instance'[j].single = instance[j].single
                /\ j # t.database => instance'[j].open = instance[j].open
           /\ databaseMap' \subseteq 1..lastDatabaseId
           /\ singleInstancesByPath' \in [Paths -> 0..lastDatabaseId]
           /\ \A p \in Paths : singleInstancesByPath'[p] =
                IF instance[t.database].single /\ instance[t.database].path = p
                THEN t.database ELSE singleInstancesByPath[p]
<1> DEFINE id == t.database
<1>1. /\ id \in 1..lastDatabaseId /\ instance' = SetOpen(instance, id, TRUE)
      /\ databaseMap' = databaseMap \cup {id}
      /\ singleInstancesByPath' =
           IF instance[id].single
           THEN [singleInstancesByPath EXCEPT ![instance[id].path] = id]
           ELSE singleInstancesByPath
    BY DEF Opened, SetOpen
<1> HIDE DEF id
<1>2. instance \in Seq(Instances) /\ Len(instance) = lastDatabaseId
    BY DEF PluginTypes
<1>3. /\ instance' \in Seq(Instances) /\ Len(instance') = lastDatabaseId
      /\ instance'[id].open
      /\ \A j \in 1..lastDatabaseId :
           /\ instance'[j].path = instance[j].path
           /\ instance'[j].single = instance[j].single
           /\ j # id => instance'[j].open = instance[j].open
  <2>1. id \in 1..Len(instance)
      BY <1>1, <1>2
  <2>2. /\ instance' \in Seq(Instances) /\ Len(instance') = Len(instance)
        /\ instance'[id].open = TRUE
        /\ \A j \in 1..Len(instance) :
             /\ instance'[j].path = instance[j].path
             /\ instance'[j].single = instance[j].single
             /\ j # id => instance'[j].open = instance[j].open
    <3> DEFINE s == SetOpen(instance, id, TRUE)
    <3>1. /\ s \in Seq(Instances) /\ Len(s) = Len(instance) /\ s[id].open = TRUE
          /\ \A j \in 1..Len(instance) :
               /\ s[j].path = instance[j].path
               /\ s[j].single = instance[j].single
               /\ j # id => s[j].open = instance[j].open
        BY <1>2, <2>1, InstanceSet
    <3> QED BY <1>1, <3>1
  <2> QED BY <1>2, <2>2
<1>4. instance[id] \in Instances
    BY <1>1, <1>2
<1>5. instance[id].single \in BOOLEAN /\ instance[id].path \in Paths
    BY <1>4 DEF Instances
<1>6. databaseMap' \subseteq 1..lastDatabaseId
    BY <1>1 DEF PluginTypes
<1>7. /\ singleInstancesByPath' \in [Paths -> 0..lastDatabaseId]
      /\ \A p \in Paths : singleInstancesByPath'[p] =
           IF instance[id].single /\ instance[id].path = p THEN id
           ELSE singleInstancesByPath[p]
  <2>1. singleInstancesByPath \in [Paths -> 0..lastDatabaseId] /\ id \in 0..lastDatabaseId
      BY <1>1 DEF PluginTypes
  <2>2. CASE instance[id].single
      BY <1>1, <1>5, <2>1, <2>2
  <2>3. CASE ~instance[id].single
      BY <1>1, <1>5, <2>1, <2>3
  <2> QED BY <2>2, <2>3
<1> QED BY <1>3, <1>6, <1>7 DEF id

LEMMA TaskRun ==
    ASSUME Typed, Apart, RunTask
    PROVE  LET t == Head(pool) IN
           /\ PluginTypes' /\ PostedTasks' /\ Apart'
           /\ t \in Pending /\ t \in Task /\ Pending' \subseteq Pending \ {t}
           /\ UNCHANGED <<lastDatabaseId, handling>>
           /\ Opened(t) \/ NotOpened(t) \/ NothingToClose(t) \/ ClosedBy(t)
<1> DEFINE t == Head(pool)
<1>1. /\ pool # <<>> /\ (OpenTask(t) \/ CloseTask(t))
      /\ UNCHANGED <<lastDatabaseId, handling>>
      /\ pool' = Tail(pool) \/ pool' = <<>>
    BY DEF RunTask, OpenTask, CloseTask
<1>2. /\ t \in Pending /\ Pending' \subseteq Pending \ {t} /\ Apart'
      /\ pool' \in Seq(Task) /\ poolStarted
  <2>1. PluginTypes /\ poolStarted /\ pool \in Seq(Task)
      BY <1>1 DEF Typed, PluginTypes, PostedTasks
  <2>2. t \in Pending /\ Pending' \subseteq Pending \ {t} /\ Apart'
      BY <1>1, <2>1, TakenPending
  <2>3. Tail(pool) \in Seq(Task) /\ <<>> \in Seq(Task)
      BY <1>1, <2>1, Removed
  <2> QED BY <1>1, <2>1, <2>2, <2>3
<1>3. t \in Task
    BY <1>2, PendingTasks DEF Typed
<1> HIDE DEF t
<1>4. /\ t.kind # "delete" => t.database \in 1..lastDatabaseId
      /\ t.database \in {NoDatabase} \cup 1..lastDatabaseId
      /\ t.user \in Users
  <2>1. t.user \in Users /\ t.database \in {NoDatabase} \cup Databases
      BY <1>3 DEF Task
  <2>2. /\ t.database <= lastDatabaseId
        /\ t.kind # "delete" => t.database # NoDatabase
      BY <1>2 DEF Typed, PostedTasks
  <2> QED BY <2>1, <2>2, FactoryAssumption DEF Databases, NoDatabase, Typed, PluginTypes
<1>5. Opened(t) \/ NotOpened(t) \/ NothingToClose(t) \/ ClosedBy(t)
  <2>1. CASE OpenTask(t)
      BY <1>4, <2>1 DEF OpenTask, Opened, NotOpened
  <2>2. CASE CloseTask(t)
      BY <1>4, <2>2 DEF CloseTask, NothingToClose, ClosedBy
  <2> QED BY <1>1, <2>1, <2>2
<1>6. answer' \in [Users -> Answers]
  <2>1. /\ \A b \in BOOLEAN : [ok |-> b, id |-> NoDatabase] \in Answers
        /\ \A id \in 1..lastDatabaseId : [ok |-> TRUE, id |-> id] \in Answers
      BY FactoryAssumption DEF Answers, Databases, Typed, PluginTypes
  <2>2. \/ Reply(t.user, TRUE, NoDatabase) \/ Reply(t.user, FALSE, NoDatabase)
        \/ t.database \in 1..lastDatabaseId /\ Reply(t.user, TRUE, t.database)
      BY <1>5 DEF Opened, NotOpened, NothingToClose, ClosedBy
  <2> QED BY <2>1, <2>2 DEF Reply, Typed, PluginTypes
<1>7. instance' \in Seq(Instances) /\ Len(instance') = Len(instance)
    BY <1>5, DatabaseOpened, DatabaseClosed
       DEF NotOpened, NothingToClose, ClosedBy, Typed, PluginTypes
<1>8. /\ databaseMap' \subseteq 1..lastDatabaseId
      /\ singleInstancesByPath' \in [Paths -> 0..lastDatabaseId]
      /\ poolStarted' \in BOOLEAN
  <2>1. CASE Opened(t)
      BY <2>1, DatabaseOpened DEF Opened, Typed, PluginTypes
  <2>2. CASE NotOpened(t) \/ NothingToClose(t)
      BY <2>2 DEF NotOpened, NothingToClose, Typed, PluginTypes
  <2>3. CASE ClosedBy(t)
      BY <2>3 DEF ClosedBy, Typed, PluginTypes
  <2> QED BY <1>5, <2>1, <2>2, <2>3
<1>9. PluginTypes'
    BY <1>1, <1>2, <1>6, <1>7, <1>8 DEF Typed, PluginTypes
<1>10. PostedTasks'
  <2>1. pool' # <<>> => poolStarted'
    <3>1. CASE OpenTask(t)
        BY <1>2, <3>1 DEF OpenTask
    <3>2. CASE CloseTask(t)
        BY <1>2, <3>2 DEF CloseTask
    <3> QED BY <1>1, <3>1, <3>2
  <2> QED BY <1>1, <1>2, <2>1 DEF Typed, PostedTasks
<1> QED BY <1>1, <1>2, <1>3, <1>5, <1>9, <1>10 DEF t

-----------------------------------------------------------------------------
(* Types: the steps *)

\* Types of the handle of an operation.
LEMMA OperationTypes ==
    /\ Idle \in Operations
    /\ \A kind \in {"open", "configure", "fail", "close", "delete"} :
       \A k \in {NoHandle} \cup Handles : [kind |-> kind, handle |-> k] \in Operations
    /\ \A op \in Operations : op.handle \in {NoHandle} \cup Handles
BY DEF Operations, Idle, NoHandle

LEMMA TypedInit == Init => Typed /\ Apart
<1> SUFFICES ASSUME Init PROVE Typed /\ Apart
    OBVIOUS
<1>1. (CHOOSE u \in Users : TRUE) \in Users
    BY FactoryAssumption
<1>2. pool = <<>> /\ handling = NoTask /\ lastDatabaseId = 0 /\ instance = <<>>
    BY DEF Init
<1>3. Pending = {} /\ Apart
    BY <1>2 DEF Pending, Apart
<1>4. DartTypes
  <2>1. /\ busy \in [Users -> Operations]
        /\ helper \in [Users -> {NoHandle} \cup Handles]
        /\ owner \in [Handles -> Users]
      BY <1>1, OperationTypes DEF Init
  <2>2. /\ single \in [Handles -> BOOLEAN]
        /\ phase \in [Handles -> {"new", "opening", "open", "closing", "closed", "failed"}]
        /\ helperOpen \in [Handles -> BOOLEAN]
      BY DEF Init
  <2>3. /\ nativeId \in [Handles -> {NoDatabase} \cup Databases]
        /\ closes \in [Handles -> 0..MaxCloses]
      BY FactoryAssumption DEF Init
  <2> QED BY <2>1, <2>2, <2>3 DEF DartTypes
<1>5. PluginTypes
  <2>1. answer \in [Users -> Answers]
      BY DEF Init, Answers
  <2>2. /\ databaseMap \subseteq 1..lastDatabaseId
        /\ singleInstancesByPath \in [Paths -> 0..lastDatabaseId]
        /\ lastDatabaseId \in 0..MaxHandles
      BY <1>2, FactoryAssumption DEF Init, NoDatabase
  <2>3. instance \in Seq(Instances) /\ Len(instance) = 0 /\ pool \in Seq(Task)
      BY <1>2
  <2> QED BY <1>2, <2>1, <2>2, <2>3 DEF Init, PluginTypes
<1>6. PostedTasks /\ NewHandles
    BY <1>2, <1>3, FactoryAssumption DEF PostedTasks, NewHandles, Handles
<1> QED BY <1>3, <1>4, <1>5, <1>6 DEF Typed

LEMMA StartOpenTyped ==
    ASSUME Typed, NEW u \in Users, NEW isSingle \in BOOLEAN, StartOpen(u, isSingle)
    PROVE  Typed'
<1>1. PICK k \in Handles :
         /\ phase[k] = "new" /\ \A j \in 1..(k - 1) : phase[j] # "new"
         /\ phase' = [phase EXCEPT ![k] = "opening"]
         /\ owner' = [owner EXCEPT ![k] = u]
         /\ single' = [single EXCEPT ![k] = isSingle]
         /\ helper' = IF isSingle THEN [helper EXCEPT ![u] = k] ELSE helper
         /\ Begin(u, "open", k)
    BY DEF StartOpen
<1>2. PluginOpen(u, isSingle) /\ UNCHANGED <<helperOpen, nativeId, closes>>
    BY DEF StartOpen
<1>3. lastDatabaseId < k /\ k \in 1..MaxHandles /\ lastDatabaseId \in Nat /\ MaxHandles \in Nat
    BY <1>1, FactoryAssumption DEF Typed, NewHandles, PluginTypes, Handles
<1>4. lastDatabaseId < MaxHandles
    BY <1>3
<1>5. /\ PluginTypes' /\ PostedTasks'
      /\ lastDatabaseId' = lastDatabaseId \/ lastDatabaseId' = lastDatabaseId + 1
    BY <1>2, <1>4, OpenHandled DEF Created, pluginVars, NewId
<1>6. DartTypes'
    BY <1>1, <1>2, OperationTypes DEF Typed, DartTypes, Begin, Handles
<1>7. ASSUME NEW j \in Handles, phase'[j] = "new" PROVE lastDatabaseId' < j
  <2>1. phase[j] = "new" /\ j # k /\ j \in Nat
      BY <1>1, <1>7, FactoryAssumption DEF Typed, DartTypes, Handles
  <2>2. j \in 1..MaxHandles /\ j \notin 1..(k - 1)
      BY <1>1, <2>1 DEF Handles
  <2>3. k < j
      BY <1>3, <2>1, <2>2
  <2> QED BY <1>3, <1>5, <2>1, <2>3
<1> QED BY <1>5, <1>6, <1>7 DEF Typed, NewHandles

\* A step that leaves the plugin alone but for the answer it delivers, and no
\* handle new again.
LEMMA DartStepTyped ==
    ASSUME Typed, UNCHANGED pluginVars, answer' \in [Users -> Answers],
           DartTypes', \A k \in Handles : phase'[k] = "new" => phase[k] = "new"
    PROVE  Typed'
<1>1. Pending' = Pending
    BY DEF Pending, pluginVars
<1>2. PluginTypes' /\ PostedTasks' /\ NewHandles'
    BY <1>1 DEF Typed, PluginTypes, PostedTasks, NewHandles, pluginVars
<1> QED BY <1>2 DEF Typed

LEMMA EndTypes ==
    ASSUME Typed, NEW u \in Users, End(u)
    PROVE  busy' \in [Users -> Operations] /\ answer' \in [Users -> Answers]
<1>1. Idle \in Operations /\ NoAnswer \in Answers
    BY OperationTypes DEF Answers
<1> QED BY <1>1 DEF End, Typed, DartTypes, PluginTypes

LEMMA HelperTypes ==
    ASSUME Typed, NEW u \in Users, NEW b,
           RemoveHelperIf(u, b) \/ RemoveHelper(u)
    PROVE  helper' \in [Users -> {NoHandle} \cup Handles]
BY DEF Typed, DartTypes, RemoveHelperIf, RemoveHelper

LEMMA OnOpenedTyped ==
    ASSUME Typed, NEW u \in Users, OnOpened(u)
    PROVE  Typed'
<1> DEFINE k == busy[u].handle
<1>1. /\ answer[u].ok
      /\ nativeId' = [nativeId EXCEPT ![k] = answer[u].id]
      /\ answer' = [answer EXCEPT ![u] = NoAnswer]
      /\ busy' = [busy EXCEPT ![u] = [kind |-> "configure", handle |-> k]]
      /\ UNCHANGED <<helper, owner, single, phase, helperOpen, closes>>
      /\ UNCHANGED pluginVars
    BY DEF OnOpened, Begin
<1>2. answer[u] \in Answers /\ NoAnswer \in Answers /\ NoAnswer.ok = FALSE
    BY DEF Typed, PluginTypes, Answers, NoAnswer
<1>3. answer[u].id \in {NoDatabase} \cup Databases
    BY <1>1, <1>2 DEF Answers
<1>4. k \in {NoHandle} \cup Handles
    BY OperationTypes DEF Typed, DartTypes
<1> HIDE DEF k
<1>5. [kind |-> "configure", handle |-> k] \in Operations
    BY <1>4, OperationTypes
<1>6. DartTypes'
    BY <1>1, <1>3, <1>5 DEF Typed, DartTypes
<1> QED BY <1>1, <1>2, <1>6, DartStepTyped DEF Typed, PluginTypes

LEMMA OnConfiguredTyped ==
    ASSUME Typed, NEW u \in Users, OnConfigured(u)
    PROVE  Typed'
<1>1. DartTypes'
    BY EndTypes DEF OnConfigured, Typed, DartTypes
<1>2. \A k \in Handles : phase'[k] = "new" => phase[k] = "new"
    BY DEF OnConfigured, Typed, DartTypes
<1> QED BY <1>1, <1>2, EndTypes, DartStepTyped DEF OnConfigured

LEMMA OnCallbackErrorTyped ==
    ASSUME Typed, NEW u \in Users, OnCallbackError(u)
    PROVE  Typed'
<1> DEFINE k == busy[u].handle
<1>1. /\ PluginClose(u, nativeId[k])
      /\ busy' = [busy EXCEPT ![u] = [kind |-> "fail", handle |-> k]]
      /\ UNCHANGED <<helper, owner, single, phase, helperOpen, nativeId, closes>>
    BY DEF OnCallbackError, Begin
<1>2. [kind |-> "fail", handle |-> k] \in Operations
    BY OperationTypes DEF Typed, DartTypes
<1>3. PluginTypes' /\ PostedTasks' /\ lastDatabaseId' = lastDatabaseId
    BY <1>1, CloseHandled
<1>4. DartTypes'
    BY <1>1, <1>2 DEF Typed, DartTypes
<1> QED BY <1>1, <1>3, <1>4 DEF Typed, NewHandles

LEMMA OnOpenFailedTyped ==
    ASSUME Typed, NEW u \in Users, OnOpenFailed(u)
    PROVE  Typed'
<1>1. DartTypes'
    BY EndTypes, HelperTypes DEF OnOpenFailed, Typed, DartTypes
<1>2. \A k \in Handles : phase'[k] = "new" => phase[k] = "new"
    BY DEF OnOpenFailed, Typed, DartTypes
<1> QED BY <1>1, <1>2, EndTypes, DartStepTyped DEF OnOpenFailed

LEMMA StartCloseTyped ==
    ASSUME Typed, NEW u \in Users, NEW k \in Handles, StartClose(u, k)
    PROVE  Typed'
<1>1. /\ closes[k] < MaxCloses
      /\ closes' = [closes EXCEPT ![k] = @ + 1]
      /\ UNCHANGED <<owner, single, helperOpen, nativeId>>
    BY DEF StartClose
<1>2. closes' \in [Handles -> 0..MaxCloses]
    BY <1>1, FactoryAssumption DEF Typed, DartTypes
<1>3. CASE /\ phase' = [phase EXCEPT ![k] = "closing"]
           /\ Begin(u, "close", k)
           /\ PluginClose(u, nativeId[k])
           /\ UNCHANGED helper
  <2>1. [kind |-> "close", handle |-> k] \in Operations
      BY OperationTypes
  <2>2. DartTypes'
      BY <1>1, <1>2, <1>3, <2>1 DEF Typed, DartTypes, Begin
  <2>3. PluginTypes' /\ PostedTasks' /\ lastDatabaseId' = lastDatabaseId
      BY <1>3, CloseHandled
  <2>4. \A j \in Handles : phase'[j] = "new" => phase[j] = "new"
      BY <1>3 DEF Typed, DartTypes
  <2> QED BY <2>2, <2>3, <2>4 DEF Typed, NewHandles
<1>4. CASE /\ RemoveHelperIf(u, single[k])
           /\ UNCHANGED <<busy, answer, phase>>
           /\ UNCHANGED pluginVars
  <2>1. DartTypes'
      BY <1>1, <1>2, <1>4, HelperTypes DEF Typed, DartTypes
  <2> QED BY <1>4, <2>1, DartStepTyped DEF Typed, PluginTypes
<1> QED BY <1>3, <1>4 DEF StartClose

LEMMA OnClosedTyped ==
    ASSUME Typed, NEW u \in Users, OnClosed(u)
    PROVE  Typed'
<1>1. DartTypes'
    BY EndTypes, HelperTypes DEF OnClosed, Typed, DartTypes
<1>2. \A k \in Handles : phase'[k] = "new" => phase[k] = "new"
    BY DEF OnClosed, Typed, DartTypes
<1> QED BY <1>1, <1>2, EndTypes, DartStepTyped DEF OnClosed

LEMMA StartDeleteTyped ==
    ASSUME Typed, NEW u \in Users, StartDelete(u)
    PROVE  Typed'
<1>1. /\ RemoveHelper(u) /\ PluginDelete(u)
      /\ busy' = [busy EXCEPT ![u] = [kind |-> "delete", handle |-> NoHandle]]
      /\ UNCHANGED <<owner, single, phase, helperOpen, nativeId, closes>>
    BY DEF StartDelete, Begin
<1>2. PluginTypes' /\ PostedTasks' /\ lastDatabaseId' = lastDatabaseId
    BY <1>1, DeleteHandled
<1>3. [kind |-> "delete", handle |-> NoHandle] \in Operations
    BY OperationTypes
<1>4. DartTypes'
    BY <1>1, <1>3, HelperTypes DEF Typed, DartTypes
<1> QED BY <1>1, <1>2, <1>4 DEF Typed, NewHandles

LEMMA OnDeletedTyped ==
    ASSUME Typed, NEW u \in Users, OnDeleted(u)
    PROVE  Typed'
<1>1. DartTypes'
    BY EndTypes DEF OnDeleted, Typed, DartTypes
<1> QED BY <1>1, EndTypes, DartStepTyped DEF OnDeleted

LEMMA TaskStepsTyped ==
    ASSUME Typed, Apart, PostTask \/ RunTask
    PROVE  Typed'
<1>1. /\ UNCHANGED <<busy, helper, owner, single, phase, helperOpen, nativeId, closes>>
      /\ PluginTypes' /\ PostedTasks' /\ lastDatabaseId' = lastDatabaseId
    BY TaskPosted, TaskRun DEF PostTask, RunTask
<1> QED BY <1>1 DEF Typed, DartTypes, NewHandles

LEMMA TypedStep ==
    ASSUME Typed, Apart, [Next]_vars
    PROVE  Typed'
<1>1. CASE UNCHANGED vars
  <2>1. Pending' = Pending
      BY <1>1 DEF Pending, vars, pluginVars
  <2> QED BY <1>1, <2>1 DEF Typed, DartTypes, PluginTypes, PostedTasks, NewHandles,
                            vars, dartVars, pluginVars
<1>2. CASE Next
    BY <1>2, StartOpenTyped, OnOpenedTyped, OnConfiguredTyped, OnCallbackErrorTyped,
       OnOpenFailedTyped, StartCloseTyped, OnClosedTyped, StartDeleteTyped,
       OnDeletedTyped, TaskStepsTyped DEF Next
<1> QED BY <1>1, <1>2

-----------------------------------------------------------------------------
(* The calls that are in flight *)

\* The operation that waits for a task.
AwaitedBy(t) ==
    /\ t.kind = "open" => busy[t.user].kind = "open"
    /\ t.kind = "close" => busy[t.user].kind \in {"close", "fail"}
    /\ t.kind = "delete" => busy[t.user].kind = "delete"

\* A user has one call in flight at most: it is pending, or answered.
InFlight ==
    /\ Apart
    /\ \A t \in Pending : answer[t.user] = NoAnswer /\ AwaitedBy(t)
    /\ \A u \in Users : answer[u] # NoAnswer =>
          busy[u].kind \in {"open", "close", "fail", "delete"}

LEMMA InFlightInit == Init => InFlight
<1>1. Init => Pending = {} /\ Apart
    BY DEF Init, Pending, Apart
<1> QED BY <1>1 DEF Init, InFlight

\* Between its calls a user has nothing in flight.
LEMMA NothingInFlight ==
    ASSUME InFlight, PluginTypes, NEW u \in Users, busy[u].kind \in {"idle", "configure"}
    PROVE  answer[u] = NoAnswer /\ \A t \in Pending : t.user # u
<1>1. \A t \in Pending : t.kind \in {"open", "close", "delete"}
    BY PendingTasks DEF Task
<1> QED BY <1>1 DEF InFlight, AwaitedBy

LEMMA ApartWithOneMore ==
    ASSUME PluginTypes, Apart, handling = NoTask, NEW t \in Task,
           \A s \in Pending : s.user # t.user,
           \/ handling' = t /\ pool' = pool
           \/ handling' = NoTask /\ pool' = Append(pool, t)
    PROVE  Apart'
<1>1. \A i \in 1..Len(pool) : pool[i].user # t.user
    BY DEF Pending
<1>2. CASE handling' = t /\ pool' = pool
    BY <1>1, <1>2 DEF Apart
<1>3. CASE handling' = NoTask /\ pool' = Append(pool, t)
  <2>1. /\ Len(pool') = Len(pool) + 1 /\ Len(pool) \in Nat
        /\ \A i \in 1..Len(pool) : pool'[i] = pool[i]
        /\ pool'[Len(pool) + 1] = t
      BY <1>3, Appended DEF PluginTypes
  <2>2. \A i \in 1..Len(pool') : i \in 1..Len(pool) \/ i = Len(pool) + 1
      BY <2>1
  <2>3. ASSUME NEW i \in 1..Len(pool'), NEW j \in 1..Len(pool'),
               pool'[i].user = pool'[j].user
        PROVE  i = j
      BY <1>1, <2>1, <2>2, <2>3 DEF Apart
  <2> QED BY <1>3, <2>3 DEF Apart
<1> QED BY <1>2, <1>3

\* User u, which has nothing in flight, has a task posted.
LEMMA CallPosted ==
    ASSUME Typed, InFlight, handling = NoTask, NEW u \in Users, NEW t \in Task, t.user = u,
           busy[u].kind \in {"idle", "configure"}, busy' = [busy EXCEPT ![u] = busy'[u]],
           AwaitedBy(t)', UNCHANGED answer, Pending' = Pending \cup {t},
           \/ handling' = t /\ pool' = pool
           \/ handling' = NoTask /\ pool' = Append(pool, t)
    PROVE  InFlight'
<1>1. answer[u] = NoAnswer /\ \A s \in Pending : s.user # u
    BY NothingInFlight DEF Typed
<1>2. Apart'
    BY <1>1, ApartWithOneMore DEF Typed, InFlight
<1>3. \A v \in Users \ {u} : busy'[v] = busy[v]
    BY DEF Typed, DartTypes
<1>4. \A s \in Pending : s.user \in Users \ {u}
    BY <1>1, PendingTasks DEF Typed, Task
<1>5. \A s \in Pending : AwaitedBy(s)'
    BY <1>3, <1>4 DEF InFlight, AwaitedBy
<1> QED BY <1>1, <1>2, <1>3, <1>5 DEF InFlight

\* Or it is answered at once.
LEMMA CallAnswered ==
    ASSUME Typed, InFlight, NEW u \in Users, NEW ok, NEW id, Reply(u, ok, id),
           busy[u].kind \in {"idle", "configure"}, busy' = [busy EXCEPT ![u] = busy'[u]],
           busy'[u].kind \in {"open", "close", "fail", "delete"}, UNCHANGED pluginVars
    PROVE  InFlight'
<1>1. \A t \in Pending : t.user # u /\ t.user \in Users
    BY NothingInFlight, PendingTasks DEF Typed, Task
<1>2. \A v \in Users \ {u} : busy'[v] = busy[v] /\ answer'[v] = answer[v]
    BY DEF Reply, Typed, DartTypes, PluginTypes
<1>3. Apart' /\ Pending' = Pending
    BY DEF InFlight, Apart, Pending, pluginVars
<1>4. \A t \in Pending : AwaitedBy(t)'
    BY <1>1, <1>2 DEF InFlight, AwaitedBy
<1> QED BY <1>1, <1>2, <1>3, <1>4 DEF InFlight

\* A call that was answered is over.
LEMMA CallEnded ==
    ASSUME Typed, InFlight, NEW u \in Users, answer[u] # NoAnswer \/ busy[u].kind = "configure",
           busy' = [busy EXCEPT ![u] = busy'[u]], answer' = [answer EXCEPT ![u] = NoAnswer],
           UNCHANGED pluginVars
    PROVE  InFlight'
<1>1. \A t \in Pending : t.user # u /\ t.user \in Users
    BY NothingInFlight, PendingTasks DEF Typed, Task, InFlight
<1>2. /\ \A v \in Users \ {u} : busy'[v] = busy[v] /\ answer'[v] = answer[v]
      /\ answer'[u] = NoAnswer
    BY DEF Typed, DartTypes, PluginTypes
<1>3. Apart' /\ Pending' = Pending
    BY DEF InFlight, Apart, Pending, pluginVars
<1>4. \A t \in Pending : AwaitedBy(t)'
    BY <1>1, <1>2 DEF InFlight, AwaitedBy
<1> QED BY <1>1, <1>2, <1>3, <1>4 DEF InFlight

\* A task that runs answers the call that waits for it.
LEMMA TaskAnswers ==
    ASSUME Typed, InFlight, NEW t \in Pending, NEW ok, NEW id, Reply(t.user, ok, id),
           Apart', Pending' \subseteq Pending \ {t}, UNCHANGED busy
    PROVE  InFlight'
<1>1. t \in Task /\ t.user \in Users /\ t.kind \in {"open", "close", "delete"}
    BY PendingTasks DEF Typed, Task
<1>2. \A s \in Pending' : s.user # t.user /\ s.user \in Users
    BY PendingUsers, PendingTasks DEF InFlight, Typed, Task
<1>3. \A v \in Users \ {t.user} : answer'[v] = answer[v]
    BY <1>1 DEF Reply, Typed, PluginTypes
<1>4. busy[t.user].kind \in {"open", "close", "fail", "delete"}
    BY <1>1 DEF InFlight, AwaitedBy
<1>5. \A s \in Pending' : answer'[s.user] = NoAnswer /\ AwaitedBy(s)'
    BY <1>2, <1>3 DEF InFlight, AwaitedBy
<1>6. \A v \in Users : answer'[v] # NoAnswer =>
        busy'[v].kind \in {"open", "close", "fail", "delete"}
    BY <1>3, <1>4 DEF InFlight
<1> QED BY <1>5, <1>6 DEF InFlight

LEMMA InFlightStep ==
    ASSUME Typed, InFlight, [Next]_vars
    PROVE  InFlight'
<1>1. ASSUME NEW u \in Users, NEW isSingle \in BOOLEAN, StartOpen(u, isSingle)
      PROVE  InFlight'
  <2>1. PICK k \in Handles :
          /\ phase[k] = "new" /\ busy' = [busy EXCEPT ![u] = [kind |-> "open", handle |-> k]]
      BY <1>1 DEF StartOpen, Begin
  <2>2. busy[u].kind = "idle" /\ PluginOpen(u, isSingle)
      BY <1>1 DEF StartOpen, Idle
  <2>3. lastDatabaseId < MaxHandles
      BY <2>1, FactoryAssumption DEF Typed, NewHandles, PluginTypes, Handles
  <2>4. busy'[u].kind = "open" /\ busy' = [busy EXCEPT ![u] = busy'[u]]
      BY <2>1 DEF Typed, DartTypes
  <2>5. CASE Created(u, isSingle)
    <3>0. PICK t : t = NewTask(u, "open", NewId)
        OBVIOUS
    <3>1. /\ t \in Task /\ t.user = u /\ AwaitedBy(t)' /\ UNCHANGED answer
          /\ Pending' = Pending \cup {t}
        BY <2>4, <2>5, <3>0 DEF Created, NewTask, AwaitedBy
    <3>2. handling = NoTask /\ handling' = NoTask /\ pool' = Append(pool, t)
      <4>1. /\ handling = NoTask /\ handling' = NoTask
          BY <2>2, <2>3, OpenHandled
      <4>2. lastDatabaseId' # lastDatabaseId
          BY <2>5 DEF Created, NewId, Typed, PluginTypes
      <4>3. \/ UNCHANGED lastDatabaseId
            \/ pool' = Append(pool, NewTask(u, "open", NewId))
          BY <2>2 DEF PluginOpen
      <4> QED BY <3>0, <4>1, <4>2, <4>3
    <3>3. busy[u].kind \in {"idle", "configure"}
        BY <2>2
    <3> QED BY <2>4, <3>1, <3>2, <3>3, CallPosted
  <2>6. CASE Reply(u, TRUE, SingleInstance(PathOf[u])) /\ UNCHANGED pluginVars
      BY <2>2, <2>4, <2>6, CallAnswered
  <2> QED BY <2>2, <2>3, <2>5, <2>6, OpenHandled
<1>2. ASSUME NEW u \in Users, NEW id, PluginClose(u, id),
             busy[u].kind \in {"idle", "configure"},
             busy'[u].kind \in {"close", "fail"}, busy' = [busy EXCEPT ![u] = busy'[u]]
      PROVE  InFlight'
  <2> DEFINE t == NewTask(u, "close", id)
  <2>1. t.user = u /\ AwaitedBy(t)'
      BY <1>2 DEF NewTask, AwaitedBy
  <2>2. handling = NoTask /\ pool' = pool
      BY <1>2, CloseHandled
  <2>3. CASE /\ t \in Task /\ handling' = t
             /\ Pending' = Pending \cup {t} /\ UNCHANGED answer
      BY <1>2, <2>1, <2>2, <2>3, CallPosted
  <2>4. CASE Reply(u, FALSE, NoDatabase) /\ UNCHANGED pluginVars
      BY <1>2, <2>4, CallAnswered
  <2> QED BY <1>2, <2>3, <2>4, CloseHandled
<1>3. ASSUME NEW u \in Users, OnOpened(u) \/ OnConfigured(u) \/ OnOpenFailed(u)
                              \/ OnClosed(u) \/ OnDeleted(u)
      PROVE  InFlight'
  <2>1. /\ answer[u] # NoAnswer \/ busy[u].kind = "configure"
        /\ answer' = [answer EXCEPT ![u] = NoAnswer]
        /\ UNCHANGED pluginVars
      BY <1>3 DEF OnOpened, OnConfigured, OnOpenFailed, OnClosed, OnDeleted, Answered, End
  <2>2. \E op : busy' = [busy EXCEPT ![u] = op]
      BY <1>3 DEF OnOpened, OnConfigured, OnOpenFailed, OnClosed, OnDeleted, Begin, End
  <2>3. busy' = [busy EXCEPT ![u] = busy'[u]]
      BY <2>2 DEF Typed, DartTypes
  <2> QED BY <2>1, <2>3, CallEnded
<1>4. ASSUME NEW u \in Users, OnCallbackError(u)
      PROVE  InFlight'
  <2>1. /\ busy[u].kind = "configure" /\ \E id : PluginClose(u, id)
        /\ busy' = [busy EXCEPT ![u] = [kind |-> "fail", handle |-> busy[u].handle]]
      BY <1>4 DEF OnCallbackError, Begin
  <2>2. busy'[u].kind = "fail" /\ busy' = [busy EXCEPT ![u] = busy'[u]]
      BY <2>1 DEF Typed, DartTypes
  <2> QED BY <1>2, <2>1, <2>2
<1>5. ASSUME NEW u \in Users, NEW k \in Handles, StartClose(u, k)
      PROVE  InFlight'
  <2>1. busy[u].kind = "idle"
      BY <1>5 DEF StartClose, Idle
  <2>2. CASE /\ \E id : PluginClose(u, id)
             /\ busy' = [busy EXCEPT ![u] = [kind |-> "close", handle |-> k]]
    <3>1. busy'[u].kind = "close" /\ busy' = [busy EXCEPT ![u] = busy'[u]]
        BY <2>2 DEF Typed, DartTypes
    <3> QED BY <1>2, <2>1, <2>2, <3>1
  <2>3. CASE UNCHANGED <<busy, answer, phase>> /\ UNCHANGED pluginVars
      BY <2>3 DEF InFlight, Apart, Pending, AwaitedBy, pluginVars
  <2> QED BY <1>5, <2>2, <2>3 DEF StartClose, Begin
<1>6. ASSUME NEW u \in Users, StartDelete(u)
      PROVE  InFlight'
  <2>0. PICK t : t = NewTask(u, "delete", SingleInstance(PathOf[u]))
      OBVIOUS
  <2>1. /\ busy[u].kind = "idle" /\ PluginDelete(u)
        /\ busy' = [busy EXCEPT ![u] = [kind |-> "delete", handle |-> NoHandle]]
      BY <1>6 DEF StartDelete, Begin, Idle
  <2>2. busy'[u].kind = "delete" /\ busy' = [busy EXCEPT ![u] = busy'[u]]
      BY <2>1 DEF Typed, DartTypes
  <2>3. t.user = u /\ AwaitedBy(t)'
      BY <2>0, <2>2 DEF NewTask, AwaitedBy
  <2>4. /\ t \in Task /\ handling = NoTask /\ handling' = t /\ pool' = pool
        /\ Pending' = Pending \cup {t} /\ UNCHANGED answer
      BY <2>0, <2>1, DeleteHandled
  <2>5. busy[u].kind \in {"idle", "configure"}
      BY <2>1
  <2> QED BY <2>2, <2>3, <2>4, <2>5, CallPosted
<1>7. ASSUME PostTask PROVE InFlight'
  <2>1. Apart' /\ UNCHANGED busy
      BY <1>7, PostTaskPending DEF Typed, PostedTasks, InFlight, PostTask
  <2>2. CASE poolStarted
    <3>1. Pending' = Pending /\ UNCHANGED answer
        BY <1>7, <2>2, TaskPosted DEF InFlight
    <3> QED BY <2>1, <3>1 DEF InFlight, AwaitedBy
  <2>3. CASE ~poolStarted
    <3>1. /\ handling \in Pending /\ Pending' = {}
          /\ \E ok : Reply(handling.user, ok, NoDatabase)
        BY <1>7, <2>3, TaskPosted DEF InFlight
    <3>2. PICK ok : Reply(handling.user, ok, NoDatabase)
        BY <3>1
    <3>3. Pending' \subseteq Pending \ {handling}
        BY <3>1
    <3> QED BY <2>1, <3>1, <3>2, <3>3, TaskAnswers
  <2> QED BY <2>2, <2>3 DEF Typed, PluginTypes
<1>8. ASSUME RunTask PROVE InFlight'
  <2>0. PICK t : t = Head(pool)
      OBVIOUS
  <2>1. /\ Apart' /\ t \in Pending /\ Pending' \subseteq Pending \ {t}
        /\ Opened(t) \/ NotOpened(t) \/ NothingToClose(t) \/ ClosedBy(t)
      BY <1>8, <2>0, TaskRun DEF InFlight
  <2>2. \E ok, id : Reply(t.user, ok, id)
      BY <2>1 DEF Opened, NotOpened, NothingToClose, ClosedBy
  <2>3. UNCHANGED busy
      BY <1>8 DEF RunTask
  <2> QED BY <2>1, <2>2, <2>3, TaskAnswers
<1>9. CASE UNCHANGED vars
    BY <1>9 DEF InFlight, Apart, Pending, AwaitedBy, vars, dartVars, pluginVars
<1> QED BY <1>1, <1>3, <1>4, <1>5, <1>6, <1>7, <1>8, <1>9 DEF Next

\* Types, for every value of the constants.
THEOREM TypeCorrect == Spec => []TypeOK
<1>1. Init => Typed /\ InFlight
    BY TypedInit, InFlightInit
<1>2. Typed /\ InFlight /\ [Next]_vars => (Typed /\ InFlight)'
    BY TypedStep, InFlightStep DEF InFlight
<1>3. Typed => TypeOK
    BY DEF Typed, DartTypes, PluginTypes, TypeOK
<1> QED BY <1>1, <1>2, <1>3, PTL DEF Spec

-----------------------------------------------------------------------------
(* The handle of an operation *)

\* An operation that opens or closes works on a handle of its user, which no
\* other operation is on.
Owned ==
    \A u \in Users :
        /\ busy[u].kind \in {"open", "configure", "fail"} =>
             /\ busy[u].handle \in Handles
             /\ phase[busy[u].handle] = "opening" /\ owner[busy[u].handle] = u
        /\ busy[u].kind = "close" =>
             /\ busy[u].handle \in Handles
             /\ phase[busy[u].handle] = "closing" /\ owner[busy[u].handle] = u

LEMMA OwnedInit == Init => Owned
<1>1. Init => \A u \in Users : busy[u] = Idle
    BY DEF Init
<1>2. Idle.kind = "idle"
    BY DEF Idle
<1> QED BY <1>1, <1>2 DEF Owned

\* The operation op of user u is on handle k, in phase p.
LEMMA OwnedUpdate ==
    ASSUME Typed, Owned, NEW u \in Users, NEW k \in Handles, NEW p, NEW op,
           phase[k] = "new" \/ owner[k] = u,
           busy' = [busy EXCEPT ![u] = op], phase' = [phase EXCEPT ![k] = p],
           owner' = [owner EXCEPT ![k] = u],
           op.kind \in {"open", "configure", "fail"} => op.handle = k /\ p = "opening",
           op.kind = "close" => op.handle = k /\ p = "closing"
    PROVE  Owned'
<1>1. /\ busy'[u] = op /\ \A v \in Users \ {u} : busy'[v] = busy[v]
      /\ phase'[k] = p /\ \A j \in Handles \ {k} : phase'[j] = phase[j]
      /\ owner'[k] = u /\ \A j \in Handles \ {k} : owner'[j] = owner[j]
    BY DEF Typed, DartTypes
<1>2. ASSUME NEW v \in Users \ {u}, busy[v].kind \in {"open", "configure", "fail", "close"}
      PROVE  busy[v].handle \in Handles \ {k}
    BY <1>2 DEF Owned
<1> QED BY <1>1, <1>2 DEF Owned

LEMMA SameOwner ==
    ASSUME Typed, NEW k \in Handles, NEW u, owner[k] = u
    PROVE  owner = [owner EXCEPT ![k] = u]
BY DEF Typed, DartTypes

LEMMA OwnedStep ==
    ASSUME Typed, Owned, [Next]_vars
    PROVE  Owned'
<1>1. ASSUME NEW u \in Users, NEW isSingle \in BOOLEAN, StartOpen(u, isSingle)
      PROVE  Owned'
  <2>1. PICK k \in Handles :
          /\ phase[k] = "new"
          /\ phase' = [phase EXCEPT ![k] = "opening"]
          /\ owner' = [owner EXCEPT ![k] = u]
          /\ busy' = [busy EXCEPT ![u] = [kind |-> "open", handle |-> k]]
      BY <1>1 DEF StartOpen, Begin
  <2> DEFINE op == [kind |-> "open", handle |-> k]
  <2>2. op.kind = "open" /\ op.handle = k
      OBVIOUS
  <2> HIDE DEF op
  <2> QED BY <2>1, <2>2, OwnedUpdate DEF op
<1>2. ASSUME NEW u \in Users, OnOpened(u) \/ OnCallbackError(u)
      PROVE  Owned'
  <2>1. /\ busy[u].kind \in {"open", "configure"} /\ UNCHANGED <<phase, owner>>
        /\ \E kind \in {"configure", "fail"} :
              busy' = [busy EXCEPT ![u] = [kind |-> kind, handle |-> busy[u].handle]]
      BY <1>2 DEF OnOpened, OnCallbackError, Answered, Begin
  <2> QED BY <2>1 DEF Owned, Typed, DartTypes
<1>3. ASSUME NEW u \in Users, OnConfigured(u) \/ OnOpenFailed(u) \/ OnClosed(u)
      PROVE  Owned'
  <2> DEFINE k == busy[u].handle
  <2>1. /\ busy[u].kind \in {"open", "configure", "fail", "close"}
        /\ busy' = [busy EXCEPT ![u] = Idle] /\ UNCHANGED owner
        /\ \E p : phase' = [phase EXCEPT ![k] = p]
      BY <1>3 DEF OnConfigured, OnOpenFailed, OnClosed, Answered, End
  <2>2. k \in Handles /\ owner[k] = u
      BY <2>1 DEF Owned
  <2>3. Idle.kind = "idle"
      BY DEF Idle
  <2>4. PICK j, p : /\ j \in Handles /\ owner[j] = u
                     /\ phase' = [phase EXCEPT ![j] = p]
                     /\ owner' = [owner EXCEPT ![j] = u]
      BY <2>1, <2>2, SameOwner
  <2> QED BY <2>1, <2>3, <2>4, OwnedUpdate
<1>4. ASSUME NEW u \in Users, NEW k \in Handles, StartClose(u, k)
      PROVE  Owned'
  <2>1. owner[k] = u /\ UNCHANGED owner
      BY <1>4 DEF StartClose
  <2>2. CASE /\ phase' = [phase EXCEPT ![k] = "closing"]
             /\ busy' = [busy EXCEPT ![u] = [kind |-> "close", handle |-> k]]
    <3> DEFINE op == [kind |-> "close", handle |-> k]
    <3>1. op.kind = "close" /\ op.handle = k /\ owner' = [owner EXCEPT ![k] = u]
        BY <2>1, SameOwner
    <3> HIDE DEF op
    <3> QED BY <2>1, <2>2, <3>1, OwnedUpdate DEF op
  <2>3. CASE UNCHANGED <<busy, phase>>
      BY <2>1, <2>3 DEF Owned
  <2> QED BY <1>4, <2>2, <2>3 DEF StartClose, Begin
<1>5. ASSUME NEW u \in Users, StartDelete(u) \/ OnDeleted(u)
      PROVE  Owned'
  <2>1. /\ UNCHANGED <<phase, owner>>
        /\ \/ busy' = [busy EXCEPT ![u] = [kind |-> "delete", handle |-> NoHandle]]
           \/ busy' = [busy EXCEPT ![u] = Idle]
      BY <1>5 DEF StartDelete, OnDeleted, Begin, End
  <2> QED BY <2>1 DEF Owned, Idle, Typed, DartTypes
<1>6. CASE PostTask \/ RunTask \/ UNCHANGED vars
    BY <1>6 DEF PostTask, RunTask, Owned, vars, dartVars
<1> QED BY <1>1, <1>2, <1>3, <1>4, <1>5, <1>6 DEF Next

-----------------------------------------------------------------------------
(* One single instance of a path *)

\* Each object is closed once, and no path is deleted.
ClosedOnce == MaxCloses <= 1 /\ "delete" \notin Calls

\* A single instance that is being opened, is open or is being closed is the
\* open helper of its path.
Helped ==
    \A k \in Handles :
        /\ single[k] /\ phase[k] \in {"opening", "open", "closing"} => helper[owner[k]] = k
        /\ phase[k] = "open" => helperOpen[k]
        /\ phase[k] \in {"closing", "closed"} => closes[k] >= 1

LEMMA HelpedInit == Init => Helped
BY DEF Init, Helped

LEMMA ClosesAnOpenOne ==
    ASSUME ClosedOnce, Typed, Helped, NEW u \in Users, NEW k \in Handles, StartClose(u, k)
    PROVE  phase[k] = "open" /\ helperOpen[k] /\ closes[k] = 0
<1>1. closes[k] \in Nat /\ closes[k] < MaxCloses /\ MaxCloses \in Nat
    BY FactoryAssumption DEF StartClose, Typed, DartTypes
<1>2. closes[k] = 0
    BY <1>1 DEF ClosedOnce
<1> QED BY <1>2 DEF StartClose, Helped

\* The helper of handle k of user u is removed when k leaves the live phases.
LEMMA HelperGone ==
    ASSUME Typed, Helped, NEW u \in Users, NEW k \in Handles, owner[k] = u,
           phase[k] \in {"opening", "closing"}, RemoveHelperIf(u, single[k]),
           NEW p \in {"failed", "closed"}, phase' = [phase EXCEPT ![k] = p],
           p = "closed" => closes[k] >= 1,
           UNCHANGED <<owner, single, closes>>,
           \A j \in Handles \ {k} : helperOpen'[j] = helperOpen[j]
    PROVE  Helped'
<1>1. phase'[k] = p /\ \A j \in Handles \ {k} : phase'[j] = phase[j]
    BY DEF Typed, DartTypes
<1>2. ASSUME NEW j \in Handles \ {k}, single[j], phase[j] \in {"opening", "open", "closing"}
      PROVE  helper'[owner[j]] = j
  <2>1. helper[owner[j]] = j /\ owner[j] \in Users
      BY <1>2 DEF Helped, Typed, DartTypes
  <2>2. CASE single[k]
    <3>1. owner[j] # u
        BY <2>1, <2>2 DEF Helped
    <3> QED BY <2>1, <2>2, <3>1 DEF RemoveHelperIf, RemoveHelper, Typed, DartTypes
  <2>3. CASE ~single[k]
      BY <2>1, <2>3 DEF RemoveHelperIf
  <2> QED BY <2>2, <2>3
<1> QED BY <1>1, <1>2 DEF Helped

LEMMA HelpedStep ==
    ASSUME ClosedOnce, Typed, Owned, Helped, [Next]_vars
    PROVE  Helped'
<1>1. ASSUME NEW u \in Users, NEW isSingle \in BOOLEAN, StartOpen(u, isSingle)
      PROVE  Helped'
  <2>1. PICK k \in Handles :
          /\ phase[k] = "new"
          /\ phase' = [phase EXCEPT ![k] = "opening"]
          /\ owner' = [owner EXCEPT ![k] = u]
          /\ single' = [single EXCEPT ![k] = isSingle]
          /\ helper' = IF isSingle THEN [helper EXCEPT ![u] = k] ELSE helper
      BY <1>1 DEF StartOpen
  <2>2. UNCHANGED <<helperOpen, closes>> /\ (isSingle => helper[u] = NoHandle)
      BY <1>1 DEF StartOpen
  <2>3. /\ phase'[k] = "opening" /\ owner'[k] = u /\ single'[k] = isSingle
        /\ \A j \in Handles \ {k} :
             phase'[j] = phase[j] /\ owner'[j] = owner[j] /\ single'[j] = single[j]
      BY <2>1 DEF Typed, DartTypes
  <2>4. isSingle => helper'[u] = k
      BY <2>1 DEF Typed, DartTypes
  <2>5. ASSUME NEW j \in Handles \ {k}, single[j], phase[j] \in {"opening", "open", "closing"}
        PROVE  helper'[owner[j]] = j
    <3>1. helper[owner[j]] = j /\ owner[j] \in Users /\ j # NoHandle
        BY <2>5 DEF Helped, Typed, DartTypes, Handles, NoHandle
    <3>2. isSingle => owner[j] # u
        BY <2>2, <3>1
    <3> QED BY <2>1, <3>1, <3>2 DEF Typed, DartTypes
  <2> QED BY <2>2, <2>3, <2>4, <2>5 DEF Helped
<1>2. ASSUME NEW u \in Users, OnOpened(u) \/ OnCallbackError(u)
      PROVE  Helped'
    BY <1>2 DEF OnOpened, OnCallbackError, Helped
<1>3. ASSUME NEW u \in Users, OnConfigured(u)
      PROVE  Helped'
  <2> DEFINE k == busy[u].handle
  <2>1. /\ phase' = [phase EXCEPT ![k] = "open"] /\ helperOpen' = [helperOpen EXCEPT ![k] = TRUE]
        /\ UNCHANGED <<helper, owner, single, closes>>
      BY <1>3 DEF OnConfigured
  <2>2. k \in Handles /\ phase[k] = "opening"
      BY <1>3 DEF OnConfigured, Owned
  <2> HIDE DEF k
  <2> QED BY <2>1, <2>2 DEF Helped, Typed, DartTypes
<1>4. ASSUME NEW u \in Users, OnOpenFailed(u)
      PROVE  Helped'
  <2>0. PICK k : k = busy[u].handle
      OBVIOUS
  <2>1. /\ phase' = [phase EXCEPT ![k] = "failed"] /\ RemoveHelperIf(u, single[k])
        /\ UNCHANGED <<owner, single, helperOpen, closes>>
      BY <1>4, <2>0 DEF OnOpenFailed
  <2>2. k \in Handles /\ phase[k] = "opening" /\ owner[k] = u
      BY <1>4, <2>0 DEF OnOpenFailed, Answered, Owned
  <2> QED BY <2>1, <2>2, HelperGone
<1>5. ASSUME NEW u \in Users, OnClosed(u)
      PROVE  Helped'
  <2>0. PICK k : k = busy[u].handle
      OBVIOUS
  <2>1. /\ phase' = [phase EXCEPT ![k] = "closed"] /\ RemoveHelperIf(u, single[k])
        /\ helperOpen' = [helperOpen EXCEPT ![k] = FALSE]
        /\ UNCHANGED <<owner, single, closes>>
      BY <1>5, <2>0 DEF OnClosed
  <2>2. k \in Handles /\ phase[k] = "closing" /\ owner[k] = u
      BY <1>5, <2>0 DEF OnClosed, Answered, Owned
  <2>3. closes[k] >= 1 /\ \A j \in Handles \ {k} : helperOpen'[j] = helperOpen[j]
      BY <2>1, <2>2 DEF Helped, Typed, DartTypes
  <2> QED BY <2>1, <2>2, <2>3, HelperGone
<1>6. ASSUME NEW u \in Users, NEW k \in Handles, StartClose(u, k)
      PROVE  Helped'
  <2>1. phase[k] = "open" /\ helperOpen[k] /\ closes[k] = 0
      BY <1>6, ClosesAnOpenOne
  <2>2. /\ phase' = [phase EXCEPT ![k] = "closing"] /\ UNCHANGED helper
        /\ closes' = [closes EXCEPT ![k] = @ + 1]
        /\ UNCHANGED <<owner, single, helperOpen>>
      BY <1>6, <2>1 DEF StartClose
  <2>3. /\ phase'[k] = "closing" /\ closes'[k] = 1
        /\ \A j \in Handles \ {k} : phase'[j] = phase[j] /\ closes'[j] = closes[j]
      BY <2>1, <2>2 DEF Typed, DartTypes
  <2> QED BY <2>1, <2>2, <2>3 DEF Helped
<1>7. ASSUME NEW u \in Users, StartDelete(u) \/ OnDeleted(u)
      PROVE  Helped'
    BY <1>7 DEF StartDelete, OnDeleted, ClosedOnce, Helped
<1>8. CASE PostTask \/ RunTask \/ UNCHANGED vars
    BY <1>8 DEF PostTask, RunTask, Helped, vars, dartVars
<1> QED BY <1>1, <1>2, <1>3, <1>4, <1>5, <1>6, <1>7, <1>8 DEF Next

\* A factory has one open single instance of its path at most, when each
\* object is closed once and no path is deleted.
THEOREM OneInstanceOpen == ClosedOnce => (Spec => []OneInstance)
<1> SUFFICES ASSUME ClosedOnce PROVE Spec => []OneInstance
    OBVIOUS
<1> DEFINE I == Typed /\ InFlight /\ Owned /\ Helped
<1>1. Init => I
    BY TypedInit, InFlightInit, OwnedInit, HelpedInit
<1>2. I /\ [Next]_vars => I'
    BY TypedStep, InFlightStep, OwnedStep, HelpedStep DEF InFlight
<1>3. I => OneInstance
    BY DEF OneInstance, Helped
<1> QED BY <1>1, <1>2, <1>3, PTL DEF Spec

-----------------------------------------------------------------------------
(* The connection of a handle *)

\* Handle k has a database: the native open was answered, and no close began.
Connected(k) ==
    \/ phase[k] = "open"
    \/ busy[owner[k]].kind = "configure" /\ busy[owner[k]].handle = k

\* The plugin has database id for handle k.
IsFor(id, k) ==
    /\ id \in databaseMap
    /\ instance[id].path = PathOf[owner[k]] /\ instance[id].single = single[k]

\* The maps of the plugin: what they have is open and where it belongs.
Registered ==
    /\ \A id \in databaseMap : instance[id].open
    /\ \A p \in Paths : singleInstancesByPath[p] \in databaseMap =>
          /\ instance[singleInstancesByPath[p]].single
          /\ instance[singleInstancesByPath[p]].path = p

\* A task is for a database the maps do not have, and the database of an open
\* task is the one its user asked for, and of no other task.
AwayFromMaps ==
    \A t \in Pending :
        /\ t.database \notin databaseMap
        /\ t.kind = "open" =>
             /\ instance[t.database].path = PathOf[t.user]
             /\ instance[t.database].single = single[busy[t.user].handle]
             /\ \A s \in Pending : s.database = t.database => s = t
             /\ \A p \in Paths : singleInstancesByPath[p] # t.database

\* Each handle that has a database has one of its own.
OwnConnection ==
    /\ \A k \in Handles : Connected(k) => IsFor(nativeId[k], k)
    /\ \A j, k \in Handles : Connected(j) /\ Connected(k) /\ nativeId[j] = nativeId[k] => j = k

\* So has the handle that is about to learn of it.
OpenedForOne ==
    \A u \in Users : busy[u].kind = "open" /\ answer[u].ok =>
        /\ IsFor(answer[u].id, busy[u].handle)
        /\ \A k \in Handles : Connected(k) => nativeId[k] # answer[u].id

Connections == Registered /\ AwayFromMaps /\ OwnConnection /\ OpenedForOne

\* No two users are on one path: one isolate.
OneUserPerPath == \A u, v \in Users : PathOf[u] = PathOf[v] => u = v

LEMMA ConnectionsInit == Init => Connections
<1> SUFFICES ASSUME Init PROVE Connections
    OBVIOUS
<1>1. Pending = {} /\ databaseMap = {} /\ \A k \in Handles : phase[k] = "new"
    BY DEF Init, Pending
<1>2. \A u \in Users : busy[u].kind = "idle"
    BY DEF Init, Idle
<1>3. owner \in [Handles -> Users]
    BY TypedInit DEF Typed, DartTypes
<1>4. \A k \in Handles : ~Connected(k)
    BY <1>1, <1>2, <1>3 DEF Connected
<1> QED BY <1>1, <1>2, <1>4 DEF Connections, Registered, AwayFromMaps, OwnConnection,
                                OpenedForOne

\* The phase of a connected handle, and its user.
LEMMA ConnectedPhase ==
    ASSUME Typed, Owned, NEW k \in Handles, Connected(k)
    PROVE  /\ phase[k] \in {"open", "opening"} /\ owner[k] \in Users
           /\ phase[k] = "opening" => busy[owner[k]].kind = "configure"
BY DEF Connected, Owned, Typed, DartTypes

LEMMA StartOpenConnections ==
    ASSUME OneUserPerPath, Typed, InFlight, Owned, Helped, Connections,
           NEW u \in Users, NEW isSingle \in BOOLEAN, StartOpen(u, isSingle)
    PROVE  Connections'
<1>1. PICK k \in Handles :
        /\ phase[k] = "new"
        /\ phase' = [phase EXCEPT ![k] = "opening"]
        /\ owner' = [owner EXCEPT ![k] = u]
        /\ single' = [single EXCEPT ![k] = isSingle]
        /\ busy' = [busy EXCEPT ![u] = [kind |-> "open", handle |-> k]]
    BY DEF StartOpen, Begin
<1>2. /\ busy[u].kind = "idle" /\ PluginOpen(u, isSingle) /\ UNCHANGED nativeId
      /\ isSingle => helper[u] = NoHandle
    BY DEF StartOpen, Idle
<1>3. lastDatabaseId < MaxHandles
    BY <1>1, FactoryAssumption DEF Typed, NewHandles, PluginTypes, Handles
<1>4. /\ phase'[k] = "opening" /\ owner'[k] = u /\ single'[k] = isSingle
      /\ \A j \in Handles \ {k} :
           /\ phase'[j] = phase[j] /\ owner'[j] = owner[j] /\ single'[j] = single[j]
           /\ owner[j] \in Users
      /\ busy'[u].kind = "open" /\ busy'[u].handle = k
      /\ \A v \in Users \ {u} : busy'[v] = busy[v]
    BY <1>1 DEF Typed, DartTypes
<1>5. ~Connected(k) /\ ~Connected(k)'
    BY <1>1, <1>4, ConnectedPhase DEF Connected
<1>6. \A j \in Handles \ {k} : Connected(j)' => Connected(j)
    BY <1>2, <1>4 DEF Connected
<1>7. \A v \in Users : busy[v].kind \in {"open", "configure", "fail"} =>
        busy[v].handle \in Handles \ {k} /\ v # u
    BY <1>1, <1>2 DEF Owned
<1>8. answer[u] = NoAnswer /\ \A t \in Pending : t.user \in Users \ {u}
    BY <1>2, NothingInFlight, PendingTasks DEF Typed, Task
<1>9. \A t \in Pending : t.kind = "open" =>
        /\ busy'[t.user] = busy[t.user]
        /\ single'[busy[t.user].handle] = single[busy[t.user].handle]
    BY <1>4, <1>7, <1>8 DEF InFlight, AwaitedBy
<1>10. CASE /\ isSingle /\ SingleInstance(PathOf[u]) # NoDatabase
            /\ Reply(u, TRUE, SingleInstance(PathOf[u]))
            /\ UNCHANGED pluginVars /\ Pending' = Pending
  <2>1. PICK found : found = SingleInstance(PathOf[u])
      OBVIOUS
  <2>2. PathOf[u] \in Paths
      BY FactoryAssumption
  <2>3. /\ found \in databaseMap /\ instance[found].path = PathOf[u]
        /\ instance[found].single
      BY <1>10, <2>1, <2>2, SingleInstanceFound DEF Typed, Connections, Registered
  <2>4. ASSUME NEW j \in Handles, Connected(j), nativeId[j] = found
        PROVE  FALSE
    <3>1. instance[found].path = PathOf[owner[j]] /\ instance[found].single = single[j]
        BY <2>4 DEF Connections, OwnConnection, IsFor
    <3>2. owner[j] = u
      <4>1. owner[j] \in Users
          BY <2>4, ConnectedPhase
      <4> QED BY <2>3, <3>1, <4>1 DEF OneUserPerPath
    <3>3. helper[u] = j
        BY <2>3, <2>4, <3>1, <3>2, ConnectedPhase DEF Helped
    <3> QED BY <1>2, <1>10, <3>3 DEF Handles, NoHandle
  <2>5. /\ answer'[u].ok /\ answer'[u].id = found
        /\ \A v \in Users \ {u} : answer'[v] = answer[v]
      BY <1>10, <2>1 DEF Reply, Typed, PluginTypes
  <2>6. /\ UNCHANGED <<databaseMap, singleInstancesByPath, instance>>
      BY <1>10 DEF pluginVars
  <2>7. Registered' /\ AwayFromMaps'
      BY <1>9, <1>10, <2>6 DEF Connections, Registered, AwayFromMaps
  <2>8. OwnConnection'
      BY <1>2, <1>4, <1>5, <1>6, <2>6 DEF Connections, OwnConnection, IsFor
  <2>9. ASSUME NEW v \in Users, busy'[v].kind = "open", answer'[v].ok
        PROVE  /\ IsFor(answer[v].id, busy[v].handle)'
               /\ \A j \in Handles : Connected(j)' => nativeId'[j] # answer'[v].id
    <3>1. CASE v = u
        BY <1>2, <1>4, <1>5, <1>6, <2>3, <2>4, <2>5, <2>6, <3>1, <1>10 DEF IsFor
    <3>2. CASE v # u
        BY <1>2, <1>4, <1>5, <1>6, <1>7, <2>5, <2>6, <2>9, <3>2
           DEF Connections, OpenedForOne, IsFor
    <3> QED BY <3>1, <3>2
  <2> QED BY <2>7, <2>8, <2>9 DEF Connections, OpenedForOne
<1>11. CASE Created(u, isSingle)
  <2>1. PICK t : t = NewTask(u, "open", NewId)
      OBVIOUS
  <2>2. /\ t.user = u /\ t.kind = "open" /\ t.database = NewId
        /\ Pending' = Pending \cup {t}
        /\ \A id \in 1..lastDatabaseId : instance'[id] = instance[id]
        /\ instance'[NewId] = [path |-> PathOf[u], single |-> isSingle, open |-> FALSE]
        /\ UNCHANGED <<answer, databaseMap, singleInstancesByPath>>
      BY <1>11, <2>1 DEF Created, NewTask
  <2>3. /\ databaseMap \subseteq 1..lastDatabaseId /\ NewId \notin 1..lastDatabaseId
        /\ NewId \notin databaseMap
      BY DEF Typed, PluginTypes, NewId
  <2>4. \A s \in Pending :
          /\ s.database # NewId
          /\ s.kind = "open" => s.database \in 1..lastDatabaseId
    <3>1. \A s \in Pending : /\ s.database <= lastDatabaseId
                             /\ s.kind = "open" => s.database # NoDatabase
        BY DEF Typed, PostedTasks
    <3>2. \A s \in Pending : s.database \in Nat
        BY PendingTasks, FactoryAssumption DEF Typed, Task, Databases, NoDatabase
    <3> QED BY <3>1, <3>2 DEF Typed, PluginTypes, NewId, NoDatabase
  <2>5. Registered'
      BY <2>2, <2>3 DEF Connections, Registered
  <2>6. AwayFromMaps'
    <3>1. ASSUME NEW s \in Pending
          PROVE  /\ s.database \notin databaseMap'
                 /\ s.kind = "open" =>
                      /\ instance'[s.database].path = PathOf[s.user]
                      /\ instance'[s.database].single = single'[busy'[s.user].handle]
                      /\ \A r \in Pending' : r.database = s.database => r = s
                      /\ \A p \in Paths : singleInstancesByPath'[p] # s.database
        BY <1>9, <2>2, <2>4 DEF Connections, AwayFromMaps
    <3>2. /\ t.database \notin databaseMap'
          /\ instance'[t.database].path = PathOf[t.user]
          /\ instance'[t.database].single = single'[busy'[t.user].handle]
          /\ \A r \in Pending' : r.database = t.database => r = t
        BY <1>4, <2>2, <2>3, <2>4
    <3>3. \A p \in Paths : singleInstancesByPath'[p] # t.database
        BY <2>2, <2>3 DEF Typed, PluginTypes, NewId
    <3> QED BY <2>2, <3>1, <3>2, <3>3 DEF AwayFromMaps
  <2>10. ASSUME NEW id, NEW j \in Handles \ {k}, IsFor(id, j)
         PROVE  IsFor(id, j)'
    <3>1. id \in databaseMap' /\ instance'[id] = instance[id]
        BY <2>2, <2>3, <2>10 DEF IsFor
    <3> QED BY <1>4, <2>10, <3>1 DEF IsFor
  <2>7. OwnConnection'
      BY <1>2, <1>5, <1>6, <2>10 DEF Connections, OwnConnection
  <2>8. \A v \in Users : answer'[v].ok => v # u
      BY <1>8, <2>2 DEF NoAnswer
  <2>9. OpenedForOne'
    <3>1. ASSUME NEW v \in Users, busy'[v].kind = "open", answer'[v].ok
          PROVE  /\ IsFor(answer[v].id, busy[v].handle)'
                 /\ \A j \in Handles : Connected(j)' => nativeId'[j] # answer'[v].id
      <4>1. /\ busy'[v] = busy[v] /\ answer'[v] = answer[v]
            /\ busy[v].handle \in Handles \ {k}
          BY <1>4, <1>7, <2>2, <2>8, <3>1
      <4>2. /\ IsFor(answer[v].id, busy[v].handle)
            /\ \A j \in Handles : Connected(j) => nativeId[j] # answer[v].id
          BY <3>1, <4>1 DEF Connections, OpenedForOne
      <4>3. PICK id, j : id = answer[v].id /\ j = busy[v].handle
          OBVIOUS
      <4>4. IsFor(id, j)'
          BY <2>10, <4>1, <4>2, <4>3
      <4>5. IsFor(answer[v].id, busy[v].handle)'
          BY <4>1, <4>3, <4>4
      <4> QED BY <1>2, <1>5, <1>6, <4>1, <4>2, <4>5
    <3> QED BY <3>1 DEF OpenedForOne
  <2> QED BY <2>5, <2>6, <2>7, <2>9 DEF Connections
<1> QED BY <1>2, <1>3, <1>10, <1>11, OpenHandled

LEMMA OnOpenedConnections ==
    ASSUME OneUserPerPath, Typed, InFlight, Owned, Connections, NEW u \in Users, OnOpened(u)
    PROVE  Connections'
<1>0. PICK k : k = busy[u].handle
    OBVIOUS
<1>1. /\ busy[u].kind = "open" /\ answer[u].ok
      /\ nativeId' = [nativeId EXCEPT ![k] = answer[u].id]
      /\ answer' = [answer EXCEPT ![u] = NoAnswer]
      /\ busy' = [busy EXCEPT ![u] = [kind |-> "configure", handle |-> k]]
      /\ UNCHANGED <<owner, single, phase>>
      /\ UNCHANGED pluginVars
    BY <1>0 DEF OnOpened, Answered, Begin
<1>2. k \in Handles /\ phase[k] = "opening" /\ owner[k] = u
    BY <1>0, <1>1 DEF Owned
<1>3. /\ nativeId'[k] = answer[u].id /\ \A j \in Handles \ {k} : nativeId'[j] = nativeId[j]
      /\ ~answer'[u].ok /\ \A v \in Users \ {u} : answer'[v] = answer[v]
      /\ busy'[u].kind = "configure" /\ busy'[u].handle = k
      /\ \A v \in Users \ {u} : busy'[v] = busy[v]
    BY <1>1, <1>2 DEF NoAnswer, Typed, DartTypes, PluginTypes
<1>4. /\ UNCHANGED <<databaseMap, singleInstancesByPath, instance>> /\ Pending' = Pending
      /\ \A id, j : IsFor(id, j) => IsFor(id, j)'
    BY <1>1 DEF pluginVars, Pending, IsFor
<1>5. ~Connected(k) /\ \A j \in Handles \ {k} : Connected(j)' => Connected(j)
    BY <1>1, <1>2, <1>3 DEF Connected, Typed, DartTypes
<1>6. /\ IsFor(answer[u].id, k)
      /\ \A j \in Handles : Connected(j) => nativeId[j] # answer[u].id
    BY <1>0, <1>1 DEF Connections, OpenedForOne
<1>7. Registered'
    BY <1>4 DEF Connections, Registered
<1>8. \A v \in Users : busy'[v].handle = busy[v].handle
    BY <1>0, <1>3
<1>9. \A t \in Pending : t.user \in Users
    BY PendingTasks DEF Typed, Task
<1>10. AwayFromMaps'
    BY <1>1, <1>4, <1>8, <1>9 DEF Connections, AwayFromMaps
<1>11. OwnConnection'
  <2>1. ASSUME NEW j \in Handles, Connected(j)' PROVE IsFor(nativeId[j], j)'
    <3>1. PICK id : id = nativeId'[j]
        OBVIOUS
    <3>2. IsFor(id, j)
        BY <1>3, <1>5, <1>6, <2>1, <3>1 DEF Connections, OwnConnection
    <3>3. IsFor(id, j)'
        BY <1>4, <3>2
    <3> QED BY <3>1, <3>3
  <2>2. ASSUME NEW i \in Handles, NEW j \in Handles, Connected(i)', Connected(j)',
               nativeId'[i] = nativeId'[j]
        PROVE  i = j
      BY <1>3, <1>5, <1>6, <2>2 DEF Connections, OwnConnection
  <2> QED BY <2>1, <2>2 DEF OwnConnection
<1>12. OpenedForOne'
  <2>1. ASSUME NEW v \in Users, busy'[v].kind = "open", answer'[v].ok
        PROVE  /\ IsFor(answer[v].id, busy[v].handle)'
               /\ \A j \in Handles : Connected(j)' => nativeId'[j] # answer'[v].id
    <3>1. v # u /\ busy'[v] = busy[v] /\ answer'[v] = answer[v]
        BY <1>3, <2>1
    <3>2. PICK id, h : id = answer[v].id /\ h = busy[v].handle
        OBVIOUS
    <3>3. IsFor(id, h) /\ \A j \in Handles : Connected(j) => nativeId[j] # id
        BY <2>1, <3>1, <3>2 DEF Connections, OpenedForOne
    <3>4. IsFor(id, h)'
        BY <1>4, <3>3
    <3>5. owner[h] = v
        BY <2>1, <3>1, <3>2 DEF Owned
    <3>6. answer[u].id # id
        BY <1>2, <1>6, <3>1, <3>3, <3>5 DEF IsFor, OneUserPerPath
    <3> QED BY <1>3, <1>5, <3>1, <3>2, <3>3, <3>4, <3>6
  <2> QED BY <2>1 DEF OpenedForOne
<1> QED BY <1>7, <1>10, <1>11, <1>12 DEF Connections

\* Steps that leave the plugin alone, and connect no handle.
LEMMA SameConnections ==
    ASSUME Connections, UNCHANGED pluginVars, UNCHANGED <<owner, single, nativeId>>,
           \A j \in Handles : Connected(j)' => Connected(j),
           \A v \in Users : busy'[v].kind = "open" /\ answer'[v].ok =>
               busy'[v] = busy[v] /\ answer'[v] = answer[v],
           \A t \in Pending : t.kind = "open" => busy'[t.user] = busy[t.user]
    PROVE  Connections'
<1>1. /\ UNCHANGED <<databaseMap, singleInstancesByPath, instance>> /\ Pending' = Pending
      /\ \A id, j : IsFor(id, j) => IsFor(id, j)'
    BY DEF pluginVars, Pending, IsFor
<1>2. Registered' /\ AwayFromMaps'
    BY <1>1 DEF Connections, Registered, AwayFromMaps
<1>3. OwnConnection'
    BY <1>1 DEF Connections, OwnConnection, IsFor
<1>4. OpenedForOne'
    BY <1>1 DEF Connections, OpenedForOne, IsFor
<1> QED BY <1>2, <1>3, <1>4 DEF Connections

LEMMA EndedConnections ==
    ASSUME Typed, InFlight, Owned, Connections, NEW u \in Users,
           OnConfigured(u) \/ OnOpenFailed(u) \/ OnClosed(u) \/ OnDeleted(u)
    PROVE  Connections'
<1>0. PICK k : k = busy[u].handle
    OBVIOUS
<1>1. /\ busy' = [busy EXCEPT ![u] = Idle] /\ answer' = [answer EXCEPT ![u] = NoAnswer]
      /\ UNCHANGED <<owner, single, nativeId>> /\ UNCHANGED pluginVars
    BY DEF OnConfigured, OnOpenFailed, OnClosed, OnDeleted, End
<1>2. /\ busy'[u].kind = "idle" /\ \A v \in Users \ {u} : busy'[v] = busy[v]
      /\ ~answer'[u].ok /\ \A v \in Users \ {u} : answer'[v] = answer[v]
    BY <1>1 DEF Idle, NoAnswer, Typed, DartTypes, PluginTypes
<1>3. \A t \in Pending : t.user \in Users \ {u}
  <2>1. answer[u] # NoAnswer \/ busy[u].kind = "configure"
      BY DEF OnConfigured, OnOpenFailed, OnClosed, OnDeleted, Answered
  <2> QED BY <2>1, NothingInFlight, PendingTasks DEF Typed, Task, InFlight
<1>4. \A j \in Handles : Connected(j)' => Connected(j)
  <2>1. \A j \in Handles : phase'[j] = "open" => phase[j] = "open" \/
            (busy[u].kind = "configure" /\ j = k /\ owner[j] = u)
    <3>1. CASE OnConfigured(u)
      <4>1. busy[u].kind = "configure" /\ phase' = [phase EXCEPT ![k] = "open"]
          BY <1>0, <3>1 DEF OnConfigured
      <4>2. k \in Handles /\ owner[k] = u
          BY <1>0, <4>1 DEF Owned
      <4> QED BY <4>1, <4>2 DEF Typed, DartTypes
    <3>2. CASE OnOpenFailed(u) \/ OnClosed(u) \/ OnDeleted(u)
        BY <3>2 DEF OnOpenFailed, OnClosed, OnDeleted, Typed, DartTypes
    <3> QED BY <3>1, <3>2
  <2> QED BY <1>0, <1>1, <1>2, <2>1 DEF Connected, Typed, DartTypes
<1> QED BY <1>1, <1>2, <1>3, <1>4, SameConnections

\* The native database of handle k is closed.
LEMMA DisconnectedConnections ==
    ASSUME Typed, InFlight, Owned, Connections, NEW u \in Users, NEW k \in Handles,
           Connected(k), PluginClose(u, nativeId[k]), UNCHANGED <<owner, single, nativeId>>,
           busy[u].kind \in {"idle", "configure"},
           busy'[u].kind \in {"fail", "close"}, \A v \in Users \ {u} : busy'[v] = busy[v],
           \A j \in Handles : Connected(j)' => Connected(j) /\ j # k
    PROVE  Connections'
<1>1. PICK id, t : id = nativeId[k] /\ t = NewTask(u, "close", id)
    OBVIOUS
<1>2. id \in databaseMap
    BY <1>1 DEF Connections, OwnConnection, IsFor
<1>3. /\ Unregister(id) /\ Pending' = Pending \cup {t}
      /\ UNCHANGED <<lastDatabaseId, instance, answer>>
    BY <1>1, <1>2, CloseHandled
<1>4. /\ databaseMap' = databaseMap \ {id} /\ id \in Databases
      /\ \A p \in Paths : singleInstancesByPath'[p] =
           IF instance[id].single /\ instance[id].path = p THEN NoDatabase
           ELSE singleInstancesByPath[p]
    BY <1>2, <1>3, UnregisterTypes DEF Typed
<1>5. t.kind = "close" /\ t.database = id
    BY <1>1 DEF NewTask
<1>6. \A s \in Pending : s.user \in Users \ {u}
    BY NothingInFlight, PendingTasks DEF Typed, Task
<1>7. NoDatabase \notin databaseMap
    BY DEF Typed, PluginTypes, NoDatabase
<1>8. Registered'
    BY <1>3, <1>4, <1>7 DEF Connections, Registered
<1>9. AwayFromMaps'
  <2>1. \A s \in Pending : s.kind = "open" => s.database # NoDatabase
      BY DEF Typed, PostedTasks
  <2> QED BY <1>2, <1>3, <1>4, <1>5, <1>6, <2>1 DEF Connections, AwayFromMaps
<1>10. \A x, j : x # id /\ IsFor(x, j) => IsFor(x, j)'
    BY <1>3, <1>4 DEF IsFor
<1>11. OwnConnection'
  <2>1. ASSUME NEW j \in Handles, Connected(j)' PROVE IsFor(nativeId[j], j)'
    <3>1. PICK x : x = nativeId[j]
        OBVIOUS
    <3>2. x # id /\ IsFor(x, j)
        BY <1>1, <2>1, <3>1 DEF Connections, OwnConnection
    <3>3. IsFor(x, j)'
        BY <1>10, <3>2
    <3> QED BY <3>1, <3>3
  <2> QED BY <2>1 DEF Connections, OwnConnection
<1>12. OpenedForOne'
  <2>1. ASSUME NEW v \in Users, busy'[v].kind = "open", answer'[v].ok
        PROVE  /\ IsFor(answer[v].id, busy[v].handle)'
               /\ \A j \in Handles : Connected(j)' => nativeId'[j] # answer'[v].id
    <3>1. busy'[v] = busy[v] /\ answer'[v] = answer[v]
        BY <1>3, <2>1
    <3>2. PICK x, h : x = answer[v].id /\ h = busy[v].handle
        OBVIOUS
    <3>3. IsFor(x, h) /\ x # id /\ \A j \in Handles : Connected(j) => nativeId[j] # x
        BY <1>1, <2>1, <3>1, <3>2 DEF Connections, OpenedForOne
    <3>4. IsFor(x, h)'
        BY <1>10, <3>3
    <3> QED BY <3>1, <3>2, <3>3, <3>4
  <2> QED BY <2>1 DEF OpenedForOne
<1> QED BY <1>8, <1>9, <1>11, <1>12 DEF Connections

LEMMA OnCallbackErrorConnections ==
    ASSUME Typed, InFlight, Owned, Connections, NEW u \in Users, OnCallbackError(u)
    PROVE  Connections'
<1>0. PICK k : k = busy[u].handle
    OBVIOUS
<1>1. /\ busy[u].kind = "configure" /\ PluginClose(u, nativeId[k])
      /\ busy' = [busy EXCEPT ![u] = [kind |-> "fail", handle |-> k]]
      /\ UNCHANGED <<owner, single, phase, nativeId>>
    BY <1>0 DEF OnCallbackError, Begin
<1>2. k \in Handles /\ phase[k] = "opening" /\ owner[k] = u
    BY <1>0, <1>1 DEF Owned
<1>3. busy'[u].kind = "fail" /\ \A v \in Users \ {u} : busy'[v] = busy[v]
    BY <1>1 DEF Typed, DartTypes
<1>4. Connected(k)
    BY <1>0, <1>1, <1>2 DEF Connected
<1>5. \A j \in Handles : Connected(j)' => Connected(j) /\ j # k
    BY <1>1, <1>2, <1>3 DEF Connected, Typed, DartTypes
<1> QED BY <1>1, <1>2, <1>3, <1>4, <1>5, DisconnectedConnections

LEMMA StartCloseConnections ==
    ASSUME ClosedOnce, Typed, InFlight, Owned, Helped, Connections,
           NEW u \in Users, NEW k \in Handles, StartClose(u, k)
    PROVE  Connections'
<1>1. phase[k] = "open" /\ helperOpen[k]
    BY ClosesAnOpenOne
<1>2. /\ busy[u].kind = "idle" /\ owner[k] = u /\ PluginClose(u, nativeId[k])
      /\ busy' = [busy EXCEPT ![u] = [kind |-> "close", handle |-> k]]
      /\ phase' = [phase EXCEPT ![k] = "closing"]
      /\ UNCHANGED <<owner, single, nativeId>>
    BY <1>1 DEF StartClose, Begin, Idle
<1>3. busy'[u].kind = "close" /\ \A v \in Users \ {u} : busy'[v] = busy[v]
    BY <1>2 DEF Typed, DartTypes
<1>4. Connected(k)
    BY <1>1 DEF Connected
<1>5. \A j \in Handles : Connected(j)' => Connected(j) /\ j # k
    BY <1>2, <1>3 DEF Connected, Typed, DartTypes
<1> QED BY <1>2, <1>3, <1>4, <1>5, DisconnectedConnections

\* Tasks that add nothing to the maps, and close what these do not have.
LEMMA TaskKeepsConnections ==
    ASSUME Typed, Connections, UNCHANGED <<busy, owner, single, phase, nativeId>>,
           UNCHANGED <<databaseMap, singleInstancesByPath>>, Pending' \subseteq Pending,
           \A id \in 1..lastDatabaseId :
               instance'[id].path = instance[id].path /\ instance'[id].single = instance[id].single,
           \A id \in databaseMap : instance'[id].open = instance[id].open,
           \A v \in Users : busy[v].kind = "open" /\ answer'[v].ok => answer'[v] = answer[v]
    PROVE  Connections'
<1>1. /\ databaseMap \subseteq 1..lastDatabaseId
      /\ \A t \in Pending : t.kind = "open" => t.database \in 1..lastDatabaseId
  <2>1. \A t \in Pending : t.database \in Nat /\ t.database <= lastDatabaseId
      BY PendingTasks, FactoryAssumption DEF Typed, PostedTasks, Task, Databases, NoDatabase
  <2>2. \A t \in Pending : t.kind = "open" => t.database # 0
      BY DEF Typed, PostedTasks, NoDatabase
  <2> QED BY <2>1, <2>2 DEF Typed, PluginTypes
<1>2. \A id, j : IsFor(id, j) => IsFor(id, j)'
    BY <1>1 DEF IsFor
<1>3. \A j \in Handles : Connected(j)' <=> Connected(j)
    BY DEF Connected
<1>4. Registered'
    BY <1>1 DEF Connections, Registered
<1>5. AwayFromMaps'
    BY <1>1 DEF Connections, AwayFromMaps
<1>6. OwnConnection'
  <2>1. ASSUME NEW j \in Handles, Connected(j)' PROVE IsFor(nativeId[j], j)'
      BY <1>2, <1>3, <2>1 DEF Connections, OwnConnection, IsFor
  <2> QED BY <1>3, <2>1 DEF Connections, OwnConnection
<1>7. OpenedForOne'
  <2>1. ASSUME NEW v \in Users, busy'[v].kind = "open", answer'[v].ok
        PROVE  /\ IsFor(answer[v].id, busy[v].handle)'
               /\ \A j \in Handles : Connected(j)' => nativeId'[j] # answer'[v].id
    <3>1. PICK x, h : x = answer[v].id /\ h = busy[v].handle
        OBVIOUS
    <3>2. answer'[v] = answer[v] /\ busy'[v] = busy[v]
        BY <2>1
    <3>3. IsFor(x, h) /\ \A j \in Handles : Connected(j) => nativeId[j] # x
        BY <2>1, <3>1, <3>2 DEF Connections, OpenedForOne
    <3>4. IsFor(x, h)'
        BY <1>2, <3>3
    <3> QED BY <1>3, <3>1, <3>2, <3>3, <3>4
  <2> QED BY <2>1 DEF OpenedForOne
<1> QED BY <1>4, <1>5, <1>6, <1>7 DEF Connections

LEMMA PostTaskConnections ==
    ASSUME Typed, InFlight, Connections, PostTask
    PROVE  Connections'
<1>1. /\ Pending' \subseteq Pending
      /\ UNCHANGED <<databaseMap, singleInstancesByPath, lastDatabaseId>>
      /\ UNCHANGED <<busy, owner, single, phase, nativeId>>
    BY TaskPosted DEF InFlight, PostTask
<1>2. CASE UNCHANGED <<answer, instance>>
    BY <1>1, <1>2, TaskKeepsConnections
<1>3. CASE ~poolStarted
  <2>1. PICK t : t = handling
      OBVIOUS
  <2>2. /\ t \in Pending /\ t.user \in Users /\ t.kind \in {"close", "delete"}
        /\ \E ok : Reply(t.user, ok, NoDatabase)
        /\ UNCHANGED instance \/ (t.database \in 1..lastDatabaseId /\ instance' = Closed(t.database))
      BY <1>3, <2>1, TaskPosted DEF InFlight
  <2>3. t.database \notin databaseMap
      BY <2>2 DEF Connections, AwayFromMaps
  <2>4. /\ \A id \in 1..lastDatabaseId :
             instance'[id].path = instance[id].path /\ instance'[id].single = instance[id].single
        /\ \A id \in databaseMap : instance'[id].open = instance[id].open
      BY <2>2, <2>3, DatabaseClosed DEF Typed, PluginTypes
  <2>5. \A v \in Users : busy[v].kind = "open" => answer'[v] = answer[v]
      BY <2>2 DEF InFlight, AwaitedBy, Reply, Typed, PluginTypes
  <2> QED BY <1>1, <2>4, <2>5, TaskKeepsConnections
<1> QED BY <1>2, <1>3, TaskPosted DEF InFlight

LEMMA OpenedConnections ==
    ASSUME Typed, InFlight, Owned, Connections, NEW t \in Pending, Opened(t),
           Pending' \subseteq Pending \ {t}, UNCHANGED <<busy, owner, single, phase, nativeId>>
    PROVE  Connections'
<1>0. PICK id, h : id = t.database /\ h = busy[t.user].handle
    OBVIOUS
<1>1. /\ t.kind = "open" /\ id \in 1..lastDatabaseId /\ t.user \in Users
      /\ databaseMap' = databaseMap \cup {id} /\ Reply(t.user, TRUE, id)
    BY <1>0, PendingTasks DEF Opened, Typed, Task
<1>2. /\ instance'[id].open
      /\ \A j \in 1..lastDatabaseId :
           /\ instance'[j].path = instance[j].path
           /\ instance'[j].single = instance[j].single
           /\ j # id => instance'[j].open = instance[j].open
      /\ \A p \in Paths : singleInstancesByPath'[p] =
           IF instance[id].single /\ instance[id].path = p
           THEN id ELSE singleInstancesByPath[p]
    BY <1>0, DatabaseOpened DEF Typed
<1>3. /\ id \notin databaseMap /\ instance[id].path = PathOf[t.user]
      /\ instance[id].single = single[h]
      /\ \A s \in Pending : s.database = id => s = t
      /\ \A p \in Paths : singleInstancesByPath[p] # id
    BY <1>0, <1>1 DEF Connections, AwayFromMaps
<1>4. busy[t.user].kind = "open" /\ owner[h] = t.user
    BY <1>0, <1>1 DEF InFlight, AwaitedBy, Owned
<1>5. /\ databaseMap \subseteq 1..lastDatabaseId
      /\ \A s \in Pending : s.kind = "open" => s.database \in 1..lastDatabaseId
  <2>1. \A s \in Pending : s.database \in Nat /\ s.database <= lastDatabaseId
      BY PendingTasks, FactoryAssumption DEF Typed, PostedTasks, Task, Databases, NoDatabase
  <2>2. \A s \in Pending : s.kind = "open" => s.database # 0
      BY DEF Typed, PostedTasks, NoDatabase
  <2> QED BY <2>1, <2>2 DEF Typed, PluginTypes
<1>6. \A x, j : IsFor(x, j) => IsFor(x, j)'
    BY <1>1, <1>2, <1>5 DEF IsFor
<1>7. IsFor(id, h)'
    BY <1>1, <1>2, <1>3, <1>4 DEF IsFor
<1>8. \A j \in Handles : Connected(j)' <=> Connected(j)
    BY DEF Connected
<1>9. \A j \in Handles : Connected(j) => nativeId[j] # id
    BY <1>3 DEF Connections, OwnConnection, IsFor
<1>10. /\ answer'[t.user].id = id /\ \A v \in Users \ {t.user} : answer'[v] = answer[v]
    BY <1>1 DEF Reply, Typed, PluginTypes
<1>11. Registered'
  <2>1. ASSUME NEW x \in databaseMap' PROVE instance'[x].open
      BY <1>1, <1>2, <1>5, <2>1 DEF Connections, Registered
  <2>2. ASSUME NEW p \in Paths, singleInstancesByPath'[p] \in databaseMap'
        PROVE  /\ instance'[singleInstancesByPath'[p]].single
               /\ instance'[singleInstancesByPath'[p]].path = p
    <3>1. CASE instance[id].single /\ instance[id].path = p
        BY <1>1, <1>2, <3>1
    <3>2. CASE ~(instance[id].single /\ instance[id].path = p)
      <4>1. PICK x : x = singleInstancesByPath[p]
          OBVIOUS
      <4>2. singleInstancesByPath'[p] = x /\ x # id
          BY <1>2, <1>3, <3>2, <4>1
      <4>3. x \in databaseMap
          BY <1>1, <2>2, <4>2
      <4>4. instance[x].single /\ instance[x].path = p
          BY <4>1, <4>3 DEF Connections, Registered
      <4> QED BY <1>2, <1>5, <4>2, <4>3, <4>4
    <3> QED BY <3>1, <3>2
  <2> QED BY <2>1, <2>2 DEF Registered
<1>12. AwayFromMaps'
    BY <1>1, <1>2, <1>3, <1>5 DEF Connections, AwayFromMaps
<1>13. OwnConnection'
  <2>1. ASSUME NEW j \in Handles, Connected(j)' PROVE IsFor(nativeId[j], j)'
      BY <1>6, <1>8, <2>1 DEF Connections, OwnConnection, IsFor
  <2> QED BY <1>8, <2>1 DEF Connections, OwnConnection
<1>14. OpenedForOne'
  <2>1. ASSUME NEW v \in Users, busy'[v].kind = "open", answer'[v].ok
        PROVE  /\ IsFor(answer[v].id, busy[v].handle)'
               /\ \A j \in Handles : Connected(j)' => nativeId'[j] # answer'[v].id
    <3>1. CASE v = t.user
        BY <1>0, <1>7, <1>8, <1>9, <1>10, <3>1
    <3>2. CASE v # t.user
      <4>1. PICK x, g : x = answer[v].id /\ g = busy[v].handle
          OBVIOUS
      <4>2. answer'[v] = answer[v] /\ busy'[v] = busy[v]
          BY <1>10, <3>2
      <4>3. IsFor(x, g) /\ \A j \in Handles : Connected(j) => nativeId[j] # x
          BY <2>1, <4>1, <4>2 DEF Connections, OpenedForOne
      <4>4. IsFor(x, g)'
          BY <1>6, <4>3
      <4> QED BY <1>8, <4>1, <4>2, <4>3, <4>4
    <3> QED BY <3>1, <3>2
  <2> QED BY <2>1 DEF OpenedForOne
<1> QED BY <1>11, <1>12, <1>13, <1>14 DEF Connections

LEMMA RunTaskConnections ==
    ASSUME Typed, InFlight, Owned, Connections, RunTask
    PROVE  Connections'
<1>0. PICK t : t = Head(pool)
    OBVIOUS
<1>1. /\ t \in Pending /\ t.user \in Users /\ Pending' \subseteq Pending \ {t}
      /\ UNCHANGED <<lastDatabaseId, busy, owner, single, phase, nativeId>>
      /\ Opened(t) \/ NotOpened(t) \/ NothingToClose(t) \/ ClosedBy(t)
    BY <1>0, TaskRun DEF InFlight, RunTask, Task
<1>2. CASE Opened(t)
    BY <1>1, <1>2, OpenedConnections
<1>3. CASE NotOpened(t)
  <2>1. /\ UNCHANGED <<instance, databaseMap, singleInstancesByPath>>
        /\ Reply(t.user, FALSE, NoDatabase)
      BY <1>3 DEF NotOpened
  <2>2. \A v \in Users : answer'[v].ok => answer'[v] = answer[v]
      BY <1>1, <2>1 DEF Reply, Typed, PluginTypes
  <2> QED BY <1>1, <2>1, <2>2, TaskKeepsConnections
<1>4. CASE NothingToClose(t) \/ ClosedBy(t)
  <2>1. /\ t.kind \in {"close", "delete"} /\ Reply(t.user, TRUE, NoDatabase)
        /\ UNCHANGED <<databaseMap, singleInstancesByPath>>
        /\ UNCHANGED instance \/ (t.database \in 1..lastDatabaseId /\ instance' = Closed(t.database))
      BY <1>4 DEF NothingToClose, ClosedBy
  <2>2. t.database \notin databaseMap
      BY <1>1 DEF Connections, AwayFromMaps
  <2>3. /\ \A id \in 1..lastDatabaseId :
             instance'[id].path = instance[id].path /\ instance'[id].single = instance[id].single
        /\ \A id \in databaseMap : instance'[id].open = instance[id].open
      BY <2>1, <2>2, DatabaseClosed DEF Typed, PluginTypes
  <2>4. \A v \in Users : busy[v].kind = "open" => answer'[v] = answer[v]
      BY <1>1, <2>1 DEF InFlight, AwaitedBy, Reply, Typed, PluginTypes
  <2> QED BY <1>1, <2>1, <2>3, <2>4, TaskKeepsConnections
<1> QED BY <1>1, <1>2, <1>3, <1>4

LEMMA ConnectionsStep ==
    ASSUME OneUserPerPath, ClosedOnce, Typed, InFlight, Owned, Helped, Connections, [Next]_vars
    PROVE  Connections'
<1>1. CASE UNCHANGED vars
  <2>1. /\ UNCHANGED pluginVars
        /\ UNCHANGED <<busy, answer, phase, owner, single, nativeId>>
      BY <1>1 DEF vars, dartVars
  <2>2. \A j \in Handles : Connected(j)' => Connected(j)
      BY <2>1 DEF Connected
  <2> QED BY <2>1, <2>2, SameConnections
<1>2. ASSUME NEW u \in Users, StartDelete(u) PROVE Connections'
    BY <1>2 DEF StartDelete, ClosedOnce
<1>3. CASE Next
    BY <1>2, <1>3, StartOpenConnections, OnOpenedConnections, EndedConnections,
       OnCallbackErrorConnections, StartCloseConnections, PostTaskConnections,
       RunTaskConnections DEF Next
<1> QED BY <1>1, <1>3

\* The open helper of a path is a single instance of it that is being opened,
\* is open or is being closed.
Bound ==
    \A u \in Users : helper[u] # NoHandle =>
        /\ single[helper[u]] /\ owner[helper[u]] = u
        /\ phase[helper[u]] \in {"opening", "open", "closing"}

LEMMA BoundInit == Init => Bound
BY DEF Init, Bound

\* Handle k of user u leaves the live phases, and its path with it.
LEMMA Unbound ==
    ASSUME Typed, Bound, NEW u \in Users, NEW k \in Handles, owner[k] = u,
           RemoveHelperIf(u, single[k]), NEW p, phase' = [phase EXCEPT ![k] = p],
           UNCHANGED <<owner, single>>
    PROVE  Bound'
<1> SUFFICES ASSUME NEW v \in Users, helper'[v] # NoHandle
             PROVE  /\ single[helper'[v]] /\ owner[helper'[v]] = v
                    /\ phase'[helper'[v]] \in {"opening", "open", "closing"}
    BY DEF Bound
<1>1. helper'[v] = helper[v] /\ (single[k] => v # u)
    BY DEF RemoveHelperIf, RemoveHelper, Typed, DartTypes
<1>2. /\ single[helper[v]] /\ owner[helper[v]] = v /\ helper[v] \in Handles
      /\ phase[helper[v]] \in {"opening", "open", "closing"}
    BY <1>1 DEF Bound, Typed, DartTypes
<1>3. helper[v] # k
    BY <1>1, <1>2
<1> QED BY <1>1, <1>2, <1>3 DEF Typed, DartTypes

LEMMA BoundStep ==
    ASSUME Typed, Owned, Bound, [Next]_vars
    PROVE  Bound'
<1>1. ASSUME NEW u \in Users, NEW isSingle \in BOOLEAN, StartOpen(u, isSingle)
      PROVE  Bound'
  <2>1. PICK k \in Handles :
          /\ phase[k] = "new"
          /\ phase' = [phase EXCEPT ![k] = "opening"]
          /\ owner' = [owner EXCEPT ![k] = u]
          /\ single' = [single EXCEPT ![k] = isSingle]
          /\ helper' = IF isSingle THEN [helper EXCEPT ![u] = k] ELSE helper
      BY <1>1 DEF StartOpen
  <2>2. /\ phase'[k] = "opening" /\ owner'[k] = u /\ single'[k] = isSingle
        /\ \A j \in Handles \ {k} :
             phase'[j] = phase[j] /\ owner'[j] = owner[j] /\ single'[j] = single[j]
      BY <2>1 DEF Typed, DartTypes
  <2>3. ASSUME NEW v \in Users, helper'[v] # NoHandle
        PROVE  \/ helper'[v] = k /\ v = u /\ isSingle
               \/ helper'[v] = helper[v] /\ helper[v] \in Handles \ {k}
    <3>1. CASE isSingle /\ v = u
        BY <2>1, <3>1 DEF Typed, DartTypes
    <3>2. CASE ~(isSingle /\ v = u)
      <4>1. helper'[v] = helper[v] /\ helper[v] \in Handles
          BY <2>1, <2>3, <3>2 DEF Typed, DartTypes
      <4> QED BY <2>1, <2>3, <4>1 DEF Bound
    <3> QED BY <3>1, <3>2
  <2> QED BY <2>2, <2>3 DEF Bound
<1>2. ASSUME NEW u \in Users, OnOpened(u) \/ OnCallbackError(u) \/ OnDeleted(u)
      PROVE  Bound'
    BY <1>2 DEF OnOpened, OnCallbackError, OnDeleted, Bound
<1>3. ASSUME NEW u \in Users, OnConfigured(u)
      PROVE  Bound'
  <2>1. /\ phase' = [phase EXCEPT ![busy[u].handle] = "open"]
        /\ UNCHANGED <<helper, owner, single>>
      BY <1>3 DEF OnConfigured
  <2>2. \A j \in Handles : phase'[j] = phase[j] \/ phase'[j] = "open"
      BY <2>1 DEF Typed, DartTypes
  <2> QED BY <2>1, <2>2 DEF Bound, Typed, DartTypes
<1>4. ASSUME NEW u \in Users, OnOpenFailed(u) \/ OnClosed(u)
      PROVE  Bound'
  <2>0. PICK k : k = busy[u].handle
      OBVIOUS
  <2>1. /\ \E p : phase' = [phase EXCEPT ![k] = p]
        /\ RemoveHelperIf(u, single[k]) /\ UNCHANGED <<owner, single>>
      BY <1>4, <2>0 DEF OnOpenFailed, OnClosed
  <2>2. k \in Handles /\ owner[k] = u
      BY <1>4, <2>0 DEF OnOpenFailed, OnClosed, Answered, Owned
  <2> QED BY <2>1, <2>2, Unbound
<1>5. ASSUME NEW u \in Users, NEW k \in Handles, StartClose(u, k)
      PROVE  Bound'
  <2>1. CASE phase' = [phase EXCEPT ![k] = "closing"] /\ UNCHANGED <<helper, owner, single>>
    <3>1. \A j \in Handles : phase'[j] = phase[j] \/ phase'[j] = "closing"
        BY <2>1 DEF Typed, DartTypes
    <3> QED BY <2>1, <3>1 DEF Bound, Typed, DartTypes
  <2>2. CASE RemoveHelperIf(u, single[k]) /\ UNCHANGED <<phase, owner, single>>
    <3>1. phase' = [phase EXCEPT ![k] = phase[k]] /\ owner[k] = u
        BY <1>5, <2>2 DEF StartClose, Typed, DartTypes
    <3> QED BY <2>2, <3>1, Unbound
  <2> QED BY <1>5, <2>1, <2>2 DEF StartClose
<1>6. ASSUME NEW u \in Users, StartDelete(u)
      PROVE  Bound'
  <2>1. \A v \in Users : helper'[v] = helper[v] \/ helper'[v] = NoHandle
      BY <1>6 DEF StartDelete, RemoveHelper, Typed, DartTypes
  <2> QED BY <1>6, <2>1 DEF StartDelete, Bound
<1>7. CASE PostTask \/ RunTask \/ UNCHANGED vars
    BY <1>7 DEF PostTask, RunTask, Bound, vars, dartVars
<1> QED BY <1>1, <1>2, <1>3, <1>4, <1>5, <1>6, <1>7 DEF Next

\* With one isolate, objects that are closed once and no delete, what
\* openDatabase returned has an open native database behind it, and no other
\* object has the same one; and no path is bound to an object that is gone.
THEOREM ConnectionsOfHandles ==
    OneUserPerPath /\ ClosedOnce => (Spec => [](UsableHandles /\ NoSharedConnection))
<1> SUFFICES ASSUME OneUserPerPath, ClosedOnce
             PROVE  Spec => [](UsableHandles /\ NoSharedConnection)
    OBVIOUS
<1> DEFINE I == Typed /\ InFlight /\ Owned /\ Helped /\ Bound /\ Connections
<1>1. Init => I
    BY TypedInit, InFlightInit, OwnedInit, HelpedInit, BoundInit, ConnectionsInit
<1>2. I /\ [Next]_vars => I'
    BY TypedStep, InFlightStep, OwnedStep, HelpedStep, BoundStep, ConnectionsStep DEF InFlight
<1>3. I => UsableHandles /\ NoSharedConnection
    BY DEF UsableHandles, NoSharedConnection, Connected, Connections, OwnConnection, IsFor,
           Registered, Bound
<1> QED BY <1>1, <1>2, <1>3, PTL DEF Spec

-----------------------------------------------------------------------------
(* The databases that are open, for one path *)

OneUser == \A u, v \in Users : u = v

IsOpenSingle(id) == instance[id].single /\ instance[id].open

\* What the maps have is open and of the path, and its single instance is the
\* one that singleInstancesByPath names.
MapsOfPath ==
    /\ \A id \in 1..lastDatabaseId : \A u \in Users : instance[id].path = PathOf[u]
    /\ \A id \in databaseMap : instance[id].open
    /\ \A id \in databaseMap : instance[id].single =>
          singleInstancesByPath[instance[id].path] = id

\* The pool is there while a database is in the map or about to be closed.
PoolForDatabases ==
    /\ databaseMap # {} => poolStarted
    /\ handling # NoTask /\ handling.kind = "close" => poolStarted

\* An open database is in the map, or a task is going to close it.
Kept ==
    \A id \in 1..lastDatabaseId : instance[id].open =>
        \/ id \in databaseMap
        \/ \E t \in Pending : t.kind # "open" /\ t.database = id

\* Delete leaves no single instance in the map, and one is only opened when
\* there is none.
NoSingleLeft ==
    /\ \A u \in Users : busy[u].kind = "delete" =>
          \A id \in databaseMap : ~instance[id].single
    /\ \A t \in Pending :
          /\ t.database \notin databaseMap
          /\ t.kind = "open" /\ instance[t.database].single =>
                \A id \in databaseMap : ~instance[id].single

Tidy == MapsOfPath /\ PoolForDatabases /\ Kept /\ NoSingleLeft

LEMMA TidyInit == Init => Tidy
<1> SUFFICES ASSUME Init PROVE Tidy
    OBVIOUS
<1>1. Pending = {} /\ databaseMap = {} /\ handling = NoTask /\ lastDatabaseId = 0
      /\ \A u \in Users : busy[u] = Idle
    BY DEF Init, Pending
<1>2. Idle.kind = "idle"
    BY DEF Idle
<1> QED BY <1>1, <1>2 DEF Tidy, MapsOfPath, PoolForDatabases, Kept, NoSingleLeft

\* If the plugin finds no single instance of the path, the map has none.
LEMMA NoSingleInstance ==
    ASSUME Typed, Tidy, NEW u \in Users
    PROVE  /\ SingleInstance(PathOf[u]) = NoDatabase => \A id \in databaseMap : ~instance[id].single
           /\ \A id \in databaseMap : instance[id].single => id = SingleInstance(PathOf[u])
<1>1. ASSUME NEW id \in databaseMap, instance[id].single
      PROVE  id = SingleInstance(PathOf[u]) /\ id # NoDatabase
  <2>1. id \in 1..lastDatabaseId
      BY DEF Typed, PluginTypes
  <2>2. instance[id].path = PathOf[u] /\ instance[id].open
        /\ singleInstancesByPath[PathOf[u]] = id
      BY <1>1, <2>1 DEF Tidy, MapsOfPath
  <2> QED BY <2>1, <2>2 DEF SingleInstance, NoDatabase
<1> QED BY <1>1

\* A user that has nothing in flight leaves no task at all.
LEMMA NoPending ==
    ASSUME OneUser, Typed, InFlight, NEW u \in Users, busy[u].kind \in {"idle", "configure"}
    PROVE  Pending = {} /\ handling = NoTask
<1>1. \A t \in Pending : t.user \in Users /\ t.user # u
    BY NothingInFlight, PendingTasks DEF Typed, Task
<1>2. Pending = {}
    BY <1>1 DEF OneUser
<1> QED BY <1>2, PendingTasks DEF Typed

\* There is one task at most.
LEMMA OnePending ==
    ASSUME OneUser, Typed, InFlight, NEW t \in Pending
    PROVE  Pending = {t}
<1>1. \A s \in Pending : s.user \in Users
    BY PendingTasks DEF Typed, Task
<1> QED BY <1>1, PendingUsers DEF OneUser, Typed, InFlight

LEMMA DatabasesInMap ==
    ASSUME PluginTypes
    PROVE  /\ databaseMap \subseteq 1..lastDatabaseId /\ NoDatabase \notin databaseMap
           /\ \A id \in databaseMap : instance[id] \in Instances
           /\ \A id \in 1..lastDatabaseId :
                instance[id].path \in Paths /\ instance[id].single \in BOOLEAN
<1>1. \A id \in 1..lastDatabaseId : instance[id] \in Instances
    BY DEF PluginTypes
<1>2. databaseMap \subseteq 1..lastDatabaseId /\ NoDatabase \notin 1..lastDatabaseId
    BY DEF PluginTypes, NoDatabase
<1> QED BY <1>1, <1>2 DEF Instances

\* A database leaves the maps, and task t is going to close it.
LEMMA UnregisteredTidy ==
    ASSUME Typed, Tidy, Pending = {}, NEW id \in databaseMap, NEW t \in Task,
           t.kind # "open", t.database = id,
           Unregister(id), Pending' = {t}, handling' = t,
           UNCHANGED <<lastDatabaseId, instance, poolStarted>>,
           \A u \in Users : busy'[u].kind = "delete" =>
              \A x \in databaseMap \ {id} : ~instance[x].single
    PROVE  Tidy'
<1>1. /\ databaseMap' = databaseMap \ {id} /\ id \in 1..lastDatabaseId
      /\ \A p \in Paths : singleInstancesByPath'[p] =
           IF instance[id].single /\ instance[id].path = p THEN NoDatabase
           ELSE singleInstancesByPath[p]
    BY UnregisterTypes DEF Typed
<1>2. MapsOfPath'
  <2>1. ASSUME NEW x \in databaseMap \ {id}, instance[x].single
        PROVE  singleInstancesByPath'[instance[x].path] = x
    <3>1. singleInstancesByPath[instance[x].path] = x /\ instance[x].path \in Paths
        BY <2>1, DatabasesInMap DEF Tidy, MapsOfPath, Typed
    <3>2. instance[id].single => instance[id].path # instance[x].path
        BY <2>1, <3>1 DEF Tidy, MapsOfPath
    <3> QED BY <1>1, <3>1, <3>2
  <2> QED BY <1>1, <2>1 DEF Tidy, MapsOfPath
<1>3. PoolForDatabases'
    BY <1>1 DEF Tidy, PoolForDatabases
<1>4. Kept'
    BY <1>1 DEF Tidy, Kept
<1>5. NoSingleLeft'
    BY <1>1 DEF NoSingleLeft
<1> QED BY <1>2, <1>3, <1>4, <1>5 DEF Tidy

\* Steps that leave the plugin alone.
LEMMA PluginSameTidy ==
    ASSUME Tidy, UNCHANGED pluginVars,
           \A u \in Users : busy'[u].kind = "delete" => busy[u].kind = "delete"
    PROVE  Tidy'
<1>1. Pending' = Pending
    BY DEF Pending, pluginVars
<1> QED BY <1>1 DEF Tidy, MapsOfPath, PoolForDatabases, Kept, NoSingleLeft, pluginVars

LEMMA StartOpenTidy ==
    ASSUME OneUser, Typed, InFlight, Tidy, NEW u \in Users, NEW isSingle \in BOOLEAN,
           StartOpen(u, isSingle)
    PROVE  Tidy'
<1>1. PICK k \in Handles :
        /\ phase[k] = "new" /\ busy' = [busy EXCEPT ![u] = [kind |-> "open", handle |-> k]]
    BY DEF StartOpen, Begin
<1>2. busy[u].kind = "idle" /\ PluginOpen(u, isSingle)
    BY DEF StartOpen, Idle
<1>3. lastDatabaseId < MaxHandles
    BY <1>1, FactoryAssumption DEF Typed, NewHandles, PluginTypes, Handles
<1>4. \A v \in Users : busy'[v].kind = "open"
    BY <1>1 DEF OneUser, Typed, DartTypes
<1>5. CASE UNCHANGED pluginVars
    BY <1>4, <1>5, PluginSameTidy
<1>6. CASE Created(u, isSingle)
  <2>1. PICK t : t = NewTask(u, "open", NewId)
      OBVIOUS
  <2>2. /\ t.kind = "open" /\ t.database = NewId /\ NewId = lastDatabaseId + 1
        /\ Pending' = {t} /\ lastDatabaseId' = NewId /\ poolStarted'
        /\ \A id \in 1..lastDatabaseId : instance'[id] = instance[id]
        /\ instance'[NewId] = [path |-> PathOf[u], single |-> isSingle, open |-> FALSE]
        /\ UNCHANGED <<databaseMap, singleInstancesByPath, handling>>
      BY <1>2, <1>6, <2>1, NoPending DEF Created, NewTask, NewId
  <2>3. /\ databaseMap \subseteq 1..lastDatabaseId /\ NewId \notin databaseMap
        /\ \A id \in 1..NewId : id \in 1..lastDatabaseId \/ id = NewId
        /\ handling = NoTask
      BY <1>2, <2>2, NoPending DEF Typed, PluginTypes
  <2>4. isSingle => \A id \in databaseMap : ~instance[id].single
    <3>1. isSingle => SingleInstance(PathOf[u]) = NoDatabase
      <4>1. SUFFICES ASSUME isSingle, SingleInstance(PathOf[u]) # NoDatabase PROVE FALSE
          OBVIOUS
      <4>2. UNCHANGED lastDatabaseId
          BY <1>2, <4>1 DEF PluginOpen
      <4> QED BY <2>2, <4>2 DEF Typed, PluginTypes
    <3> QED BY <3>1, NoSingleInstance
  <2>5. MapsOfPath'
    <3>1. \A id \in 1..NewId : \A v \in Users : instance'[id].path = PathOf[v]
        BY <2>2, <2>3 DEF Tidy, MapsOfPath, OneUser
    <3> QED BY <2>2, <2>3, <3>1 DEF Tidy, MapsOfPath
  <2>6. PoolForDatabases'
      BY <2>2, <2>3 DEF PoolForDatabases
  <2>7. Kept'
    <3>1. \A id \in 1..lastDatabaseId : instance[id].open => id \in databaseMap
        BY <1>2, NoPending DEF Tidy, Kept
    <3> QED BY <2>2, <2>3, <3>1 DEF Kept
  <2>8. NoSingleLeft'
      BY <1>4, <2>2, <2>3, <2>4 DEF NoSingleLeft
  <2> QED BY <2>5, <2>6, <2>7, <2>8 DEF Tidy
<1> QED BY <1>2, <1>3, <1>5, <1>6, OpenHandled

LEMMA PluginCloseTidy ==
    ASSUME OneUser, Typed, InFlight, Tidy, NEW u \in Users, NEW id, PluginClose(u, id),
           busy[u].kind \in {"idle", "configure"}, busy'[u].kind \in {"fail", "close"}
    PROVE  Tidy'
<1>1. Pending = {} /\ \A v \in Users : busy'[v].kind # "delete"
    BY NoPending DEF OneUser
<1>2. CASE UNCHANGED pluginVars
    BY <1>1, <1>2, PluginSameTidy
<1>3. CASE /\ id \in databaseMap /\ Unregister(id)
           /\ NewTask(u, "close", id) \in Task
           /\ handling' = NewTask(u, "close", id)
           /\ Pending' = Pending \cup {NewTask(u, "close", id)}
  <2>1. PICK t : t = NewTask(u, "close", id)
      OBVIOUS
  <2>2. t \in Task /\ t.kind # "open" /\ t.database = id /\ Pending' = {t} /\ handling' = t
      BY <1>1, <1>3, <2>1 DEF NewTask
  <2>3. UNCHANGED <<lastDatabaseId, instance, poolStarted>>
      BY CloseHandled
  <2> QED BY <1>1, <1>3, <2>2, <2>3, UnregisteredTidy
<1> QED BY <1>2, <1>3, CloseHandled

LEMMA StartDeleteTidy ==
    ASSUME OneUser, Typed, InFlight, Tidy, NEW u \in Users, StartDelete(u)
    PROVE  Tidy'
<1>0. PICK found, t : /\ found = SingleInstance(PathOf[u])
                      /\ t = NewTask(u, "delete", found)
    OBVIOUS
<1>1. busy[u].kind = "idle" /\ PluginDelete(u)
    BY DEF StartDelete, Idle
<1>2. /\ t \in Task /\ t.kind = "delete" /\ t.database = found
      /\ Pending = {} /\ Pending' = {t} /\ handling' = t
      /\ UNCHANGED <<lastDatabaseId, instance, poolStarted>>
      /\ \/ found # NoDatabase /\ Unregister(found)
         \/ found = NoDatabase /\ UNCHANGED <<databaseMap, singleInstancesByPath>>
    BY <1>0, <1>1, DeleteHandled, NoPending DEF NewTask
<1>3. \A x \in databaseMap \ {found} : ~instance[x].single
    BY <1>0, NoSingleInstance
<1>4. CASE found # NoDatabase
  <2>1. found \in databaseMap /\ Unregister(found)
      BY <1>0, <1>2, <1>4, SingleInstanceFound, FactoryAssumption DEF Typed
  <2> QED BY <1>2, <1>3, <2>1, UnregisteredTidy
<1>5. CASE found = NoDatabase
  <2>1. UNCHANGED <<databaseMap, singleInstancesByPath>> /\ NoDatabase \notin databaseMap
      BY <1>2, <1>5, DatabasesInMap DEF Typed
  <2>2. MapsOfPath' /\ PoolForDatabases'
      BY <1>2, <2>1 DEF Tidy, MapsOfPath, PoolForDatabases
  <2>3. Kept' /\ NoSingleLeft'
      BY <1>2, <1>3, <1>5, <2>1 DEF Tidy, Kept, NoSingleLeft
  <2> QED BY <2>2, <2>3 DEF Tidy
<1> QED BY <1>4, <1>5

\* Database id of the only task t, which is not in the maps, is closed.
LEMMA ClosedTidy ==
    ASSUME Typed, Tidy, NEW t, Pending = {t}, Pending' = {},
           t.kind # "open", NEW id, id = t.database,
           \/ id = NoDatabase /\ UNCHANGED instance
           \/ id \in 1..lastDatabaseId /\ instance' = Closed(id),
           UNCHANGED <<busy, databaseMap, singleInstancesByPath, lastDatabaseId>>,
           handling' = NoTask, databaseMap # {} => poolStarted'
    PROVE  Tidy'
<1>1. /\ \A x \in 1..lastDatabaseId :
           /\ instance'[x].path = instance[x].path
           /\ instance'[x].single = instance[x].single
           /\ x # id => instance'[x].open = instance[x].open
           /\ instance'[x].open => x # id
    BY DatabaseClosed DEF Typed, PluginTypes, NoDatabase
<1>2. id \notin databaseMap /\ databaseMap \subseteq 1..lastDatabaseId
    BY DatabasesInMap DEF Tidy, NoSingleLeft, Typed
<1>3. MapsOfPath' /\ PoolForDatabases'
    BY <1>1, <1>2 DEF Tidy, MapsOfPath, PoolForDatabases
<1>4. Kept' /\ NoSingleLeft'
    BY <1>1, <1>2 DEF Tidy, Kept, NoSingleLeft
<1> QED BY <1>3, <1>4 DEF Tidy

LEMMA PostTaskTidy ==
    ASSUME OneUser, Typed, InFlight, Tidy, PostTask
    PROVE  Tidy'
<1>1. /\ handling # NoTask /\ handling' = NoTask
      /\ UNCHANGED <<databaseMap, singleInstancesByPath, lastDatabaseId, poolStarted, busy>>
    BY DEF PostTask
<1>2. CASE UNCHANGED instance /\ Pending' = Pending
    BY <1>1, <1>2 DEF Tidy, MapsOfPath, PoolForDatabases, Kept, NoSingleLeft
<1>3. CASE ~poolStarted
  <2>1. PICK t : t = handling
      OBVIOUS
  <2>2. /\ t \in Pending /\ Pending' = {} /\ t.kind # "open" /\ t.kind # "close"
        /\ \/ t.database = NoDatabase /\ UNCHANGED instance
           \/ t.database \in 1..lastDatabaseId /\ instance' = Closed(t.database)
      BY <1>1, <1>3, <2>1, TaskPosted DEF InFlight, Tidy, PoolForDatabases
  <2>3. Pending = {t}
      BY <2>2, OnePending
  <2> QED BY <1>1, <2>2, <2>3, ClosedTidy DEF Tidy, PoolForDatabases
<1> QED BY <1>2, <1>3, TaskPosted DEF InFlight

LEMMA OpenedTidy ==
    ASSUME Typed, Tidy, NEW t, Pending = {t}, Pending' = {}, Opened(t),
           \A u \in Users : busy'[u].kind # "delete",
           UNCHANGED lastDatabaseId, handling' = NoTask, poolStarted'
    PROVE  Tidy'
<1>0. PICK id : id = t.database
    OBVIOUS
<1>1. /\ t.kind = "open" /\ id \in 1..lastDatabaseId /\ databaseMap' = databaseMap \cup {id}
    BY <1>0 DEF Opened
<1>2. /\ instance'[id].open
      /\ \A x \in 1..lastDatabaseId :
           /\ instance'[x].path = instance[x].path
           /\ instance'[x].single = instance[x].single
           /\ x # id => instance'[x].open = instance[x].open
      /\ \A p \in Paths : singleInstancesByPath'[p] =
           IF instance[id].single /\ instance[id].path = p
           THEN id ELSE singleInstancesByPath[p]
    BY <1>0, DatabaseOpened DEF Typed
<1>3. /\ id \notin databaseMap /\ databaseMap \subseteq 1..lastDatabaseId
      /\ instance[id].single => \A x \in databaseMap : ~instance[x].single
    BY <1>0, <1>1, DatabasesInMap DEF Typed, Tidy, NoSingleLeft
<1>4. MapsOfPath'
  <2>1. ASSUME NEW x \in databaseMap', instance'[x].single
        PROVE  singleInstancesByPath'[instance'[x].path] = x
    <3>1. x \in 1..lastDatabaseId /\ instance[x].path \in Paths
          /\ instance'[x].path = instance[x].path /\ instance[x].single
        BY <1>1, <1>2, <1>3, <2>1, DatabasesInMap DEF Typed
    <3>2. CASE x = id
        BY <1>2, <2>1, <3>1, <3>2
    <3>3. CASE x # id
      <4>1. x \in databaseMap
          BY <1>1, <3>3
      <4>2. singleInstancesByPath[instance[x].path] = x /\ ~instance[id].single
          BY <1>3, <3>1, <4>1 DEF Tidy, MapsOfPath
      <4> QED BY <1>2, <3>1, <4>2
    <3> QED BY <3>2, <3>3
  <2>2. \A x \in databaseMap' : instance'[x].open
      BY <1>1, <1>2, <1>3 DEF Tidy, MapsOfPath
  <2>3. \A x \in 1..lastDatabaseId : \A u \in Users : instance'[x].path = PathOf[u]
      BY <1>2 DEF Tidy, MapsOfPath
  <2> QED BY <2>1, <2>2, <2>3 DEF MapsOfPath
<1>5. PoolForDatabases' /\ NoSingleLeft'
    BY DEF PoolForDatabases, NoSingleLeft
<1>6. Kept'
    BY <1>1, <1>2 DEF Tidy, Kept
<1> QED BY <1>4, <1>5, <1>6 DEF Tidy

LEMMA RunTaskTidy ==
    ASSUME OneUser, Typed, InFlight, Tidy, RunTask
    PROVE  Tidy'
<1>0. PICK t : t = Head(pool)
    OBVIOUS
<1>1. /\ t \in Pending /\ t.user \in Users /\ Pending' \subseteq Pending \ {t}
      /\ UNCHANGED <<lastDatabaseId, busy, handling>> /\ PluginTypes'
      /\ Opened(t) \/ NotOpened(t) \/ NothingToClose(t) \/ ClosedBy(t)
    BY <1>0, TaskRun DEF InFlight, RunTask, Task
<1>2. Pending = {t} /\ Pending' = {} /\ handling' = NoTask
  <2>1. Pending = {t} /\ Pending' = {}
      BY <1>1, OnePending
  <2> QED BY <1>1, <2>1 DEF Pending
<1>3. poolStarted
    BY DEF RunTask, Typed, PostedTasks
<1>4. CASE Opened(t)
  <2>1. busy[t.user].kind = "open"
      BY <1>1, <1>4 DEF Opened, InFlight, AwaitedBy
  <2>2. \A u \in Users : busy'[u].kind # "delete"
      BY <1>1, <2>1 DEF OneUser
  <2>3. poolStarted'
      BY <1>3, <1>4 DEF Opened
  <2> QED BY <1>1, <1>2, <1>4, <2>2, <2>3, OpenedTidy
<1>5. CASE NotOpened(t)
    BY <1>1, <1>2, <1>5 DEF NotOpened, Tidy, MapsOfPath, PoolForDatabases, Kept, NoSingleLeft
<1>6. CASE NothingToClose(t) \/ ClosedBy(t)
  <2>1. /\ t.kind # "open"
        /\ \/ t.database = NoDatabase /\ UNCHANGED instance
           \/ t.database \in 1..lastDatabaseId /\ instance' = Closed(t.database)
        /\ UNCHANGED <<databaseMap, singleInstancesByPath>>
        /\ databaseMap # {} => poolStarted'
      BY <1>3, <1>6 DEF NothingToClose, ClosedBy
  <2> QED BY <1>1, <1>2, <2>1, ClosedTidy
<1> QED BY <1>1, <1>4, <1>5, <1>6

LEMMA TidyStep ==
    ASSUME OneUser, Typed, InFlight, Tidy, [Next]_vars
    PROVE  Tidy'
<1>1. ASSUME NEW u \in Users, OnOpened(u) \/ OnConfigured(u) \/ OnOpenFailed(u)
                              \/ OnClosed(u) \/ OnDeleted(u)
      PROVE  Tidy'
  <2>1. /\ UNCHANGED pluginVars
        /\ \E k : busy' = [busy EXCEPT ![u] = [kind |-> "configure", handle |-> k]]
                  \/ busy' = [busy EXCEPT ![u] = Idle]
      BY <1>1 DEF OnOpened, OnConfigured, OnOpenFailed, OnClosed, OnDeleted, Begin, End
  <2>2. \A v \in Users : busy'[v].kind = "delete" => busy[v].kind = "delete"
      BY <2>1 DEF Idle, Typed, DartTypes
  <2> QED BY <2>1, <2>2, PluginSameTidy
<1>2. ASSUME NEW u \in Users, OnCallbackError(u) PROVE Tidy'
  <2>1. /\ busy[u].kind = "configure" /\ \E id : PluginClose(u, id)
        /\ busy' = [busy EXCEPT ![u] = [kind |-> "fail", handle |-> busy[u].handle]]
      BY <1>2 DEF OnCallbackError, Begin
  <2>2. busy'[u].kind = "fail"
      BY <2>1 DEF Typed, DartTypes
  <2> QED BY <2>1, <2>2, PluginCloseTidy
<1>3. ASSUME NEW u \in Users, NEW k \in Handles, StartClose(u, k) PROVE Tidy'
  <2>1. CASE /\ \E id : PluginClose(u, id)
             /\ busy' = [busy EXCEPT ![u] = [kind |-> "close", handle |-> k]]
    <3>1. busy'[u].kind = "close" /\ busy[u].kind = "idle"
        BY <1>3, <2>1 DEF StartClose, Idle, Typed, DartTypes
    <3> QED BY <2>1, <3>1, PluginCloseTidy
  <2>2. CASE UNCHANGED busy /\ UNCHANGED pluginVars
      BY <2>2, PluginSameTidy
  <2> QED BY <1>3, <2>1, <2>2 DEF StartClose, Begin
<1>4. CASE UNCHANGED vars
  <2>1. UNCHANGED busy /\ UNCHANGED pluginVars
      BY <1>4 DEF vars, dartVars
  <2> QED BY <2>1, PluginSameTidy
<1> QED BY <1>1, <1>2, <1>3, <1>4, StartOpenTidy, StartDeleteTidy, PostTaskTidy, RunTaskTidy
        DEF Next

LEMMA TidyInvariant == OneUser => (Spec => [](Typed /\ InFlight /\ Tidy))
<1> SUFFICES ASSUME OneUser PROVE Spec => [](Typed /\ InFlight /\ Tidy)
    OBVIOUS
<1> DEFINE I == Typed /\ InFlight /\ Tidy
<1>1. Init => I
    BY TypedInit, InFlightInit, TidyInit
<1>2. I /\ [Next]_vars => I'
    BY TypedStep, InFlightStep, TidyStep DEF InFlight
<1> QED BY <1>1, <1>2, PTL DEF Spec

\* What the map has, somebody has or waits for: an id is in the answer to an
\* open, then in its handle, and leaves the map before the handle gives it up.
Claimed ==
    /\ \A id \in databaseMap : Wanted(id)
    /\ \A u \in Users : answer[u] # NoAnswer /\ answer[u].id # NoDatabase =>
          answer[u].ok /\ busy[u].kind = "open"
    /\ \A k \in Handles : phase[k] = "new" => nativeId[k] = NoDatabase
    /\ \A u \in Users :
          /\ busy[u].kind = "open" => nativeId[busy[u].handle] = NoDatabase
          /\ busy[u].kind = "fail" => nativeId[busy[u].handle] \notin databaseMap

LEMMA ClaimedInit == Init => Claimed
<1> SUFFICES ASSUME Init PROVE Claimed
    OBVIOUS
<1>1. \A u \in Users : busy[u].kind = "idle" /\ answer[u] = NoAnswer
    BY DEF Init, Idle
<1> QED BY <1>1 DEF Init, Claimed

\* The ids of the map are neither that of no answer nor that of no database.
LEMMA IdsOfMap ==
    ASSUME Typed, NEW id \in databaseMap
    PROVE  id # NoDatabase /\ id # NoAnswer.id
BY DatabasesInMap DEF Typed, PluginTypes, NoDatabase, NoAnswer

\* The map gets nothing new, user u has no id in its answer, and handle k,
\* which is the one that changes, none that stays in the map.
LEMMA ClaimedByOthers ==
    ASSUME Typed, Claimed, databaseMap' \subseteq databaseMap, NEW u \in Users, NEW k \in Handles,
           \A id \in databaseMap' : answer[u].id # id /\ nativeId[k] # id,
           \A v \in Users \ {u} : answer'[v] = answer[v],
           \A j \in Handles \ {k} : phase'[j] = phase[j],
           UNCHANGED nativeId
    PROVE  \A id \in databaseMap' : Wanted(id)'
<1> SUFFICES ASSUME NEW id \in databaseMap' PROVE Wanted(id)'
    OBVIOUS
<1>1. Wanted(id)
    BY DEF Claimed
<1> QED BY <1>1 DEF Wanted

LEMMA ClosingClaimed ==
    ASSUME OneUser, Typed, InFlight, Owned, Claimed, NEW u \in Users, NEW k \in Handles,
           busy[u].kind \in {"idle", "configure"}, PluginClose(u, nativeId[k]),
           NEW kind \in {"fail", "close"},
           busy' = [busy EXCEPT ![u] = [kind |-> kind, handle |-> k]],
           UNCHANGED nativeId, phase[k] # "new",
           phase' = phase \/ phase' = [phase EXCEPT ![k] = "closing"]
    PROVE  Claimed'
<1>1. answer[u] = NoAnswer
    BY NothingInFlight DEF Typed
<1>2. databaseMap' = databaseMap \ {nativeId[k]}
    BY DEF PluginClose, Unregister
<1>3. answer' = answer \/ Reply(u, FALSE, NoDatabase)
    BY DEF PluginClose
<1>4. /\ answer'[u] = NoAnswer \/ answer'[u].id = NoDatabase
      /\ \A v \in Users \ {u} : answer'[v] = answer[v]
    BY <1>1, <1>3 DEF Reply, Typed, PluginTypes
<1>5. \A j \in Handles \ {k} : phase'[j] = phase[j]
    BY DEF Typed, DartTypes
<1>6. \A id \in databaseMap' : Wanted(id)'
  <2>1. \A id \in databaseMap' : answer[u].id # id /\ nativeId[k] # id
      BY <1>1, <1>2, IdsOfMap
  <2> QED BY <1>2, <1>4, <1>5, <2>1, ClaimedByOthers
<1>7. busy'[u].kind = kind /\ busy'[u].handle = k
    BY DEF Typed, DartTypes
<1>8. \A j \in Handles : phase'[j] = "new" => nativeId'[j] = NoDatabase
  <2>1. phase'[k] # "new"
      BY DEF Typed, DartTypes
  <2> QED BY <1>5, <2>1 DEF Claimed
<1> QED BY <1>2, <1>4, <1>6, <1>7, <1>8 DEF Claimed, OneUser

\* An operation ends: its answer has no id of the map, and neither has its
\* handle if it leaves the live phases.
LEMMA EndClaimed ==
    ASSUME OneUser, Typed, Claimed, NEW u \in Users, End(u), UNCHANGED <<databaseMap, nativeId>>,
           answer[u] = NoAnswer \/ answer[u].id = NoDatabase,
           NEW k \in Handles, phase[k] # "new", NEW p, p # "new",
           \/ phase' = [phase EXCEPT ![k] = p] /\ p = "open"
           \/ /\ phase' = [phase EXCEPT ![k] = p]
              /\ nativeId[k] \notin databaseMap \/ phase[k] \notin {"opening", "open"}
           \/ UNCHANGED phase
    PROVE  Claimed'
<1>1. /\ answer'[u] = NoAnswer /\ busy'[u].kind = "idle"
      /\ \A v \in Users \ {u} : answer'[v] = answer[v]
    BY DEF End, Idle, Typed, DartTypes, PluginTypes
<1>2. \A j \in Handles \ {k} : phase'[j] = phase[j]
    BY DEF Typed, DartTypes
<1>3. \/ phase'[k] = "open"
      \/ nativeId[k] \notin databaseMap \/ phase[k] \notin {"opening", "open"}
      \/ phase'[k] = phase[k]
    BY DEF Typed, DartTypes
<1>4. ASSUME NEW id \in databaseMap PROVE Wanted(id)'
  <2>1. answer[u].id # id
      BY IdsOfMap
  <2>2. PICK j \in Handles : nativeId[j] = id /\ phase[j] \in {"opening", "open"}
      BY <2>1 DEF Claimed, Wanted, OneUser
  <2>3. phase'[j] \in {"opening", "open"}
      BY <1>2, <1>3, <2>2
  <2> QED BY <2>2, <2>3 DEF Wanted
<1>5. \A j \in Handles : phase'[j] = "new" => nativeId'[j] = NoDatabase
  <2>1. phase'[k] # "new"
      BY DEF Typed, DartTypes
  <2> QED BY <1>2, <2>1 DEF Claimed
<1> QED BY <1>1, <1>4, <1>5 DEF Claimed, OneUser

\* A task answers its user, who waits for it.
LEMMA AnswerClaimed ==
    ASSUME OneUser, Typed, InFlight, Claimed, NEW t \in Pending, NEW ok, Reply(t.user, ok, NoDatabase),
           UNCHANGED <<databaseMap, nativeId, phase, busy>>
    PROVE  Claimed'
<1>1. t.user \in Users /\ answer[t.user] = NoAnswer
    BY PendingTasks DEF Typed, Task, InFlight
<1>2. /\ answer'[t.user].id = NoDatabase
      /\ \A v \in Users \ {t.user} : answer'[v] = answer[v]
    BY <1>1 DEF Reply, Typed, PluginTypes
<1>3. ASSUME NEW id \in databaseMap PROVE Wanted(id)'
    BY <1>1, IdsOfMap DEF Claimed, Wanted, OneUser
<1> QED BY <1>1, <1>2, <1>3 DEF Claimed, OneUser

LEMMA StartOpenClaimed ==
    ASSUME OneUser, Typed, InFlight, Claimed, NEW u \in Users, NEW isSingle \in BOOLEAN,
           StartOpen(u, isSingle)
    PROVE  Claimed'
<1>1. PICK k \in Handles :
        /\ phase[k] = "new" /\ phase' = [phase EXCEPT ![k] = "opening"]
        /\ busy' = [busy EXCEPT ![u] = [kind |-> "open", handle |-> k]]
    BY DEF StartOpen, Begin
<1>2. answer[u] = NoAnswer
    BY NothingInFlight DEF StartOpen, Idle, Typed
<1>3. /\ UNCHANGED <<databaseMap, nativeId>>
      /\ answer' = answer \/ \E id : Reply(u, TRUE, id)
    BY DEF StartOpen, PluginOpen
<1>4. answer'[u] = NoAnswer \/ answer'[u].ok
    BY <1>2, <1>3 DEF Reply, Typed, PluginTypes
<1>5. /\ busy'[u].kind = "open" /\ busy'[u].handle = k /\ phase'[k] = "opening"
      /\ \A j \in Handles \ {k} : phase'[j] = phase[j]
    BY <1>1 DEF Typed, DartTypes
<1>6. ASSUME NEW id \in databaseMap PROVE Wanted(id)'
    BY <1>1, <1>2, <1>3, <1>5, IdsOfMap DEF Claimed, Wanted, OneUser
<1> QED BY <1>1, <1>3, <1>4, <1>5, <1>6 DEF Claimed, OneUser

LEMMA OnOpenedClaimed ==
    ASSUME OneUser, Typed, Owned, Claimed, NEW u \in Users, OnOpened(u)
    PROVE  Claimed'
<1>0. PICK k : k = busy[u].handle
    OBVIOUS
<1>1. /\ busy[u].kind = "open" /\ k \in Handles /\ phase[k] = "opening"
      /\ nativeId[k] = NoDatabase
    BY <1>0 DEF OnOpened, Answered, Owned, Claimed
<1>2. /\ nativeId' = [nativeId EXCEPT ![k] = answer[u].id]
      /\ answer' = [answer EXCEPT ![u] = NoAnswer]
      /\ busy' = [busy EXCEPT ![u] = [kind |-> "configure", handle |-> k]]
      /\ UNCHANGED <<phase, databaseMap>>
    BY <1>0 DEF OnOpened, Begin, pluginVars
<1>3. /\ nativeId'[k] = answer[u].id /\ \A j \in Handles \ {k} : nativeId'[j] = nativeId[j]
      /\ answer'[u] = NoAnswer /\ busy'[u].kind = "configure"
    BY <1>1, <1>2 DEF Typed, DartTypes, PluginTypes
<1>4. ASSUME NEW id \in databaseMap PROVE Wanted(id)'
  <2>1. CASE answer[u].id = id
      BY <1>1, <1>2, <1>3, <2>1 DEF Wanted
  <2>2. CASE answer[u].id # id
    <3>1. PICK j \in Handles : nativeId[j] = id /\ phase[j] \in {"opening", "open"}
        BY <2>2 DEF Claimed, Wanted, OneUser
    <3>2. j # k
        BY <1>1, <3>1, IdsOfMap
    <3> QED BY <1>2, <1>3, <3>1, <3>2 DEF Wanted
  <2> QED BY <2>1, <2>2
<1> QED BY <1>1, <1>2, <1>3, <1>4 DEF Claimed, OneUser

LEMMA RunTaskClaimed ==
    ASSUME OneUser, Typed, InFlight, Claimed, RunTask
    PROVE  Claimed'
<1>0. PICK t : t = Head(pool)
    OBVIOUS
<1>1. /\ t \in Pending /\ t.user \in Users /\ answer[t.user] = NoAnswer
      /\ UNCHANGED <<busy, phase, nativeId>>
      /\ Opened(t) \/ NotOpened(t) \/ NothingToClose(t) \/ ClosedBy(t)
    BY <1>0, TaskRun DEF InFlight, RunTask, Task
<1>2. CASE Opened(t)
  <2>1. /\ databaseMap' = databaseMap \cup {t.database} /\ busy[t.user].kind = "open"
        /\ Reply(t.user, TRUE, t.database)
      BY <1>1, <1>2 DEF Opened, InFlight, AwaitedBy
  <2>2. answer'[t.user].id = t.database /\ answer'[t.user].ok
      BY <1>1, <2>1 DEF Reply, Typed, PluginTypes
  <2>3. ASSUME NEW id \in databaseMap PROVE Wanted(id)'
      BY <1>1, IdsOfMap DEF Claimed, Wanted, OneUser
  <2>4. Wanted(t.database)'
      BY <1>1, <2>2 DEF Wanted
  <2> QED BY <1>1, <2>1, <2>2, <2>3, <2>4 DEF Claimed, OneUser
<1>3. CASE NotOpened(t) \/ NothingToClose(t) \/ ClosedBy(t)
    BY <1>1, <1>3, AnswerClaimed DEF NotOpened, NothingToClose, ClosedBy
<1> QED BY <1>1, <1>2, <1>3

LEMMA ClaimedStep ==
    ASSUME OneUser, Typed, InFlight, Owned, Claimed, [Next]_vars
    PROVE  Claimed'
<1>1. ASSUME NEW u \in Users, OnConfigured(u) \/ OnOpenFailed(u) \/ OnClosed(u)
      PROVE  Claimed'
  <2>0. PICK k : k = busy[u].handle
      OBVIOUS
  <2>1. /\ End(u) /\ UNCHANGED <<databaseMap, nativeId>>
        /\ busy[u].kind \in {"open", "configure", "fail", "close"}
      BY <1>1 DEF OnConfigured, OnOpenFailed, OnClosed, Answered, pluginVars
  <2>2. k \in Handles /\ phase[k] \in {"opening", "closing"}
        /\ (busy[u].kind = "close" => phase[k] = "closing")
      BY <2>0, <2>1 DEF Owned
  <2>3. answer[u] = NoAnswer \/ answer[u].id = NoDatabase
      BY <1>1 DEF OnConfigured, OnOpenFailed, OnClosed, Answered, Claimed, InFlight
  <2>4. \/ phase' = [phase EXCEPT ![k] = "open"]
        \/ phase' = [phase EXCEPT ![k] = "failed"] /\ busy[u].kind \in {"open", "fail"}
        \/ phase' = [phase EXCEPT ![k] = "closed"] /\ busy[u].kind = "close"
      BY <1>1, <2>0 DEF OnConfigured, OnOpenFailed, OnClosed, Answered
  <2>5. busy[u].kind \in {"open", "fail"} => nativeId[k] \notin databaseMap
      BY <2>0, IdsOfMap DEF Claimed
  <2> QED BY <2>1, <2>2, <2>3, <2>4, <2>5, EndClaimed
<1>2. ASSUME NEW u \in Users, OnCallbackError(u) PROVE Claimed'
  <2>0. PICK k : k = busy[u].handle
      OBVIOUS
  <2>1. /\ busy[u].kind = "configure" /\ PluginClose(u, nativeId[k])
        /\ busy' = [busy EXCEPT ![u] = [kind |-> "fail", handle |-> k]]
        /\ UNCHANGED <<nativeId, phase>>
      BY <1>2, <2>0 DEF OnCallbackError, Begin
  <2>2. k \in Handles /\ phase[k] # "new"
      BY <2>0, <2>1 DEF Owned
  <2> QED BY <2>1, <2>2, ClosingClaimed
<1>3. ASSUME NEW u \in Users, NEW k \in Handles, StartClose(u, k) PROVE Claimed'
  <2>1. busy[u].kind = "idle" /\ phase[k] # "new" /\ UNCHANGED nativeId
      BY <1>3 DEF StartClose, Idle
  <2>2. CASE /\ PluginClose(u, nativeId[k])
             /\ busy' = [busy EXCEPT ![u] = [kind |-> "close", handle |-> k]]
             /\ phase' = [phase EXCEPT ![k] = "closing"]
      BY <2>1, <2>2, ClosingClaimed
  <2>3. CASE UNCHANGED <<busy, answer, phase>> /\ UNCHANGED pluginVars
      BY <2>1, <2>3 DEF Claimed, Wanted, pluginVars
  <2> QED BY <1>3, <2>2, <2>3 DEF StartClose, Begin
<1>4. ASSUME NEW u \in Users, StartDelete(u) PROVE Claimed'
  <2>1. /\ databaseMap' \subseteq databaseMap /\ UNCHANGED <<answer, phase, nativeId>>
        /\ busy' = [busy EXCEPT ![u] = [kind |-> "delete", handle |-> NoHandle]]
        /\ answer[u] = NoAnswer
      BY <1>4, NothingInFlight DEF StartDelete, PluginDelete, Unregister, Begin, Idle, Typed
  <2>2. busy'[u].kind = "delete"
      BY <2>1 DEF Typed, DartTypes
  <2>3. \A id \in databaseMap' : Wanted(id)'
      BY <2>1 DEF Claimed, Wanted
  <2> QED BY <2>1, <2>2, <2>3 DEF Claimed, OneUser
<1>5. ASSUME NEW u \in Users, OnDeleted(u) PROVE Claimed'
  <2>1. /\ answer' = [answer EXCEPT ![u] = NoAnswer] /\ busy' = [busy EXCEPT ![u] = Idle]
        /\ UNCHANGED <<databaseMap, phase, nativeId>> /\ answer[u].id = NoDatabase
      BY <1>5 DEF OnDeleted, End, Answered, Claimed, pluginVars
  <2>2. answer'[u] = NoAnswer /\ busy'[u].kind = "idle"
      BY <2>1 DEF Idle, Typed, DartTypes, PluginTypes
  <2>3. \A id \in databaseMap : Wanted(id)'
      BY <2>1, IdsOfMap DEF Claimed, Wanted, OneUser
  <2> QED BY <2>1, <2>2, <2>3 DEF Claimed, OneUser
<1>6. CASE PostTask
  <2>1. UNCHANGED <<databaseMap, nativeId, phase, busy>>
      BY <1>6 DEF PostTask
  <2>2. CASE UNCHANGED answer
      BY <2>1, <2>2 DEF Claimed, Wanted
  <2>3. CASE handling \in Pending /\ \E ok : Reply(handling.user, ok, NoDatabase)
      BY <2>1, <2>3, AnswerClaimed
  <2> QED BY <1>6, <2>2, <2>3, TaskPosted DEF InFlight
<1>7. CASE UNCHANGED vars
    BY <1>7 DEF vars, dartVars, pluginVars, Claimed, Wanted
<1> QED BY <1>1, <1>2, <1>3, <1>4, <1>5, <1>6, <1>7, StartOpenClaimed, OnOpenedClaimed,
           RunTaskClaimed DEF Next

\* With one user of the plugin, whatever it opens, closes again and deletes,
\* no connection is forgotten: neither one that no map has, nor one that the
\* map has and no object.
THEOREM ConnectionsAreKept == OneUser => (Spec => []NoLeakedConnection)
<1> SUFFICES ASSUME OneUser PROVE Spec => []NoLeakedConnection
    OBVIOUS
<1>1. Init => Owned /\ Claimed
    BY OwnedInit, ClaimedInit
<1>2. Typed /\ InFlight /\ Owned /\ Claimed /\ [Next]_vars => (Owned /\ Claimed)'
    BY OwnedStep, ClaimedStep
<1>3. Typed /\ Tidy /\ Claimed => NoLeakedConnection
  <2> SUFFICES ASSUME Typed, Tidy, Claimed, NEW id \in 1..lastDatabaseId, instance[id].open,
                      id \notin databaseMap
               PROVE  ToBeClosed(id)
      BY DEF NoLeakedConnection, Claimed
  <2>1. PICK t \in Pending : t.database = id
      BY DEF Tidy, Kept
  <2> QED BY <2>1 DEF Pending, ToBeClosed
<1> QED BY <1>1, <1>2, <1>3, TidyInvariant, PTL DEF Spec

\* And when delete answers, no single instance of the path is open.
DeletedStep ==
    \A u \in Users :
        busy[u].kind = "delete" /\ answer[u] = NoAnswer /\ answer'[u] # NoAnswer =>
            \A id \in 1..lastDatabaseId :
                instance[id].path = PathOf[u] /\ instance[id].single => ~instance'[id].open

LEMMA DeleteStep ==
    ASSUME OneUser, Typed, InFlight, Tidy, [Next]_vars
    PROVE  DeletedStep
<1> SUFFICES ASSUME NEW u \in Users, busy[u].kind = "delete", answer[u] = NoAnswer,
                    answer'[u] # NoAnswer, NEW id \in 1..lastDatabaseId, instance[id].single
             PROVE  ~instance'[id].open
    BY DEF DeletedStep
<1>1. PostTask \/ RunTask
  <2>1. ASSUME NEW v \in Users, busy[v] = Idle PROVE FALSE
      BY <2>1 DEF OneUser, Idle
  <2>2. ASSUME NEW v \in Users, NEW isSingle, StartOpen(v, isSingle) PROVE FALSE
      BY <2>1, <2>2 DEF StartOpen
  <2>3. ASSUME NEW v \in Users, StartDelete(v) PROVE FALSE
      BY <2>1, <2>3 DEF StartDelete
  <2>4. ASSUME NEW v \in Users, NEW k, StartClose(v, k) PROVE FALSE
      BY <2>1, <2>4 DEF StartClose
  <2>5. ASSUME NEW v \in Users, OnOpened(v) \/ OnConfigured(v) \/ OnOpenFailed(v)
                                \/ OnClosed(v) \/ OnDeleted(v)
        PROVE  FALSE
    <3>1. answer' = [answer EXCEPT ![v] = NoAnswer]
        BY <2>5 DEF OnOpened, OnConfigured, OnOpenFailed, OnClosed, OnDeleted, End
    <3> QED BY <3>1 DEF Typed, PluginTypes
  <2>6. ASSUME NEW v \in Users, OnCallbackError(v) PROVE FALSE
      BY <2>6 DEF OnCallbackError, OneUser
  <2>7. CASE UNCHANGED vars
      BY <2>7 DEF vars, dartVars
  <2> QED BY <2>2, <2>3, <2>4, <2>5, <2>6, <2>7 DEF Next
<1>2. PICK t \in Pending :
        \/ t.database = NoDatabase /\ UNCHANGED instance
        \/ t.database \in 1..lastDatabaseId /\ instance' = Closed(t.database)
  <2>1. CASE PostTask
    <3>1. PICK t : t = handling
        OBVIOUS
    <3>2. ~UNCHANGED answer
        OBVIOUS
    <3>3. /\ t \in Pending
          /\ \/ UNCHANGED instance /\ t.kind = "close"
             \/ UNCHANGED instance /\ t.database = NoDatabase
             \/ t.database \in 1..lastDatabaseId /\ instance' = Closed(t.database)
        BY <2>1, <3>1, <3>2, TaskPosted DEF InFlight
    <3>4. t.user \in Users
        BY <3>3, PendingTasks DEF Typed, Task
    <3>5. t.kind # "close"
        BY <3>3, <3>4 DEF InFlight, AwaitedBy, OneUser
    <3> QED BY <3>3, <3>5
  <2>2. CASE RunTask
    <3>1. PICK t : t = Head(pool)
        OBVIOUS
    <3>2. /\ t \in Pending /\ t.user \in Users
          /\ Opened(t) \/ NotOpened(t) \/ NothingToClose(t) \/ ClosedBy(t)
        BY <2>2, <3>1, TaskRun DEF InFlight, Task
    <3>3. t.kind # "open"
        BY <3>2 DEF InFlight, AwaitedBy, OneUser
    <3> QED BY <3>2, <3>3 DEF Opened, NotOpened, NothingToClose, ClosedBy
  <2> QED BY <1>1, <2>1, <2>2
<1>3. instance[id].open => id = t.database
  <2>1. id \notin databaseMap
      BY DEF Tidy, NoSingleLeft
  <2> QED BY <2>1, <1>2, OnePending DEF Tidy, Kept
<1>4. CASE id = t.database
    BY <1>2, <1>4, DatabaseClosed DEF Typed, NoDatabase
<1>5. CASE id # t.database
  <2>1. instance'[id].open = instance[id].open
      BY <1>2, <1>5, DatabaseClosed DEF Typed
  <2> QED BY <1>3, <1>5, <2>1
<1> QED BY <1>4, <1>5

\* Deleting a path never leaves a connection of that path open that a database
\* object was using: the plugin closes the registered single instance before it
\* removes the files, when one user has each path.
THEOREM DeleteCloses == OneUser => (Spec => DeleteClosesConnections)
<1> SUFFICES ASSUME OneUser PROVE Spec => DeleteClosesConnections
    OBVIOUS
<1>1. Typed /\ InFlight /\ Tidy /\ [Next]_vars => [DeletedStep]_vars
    BY DeleteStep
<1>2. Spec => [][DeletedStep]_vars
    BY <1>1, TidyInvariant, PTL DEF Spec
<1>3. DeleteClosesConnections <=> [][DeletedStep]_vars
    BY DEF DeleteClosesConnections, DeletedStep
<1> QED BY <1>2, <1>3
=============================================================================
