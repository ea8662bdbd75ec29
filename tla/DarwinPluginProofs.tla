------------------------- MODULE DarwinPluginProofs -------------------------
(***************************************************************************)
(* What is proved of DarwinPlugin for every set of callers and paths and   *)
(* every number of databases: the two maps agree, a database that can be   *)
(* called keeps its connection, and no connection outlives the last block  *)
(* and the last waiting operation that have it.                            *)
(*                                                                         *)
(* The three hold together.  They rest on the types, on maps that hold     *)
(* known ids only, and on the fact that a block that closes a connection   *)
(* belongs to a database that left the map: ids are never given again.     *)
(***************************************************************************)
EXTENDS DarwinPlugin, TLAPS

TypeOK ==
    /\ database \in Seq([path : Paths, single : BOOLEAN])
    /\ databaseMap \subseteq Ids
    /\ singleInstanceDatabaseMap \in [Paths -> {NoDatabase} \cup databaseMap]
    /\ connections \subseteq Ids
    /\ \A b \in blocks : b.id \in Ids

\* A database that is being closed cannot be called.
ClosedForGood ==
    \A b \in blocks :
        b.kind \in {"close", "delete", "deleteFile"} => b.id \notin databaseMap

Inv == TypeOK /\ ClosedForGood /\ OneInstance /\ UsableHandles /\ NoLeakedConnection

-----------------------------------------------------------------------------
\* Ids are the positions in `database': a new one is none of the old ones.
LEMMA NewId ==
    ASSUME NEW S, NEW s \in Seq(S), NEW e \in S
    PROVE  /\ Append(s, e) \in Seq(S)
           /\ Len(s) + 1 \notin DOMAIN s
           /\ Len(s) + 1 # NoDatabase
           /\ DOMAIN Append(s, e) = DOMAIN s \cup {Len(s) + 1}
           /\ \A i \in DOMAIN s : Append(s, e)[i] = s[i] /\ i # NoDatabase
           /\ Append(s, e)[Len(s) + 1] = e
BY DEF NoDatabase

LEMMA ElementOf ==
    ASSUME NEW S, NEW s \in Seq(S), NEW i \in DOMAIN s
    PROVE  s[i] \in S
OBVIOUS

LEMMA InitInv == Init => Inv
<1> SUFFICES ASSUME Init PROVE Inv
    OBVIOUS
<1>1. DOMAIN database = {} /\ database \in Seq([path : Paths, single : BOOLEAN])
    BY DEF Init
<1> QED BY <1>1 DEF Init, Inv, TypeOK, Ids, ClosedForGood, OneInstance, UsableHandles,
                   NoLeakedConnection, NoDatabase

-----------------------------------------------------------------------------
\* A new database is in both maps, connected, and nobody else's.
LEMMA OpenPreserves ==
    ASSUME Inv, NEW c \in Callers, NEW p \in Paths, NEW single \in BOOLEAN,
           OpenDatabase(c, p, single)
    PROVE  Inv'
<1> DEFINE new == Len(database) + 1
           Entry == [path |-> p, single |-> single]
<1>1. Entry \in [path : Paths, single : BOOLEAN]
    OBVIOUS
<1>2. database \in Seq([path : Paths, single : BOOLEAN])
    BY DEF Inv, TypeOK
<1>3. /\ database' = Append(database, Entry)
      /\ databaseMap' = databaseMap \cup {new}
      /\ singleInstanceDatabaseMap' =
           IF single THEN [singleInstanceDatabaseMap EXCEPT ![p] = new]
           ELSE singleInstanceDatabaseMap
      /\ connections' = connections \cup {new}
      /\ blocks' = blocks \cup {[kind |-> "prepare", id |-> new, caller |-> NoCaller]}
      /\ waiting' = waiting
      /\ single => singleInstanceDatabaseMap[p] = NoDatabase
    BY DEF OpenDatabase, Register, gateVars
<1>4. /\ database' \in Seq([path : Paths, single : BOOLEAN])
      /\ new \notin Ids /\ new # NoDatabase
      /\ Ids' = Ids \cup {new}
      /\ \A i \in Ids : database'[i] = database[i] /\ i # NoDatabase
      /\ database'[new] = Entry
  <2>1. /\ Append(database, Entry) \in Seq([path : Paths, single : BOOLEAN])
        /\ new \notin DOMAIN database /\ new # NoDatabase
        /\ DOMAIN Append(database, Entry) = DOMAIN database \cup {new}
        /\ \A i \in DOMAIN database :
             Append(database, Entry)[i] = database[i] /\ i # NoDatabase
        /\ Append(database, Entry)[new] = Entry
    <3> DEFINE S == [path : Paths, single : BOOLEAN]
    <3>1. Entry \in S /\ database \in Seq(S)
        BY <1>1, <1>2
    <3> HIDE DEF S, Entry
    <3>2. /\ Append(database, Entry) \in Seq(S)
          /\ new \notin DOMAIN database /\ new # NoDatabase
          /\ DOMAIN Append(database, Entry) = DOMAIN database \cup {new}
          /\ \A i \in DOMAIN database :
               Append(database, Entry)[i] = database[i] /\ i # NoDatabase
          /\ Append(database, Entry)[new] = Entry
        BY <3>1, NewId
    <3> QED BY <3>2 DEF S
  <2>2. database' = Append(database, Entry)
      BY <1>3
  <2> HIDE DEF new, Entry
  <2> QED BY <2>1, <2>2, Zenon DEF Ids
<1> HIDE DEF new
<1>5. TypeOK'
    BY <1>3, <1>4 DEF Inv, TypeOK
<1>6. ClosedForGood'
    BY <1>3, <1>4 DEF Inv, TypeOK, ClosedForGood
<1>7. OneInstance'
  <2> SUFFICES ASSUME NEW q \in Paths, NEW id \in Ids'
               PROVE  singleInstanceDatabaseMap'[q] = id <=>
                      (id \in databaseMap' /\ database'[id].single /\ database'[id].path = q)
      BY DEF OneInstance
  <2>1. singleInstanceDatabaseMap \in [Paths -> {NoDatabase} \cup databaseMap]
        /\ databaseMap \subseteq Ids
      BY DEF Inv, TypeOK
  <2>4. singleInstanceDatabaseMap'[q] =
           IF single /\ q = p THEN new ELSE singleInstanceDatabaseMap[q]
      BY <1>3, <2>1
  <2>5. Entry.path = p /\ Entry.single = single
      OBVIOUS
  <2> HIDE DEF Entry
  <2>6. singleInstanceDatabaseMap[q] \in {NoDatabase} \cup databaseMap
      BY <2>1
  <2>2. CASE id = new
      BY <1>3, <1>4, <2>1, <2>2, <2>4, <2>5, <2>6
  <2>3. CASE id \in Ids
    <3>1. singleInstanceDatabaseMap[q] = id <=>
             (id \in databaseMap /\ database[id].single /\ database[id].path = q)
        BY <2>3 DEF Inv, OneInstance
    <3>2. id # new /\ id # NoDatabase /\ database'[id] = database[id]
        BY <1>4, <2>3
    <3>3. single /\ q = p => singleInstanceDatabaseMap[q] = NoDatabase
        BY <1>3
    <3> QED BY <1>3, <2>4, <3>1, <3>2, <3>3
  <2> QED BY <1>4, <2>2, <2>3
<1>8. UsableHandles' /\ NoLeakedConnection'
    BY <1>3 DEF Inv, UsableHandles, NoLeakedConnection
<1> QED BY <1>5, <1>6, <1>7, <1>8 DEF Inv

\* A statement only adds a block.
LEMMA StatementPreserves ==
    ASSUME Inv, NEW c \in Callers, NEW id \in Ids, Statement(c, id)
    PROVE  Inv'
<1>1. /\ database' = database /\ databaseMap' = databaseMap
      /\ singleInstanceDatabaseMap' = singleInstanceDatabaseMap
      /\ connections' = connections /\ waiting' = waiting
      /\ blocks' = blocks \cup {[kind |-> "statement", id |-> id, caller |-> c]}
    BY DEF Statement, mapVars, gateVars, Dispatch
<1>2. Ids' = Ids
    BY <1>1 DEF Ids
<1> QED BY <1>1, <1>2 DEF Inv, TypeOK, ClosedForGood, OneInstance, UsableHandles,
                         NoLeakedConnection

\* closeDatabase, by itself or for a delete: the database leaves both maps,
\* and a block that has it takes over its connection.
LEMMA UnregisterPreserves ==
    ASSUME Inv, NEW c \in Callers, NEW id \in databaseMap,
           NEW kind \in {"close", "delete"},
           Unregister(id), Dispatch(c, kind, id), UNCHANGED <<gateVars, connections>>
    PROVE  Inv'
<1>1. /\ database' = database /\ connections' = connections /\ waiting' = waiting
      /\ databaseMap' = databaseMap \ {id}
      /\ blocks' = blocks \cup {[kind |-> kind, id |-> id, caller |-> c]}
      /\ singleInstanceDatabaseMap' =
           IF database[id].single
           THEN [singleInstanceDatabaseMap EXCEPT ![database[id].path] = NoDatabase]
           ELSE singleInstanceDatabaseMap
    BY DEF Unregister, Dispatch, gateVars
<1>2. Ids' = Ids /\ id \in Ids
    BY <1>1 DEF Ids, Inv, TypeOK
<1>3. database[id].path \in Paths /\ database[id].single \in BOOLEAN
  <2>1. database \in Seq([path : Paths, single : BOOLEAN]) /\ id \in DOMAIN database
      BY <1>2 DEF Inv, TypeOK, Ids
  <2>2. database[id] \in [path : Paths, single : BOOLEAN]
    <3> DEFINE S == [path : Paths, single : BOOLEAN]
    <3>1. database \in Seq(S) /\ id \in DOMAIN database
        BY <2>1
    <3> HIDE DEF S
    <3>2. database[id] \in S
        BY <3>1, ElementOf
    <3> QED BY <3>2 DEF S
  <2> QED BY <2>2
<1>4. \A i \in Ids : i # NoDatabase
    BY DEF Inv, TypeOK, Ids, NoDatabase
<1>5. \A q \in Paths : singleInstanceDatabaseMap[q] = id =>
                          database[id].single /\ database[id].path = q
    BY <1>2 DEF Inv, OneInstance
<1>6. TypeOK'
  <2>1. \A q \in Paths : singleInstanceDatabaseMap'[q] \in {NoDatabase} \cup databaseMap'
      BY <1>1, <1>3, <1>5 DEF Inv, TypeOK
  <2>2. singleInstanceDatabaseMap' \in [Paths -> {NoDatabase} \cup databaseMap']
    <3>1. singleInstanceDatabaseMap \in [Paths -> {NoDatabase} \cup databaseMap]
        BY DEF Inv, TypeOK
    <3>2. /\ DOMAIN singleInstanceDatabaseMap' = Paths
          /\ singleInstanceDatabaseMap' = [q \in Paths |-> singleInstanceDatabaseMap'[q]]
        BY <1>1, <3>1
    <3> QED BY <2>1, <3>2
  <2> DEFINE added == [kind |-> kind, id |-> id, caller |-> c]
  <2>3. added.id = id
      OBVIOUS
  <2>4. blocks' = blocks \cup {added}
      BY <1>1
  <2> HIDE DEF added
  <2>5. \A b \in blocks' : b.id \in Ids'
      BY <1>2, <2>3, <2>4 DEF Inv, TypeOK
  <2>6. /\ database' \in Seq([path : Paths, single : BOOLEAN])
        /\ databaseMap' \subseteq Ids' /\ connections' \subseteq Ids'
      BY <1>1, <1>2 DEF Inv, TypeOK
  <2> QED BY <2>2, <2>5, <2>6 DEF TypeOK
<1>7. ClosedForGood'
    BY <1>1 DEF Inv, ClosedForGood
<1>8. OneInstance'
  <2> SUFFICES ASSUME NEW q \in Paths, NEW i \in Ids
               PROVE  singleInstanceDatabaseMap'[q] = i <=>
                      (i \in databaseMap' /\ database[i].single /\ database[i].path = q)
      BY <1>1, <1>2 DEF OneInstance
  <2>1. singleInstanceDatabaseMap[q] = i <=>
           (i \in databaseMap /\ database[i].single /\ database[i].path = q)
      BY DEF Inv, OneInstance
  <2>2. singleInstanceDatabaseMap \in [Paths -> {NoDatabase} \cup databaseMap]
      BY DEF Inv, TypeOK
  <2>3. singleInstanceDatabaseMap[database[id].path] = id <=> database[id].single
      BY <1>2, <1>3 DEF Inv, OneInstance
  <2> QED BY <1>1, <1>3, <1>4, <2>1, <2>2, <2>3
<1>9. UsableHandles' /\ NoLeakedConnection'
  <2> DEFINE added == [kind |-> kind, id |-> id, caller |-> c]
  <2>1. added.id = id /\ blocks' = blocks \cup {added}
      BY <1>1
  <2> HIDE DEF added
  <2>2. UsableHandles'
      BY <1>1 DEF Inv, UsableHandles
  <2>3. NoLeakedConnection'
      BY <1>1, <2>1 DEF Inv, NoLeakedConnection
  <2> QED BY <2>2, <2>3
<1> QED BY <1>6, <1>7, <1>8, <1>9 DEF Inv

\* A delete that finds no single instance touches the file only.
LEMMA DeletePreserves ==
    ASSUME Inv, NEW c \in Callers, NEW p \in Paths, DeleteDatabase(c, p)
    PROVE  Inv'
<1> DEFINE found == singleInstanceDatabaseMap[p]
<1>1. CASE found # NoDatabase
  <2>1. found \in databaseMap
      BY <1>1 DEF Inv, TypeOK
  <2>2. Unregister(found) /\ Dispatch(c, "delete", found) /\ UNCHANGED <<gateVars, connections>>
      BY <1>1 DEF DeleteDatabase
  <2> QED BY <2>1, <2>2, UnregisterPreserves
<1>2. CASE found = NoDatabase
  <2>1. /\ UNCHANGED <<database, databaseMap, singleInstanceDatabaseMap>>
        /\ UNCHANGED <<blocks, waiting, connections>>
      BY <1>2 DEF DeleteDatabase, mapVars, gateVars
  <2> QED BY <2>1 DEF Inv, TypeOK, Ids, ClosedForGood, OneInstance, UsableHandles,
                     NoLeakedConnection
<1> QED BY <1>1, <1>2

-----------------------------------------------------------------------------
\* The end of a block: whatever the connection of its database is then, and
\* whoever waits in its gate, no other database notices, and a registered one
\* keeps its own.
LEMMA ReleasePreserves ==
    ASSUME Inv, NEW b \in blocks, NEW open,
           UNCHANGED mapVars,
           blocks' = blocks \ {b},
           ReleaseConnections(b, open),
           \A w \in waiting : w.id # b.id => w \in waiting',
           open \subseteq Ids, connections \ {b.id} \subseteq open,
           open \ {b.id} \subseteq connections,
           b.id \in databaseMap => b.id \in open
    PROVE  Inv'
<1>1. /\ database' = database /\ databaseMap' = databaseMap
      /\ singleInstanceDatabaseMap' = singleInstanceDatabaseMap
      /\ Ids' = Ids
    BY DEF mapVars, Ids
<1>2. connections' = IF \/ b.id \in databaseMap
                        \/ \E other \in (blocks \ {b}) \cup waiting' : other.id = b.id
                     THEN open
                     ELSE open \ {b.id}
    BY DEF ReleaseConnections
<1>3. TypeOK' /\ ClosedForGood' /\ OneInstance'
    BY <1>1, <1>2 DEF Inv, TypeOK, ClosedForGood, OneInstance
<1>4. UsableHandles'
    BY <1>1, <1>2 DEF Inv, UsableHandles
<1>5. NoLeakedConnection'
  <2> SUFFICES ASSUME NEW id \in connections', id \notin databaseMap
               PROVE  \E x \in (blocks \ {b}) \cup waiting' : x.id = id
      BY <1>1 DEF NoLeakedConnection
  <2>1. CASE id = b.id
      BY <1>2, <2>1
  <2>2. CASE id # b.id
    <3>1. id \in connections
        BY <1>2, <2>2
    <3>2. PICK x \in blocks \cup waiting : x.id = id
        BY <3>1 DEF Inv, NoLeakedConnection
    <3> QED BY <2>2, <3>2
  <2> QED BY <2>1, <2>2
<1> QED BY <1>3, <1>4, <1>5 DEF Inv

\* A statement that runs, waits or ends a transaction leaves those in peace
\* that wait for another database.
LEMMA StatementRuns ==
    ASSUME NEW b, NEW isOpen \in BOOLEAN, RunStatement(b, isOpen)
    PROVE  \A w \in waiting : w.id # b.id => w \in waiting'
<1>1. CASE waiting' = waiting \/ waiting' = waiting \cup {b}
    BY <1>1
<1>2. CASE EndTransaction(b)
  <2>1. PICK ran \in SUBSET WaitingFor(b.id) : waiting' = waiting \ ran
      BY <1>2 DEF EndTransaction
  <2> QED BY <2>1 DEF WaitingFor
<1> QED BY <1>1, <1>2 DEF RunStatement

LEMMA BlockPreserves ==
    ASSUME Inv, NEW b \in blocks, RunBlock(b)
    PROVE  Inv'
<1>1. UNCHANGED mapVars
    BY DEF RunBlock
<1>2. b.id \in Ids /\ connections \subseteq Ids /\ databaseMap \subseteq connections
    BY DEF Inv, TypeOK, UsableHandles
<1>3. CASE RunDelete(b)
  <2>1. /\ connections' = connections \ {b.id} /\ waiting' = waiting
        /\ blocks' = (blocks \ {b}) \cup {[kind |-> "deleteFile", id |-> b.id, caller |-> b.caller]}
      BY <1>3 DEF RunDelete, gateVars
  <2>2. b.id \notin databaseMap
      BY <1>3 DEF RunDelete, Inv, ClosedForGood
  <2>3. /\ database' = database /\ databaseMap' = databaseMap
        /\ singleInstanceDatabaseMap' = singleInstanceDatabaseMap
        /\ Ids' = Ids
      BY <1>1 DEF mapVars, Ids
  <2> QED BY <2>1, <2>2, <2>3 DEF Inv, TypeOK, ClosedForGood, OneInstance,
                                       UsableHandles, NoLeakedConnection
<1>4. CASE blocks' = blocks \ {b} /\ RunInDatabase(b)
  <2>1. PICK isOpen \in IF MayFail /\ b.id \notin connections THEN BOOLEAN ELSE {TRUE} :
          /\ \/ b.kind = "prepare" /\ UNCHANGED gateVars
             \/ b.kind = "statement" /\ RunStatement(b, isOpen)
          /\ ReleaseConnections(b, IF isOpen THEN connections \cup {b.id} ELSE connections)
      BY <1>4 DEF RunInDatabase
  <2>2. \A w \in waiting : w.id # b.id => w \in waiting'
      BY <2>1, StatementRuns DEF gateVars
  <2>3. CASE isOpen
    <3>1. ReleaseConnections(b, connections \cup {b.id})
        BY <2>1, <2>3
    <3> QED BY <1>1, <1>2, <1>4, <2>2, <3>1, ReleasePreserves
  <2>4. CASE ~isOpen
    <3>1. ReleaseConnections(b, connections) /\ b.id \notin connections
        BY <2>1, <2>4
    <3> QED BY <1>1, <1>2, <1>4, <2>2, <3>1, ReleasePreserves
  <2> QED BY <2>3, <2>4
<1>5. CASE blocks' = blocks \ {b} /\ RunClose(b)
  <2>1. /\ b.id \notin databaseMap /\ waiting' = waiting
        /\ ReleaseConnections(b, connections \ {b.id})
      BY <1>5 DEF RunClose, gateVars, Inv, ClosedForGood
  <2> QED BY <1>1, <1>2, <1>5, <2>1, ReleasePreserves
<1>6. CASE blocks' = blocks \ {b} /\ RunDeleteFile(b)
  <2>1. ReleaseConnections(b, connections) /\ waiting' = waiting
      BY <1>6 DEF RunDeleteFile, gateVars
  <2> QED BY <1>1, <1>2, <1>6, <2>1, ReleasePreserves
<1> QED BY <1>3, <1>4, <1>5, <1>6 DEF RunBlock

-----------------------------------------------------------------------------
LEMMA NextPreserves == Inv /\ [Next]_vars => Inv'
<1> SUFFICES ASSUME Inv, [Next]_vars PROVE Inv'
    OBVIOUS
<1>1. CASE UNCHANGED vars
    BY <1>1 DEF vars, mapVars, gateVars, Inv, TypeOK, Ids, ClosedForGood, OneInstance, UsableHandles,
                NoLeakedConnection
<1>2. ASSUME NEW c \in Callers, NEW p \in Paths, NEW single \in BOOLEAN,
             OpenDatabase(c, p, single)
      PROVE  Inv'
    BY <1>2, OpenPreserves
<1>3. ASSUME NEW c \in Callers, NEW id \in Ids, Statement(c, id)
      PROVE  Inv'
    BY <1>3, StatementPreserves
<1>4. ASSUME NEW c \in Callers, NEW id \in Ids, CloseDatabase(c, id)
      PROVE  Inv'
    BY <1>4, UnregisterPreserves DEF CloseDatabase
<1>5. ASSUME NEW c \in Callers, NEW p \in Paths, DeleteDatabase(c, p)
      PROVE  Inv'
    BY <1>5, DeletePreserves
<1>6. ASSUME NEW b \in blocks, RunBlock(b)
      PROVE  Inv'
    BY <1>6, BlockPreserves
<1> QED BY <1>1, <1>2, <1>3, <1>4, <1>5, <1>6 DEF Next

LEMMA Invariance == Spec => []Inv
BY InitInv, NextPreserves, PTL DEF Spec

\* The maps agree: openDatabase finds the single instance of a path exactly
\* while it is registered (handleOpenDatabaseCall, closeDatabase).
THEOREM MapsAgree == Spec => []OneInstance
<1>1. Inv => OneInstance
    BY DEF Inv
<1> QED BY <1>1, Invariance, PTL

\* A registered database has its connection, whatever blocks of closed
\* databases are still to run.
THEOREM RegisteredAreConnected == Spec => []UsableHandles
<1>1. Inv => UsableHandles
    BY DEF Inv
<1> QED BY <1>1, Invariance, PTL

\* No connection outlives the maps, the blocks and the waiting operations
\* that have its database, also when a late block opened it again.
THEOREM ConnectionsAreReleased == Spec => []NoLeakedConnection
<1>1. Inv => NoLeakedConnection
    BY DEF Inv
<1> QED BY <1>1, Invariance, PTL
=============================================================================
