-------------------------- MODULE DarwinQueueProofs --------------------------
(***************************************************************************)
(* What is proved of DarwinQueue for every number of blocks and save       *)
(* points and every set of faults: its types, that isInTransaction is      *)
(* never NO while SQLite is in a transaction that beginTransaction opened, *)
(* and that blocks and save points are undone as a whole or not at all,    *)
(* whoever sends BEGIN, COMMIT and ROLLBACK by hand in between.            *)
(*                                                                         *)
(* The flag follows from how the levels change: the name of the first one  *)
(* changes only when the levels start or end, and it is that of BEGIN only *)
(* if BEGIN started them, for the names of save points begin at 1.  The    *)
(* other two follow from which writes are in which level of which block.   *)
(***************************************************************************)
EXTENDS DarwinQueue, SequenceTheorems, TLAPS

Inv == TypeOK /\ FlagHidesNothing

\* s are levels with the first name of t, or none if t is none.
SameStart(s, t) ==
    /\ s \in Seq(Levels)
    /\ s = <<>> <=> t = <<>>
    /\ s # <<>> => s[1].name = t[1].name

-----------------------------------------------------------------------------
(* Levels *)

LEMMA LastLevel ==
    ASSUME NEW S, NEW s \in Seq(S), s # <<>>
    PROVE  /\ Len(s) \in DOMAIN s /\ Last(s) \in S /\ Last(s) = s[Len(s)]
           /\ 1 \in DOMAIN s /\ s[1] \in S
BY DEF Last

LEMMA FrontLevels ==
    ASSUME NEW S, NEW s \in Seq(S), s # <<>>
    PROVE  /\ Front(s) \in Seq(S)
           /\ Len(s) # 1 => Front(s) # <<>> /\ Front(s)[1] = s[1]
<1>1. Len(s) \in Nat \ {0} /\ \A i \in 1..Len(s) : s[i] \in S
    OBVIOUS
<1>2. Front(s) = [i \in 1..(Len(s) - 1) |-> s[i]]
    BY <1>1 DEF Front
<1>3. Len(s) - 1 \in Nat /\ \A i \in 1..(Len(s) - 1) : s[i] \in S
    BY <1>1
<1>4. Front(s) \in Seq(S)
    BY <1>2, <1>3
<1>5. Len(s) # 1 => 1 \in 1..(Len(s) - 1) /\ 1 \in DOMAIN Front(s)
  <2>1. \A n \in Nat \ {0} : n # 1 => 1 \in 1..(n - 1)
      OBVIOUS
  <2>2. Len(s) # 1 => 1 \in 1..(Len(s) - 1)
      BY <1>1, <2>1
  <2>3. DOMAIN Front(s) = 1..(Len(s) - 1)
      BY <1>2
  <2> QED BY <2>2, <2>3
<1>6. Len(s) # 1 => Front(s) # <<>> /\ Front(s)[1] = s[1]
  <2>1. DOMAIN <<>> = {}
      OBVIOUS
  <2> QED BY <1>2, <1>5, <2>1
<1> QED BY <1>4, <1>6

LEMMA LeftoverLevels ==
    ASSUME levels \in Seq(Levels)
    PROVE  SameStart(Leftover, levels)
<1>1. \A i \in DOMAIN levels : levels[i] \in Levels
    OBVIOUS
<1>2. \A i \in DOMAIN levels : [name |-> levels[i].name, writes |-> {}] \in Levels
    BY <1>1 DEF Levels
<1>3. Leftover \in Seq(Levels) /\ DOMAIN Leftover = DOMAIN levels
  <2>1. DOMAIN levels = 1..Len(levels) /\ Len(levels) \in Nat
      OBVIOUS
  <2> DEFINE e(i) == [name |-> levels[i].name, writes |-> {}]
  <2>2. Leftover = [i \in 1..Len(levels) |-> e(i)]
      BY <2>1 DEF Leftover
  <2>3. \A i \in 1..Len(levels) : e(i) \in Levels
      BY <1>2, <2>1
  <2> HIDE DEF e
  <2>4. Leftover \in Seq(Levels)
      BY <2>1, <2>2, <2>3
  <2> QED BY <2>1, <2>2, <2>4
<1>4. \A i \in DOMAIN levels : Leftover[i].name = levels[i].name
    BY DEF Leftover
<1> QED BY <1>3, <1>4 DEF SameStart

LEMMA Pushed ==
    ASSUME NEW S, NEW s \in Seq(S), NEW e \in S
    PROVE  /\ Append(s, e) \in Seq(S) /\ Append(s, e) # <<>>
           /\ Append(s, e)[1] = IF s = <<>> THEN e ELSE s[1]
<1>1. /\ Append(s, e) \in Seq(S) /\ Append(s, e) # <<>>
      /\ \A i \in 1..Len(s) : Append(s, e)[i] = s[i]
      /\ Append(s, e)[Len(s) + 1] = e
    BY AppendProperties
<1>2. s = <<>> => Len(s) + 1 = 1
    OBVIOUS
<1>3. s # <<>> => 1 \in 1..Len(s)
    OBVIOUS
<1> QED BY <1>1, <1>2, <1>3

LEMMA PushedLevel ==
    ASSUME NEW s \in Seq(Levels), NEW n \in Names
    PROVE  LET t == Append(s, [name |-> n, writes |-> {}]) IN
           /\ t \in Seq(Levels) /\ t # <<>>
           /\ t[1].name = IF s = <<>> THEN n ELSE s[1].name
<1> DEFINE e == [name |-> n, writes |-> {}]
<1>1. e \in Levels /\ e.name = n
    BY DEF Levels
<1> HIDE DEF e
<1>2. /\ Append(s, e) \in Seq(Levels) /\ Append(s, e) # <<>>
      /\ Append(s, e)[1] = IF s = <<>> THEN e ELSE s[1]
    BY <1>1, Pushed
<1> QED BY <1>1, <1>2 DEF e

LEMMA WrittenLevels ==
    ASSUME NEW s \in Seq(Levels), s # <<>>, NEW ws \in SUBSET Writes
    PROVE  SameStart(WithWrites(s, ws), s)
<1> DEFINE e == [name |-> Last(s).name, writes |-> Last(s).writes \cup ws]
<1>1. Last(s) \in Levels /\ Len(s) \in DOMAIN s /\ Last(s) = s[Len(s)]
    BY LastLevel
<1>2. e \in Levels /\ e.name = s[Len(s)].name
    BY <1>1 DEF Levels
<1>3. WithWrites(s, ws) = [s EXCEPT ![Len(s)] = e]
    BY DEF WithWrites
<1> HIDE DEF e
<1>4. /\ WithWrites(s, ws) \in Seq(Levels) /\ WithWrites(s, ws) # <<>>
      /\ WithWrites(s, ws)[1] = IF Len(s) = 1 THEN e ELSE s[1]
    BY <1>1, <1>2, <1>3
<1> QED BY <1>2, <1>4 DEF SameStart

\* What ReleaseTop and the end of a transaction do to the levels.
LEMMA WritesAreTyped ==
    ASSUME TypeOK
    PROVE  /\ Uncommitted \subseteq Writes
           /\ levels # <<>> => Last(levels).writes \subseteq Writes
<1>1. \A i \in DOMAIN levels : levels[i] \in Levels
    BY DEF TypeOK
<1>2. \A i \in DOMAIN levels : levels[i].writes \subseteq Writes
    BY <1>1 DEF Levels
<1>3. levels # <<>> => Len(levels) \in DOMAIN levels /\ Last(levels) = levels[Len(levels)]
    BY LastLevel DEF TypeOK
<1> QED BY <1>2, <1>3 DEF Uncommitted

LEMMA Released ==
    ASSUME TypeOK, levels # <<>>, NEW ws \in SUBSET Writes, ReleaseTop(ws)
    PROVE  /\ levels' = <<>> \/ SameStart(levels', levels)
           /\ levels' \in Seq(Levels)
           /\ durable' \subseteq Writes /\ lost' \subseteq Writes
<1>1. durable' \subseteq Writes /\ lost' \subseteq Writes
    BY WritesAreTyped DEF ReleaseTop, TypeOK
<1>2. CASE Len(levels) = 1
    BY <1>1, <1>2 DEF ReleaseTop
<1>3. CASE Len(levels) # 1
  <2>1. levels' = WithWrites(Front(levels), ws)
      BY <1>3 DEF ReleaseTop
  <2>2. /\ Front(levels) \in Seq(Levels) /\ Front(levels) # <<>>
        /\ Front(levels)[1] = levels[1]
      BY <1>3, FrontLevels DEF TypeOK
  <2>3. SameStart(levels', Front(levels))
      BY <2>1, <2>2, WrittenLevels
  <2> QED BY <1>1, <2>2, <2>3 DEF SameStart
<1> QED BY <1>2, <1>3

\* The flag goes on telling the truth if it does not change and the levels
\* go on, end, or are started by a save point.
LEMMA FlagKept ==
    ASSUME FlagHidesNothing, isInTransaction' = isInTransaction,
           \/ levels' = <<>>
           \/ levels # <<>> /\ levels'[1].name = levels[1].name
           \/ levels'[1].name # Begin
    PROVE  FlagHidesNothing'
BY DEF FlagHidesNothing, InBegin

-----------------------------------------------------------------------------
(* The steps *)

LEMMA InitInv == Init => Inv
<1> SUFFICES ASSUME Init PROVE Inv
    OBVIOUS
<1>1. Writes # {} /\ 0 \in 0..MaxBlocks /\ 0 \in 0..MaxSavePoints
    BY QueueAssumption DEF QueueAssumption, Writes
<1>2. TypeOK
    BY <1>1, EmptySeq DEF Init, TypeOK
<1>3. FlagHidesNothing
    BY DEF Init, FlagHidesNothing, InBegin
<1> QED BY <1>2, <1>3 DEF Inv

LEMMA CallPreserves == Inv /\ Call => Inv'
<1> SUFFICES ASSUME Inv, Call PROVE Inv'
    OBVIOUS
<1>1. received + 1 \in Blocks /\ received' \in 0..MaxBlocks
    BY QueueAssumption DEF QueueAssumption, Inv, TypeOK, Call, Blocks
<1>2. queue' \in Seq(Blocks) /\ queue' # <<>>
    BY <1>1 DEF Inv, TypeOK, Call
<1> QED BY <1>1, <1>2 DEF Inv, TypeOK, FlagHidesNothing, InBegin, Call, blockVars, sqliteVars,
                         history

\* The running block is one of the blocks; its name is never that of BEGIN.
LEMMA BlockName ==
    ASSUME TypeOK, queue # <<>>, NEW n \in Nat, n \in 1..MaxSavePoints
    PROVE  /\ <<Block, n>> \in Names
           /\ <<Block, n>> # Begin
<1>1. Block \in Blocks
    BY DEF TypeOK, Block
<1>2. n \in Writes
    BY QueueAssumption DEF QueueAssumption, Writes
<1>3. n # 0
    BY QueueAssumption DEF QueueAssumption
<1> QED BY <1>1, <1>2, <1>3 DEF Begin, Names

LEMMA ReturnTypes ==
    ASSUME TypeOK, queue # <<>>, Return
    PROVE  /\ queue' \in Seq(Blocks) /\ received' \in 0..MaxBlocks
           /\ running' = "none" /\ saved' \in 0..MaxSavePoints
BY QueueAssumption DEF QueueAssumption, TypeOK, Return

LEMMA StartInDatabasePreserves == Inv /\ StartInDatabase => Inv'
<1> SUFFICES ASSUME Inv, StartInDatabase PROVE Inv'
    OBVIOUS
<1>1. SameStart(levels', levels)
    BY LeftoverLevels DEF StartInDatabase, Inv, TypeOK
<1>2. isOpen' \in BOOLEAN
    BY DEF StartInDatabase, Database
<1>3. TypeOK'
    BY <1>1, <1>2 DEF Inv, TypeOK, StartInDatabase, Run, callVars, Follow, SameStart, Kinds,
                      CanStart
<1>4. FlagHidesNothing'
    BY <1>1, FlagKept DEF Inv, StartInDatabase, SameStart
<1> QED BY <1>3, <1>4 DEF Inv

LEMMA StartInTransactionPreserves == Inv /\ StartInTransaction => Inv'
<1> SUFFICES ASSUME Inv, StartInTransaction PROVE Inv'
    OBVIOUS
<1>1. isOpen' \in BOOLEAN
    BY DEF StartInTransaction, Database
<1>2. /\ running' \in Kinds /\ queue # <<>>
      /\ UNCHANGED <<queue, received, frames, saved>>
    BY DEF StartInTransaction, CanStart, Run, callVars, Kinds
<1>3. CASE levels = <<>> /\ PushLevel(Begin) /\ isInTransaction' = TRUE /\ Follow(FALSE)
  <2>1. levels' \in Seq(Levels)
      BY <1>3, PushedLevel DEF PushLevel, Names, Inv, TypeOK
  <2> QED BY <1>1, <1>2, <1>3, <2>1 DEF Inv, TypeOK, Follow, FlagHidesNothing
<1>4. CASE levels' = Leftover /\ Follow(TRUE) /\ UNCHANGED isInTransaction
  <2>1. SameStart(levels', levels)
      BY <1>4, LeftoverLevels DEF Inv, TypeOK
  <2>2. FlagHidesNothing'
      BY <1>4, <2>1, FlagKept DEF Inv, SameStart
  <2>3. TypeOK'
      BY <1>1, <1>2, <1>4, <2>1 DEF Inv, TypeOK, Follow, SameStart
  <2> QED BY <2>2, <2>3 DEF Inv
<1> QED BY <1>3, <1>4 DEF StartInTransaction

LEMMA StartInSavePointPreserves == Inv /\ StartInSavePoint => Inv'
<1> SUFFICES ASSUME Inv, StartInSavePoint PROVE Inv'
    OBVIOUS
<1>1. isOpen' \in BOOLEAN /\ queue # <<>> /\ isInTransaction' = isInTransaction /\ Follow(FALSE)
    BY DEF StartInSavePoint, Database, CanStart
<1>2. SameStart(Leftover, levels)
    BY LeftoverLevels DEF Inv, TypeOK
<1>3. CASE /\ Run("inSavePoint") /\ saved' = 1 /\ frames' = <<1>>
           /\ levels' = Append(Leftover, [name |-> <<Block, 1>>, writes |-> {}])
  <2>1. 1 \in 1..MaxSavePoints /\ 1 \in 0..MaxSavePoints
      BY QueueAssumption DEF QueueAssumption
  <2>2. <<Block, 1>> \in Names /\ <<Block, 1>> # Begin
      BY <1>1, <2>1, BlockName DEF Inv
  <2>3. Leftover \in Seq(Levels)
      BY <1>2 DEF SameStart
  <2>4. /\ levels' \in Seq(Levels) /\ levels' # <<>>
        /\ levels'[1].name = IF Leftover = <<>> THEN <<Block, 1>> ELSE Leftover[1].name
      BY <1>3, <2>2, <2>3, PushedLevel
  <2>5. FlagHidesNothing'
      BY <1>1, <1>2, <2>2, <2>4, FlagKept DEF Inv, SameStart
  <2>6. frames' \in Seq(1..MaxSavePoints)
      BY <1>3, <2>1
  <2>7. running' \in Kinds /\ UNCHANGED <<queue, received>>
      BY <1>3 DEF Run, callVars, Kinds
  <2>8. TypeOK'
      BY <1>1, <1>3, <2>1, <2>4, <2>6, <2>7 DEF Inv, TypeOK, Follow
  <2> QED BY <2>5, <2>8 DEF Inv
<1>4. CASE Return /\ levels' = Leftover /\ UNCHANGED frames
  <2>1. TypeOK'
      BY <1>1, <1>2, <1>4, ReturnTypes DEF Inv, TypeOK, Follow, SameStart
  <2>2. FlagHidesNothing'
      BY <1>1, <1>2, <1>4, FlagKept DEF Inv, SameStart
  <2> QED BY <2>1, <2>2 DEF Inv
<1> QED BY <1>3, <1>4 DEF StartInSavePoint

LEMMA ClosePreserves == Inv /\ Close => Inv'
<1> SUFFICES ASSUME Inv, Close PROVE Inv'
    OBVIOUS
<1>1. queue # <<>> /\ Return
    BY DEF Close, CanStart
<1>2. levels' = <<>> /\ levels' \in Seq(Levels)
    BY EmptySeq DEF Close
<1>3. TypeOK'
    BY <1>1, <1>2, ReturnTypes DEF Inv, TypeOK, Close, Follow
<1>4. FlagHidesNothing'
    BY <1>2 DEF FlagHidesNothing, InBegin
<1> QED BY <1>3, <1>4 DEF Inv

LEMMA WritePreserves == Inv /\ Write => Inv'
<1> SUFFICES ASSUME Inv, Write PROVE Inv'
    OBVIOUS
<1> DEFINE tag == IF frames = <<>> THEN 0 ELSE Last(frames)
<1>1. tag \in Writes
  <2>1. frames # <<>> => Last(frames) \in 1..MaxSavePoints
      BY LastLevel DEF Inv, TypeOK
  <2> QED BY <2>1, QueueAssumption DEF QueueAssumption, Writes
<1>2. /\ UNCHANGED <<queue, received, running, frames, saved, isOpen, isInTransaction>>
      /\ UNCHANGED <<undone, ended>>
    BY DEF Write, callVars, blockVars
<1>3. CASE levels = <<>> /\ durable' = durable \cup {tag} /\ UNCHANGED <<levels, lost, hurt>>
    BY <1>1, <1>2, <1>3 DEF Inv, TypeOK, FlagHidesNothing, InBegin
<1>4. CASE levels # <<>> /\ levels' = WithWrites(levels, {tag}) /\ UNCHANGED <<durable, lost, hurt>>
  <2>1. SameStart(levels', levels)
      BY <1>1, <1>4, WrittenLevels DEF Inv, TypeOK
  <2>2. TypeOK'
      BY <1>2, <1>4, <2>1 DEF Inv, TypeOK, SameStart
  <2>3. FlagHidesNothing'
      BY <1>2, <2>1, FlagKept DEF Inv, SameStart
  <2> QED BY <2>2, <2>3 DEF Inv
<1>5. CASE RollbackAll /\ hurt' = TRUE
  <2>1. lost' \subseteq Writes /\ durable' \subseteq Writes /\ levels' = <<>>
      BY <1>5, WritesAreTyped DEF RollbackAll, Inv, TypeOK
  <2>2. TypeOK'
      BY <1>2, <1>5, <2>1 DEF Inv, TypeOK
  <2>3. FlagHidesNothing'
      BY <2>1 DEF FlagHidesNothing, InBegin
  <2> QED BY <2>2, <2>3 DEF Inv
<1> QED BY <1>3, <1>4, <1>5 DEF Write

LEMMA BeginByHandPreserves == Inv /\ BeginByHand => Inv'
<1> SUFFICES ASSUME Inv, BeginByHand PROVE Inv'
    OBVIOUS
<1>1. ByHand \in Names /\ ByHand # Begin
    BY DEF Names, ByHand, Begin
<1>2. levels' \in Seq(Levels) /\ levels' # <<>> /\ levels'[1].name = ByHand
    BY <1>1, PushedLevel DEF BeginByHand, PushLevel, Inv, TypeOK
<1>3. TypeOK'
    BY <1>2 DEF Inv, TypeOK, BeginByHand, callVars, blockVars, history
<1>4. FlagHidesNothing'
    BY <1>1, <1>2, FlagKept DEF Inv, BeginByHand
<1> QED BY <1>3, <1>4 DEF Inv

LEMMA EndByHandPreserves == Inv /\ EndByHand => Inv'
<1> SUFFICES ASSUME Inv, EndByHand PROVE Inv'
    OBVIOUS
<1>1. levels' = <<>> /\ durable' \subseteq Writes /\ lost' \subseteq Writes /\ hurt' \in BOOLEAN
    BY WritesAreTyped DEF EndByHand, RollbackAll, CommitAll, Inv, TypeOK
<1>2. levels' \in Seq(Levels)
    BY <1>1, EmptySeq
<1>3. TypeOK'
    BY <1>1, <1>2 DEF Inv, TypeOK, EndByHand, callVars, blockVars
<1>4. FlagHidesNothing'
    BY <1>1 DEF FlagHidesNothing, InBegin
<1> QED BY <1>3, <1>4 DEF Inv

LEMMA StartSavePointPreserves == Inv /\ StartSavePoint => Inv'
<1> SUFFICES ASSUME Inv, StartSavePoint PROVE Inv'
    OBVIOUS
<1>1. saved + 1 \in 1..MaxSavePoints /\ saved + 1 \in Nat /\ saved' \in 0..MaxSavePoints
    BY QueueAssumption DEF QueueAssumption, StartSavePoint, Inv, TypeOK
<1>2. queue # <<>>
    BY DEF StartSavePoint, Inv, TypeOK
<1>3. <<Block, saved + 1>> \in Names /\ <<Block, saved + 1>> # Begin
    BY <1>1, <1>2, BlockName DEF Inv
<1>4. /\ levels' \in Seq(Levels) /\ levels' # <<>>
      /\ levels'[1].name = IF levels = <<>> THEN <<Block, saved + 1>> ELSE levels[1].name
    BY <1>3, PushedLevel DEF StartSavePoint, PushLevel, Inv, TypeOK
<1>5. frames' \in Seq(1..MaxSavePoints)
    BY <1>1 DEF StartSavePoint, Inv, TypeOK
<1>6. TypeOK'
    BY <1>1, <1>2, <1>4, <1>5 DEF Inv, TypeOK, StartSavePoint, callVars, history
<1>7. FlagHidesNothing'
    BY <1>3, <1>4, FlagKept DEF Inv, StartSavePoint
<1> QED BY <1>6, <1>7 DEF Inv

LEMMA EndSavePointPreserves ==
    ASSUME Inv, NEW rollback \in BOOLEAN, EndSavePoint(rollback)
    PROVE  Inv'
<1>1. queue # <<>> /\ frames # <<>>
    BY DEF EndSavePoint, Inv, TypeOK
<1>2. frames' \in Seq(1..MaxSavePoints)
    BY <1>1, FrontLevels DEF EndSavePoint, Inv, TypeOK
<1>3. undone' \subseteq Writes
  <2>1. Last(frames) \in 1..MaxSavePoints /\ saved \in 0..MaxSavePoints
      BY <1>1, LastLevel DEF Inv, TypeOK
  <2>2. Last(frames)..saved \subseteq Writes
      BY <2>1, QueueAssumption DEF QueueAssumption, Writes
  <2> QED BY <2>2 DEF EndSavePoint, Undo, Inv, TypeOK
<1>4. /\ queue' \in Seq(Blocks) /\ received' \in 0..MaxBlocks
      /\ running' \in Kinds \cup {"none"} /\ saved' \in 0..MaxSavePoints
      /\ running' # "none" => queue' # <<>>
  <2>1. CASE Return
      BY <1>1, <2>1, ReturnTypes DEF Inv
  <2>2. CASE UNCHANGED <<callVars, running, saved>>
      BY <2>2 DEF callVars, Inv, TypeOK
  <2> QED BY <2>1, <2>2 DEF EndSavePoint
<1>5. UNCHANGED <<isOpen, isInTransaction, ended>>
    BY DEF EndSavePoint
<1>6. CASE UNCHANGED sqliteVars /\ hurt' \in BOOLEAN
  <2>1. TypeOK'
      BY <1>2, <1>3, <1>4, <1>5, <1>6 DEF Inv, TypeOK, sqliteVars
  <2> QED BY <1>5, <1>6, <2>1 DEF Inv, FlagHidesNothing, InBegin, sqliteVars
<1>7. CASE /\ levels # <<>> /\ UNCHANGED hurt
           /\ ReleaseTop(IF rollback THEN {} ELSE Last(levels).writes)
  <2>1. (IF rollback THEN {} ELSE Last(levels).writes) \in SUBSET Writes
      BY <1>7, WritesAreTyped DEF Inv
  <2>2. /\ levels' = <<>> \/ SameStart(levels', levels)
        /\ levels' \in Seq(Levels)
        /\ durable' \subseteq Writes /\ lost' \subseteq Writes
      BY <1>7, <2>1, Released DEF Inv
  <2>3. TypeOK'
      BY <1>2, <1>3, <1>4, <1>5, <1>7, <2>2 DEF Inv, TypeOK
  <2>4. FlagHidesNothing'
      BY <1>5, <1>7, <2>2, FlagKept DEF Inv, SameStart
  <2> QED BY <2>3, <2>4 DEF Inv
<1> QED BY <1>6, <1>7 DEF EndSavePoint, Inv, TypeOK

LEMMA EndInDatabasePreserves == Inv /\ EndInDatabase => Inv'
<1> SUFFICES ASSUME Inv, EndInDatabase PROVE Inv'
    OBVIOUS
<1>1. queue # <<>> /\ Return
    BY DEF EndInDatabase, Inv, TypeOK
<1> QED BY <1>1, ReturnTypes DEF Inv, TypeOK, EndInDatabase, sqliteVars, history,
                                FlagHidesNothing, InBegin

\* The flag is reset only where COMMIT or ROLLBACK has emptied the levels.
LEMMA EndInTransactionPreserves ==
    ASSUME Inv, NEW rollback \in BOOLEAN, EndInTransaction(rollback)
    PROVE  Inv'
<1>1. /\ queue # <<>> /\ Return /\ isOpen' \in BOOLEAN
      /\ ended' \in {"none", "commit", "rollback"}
      /\ UNCHANGED <<frames, undone>>
    BY DEF EndInTransaction, Database, Inv, TypeOK
<1>2. CASE /\ (IF rollback THEN RollbackAll ELSE CommitAll)
           /\ isInTransaction' = FALSE /\ UNCHANGED hurt
  <2>1. levels' = <<>> /\ durable' \subseteq Writes /\ lost' \subseteq Writes
      BY <1>2, WritesAreTyped DEF RollbackAll, CommitAll, Inv, TypeOK
  <2>2. levels' \in Seq(Levels)
      BY <2>1, EmptySeq
  <2>3. TypeOK'
      BY <1>1, <1>2, <2>1, <2>2, ReturnTypes DEF Inv, TypeOK
  <2> QED BY <2>1, <2>3 DEF Inv, FlagHidesNothing, InBegin
<1>3. CASE hurt' = TRUE /\ UNCHANGED <<sqliteVars, isInTransaction>>
  <2>1. TypeOK'
      BY <1>1, <1>3, ReturnTypes DEF Inv, TypeOK, sqliteVars
  <2> QED BY <1>3, <2>1 DEF Inv, FlagHidesNothing, InBegin, sqliteVars
<1> QED BY <1>2, <1>3 DEF EndInTransaction

LEMMA NextPreserves == Inv /\ [Next]_vars => Inv'
<1> SUFFICES ASSUME Inv, [Next]_vars PROVE Inv'
    OBVIOUS
<1>1. CASE UNCHANGED vars
    BY <1>1 DEF vars, callVars, blockVars, sqliteVars, history, Inv, TypeOK, FlagHidesNothing,
                InBegin
<1>2. ASSUME NEW rollback \in BOOLEAN, EndSavePoint(rollback) \/ EndInTransaction(rollback)
      PROVE  Inv'
    BY <1>2, EndSavePointPreserves, EndInTransactionPreserves
<1> QED BY <1>1, <1>2, CallPreserves, StartInDatabasePreserves, StartInTransactionPreserves,
           StartInSavePointPreserves, ClosePreserves, WritePreserves,
           BeginByHandPreserves, EndByHandPreserves, StartSavePointPreserves,
           EndInDatabasePreserves DEF Next, Start, End

-----------------------------------------------------------------------------
(* The block that runs *)

\* While SQLite has not let the block down: its save points are the last
\* levels, one for each, in the order in which they were opened...
Nested ==
    /\ Len(frames) <= Len(levels)
    /\ \A i \in 1..Len(frames) :
         /\ levels[Len(levels) - Len(frames) + i].name = <<Block, frames[i]>>
         /\ frames[i] <= saved
    /\ \A i, j \in 1..Len(frames) : i < j => frames[i] < frames[j]

\* ... what is below a save point was written in older ones, what is in it
\* or above in it or in younger ones...
Separate ==
    /\ \A k \in 1..Len(levels) : \A w \in levels[k].writes :
         /\ w <= saved
         /\ \A j \in 1..Len(frames) :
              IF k < Len(levels) - Len(frames) + j THEN w < frames[j] ELSE w >= frames[j]
    /\ \A w \in durable : w <= saved /\ \A j \in 1..Len(frames) : w < frames[j]

\* ... and nothing of what was to be undone is left.
Undone ==
    /\ undone \subseteq 1..saved
    /\ \A j \in 1..Len(frames) : frames[j] \notin undone
    /\ \A w \in undone : w \notin durable /\ \A k \in 1..Len(levels) : w \notin levels[k].writes

\* In a transaction the first level is that of BEGIN, and not a save point,
\* and nothing is lost but what was to be undone.
InItsTransaction ==
    running = "inTransaction" =>
        Len(levels) = Len(frames) + 1 /\ durable = {} /\ lost \subseteq undone

BlockInv ==
    running # "none" /\ ~hurt =>
        Nested /\ Separate /\ Undone /\ InItsTransaction /\ ended = "none"

NoBlock == running = "none" => frames = <<>> /\ saved = 0

StrongInv == Inv /\ NoBlock /\ BlockInv /\ AtomicBlocks /\ SavePointsUndone

\* The levels, one by one.
LEMMA EachLevel ==
    ASSUME levels \in Seq(Levels)
    PROVE  /\ Len(levels) \in Nat
           /\ \A k \in 1..Len(levels) : levels[k].writes \subseteq Writes
           /\ levels = <<>> <=> Len(levels) = 0
           /\ \A w : w \in Uncommitted <=> \E k \in 1..Len(levels) : w \in levels[k].writes
<1>1. Len(levels) \in Nat /\ DOMAIN levels = 1..Len(levels)
      /\ levels = <<>> <=> Len(levels) = 0
    OBVIOUS
<1>2. \A k \in 1..Len(levels) : levels[k].writes \subseteq Writes
  <2>1. \A k \in 1..Len(levels) : levels[k] \in Levels
      BY <1>1
  <2> QED BY <2>1 DEF Levels
<1>3. \A w : w \in Uncommitted <=> \E k \in 1..Len(levels) : w \in levels[k].writes
    BY <1>1 DEF Uncommitted
<1> QED BY <1>1, <1>2, <1>3

LEMMA EachLeftover ==
    ASSUME levels \in Seq(Levels)
    PROVE  /\ Leftover \in Seq(Levels) /\ Len(Leftover) = Len(levels)
           /\ \A k \in 1..Len(levels) : Leftover[k].writes = {}
<1>1. Leftover \in Seq(Levels)
    BY LeftoverLevels DEF SameStart
<1>2. DOMAIN Leftover = 1..Len(levels) /\ Len(levels) \in Nat
    BY DEF Leftover
<1>3. Len(Leftover) = Len(levels)
    BY <1>1, <1>2
<1>4. \A k \in 1..Len(levels) : Leftover[k].writes = {}
    BY <1>2 DEF Leftover
<1> QED BY <1>1, <1>3, <1>4

LEMMA EachPushed ==
    ASSUME NEW s \in Seq(Levels), NEW n \in Names
    PROVE  LET t == Append(s, [name |-> n, writes |-> {}]) IN
           /\ Len(t) = Len(s) + 1
           /\ \A k \in 1..Len(s) : t[k] = s[k]
           /\ t[Len(s) + 1].name = n /\ t[Len(s) + 1].writes = {}
<1> DEFINE e == [name |-> n, writes |-> {}]
<1>1. e \in Levels /\ e.name = n /\ e.writes = {}
    BY DEF Levels
<1> HIDE DEF e
<1>2. /\ Len(Append(s, e)) = Len(s) + 1
      /\ \A k \in 1..Len(s) : Append(s, e)[k] = s[k]
      /\ Append(s, e)[Len(s) + 1] = e
    BY <1>1, AppendProperties
<1> QED BY <1>1, <1>2 DEF e

LEMMA EachWritten ==
    ASSUME NEW s \in Seq(Levels), s # <<>>, NEW ws \in SUBSET Writes
    PROVE  /\ Len(WithWrites(s, ws)) = Len(s)
           /\ \A k \in 1..Len(s) :
                /\ WithWrites(s, ws)[k].name = s[k].name
                /\ WithWrites(s, ws)[k].writes =
                     IF k = Len(s) THEN s[k].writes \cup ws ELSE s[k].writes
<1> DEFINE e == [name |-> Last(s).name, writes |-> Last(s).writes \cup ws]
<1>1. Last(s) \in Levels /\ Len(s) \in DOMAIN s /\ Last(s) = s[Len(s)]
    BY LastLevel
<1>2. e \in Levels /\ e.name = s[Len(s)].name /\ e.writes = s[Len(s)].writes \cup ws
    BY <1>1 DEF Levels
<1>3. WithWrites(s, ws) = [s EXCEPT ![Len(s)] = e]
    BY DEF WithWrites
<1> HIDE DEF e
<1>4. /\ Len(WithWrites(s, ws)) = Len(s)
      /\ \A k \in 1..Len(s) : WithWrites(s, ws)[k] = IF k = Len(s) THEN e ELSE s[k]
    BY <1>1, <1>2, <1>3
<1> QED BY <1>2, <1>4

LEMMA EachFront ==
    ASSUME NEW S, NEW s \in Seq(S), s # <<>>
    PROVE  /\ Front(s) \in Seq(S) /\ Len(Front(s)) = Len(s) - 1
           /\ \A k \in 1..(Len(s) - 1) : Front(s)[k] = s[k]
           /\ Len(s) = 1 => Front(s) = <<>>
<1>1. Len(s) \in Nat \ {0} /\ Len(s) - 1 \in Nat
    OBVIOUS
<1>2. Front(s) \in Seq(S)
    BY FrontLevels
<1>3. Front(s) = [i \in 1..(Len(s) - 1) |-> s[i]]
    BY <1>1 DEF Front
<1>4. DOMAIN Front(s) = 1..(Len(s) - 1)
    BY <1>3
<1>5. Len(Front(s)) = Len(s) - 1
    BY <1>1, <1>2, <1>4
<1> QED BY <1>1, <1>2, <1>3, <1>5

-----------------------------------------------------------------------------
(* The steps, again *)

\* Nothing of what the block wrote or asked for changes.
LEMMA KeepsBlock ==
    ASSUME StrongInv, UNCHANGED <<running, blockVars, sqliteVars, history>>,
           running # "none" => Block' = Block
    PROVE  NoBlock' /\ BlockInv' /\ AtomicBlocks' /\ SavePointsUndone'
<1> USE DEF blockVars, sqliteVars, history
<1>1. NoBlock' /\ AtomicBlocks' /\ SavePointsUndone'
    BY DEF StrongInv, NoBlock, AtomicBlocks, SavePointsUndone, Uncommitted
<1>2. BlockInv'
    BY DEF StrongInv, BlockInv, Nested, Separate, Undone, InItsTransaction
<1> QED BY <1>1, <1>2

LEMMA CallStrong == StrongInv /\ Call => StrongInv'
<1> SUFFICES ASSUME StrongInv, Call PROVE StrongInv'
    OBVIOUS
<1>1. UNCHANGED <<running, blockVars, sqliteVars, history>>
    BY DEF Call, blockVars
<1>2. running # "none" => Block' = Block
  <2>1. running # "none" => queue # <<>>
      BY DEF StrongInv, Inv, TypeOK
  <2>2. received + 1 \in Blocks /\ queue \in Seq(Blocks)
      BY QueueAssumption DEF QueueAssumption, StrongInv, Inv, TypeOK, Call, Blocks
  <2>3. queue # <<>> => Append(queue, received + 1)[1] = queue[1]
      BY <2>2
  <2>4. queue' = Append(queue, received + 1) /\ queue' # <<>>
      BY <2>2 DEF Call
  <2> QED BY <2>1, <2>2, <2>3, <2>4 DEF Block
<1>3. Inv'
    BY CallPreserves DEF StrongInv
<1> QED BY <1>1, <1>2, <1>3, KeepsBlock DEF StrongInv

\* A block starts, or ends without having run: all that is left of former
\* ones are their save points, emptied.
LEMMA StartsClean ==
    ASSUME StrongInv, Inv', NoBlock', NEW let_down \in BOOLEAN, Follow(let_down),
           levels' \in Seq(Levels), \A k \in 1..Len(levels') : levels'[k].writes = {}
    PROVE  AtomicBlocks' /\ SavePointsUndone' /\ (let_down => BlockInv')
<1>1. /\ durable' = {} /\ lost' = {} /\ undone' = {} /\ ended' = "none"
      /\ hurt' = let_down
    BY DEF Follow
<1> QED BY <1>1 DEF AtomicBlocks, SavePointsUndone, BlockInv

LEMMA StartInDatabaseStrong == StrongInv /\ StartInDatabase => StrongInv'
<1> SUFFICES ASSUME StrongInv, StartInDatabase PROVE StrongInv'
    OBVIOUS
<1>1. /\ Follow(FALSE) /\ levels' = Leftover /\ running' = "inDatabase"
      /\ frames' = <<>> /\ saved' = 0
    BY DEF StartInDatabase, CanStart, Run, StrongInv, NoBlock
<1>2. Inv' /\ NoBlock'
    BY <1>1, StartInDatabasePreserves DEF StrongInv, NoBlock
<1>3. levels' \in Seq(Levels) /\ \A k \in 1..Len(levels') : levels'[k].writes = {}
    BY <1>1, EachLeftover DEF StrongInv, Inv, TypeOK
<1>4. AtomicBlocks' /\ SavePointsUndone'
    BY <1>1, <1>2, <1>3, StartsClean
<1>5. BlockInv'
  <2>1. Len(levels') \in Nat /\ Len(frames') = 0 /\ 1..Len(frames') = {}
      BY <1>1, <1>3
  <2> QED BY <1>1, <1>3, <2>1 DEF BlockInv, Nested, Separate, Undone, InItsTransaction, Follow
<1> QED BY <1>2, <1>4, <1>5 DEF StrongInv

LEMMA StartInTransactionStrong == StrongInv /\ StartInTransaction => StrongInv'
<1> SUFFICES ASSUME StrongInv, StartInTransaction PROVE StrongInv'
    OBVIOUS
<1>1. running' = "inTransaction" /\ frames' = <<>> /\ saved' = 0
    BY DEF StartInTransaction, CanStart, Run, StrongInv, NoBlock
<1>2. Inv' /\ NoBlock'
    BY <1>1, StartInTransactionPreserves DEF StrongInv, NoBlock
<1>3. CASE levels = <<>> /\ PushLevel(Begin) /\ Follow(FALSE)
  <2>1. levels' = Append(levels, [name |-> Begin, writes |-> {}]) /\ levels \in Seq(Levels)
      BY <1>3 DEF PushLevel, StrongInv, Inv, TypeOK
  <2>2. Len(levels') = Len(levels) + 1 /\ levels'[Len(levels) + 1].writes = {}
      BY <2>1, EachPushed DEF Names
  <2>3. Len(levels') = 1 /\ levels'[1].writes = {} /\ levels' \in Seq(Levels)
      BY <1>2, <1>3, <2>2 DEF Inv, TypeOK
  <2>4. AtomicBlocks' /\ SavePointsUndone'
    <3>1. \A k \in 1..Len(levels') : levels'[k].writes = {}
        BY <2>3
    <3> QED BY <1>2, <1>3, <2>3, <3>1, StartsClean
  <2>5. Len(frames') = 0 /\ 1..Len(frames') = {}
      BY <1>1
  <2>6. BlockInv'
      BY <1>1, <1>3, <2>3, <2>5 DEF BlockInv, Nested, Separate, Undone, InItsTransaction, Follow
  <2> QED BY <1>2, <2>4, <2>6 DEF StrongInv
<1>4. CASE levels' = Leftover /\ Follow(TRUE)
  <2>1. levels' \in Seq(Levels) /\ \A k \in 1..Len(levels') : levels'[k].writes = {}
      BY <1>4, EachLeftover DEF StrongInv, Inv, TypeOK
  <2> QED BY <1>2, <1>4, <2>1, StartsClean DEF StrongInv
<1> QED BY <1>3, <1>4 DEF StartInTransaction

LEMMA StartInSavePointStrong == StrongInv /\ StartInSavePoint => StrongInv'
<1> SUFFICES ASSUME StrongInv, StartInSavePoint PROVE StrongInv'
    OBVIOUS
<1>1. Follow(FALSE) /\ frames = <<>> /\ saved = 0 /\ queue # <<>> /\ Inv'
    BY StartInSavePointPreserves DEF StartInSavePoint, CanStart, StrongInv, NoBlock
<1>2. /\ Leftover \in Seq(Levels) /\ Len(Leftover) = Len(levels) /\ Len(levels) \in Nat
      /\ \A k \in 1..Len(levels) : Leftover[k].writes = {}
    BY EachLeftover, EachLevel DEF StrongInv, Inv, TypeOK
<1>3. CASE /\ Run("inSavePoint") /\ saved' = 1 /\ frames' = <<1>>
           /\ levels' = Append(Leftover, [name |-> <<Block, 1>>, writes |-> {}])
  <2>1. <<Block, 1>> \in Names
      BY <1>1, BlockName, QueueAssumption DEF QueueAssumption, StrongInv, Inv
  <2>2. /\ Len(levels') = Len(levels) + 1
        /\ \A k \in 1..Len(levels) : levels'[k] = Leftover[k]
        /\ levels'[Len(levels) + 1].name = <<Block, 1>>
        /\ levels'[Len(levels) + 1].writes = {}
      BY <1>2, <1>3, <2>1, EachPushed
  <2>3. \A k \in 1..Len(levels') : levels'[k].writes = {}
      BY <1>2, <2>2
  <2>4. NoBlock' /\ running' = "inSavePoint" /\ Block' = Block
      BY <1>3 DEF NoBlock, Run, callVars, Block
  <2>5. AtomicBlocks' /\ SavePointsUndone'
      BY <1>1, <2>3, <2>4, StartsClean DEF Inv, TypeOK
  <2>6. Len(frames') = 1 /\ frames'[1] = 1
      BY <1>3
  <2>7. Nested'
      BY <1>2, <1>3, <2>2, <2>4, <2>6 DEF Nested
  <2>8. Separate' /\ Undone'
      BY <1>1, <1>3, <2>3, <2>6 DEF Separate, Undone, Follow
  <2>9. BlockInv'
      BY <1>1, <2>4, <2>7, <2>8 DEF BlockInv, InItsTransaction, Follow
  <2> QED BY <1>1, <2>4, <2>5, <2>9 DEF StrongInv
<1>4. CASE Return /\ levels' = Leftover /\ UNCHANGED frames
  <2>1. NoBlock' /\ BlockInv'
      BY <1>1, <1>4 DEF NoBlock, BlockInv, Return
  <2>2. levels' \in Seq(Levels) /\ \A k \in 1..Len(levels') : levels'[k].writes = {}
      BY <1>2, <1>4
  <2>3. AtomicBlocks' /\ SavePointsUndone'
      BY <1>1, <2>1, <2>2, StartsClean
  <2> QED BY <1>1, <2>1, <2>3 DEF StrongInv
<1> QED BY <1>3, <1>4 DEF StartInSavePoint

LEMMA CloseStrong == StrongInv /\ Close => StrongInv'
<1> SUFFICES ASSUME StrongInv, Close PROVE StrongInv'
    OBVIOUS
<1>1. /\ Follow(FALSE) /\ running' = "none" /\ frames' = <<>> /\ saved' = 0
      /\ levels' = <<>> /\ Inv'
    BY ClosePreserves DEF Close, CanStart, Return, StrongInv, NoBlock
<1>2. NoBlock' /\ BlockInv'
    BY <1>1 DEF NoBlock, BlockInv
<1>3. levels' \in Seq(Levels) /\ 1..Len(levels') = {}
    BY <1>1
<1>4. AtomicBlocks' /\ SavePointsUndone'
    BY <1>1, <1>2, <1>3, StartsClean
<1> QED BY <1>1, <1>2, <1>4 DEF StrongInv

LEMMA WriteStrong == StrongInv /\ Write => StrongInv'
<1> SUFFICES ASSUME StrongInv, Write PROVE StrongInv'
    OBVIOUS
<1> DEFINE tag == IF frames = <<>> THEN 0 ELSE Last(frames)
<1>1. /\ UNCHANGED <<queue, received, running, frames, saved, undone, ended>>
      /\ running # "none"
    BY DEF Write, callVars, blockVars
<1>2. Inv' /\ NoBlock'
    BY <1>1, WritePreserves DEF StrongInv, NoBlock
<1>3. CASE hurt'
    BY <1>2, <1>3 DEF StrongInv, BlockInv, AtomicBlocks, SavePointsUndone
<1>4. ASSUME ~hurt'
      PROVE  StrongInv'
  <2>1. /\ hurt' = hurt /\ lost' = lost
        /\ \/ levels = <<>> /\ durable' = durable \cup {tag} /\ levels' = levels
           \/ levels # <<>> /\ levels' = WithWrites(levels, {tag}) /\ durable' = durable
      BY <1>4 DEF Write
  <2>2. Nested /\ Separate /\ Undone /\ InItsTransaction /\ ended = "none"
      BY <1>1, <1>4, <2>1 DEF StrongInv, BlockInv
  <2>3. levels \in Seq(Levels) /\ Len(levels) \in Nat /\ (levels = <<>> <=> Len(levels) = 0)
      BY EachLevel DEF StrongInv, Inv, TypeOK
  <2>4. /\ frames \in Seq(1..MaxSavePoints) /\ Len(frames) \in Nat
        /\ frames = <<>> <=> Len(frames) = 0
        /\ \A j \in 1..Len(frames) : frames[j] \in 1..MaxSavePoints /\ frames[j] \in Nat \ {0}
        /\ saved \in Nat
      BY QueueAssumption DEF QueueAssumption, StrongInv, Inv, TypeOK
  \* The write is the youngest save point's own.
  <2>5. /\ tag \in Nat /\ tag <= saved /\ tag \notin undone /\ tag \in Writes
        /\ \A j \in 1..Len(frames) : tag >= frames[j]
        /\ frames # <<>> => levels # <<>>
    <3>1. CASE frames = <<>>
        BY <2>2, <2>4, <3>1, QueueAssumption DEF Undone, Writes, QueueAssumption
    <3>2. CASE frames # <<>>
      <4>1. tag = frames[Len(frames)] /\ Len(frames) \in 1..Len(frames)
          BY <2>4, <3>2, LastLevel
      <4>2. tag \in 1..MaxSavePoints
          BY <2>4, <4>1
      <4>3. \A j \in 1..Len(frames) : tag >= frames[j]
          BY <2>2, <2>4, <4>1 DEF Nested
      <4> QED BY <2>2, <2>3, <2>4, <3>2, <4>1, <4>2, <4>3, QueueAssumption
              DEF Nested, Undone, Writes, QueueAssumption
    <3> QED BY <3>1, <3>2
  <2> HIDE DEF tag
  <2>6. CASE levels = <<>> /\ durable' = durable \cup {tag} /\ levels' = levels
    <3>1. Len(frames) = 0 /\ Len(levels) = 0
        BY <2>3, <2>4, <2>5, <2>6
    <3>2. Separate'
        BY <1>1, <2>2, <2>5, <2>6, <3>1 DEF Separate
    <3>3. Undone' /\ Nested'
        BY <1>1, <2>1, <2>2, <2>5, <2>6, <3>1 DEF Undone, Nested
    <3>4. running # "inTransaction"
        BY <2>2, <3>1 DEF InItsTransaction
    <3>5. BlockInv' /\ AtomicBlocks'
        BY <1>1, <2>2, <3>2, <3>3, <3>4 DEF BlockInv, InItsTransaction, AtomicBlocks
    <3>6. SavePointsUndone'
        BY <3>3 DEF Undone, SavePointsUndone
    <3> QED BY <1>2, <3>5, <3>6 DEF StrongInv
  <2>7. CASE levels # <<>> /\ levels' = WithWrites(levels, {tag}) /\ durable' = durable
    <3>1. /\ Len(levels') = Len(levels)
          /\ \A k \in 1..Len(levels) :
               /\ levels'[k].name = levels[k].name
               /\ levels'[k].writes =
                    IF k = Len(levels) THEN levels[k].writes \cup {tag} ELSE levels[k].writes
      <4>1. {tag} \in SUBSET Writes
          BY <2>5
      <4> QED BY <2>3, <2>7, <4>1, EachWritten
    <3>2. Nested'
      <4>1. ASSUME NEW i \in 1..Len(frames)
            PROVE  levels'[Len(levels) - Len(frames) + i].name = <<Block, frames[i]>>
        <5>1. Len(levels) - Len(frames) + i \in 1..Len(levels)
            BY <2>2, <2>3, <2>4 DEF Nested
        <5> QED BY <2>2, <3>1, <5>1 DEF Nested
      <4>2. Block' = Block
          BY <1>1 DEF Block
      <4> QED BY <1>1, <2>2, <3>1, <4>1, <4>2 DEF Nested
    <3>3. Separate'
      <4>1. ASSUME NEW k \in 1..Len(levels), NEW w \in levels'[k].writes
            PROVE  /\ w <= saved
                   /\ \A j \in 1..Len(frames) :
                        IF k < Len(levels) - Len(frames) + j THEN w < frames[j]
                                                             ELSE w >= frames[j]
        <5>1. CASE w \in levels[k].writes
            BY <2>2, <5>1 DEF Separate
        <5>2. CASE w = tag /\ k = Len(levels)
            BY <2>2, <2>3, <2>4, <2>5, <5>2
        <5> QED BY <3>1, <5>1, <5>2
      <4>2. \A w \in durable' : w <= saved' /\ \A j \in 1..Len(frames') : w < frames'[j]
          BY <1>1, <2>2, <2>7 DEF Separate
      <4> QED BY <1>1, <3>1, <4>1, <4>2 DEF Separate
    <3>4. Undone'
      <4>1. \A w \in undone : \A k \in 1..Len(levels') : w \notin levels'[k].writes
          BY <2>2, <2>5, <3>1 DEF Undone
      <4> QED BY <1>1, <2>1, <2>2, <2>7, <4>1 DEF Undone
    <3>5. BlockInv' /\ AtomicBlocks'
      <4>1. InItsTransaction'
          BY <1>1, <2>1, <2>2, <2>7, <3>1 DEF InItsTransaction
      <4> QED BY <1>1, <2>2, <2>7, <3>2, <3>3, <3>4, <4>1 DEF BlockInv, InItsTransaction, AtomicBlocks
    <3>6. SavePointsUndone'
        BY <3>4 DEF Undone, SavePointsUndone
    <3> QED BY <1>2, <3>5, <3>6 DEF StrongInv
  <2> QED BY <2>1, <2>6, <2>7
<1> QED BY <1>3, <1>4

LEMMA StartSavePointStrong == StrongInv /\ StartSavePoint => StrongInv'
<1> SUFFICES ASSUME StrongInv, StartSavePoint PROVE StrongInv'
    OBVIOUS
<1>1. /\ UNCHANGED <<queue, received, running, durable, lost, undone, ended, hurt>>
      /\ running # "none" /\ saved' = saved + 1 /\ frames' = Append(frames, saved + 1)
      /\ levels' = Append(levels, [name |-> <<Block, saved + 1>>, writes |-> {}])
    BY DEF StartSavePoint, callVars, history, PushLevel
<1>2. Inv' /\ NoBlock'
    BY <1>1, StartSavePointPreserves DEF StrongInv, NoBlock
<1>3. CASE hurt
    BY <1>1, <1>2, <1>3 DEF StrongInv, BlockInv, AtomicBlocks, SavePointsUndone
<1>4. ASSUME ~hurt
      PROVE  StrongInv'
  <2>1. Nested /\ Separate /\ Undone /\ InItsTransaction /\ ended = "none"
      BY <1>1, <1>4 DEF StrongInv, BlockInv
  <2>2. levels \in Seq(Levels) /\ Len(levels) \in Nat
      BY EachLevel DEF StrongInv, Inv, TypeOK
  <2>3. /\ frames \in Seq(1..MaxSavePoints) /\ Len(frames) \in Nat
        /\ \A j \in 1..Len(frames) : frames[j] \in Nat
        /\ saved \in Nat /\ saved + 1 \in 1..MaxSavePoints /\ queue # <<>>
      BY <1>1, QueueAssumption DEF QueueAssumption, StrongInv, Inv, TypeOK, StartSavePoint
  <2>4. /\ Len(frames') = Len(frames) + 1 /\ frames'[Len(frames) + 1] = saved + 1
        /\ \A j \in 1..Len(frames) : frames'[j] = frames[j]
      BY <1>1, <2>3, AppendProperties
  <2>5. /\ Len(levels') = Len(levels) + 1
        /\ \A k \in 1..Len(levels) : levels'[k] = levels[k]
        /\ levels'[Len(levels) + 1].name = <<Block, saved + 1>>
        /\ levels'[Len(levels) + 1].writes = {}
    <3>1. <<Block, saved + 1>> \in Names
        BY <2>3, BlockName, QueueAssumption DEF QueueAssumption, StrongInv, Inv
    <3> QED BY <1>1, <2>2, <3>1, EachPushed
  <2>6. Block' = Block
      BY <1>1 DEF Block
  <2>7. Nested'
    <3>1. ASSUME NEW i \in 1..Len(frames')
          PROVE  /\ levels'[Len(levels') - Len(frames') + i].name = <<Block', frames'[i]>>
                 /\ frames'[i] <= saved'
      <4>1. CASE i \in 1..Len(frames)
        <5>1. Len(levels) - Len(frames) + i \in 1..Len(levels)
            BY <2>1, <2>2, <2>3, <4>1 DEF Nested
        <5>2. Len(levels') - Len(frames') + i = Len(levels) - Len(frames) + i
            BY <2>2, <2>3, <2>4, <2>5
        <5> QED BY <1>1, <2>1, <2>3, <2>4, <2>5, <2>6, <4>1, <5>1, <5>2 DEF Nested
      <4>2. CASE i = Len(frames) + 1
        <5>1. Len(levels') - Len(frames') + i = Len(levels) + 1
            BY <2>2, <2>3, <2>4, <2>5, <4>2
        <5> QED BY <1>1, <2>3, <2>4, <2>5, <2>6, <4>2, <5>1
      <4> QED BY <2>3, <2>4, <4>1, <4>2
    <3>2. ASSUME NEW i \in 1..Len(frames'), NEW j \in 1..Len(frames'), i < j
          PROVE  frames'[i] < frames'[j]
      <4>1. i \in 1..Len(frames) /\ frames'[i] = frames[i] /\ frames[i] <= saved
          BY <2>1, <2>3, <2>4, <3>2 DEF Nested
      <4>2. CASE j \in 1..Len(frames)
          BY <2>1, <2>4, <3>2, <4>1, <4>2 DEF Nested
      <4>3. CASE j = Len(frames) + 1
          BY <2>3, <2>4, <4>1, <4>3
      <4> QED BY <2>3, <2>4, <4>2, <4>3
    <3>3. Len(frames') <= Len(levels')
        BY <2>1, <2>2, <2>3, <2>4, <2>5 DEF Nested
    <3> QED BY <3>1, <3>2, <3>3 DEF Nested
  <2>8. \A k \in 1..Len(levels') : \A w \in levels'[k].writes :
          k \in 1..Len(levels) /\ w \in levels[k].writes /\ w \in Nat
    <3>1. \A k \in 1..Len(levels) : levels[k].writes \subseteq Nat
        BY <2>2, EachLevel, QueueAssumption DEF Writes, QueueAssumption
    <3> QED BY <2>2, <2>5, <3>1
  <2>9. \A w \in durable : w \in Nat
      BY QueueAssumption DEF QueueAssumption, StrongInv, Inv, TypeOK, Writes
  <2>10. Separate'
    <3>1. ASSUME NEW k \in 1..Len(levels'), NEW w \in levels'[k].writes
          PROVE  /\ w <= saved'
                 /\ \A j \in 1..Len(frames') :
                      IF k < Len(levels') - Len(frames') + j THEN w < frames'[j]
                                                             ELSE w >= frames'[j]
      <4>1. k \in 1..Len(levels) /\ w \in levels[k].writes /\ w \in Nat
          BY <2>8
      <4>2. w <= saved /\ \A j \in 1..Len(frames) :
              IF k < Len(levels) - Len(frames) + j THEN w < frames[j] ELSE w >= frames[j]
          BY <2>1, <4>1 DEF Separate
      <4> QED BY <1>1, <2>1, <2>2, <2>3, <2>4, <2>5, <4>1, <4>2 DEF Nested
    <3>2. \A w \in durable' : w <= saved' /\ \A j \in 1..Len(frames') : w < frames'[j]
        BY <1>1, <2>1, <2>3, <2>4, <2>9 DEF Separate
    <3> QED BY <3>1, <3>2 DEF Separate
  <2>11. Undone'
    <3>1. undone' \subseteq 1..saved' /\ saved + 1 \notin undone
        BY <1>1, <2>1, <2>3 DEF Undone
    <3>2. \A j \in 1..Len(frames') : frames'[j] \notin undone'
        BY <1>1, <2>1, <2>3, <2>4, <3>1 DEF Undone
    <3>3. \A w \in undone' : w \notin durable' /\ \A k \in 1..Len(levels') : w \notin levels'[k].writes
        BY <1>1, <2>1, <2>8 DEF Undone
    <3> QED BY <1>1, <2>1, <3>1, <3>2, <3>3 DEF Undone
  <2>12. BlockInv' /\ AtomicBlocks'
      BY <1>1, <2>1, <2>2, <2>3, <2>4, <2>5, <2>7, <2>10, <2>11
      DEF BlockInv, InItsTransaction, AtomicBlocks
  <2>13. SavePointsUndone'
      BY <2>11 DEF Undone, SavePointsUndone
  <2> QED BY <1>2, <2>12, <2>13 DEF StrongInv
<1> QED BY <1>3, <1>4

\* The end of the youngest save point f: its writes, all at or after f, are
\* undone or go to the level below, whose own are before f.
LEMMA EndSavePointStrong ==
    ASSUME StrongInv, NEW rollback \in BOOLEAN, EndSavePoint(rollback)
    PROVE  StrongInv'
<1> DEFINE n == Len(frames)
           m == Len(levels)
           f == frames[n]
           top == levels[m].writes
           ws == IF rollback THEN {} ELSE top
<1>1. /\ running # "none" /\ frames # <<>> /\ frames' = Front(frames)
      /\ Undo(rollback) /\ UNCHANGED <<isOpen, isInTransaction, ended>>
      /\ IF Len(frames) = 1 /\ running = "inSavePoint"
         THEN Return
         ELSE UNCHANGED <<callVars, running, saved>>
    BY DEF EndSavePoint
<1>2. /\ frames \in Seq(1..MaxSavePoints) /\ n \in Nat \ {0}
      /\ \A j \in 1..n : frames[j] \in Nat \ {0}
      /\ saved \in Nat
    BY <1>1, QueueAssumption DEF QueueAssumption, StrongInv, Inv, TypeOK
<1>3. /\ Len(frames') = n - 1 /\ \A j \in 1..(n - 1) : frames'[j] = frames[j]
      /\ n = 1 => frames' = <<>>
    BY <1>1, <1>2, EachFront
<1>4. NoBlock'
    BY <1>1, <1>3 DEF NoBlock, Return, StrongInv
<1>5. Inv'
    BY EndSavePointPreserves DEF StrongInv
<1>6. CASE hurt'
    BY <1>4, <1>5, <1>6 DEF StrongInv, BlockInv, AtomicBlocks, SavePointsUndone
<1>7. ASSUME ~hurt'
      PROVE  StrongInv'
  <2>1. levels \in Seq(Levels) /\ m \in Nat /\ (levels = <<>> <=> m = 0)
      BY EachLevel DEF StrongInv, Inv, TypeOK
  <2>2. ~hurt
      BY <1>7 DEF EndSavePoint, StrongInv, Inv, TypeOK
  <2>3. Nested /\ Separate /\ Undone /\ InItsTransaction /\ ended = "none"
      BY <1>1, <2>2 DEF StrongInv, BlockInv
  <2>4. n <= m /\ m \in 1..m /\ levels # <<>> /\ n \in 1..n
      BY <1>2, <2>1, <2>3 DEF Nested
  <2>5. Last(frames) = f /\ Last(levels) = levels[m] /\ levels[m].name = <<Block, f>>
    <3>1. m - n + n = m
        BY <1>2, <2>1
    <3> QED BY <1>1, <1>2, <2>1, <2>3, <2>4, <3>1, LastLevel DEF Nested
  <2>6. ReleaseTop(ws)
      BY <1>7, <2>4, <2>5 DEF EndSavePoint
  <2>7. undone' = IF rollback THEN undone \cup (f..saved) ELSE undone
      BY <1>1, <2>5 DEF Undo
  <2>8. f \in Nat \ {0} /\ \A j \in 1..(n - 1) : frames[j] < f
    <3>1. f \in Nat \ {0}
        BY <1>2, <2>4
    <3>2. \A i, j \in 1..n : i < j => frames[i] < frames[j]
        BY <2>3 DEF Nested
    <3>3. \A j \in 1..(n - 1) : j \in 1..n /\ j < n
        BY <1>2
    <3>4. \A j \in 1..(n - 1) : frames[j] < frames[n]
        BY <2>4, <3>2, <3>3
    <3> QED BY <3>1, <3>4
  <2>9. \A k \in 1..m : \A w \in levels[k].writes : w \in Nat
      BY <2>1, EachLevel, QueueAssumption DEF Writes, QueueAssumption
  <2>10. /\ \A w \in top : w \in f..saved
         /\ \A k \in 1..(m - 1) : \A w \in levels[k].writes : w < f
    <3>1. \A w \in top : w >= f /\ w <= saved
        BY <1>2, <2>1, <2>3, <2>4 DEF Separate
    <3>2. \A k \in 1..(m - 1) : k < m - n + n
        BY <1>2, <2>1
    <3>3. \A k \in 1..(m - 1) : \A w \in levels[k].writes : w < f
        BY <2>1, <2>3, <2>4, <3>2 DEF Separate
    <3> QED BY <1>2, <2>4, <2>8, <2>9, <3>1, <3>3
  <2>11. \A w \in durable : w \in Nat /\ w < f
      BY <2>3, <2>4, QueueAssumption DEF Separate, QueueAssumption, StrongInv, Inv, TypeOK, Writes
  <2>12. /\ lost' = lost \cup (top \ ws)
         /\ running = "inTransaction" => lost' \subseteq undone'
    <3>1. lost' = lost \cup (top \ ws)
        BY <2>5, <2>6 DEF ReleaseTop
    <3>2. rollback => top \subseteq undone'
        BY <2>7, <2>10
    <3> QED BY <2>3, <2>7, <3>1, <3>2 DEF InItsTransaction
  <2>13. ws \subseteq top /\ \A w \in ws : w \notin undone'
      BY <2>3, <2>4, <2>7 DEF Undone
  <2>14. \A w \in durable : w \notin undone'
    <3>1. \A w \in durable : w \notin undone /\ w \notin f..saved
        BY <1>2, <2>3, <2>8, <2>11 DEF Undone
    <3> QED BY <2>7, <3>1
  <2>15. \A k \in 1..(m - 1) : \A w \in levels[k].writes : w \notin undone'
    <3>1. \A k \in 1..(m - 1) : \A w \in levels[k].writes : w \notin undone /\ w \notin f..saved
        BY <1>2, <2>1, <2>3, <2>8, <2>9, <2>10 DEF Undone
    <3> QED BY <2>7, <3>1
  <2> HIDE DEF ws, top, f
  <2>16. \A w \in durable' : w \notin undone'
    <3>1. durable' \subseteq durable \cup ws
        BY <2>6 DEF ReleaseTop
    <3> QED BY <2>13, <2>14, <3>1
  <2>17. SavePointsUndone' /\ AtomicBlocks'
      BY <1>1, <2>3, <2>16 DEF SavePointsUndone, AtomicBlocks
  <2>18. CASE running' = "none"
      BY <1>4, <1>5, <2>17, <2>18 DEF StrongInv, BlockInv
  <2>19. CASE running' # "none"
    <3>1. UNCHANGED <<queue, received, running, saved>> /\ Block' = Block
        BY <1>1, <2>19 DEF Return, callVars, Block
    <3>2. undone' \subseteq 1..saved /\ \A j \in 1..(n - 1) : frames[j] \notin undone'
      <4>1. f..saved \subseteq 1..saved /\ \A j \in 1..(n - 1) : frames[j] \notin f..saved
          BY <1>2, <2>8
      <4>2. /\ undone \subseteq 1..saved
            /\ \A j \in 1..(n - 1) : frames[j] \notin undone
          BY <1>2, <2>3 DEF Undone
      <4> QED BY <2>7, <4>1, <4>2
    <3>3. CASE m = 1
      <4>1. levels' = <<>> /\ n = 1 /\ Len(levels') = 0 /\ Len(frames') = 0 /\ durable' = durable \cup ws
          BY <1>2, <1>3, <2>1, <2>4, <2>6, <3>3 DEF ReleaseTop
      <4>2. running # "inTransaction"
          BY <2>3, <3>3, <4>1 DEF InItsTransaction
      <4>3. \A w \in durable' : w <= saved
          BY <2>3, <2>10, <2>13, <4>1 DEF Separate
      <4>4. Nested' /\ Separate' /\ Undone'
          BY <2>12, <2>16, <3>1, <3>2, <4>1, <4>3 DEF Nested, Separate, Undone
      <4> QED BY <1>1, <1>4, <1>5, <2>3, <2>17, <3>1, <4>2, <4>4
              DEF StrongInv, BlockInv, InItsTransaction
    <3>4. CASE m # 1
      <4>1. levels' = WithWrites(Front(levels), ws) /\ durable' = durable
          BY <2>6, <3>4 DEF ReleaseTop
      <4>2. /\ Front(levels) \in Seq(Levels) /\ Len(Front(levels)) = m - 1 /\ Front(levels) # <<>>
            /\ \A k \in 1..(m - 1) : Front(levels)[k] = levels[k]
          BY <2>1, <2>4, <3>4, EachFront, FrontLevels
      <4>3. ws \in SUBSET Writes
          BY <2>1, <2>4, <2>13, EachLevel DEF top
      <4>4. /\ Len(levels') = m - 1
            /\ \A k \in 1..(m - 1) :
                 /\ levels'[k].name = levels[k].name
                 /\ levels'[k].writes =
                      IF k = m - 1 THEN levels[k].writes \cup ws ELSE levels[k].writes
        <5>1. /\ Len(levels') = Len(Front(levels))
              /\ \A k \in 1..Len(Front(levels)) :
                   /\ levels'[k].name = Front(levels)[k].name
                   /\ levels'[k].writes =
                        IF k = Len(Front(levels)) THEN Front(levels)[k].writes \cup ws
                                                  ELSE Front(levels)[k].writes
            BY <4>1, <4>2, <4>3, EachWritten
        <5> HIDE DEF m
        <5> QED BY <4>2, <5>1
      <4>5. Nested'
        <5>1. ASSUME NEW i \in 1..(n - 1)
              PROVE  /\ levels'[Len(levels') - Len(frames') + i].name = <<Block', frames'[i]>>
                     /\ frames'[i] <= saved'
          <6>1. m - n + i \in 1..(m - 1) /\ Len(levels') - Len(frames') + i = m - n + i /\ i \in 1..n
              BY <1>2, <1>3, <2>1, <2>4, <4>4
          <6>2. levels[m - n + i].name = <<Block, frames[i]>> /\ frames[i] <= saved
              BY <2>3, <6>1 DEF Nested
          <6> QED BY <1>3, <3>1, <4>4, <6>1, <6>2
        <5>2. ASSUME NEW i \in 1..(n - 1), NEW j \in 1..(n - 1), i < j
              PROVE  frames'[i] < frames'[j]
          <6>1. i \in 1..n /\ j \in 1..n
              BY <1>2
          <6> QED BY <1>3, <2>3, <5>2, <6>1 DEF Nested
        <5>3. Len(frames') <= Len(levels') /\ 1..Len(frames') = 1..(n - 1)
            BY <1>2, <1>3, <2>1, <2>4, <4>4
        <5> HIDE DEF n, m
        <5> QED BY <5>1, <5>2, <5>3 DEF Nested
      <4>6. Separate'
        <5>1. ASSUME NEW k \in 1..(m - 1), NEW w \in levels'[k].writes
              PROVE  /\ w <= saved
                     /\ \A j \in 1..(n - 1) :
                          IF k < m - n + j THEN w < frames[j] ELSE w >= frames[j]
          <6>1. CASE w \in levels[k].writes
            <7>1. k \in 1..m /\ \A j \in 1..(n - 1) : j \in 1..n
                BY <1>2, <2>1
            <7>2. /\ w <= saved
                  /\ \A j \in 1..n : IF k < m - n + j THEN w < frames[j] ELSE w >= frames[j]
                BY <2>3, <6>1, <7>1 DEF Separate
            <7> QED BY <7>1, <7>2
          <6>2. CASE w \in ws /\ k = m - 1
            <7>1. w \in f..saved
                BY <2>10, <2>13, <6>2
            <7> QED BY <1>2, <2>1, <2>4, <2>8, <6>2, <7>1
          <6> QED BY <4>4, <6>1, <6>2
        <5>2. \A w \in durable : w <= saved /\ \A j \in 1..(n - 1) : w < frames[j]
            BY <1>2, <2>3 DEF Separate
        <5>3. Len(levels') - Len(frames') = m - n
            BY <1>2, <1>3, <2>1, <4>4
        <5> QED BY <1>3, <3>1, <4>1, <4>4, <5>1, <5>2, <5>3 DEF Separate
      <4>7. Undone'
        <5>1. \A k \in 1..(m - 1) : \A w \in levels'[k].writes : w \notin undone'
            BY <2>13, <2>15, <4>4
        <5> QED BY <1>3, <2>12, <2>16, <3>1, <3>2, <4>4, <5>1 DEF Undone
      <4>8. InItsTransaction'
          BY <1>2, <1>3, <2>1, <2>3, <2>12, <3>1, <4>1, <4>4 DEF InItsTransaction
      <4> QED BY <1>1, <1>4, <1>5, <2>3, <2>17, <4>5, <4>6, <4>7, <4>8 DEF StrongInv, BlockInv
    <3> QED BY <3>3, <3>4
  <2> QED BY <2>18, <2>19
<1> QED BY <1>6, <1>7

\* A transaction by hand opens only where no save point is open.
LEMMA BeginByHandStrong == StrongInv /\ BeginByHand => StrongInv'
<1> SUFFICES ASSUME StrongInv, BeginByHand PROVE StrongInv'
    OBVIOUS
<1>1. /\ running # "none" /\ levels = <<>> /\ PushLevel(ByHand)
      /\ UNCHANGED <<queue, running, frames, saved, durable, lost, undone, ended, hurt>>
    BY DEF BeginByHand, callVars, blockVars, history
<1>2. Inv' /\ NoBlock'
    BY <1>1, BeginByHandPreserves DEF StrongInv, NoBlock
<1>3. Len(levels') = 1 /\ levels'[1].writes = {} /\ Len(levels) = 0
  <2>1. levels \in Seq(Levels) /\ ByHand \in Names
      BY DEF StrongInv, Inv, TypeOK, Names
  <2>2. /\ Len(levels') = Len(levels) + 1 /\ levels'[Len(levels) + 1].writes = {}
        /\ Len(levels) = 0
      BY <1>1, <2>1, EachPushed DEF PushLevel
  <2> QED BY <2>2
<1>4. Uncommitted' = {}
    BY <1>2, <1>3 DEF Uncommitted, Inv, TypeOK
<1>5. AtomicBlocks' /\ SavePointsUndone'
    BY <1>1, <1>4 DEF StrongInv, AtomicBlocks, SavePointsUndone
<1>6. ASSUME ~hurt PROVE Nested' /\ Separate' /\ Undone' /\ InItsTransaction' /\ ended' = "none"
  <2>1. Nested /\ Separate /\ Undone /\ InItsTransaction /\ ended = "none"
      BY <1>1, <1>6 DEF StrongInv, BlockInv
  <2>2. Len(frames) = 0 /\ 1..Len(frames) = {} /\ running # "inTransaction"
    <3>1. Len(frames) \in Nat
        BY DEF StrongInv, Inv, TypeOK
    <3> QED BY <1>3, <2>1, <3>1 DEF Nested, InItsTransaction
  <2> QED BY <1>1, <1>3, <2>1, <2>2 DEF Nested, Separate, Undone, InItsTransaction
<1>7. BlockInv'
    BY <1>1, <1>6 DEF BlockInv
<1> QED BY <1>2, <1>5, <1>7 DEF StrongInv

\* What a plain block that is in no save point commits by hand is not undone.
LEMMA EndByHandStrong == StrongInv /\ EndByHand => StrongInv'
<1> SUFFICES ASSUME StrongInv, EndByHand PROVE StrongInv'
    OBVIOUS
<1>1. /\ running # "none"
      /\ CommitAll \/ RollbackAll
      /\ UNCHANGED <<queue, running, frames, saved, undone, ended>>
    BY DEF EndByHand, callVars, blockVars
<1>2. Inv' /\ NoBlock'
    BY <1>1, EndByHandPreserves DEF StrongInv, NoBlock
<1>3. CASE hurt'
    BY <1>2, <1>3 DEF StrongInv, BlockInv, AtomicBlocks, SavePointsUndone
<1>4. CASE ~hurt'
  <2>1. ~hurt /\ running = "inDatabase" /\ frames = <<>>
      BY <1>4 DEF EndByHand
  <2>2. Separate /\ Undone /\ ended = "none"
      BY <1>1, <2>1 DEF StrongInv, BlockInv
  <2>3. levels' = <<>> /\ Len(levels') = 0 /\ durable' \subseteq durable \cup Uncommitted
      BY <1>1 DEF CommitAll, RollbackAll
  <2>4. \A w \in Uncommitted : w <= saved /\ w \notin undone
      BY <2>2, EachLevel DEF Separate, Undone, StrongInv, Inv, TypeOK
  <2>5. Len(frames') = 0 /\ 1..Len(frames') = {}
      BY <1>1, <2>1
  <2>6. Nested' /\ Separate' /\ Undone' /\ InItsTransaction'
      BY <1>1, <2>1, <2>2, <2>3, <2>4, <2>5 DEF Nested, Separate, Undone, InItsTransaction
  <2>7. AtomicBlocks' /\ SavePointsUndone'
      BY <1>1, <2>2, <2>3, <2>4 DEF AtomicBlocks, SavePointsUndone, Undone
  <2> QED BY <1>1, <1>2, <2>2, <2>6, <2>7 DEF StrongInv, BlockInv
<1> QED BY <1>2, <1>3, <1>4 DEF Inv, TypeOK

LEMMA EndInDatabaseStrong == StrongInv /\ EndInDatabase => StrongInv'
<1> SUFFICES ASSUME StrongInv, EndInDatabase PROVE StrongInv'
    OBVIOUS
<1>1. /\ running' = "none" /\ frames' = <<>> /\ saved' = 0
      /\ UNCHANGED <<levels, durable, lost, undone, ended, hurt>>
    BY DEF EndInDatabase, Return, sqliteVars, history
<1>2. Inv'
    BY EndInDatabasePreserves DEF StrongInv
<1>3. AtomicBlocks' /\ SavePointsUndone'
    BY <1>1 DEF StrongInv, AtomicBlocks, SavePointsUndone, Uncommitted
<1> QED BY <1>1, <1>2, <1>3 DEF StrongInv, NoBlock, BlockInv

\* COMMIT makes durable what was not undone, ROLLBACK nothing.
LEMMA EndInTransactionStrong ==
    ASSUME StrongInv, NEW rollback \in BOOLEAN, EndInTransaction(rollback)
    PROVE  StrongInv'
<1>1. /\ running = "inTransaction" /\ running' = "none" /\ frames' = <<>> /\ saved' = 0
      /\ ended' = (IF rollback THEN "rollback" ELSE "commit") /\ undone' = undone
    BY DEF EndInTransaction, Return
<1>2. Inv' /\ NoBlock' /\ BlockInv'
    BY <1>1, EndInTransactionPreserves DEF StrongInv, NoBlock, BlockInv
<1>3. CASE hurt'
    BY <1>2, <1>3 DEF StrongInv, AtomicBlocks, SavePointsUndone
<1>4. CASE ~hurt'
  <2>1. (IF rollback THEN RollbackAll ELSE CommitAll) /\ hurt' = hurt
      BY <1>4 DEF EndInTransaction
  <2>2. Undone /\ InItsTransaction
      BY <1>1, <1>4, <2>1 DEF StrongInv, BlockInv
  <2>3. durable = {} /\ lost \subseteq undone
      BY <1>1, <2>2 DEF InItsTransaction, Undone
  <2>4. undone \cap Uncommitted = {}
      BY <2>2, EachLevel DEF Undone, StrongInv, Inv, TypeOK
  <2>5. levels' = <<>> /\ Uncommitted' = {}
    <3>1. levels' = <<>>
        BY <2>1 DEF RollbackAll, CommitAll
    <3>2. DOMAIN levels' = {}
        BY <3>1
    <3> QED BY <3>1, <3>2 DEF Uncommitted
  <2>6. CASE rollback
      BY <1>1, <1>2, <2>1, <2>3, <2>5, <2>6 DEF RollbackAll, StrongInv, AtomicBlocks,
                                                SavePointsUndone
  <2>7. CASE ~rollback
      BY <1>1, <1>2, <2>1, <2>3, <2>4, <2>5, <2>7 DEF CommitAll, StrongInv, AtomicBlocks,
                                                      SavePointsUndone
  <2> QED BY <2>6, <2>7
<1> QED BY <1>2, <1>3, <1>4 DEF Inv, TypeOK

LEMMA InitStrong == Init => StrongInv
<1> SUFFICES ASSUME Init PROVE StrongInv
    OBVIOUS
<1>1. NoBlock /\ BlockInv /\ AtomicBlocks /\ SavePointsUndone
    BY DEF Init, NoBlock, BlockInv, AtomicBlocks, SavePointsUndone
<1> QED BY <1>1, InitInv DEF StrongInv

LEMMA NextStrong == StrongInv /\ [Next]_vars => StrongInv'
<1> SUFFICES ASSUME StrongInv, [Next]_vars PROVE StrongInv'
    OBVIOUS
<1>1. CASE UNCHANGED vars
  <2>1. UNCHANGED <<running, blockVars, sqliteVars, history>> /\ Block' = Block
      BY <1>1 DEF vars, blockVars, callVars, Block
  <2>2. Inv'
      BY <1>1, NextPreserves DEF StrongInv
  <2> QED BY <2>1, <2>2, KeepsBlock DEF StrongInv
<1>2. ASSUME NEW rollback \in BOOLEAN, EndSavePoint(rollback) \/ EndInTransaction(rollback)
      PROVE  StrongInv'
    BY <1>2, EndSavePointStrong, EndInTransactionStrong
<1> QED BY <1>1, <1>2, CallStrong, StartInDatabaseStrong, StartInTransactionStrong,
           StartInSavePointStrong, CloseStrong, WriteStrong, StartSavePointStrong,
           BeginByHandStrong, EndByHandStrong, EndInDatabaseStrong DEF Next, Start, End

LEMMA StrongInvariance == Spec => []StrongInv
BY InitStrong, NextStrong, PTL DEF Spec

-----------------------------------------------------------------------------
LEMMA Invariance == Spec => []Inv
BY InitInv, NextPreserves, PTL DEF Spec

\* The types of the queue, of its blocks and of the levels of SQLite.
THEOREM TypeCorrect == Spec => []TypeOK
<1>1. Inv => TypeOK
    BY DEF Inv
<1> QED BY <1>1, Invariance, PTL

\* However BEGIN, COMMIT, ROLLBACK and the save points fail, and whatever the
\* blocks begin and end by hand: isInTransaction is not NO while SQLite is in
\* a transaction that beginTransaction opened.
THEOREM FlagIsHonest == Spec => []FlagHidesNothing
<1>1. Inv => FlagHidesNothing
    BY DEF Inv
<1> QED BY <1>1, Invariance, PTL

\* Whatever fails, and however save points are nested in it: unless SQLite
\* let it down, the block of inTransaction is committed or lost as a whole,
\* whichever it asked for.
THEOREM BlocksAreAtomic == Spec => []AtomicBlocks
<1>1. StrongInv => AtomicBlocks
    BY DEF StrongInv
<1> QED BY <1>1, StrongInvariance, PTL

\* With the same reservation: what was written in a save point that was
\* rolled back, or in one nested in it, is never durable.
THEOREM UndoneIsNotDurable == Spec => []SavePointsUndone
<1>1. StrongInv => SavePointsUndone
    BY DEF StrongInv
<1> QED BY <1>1, StrongInvariance, PTL
=============================================================================
