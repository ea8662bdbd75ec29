----------------------------- MODULE DarwinQueue -----------------------------
(***************************************************************************)
(* SqfliteDarwinDatabaseQueue: the serial queue through which iOS and      *)
(* macOS reach a connection, with the transactions and the save points of  *)
(* SqfliteDarwinDatabase.                                                  *)
(*                                                                         *)
(* A caller hands a block to the queue and waits for it.  The queue runs   *)
(* the blocks one by one, in their order, on its connection, which it      *)
(* opens again when it finds it closed.  A block is plain (inDatabase),    *)
(* between BEGIN and COMMIT or ROLLBACK (inTransaction and its variants,   *)
(* which differ in the lock SQLite takes), or in a save point; in any of   *)
(* them the caller may open save points of the connection, one inside the  *)
(* other, or send BEGIN, COMMIT and ROLLBACK like any other statement: the *)
(* plugin runs all its transactions so, across several plain blocks.  The  *)
(* library does not look at what its own BEGIN, COMMIT and ROLLBACK        *)
(* return: the block runs and ends all the same.                           *)
(*                                                                         *)
(* What a block does shows when it runs, so its kind is chosen then, and    *)
(* writes are followed for the block that runs or ran last: they are told  *)
(* apart by the save point of the block they are in, 0 being none.         *)
(***************************************************************************)
EXTENDS Integers, Sequences, SequencesExt

CONSTANTS
    MaxBlocks,           \* bound: blocks handed to the queue
    MaxSavePoints,       \* bound: save points of a block
    Faults               \* what may fail

ASSUME QueueAssumption ==
    /\ MaxBlocks \in Nat /\ MaxSavePoints \in Nat \ {0}
    /\ Faults \subseteq {"open", "begin", "savepoint", "commit", "conflict"}

Kinds  == {"inDatabase", "inTransaction", "inSavePoint"}
Blocks == 1..MaxBlocks

Writes == 0..MaxSavePoints
Begin  == <<0, 0>>       \* the names of the level that beginTransaction opens,
ByHand == <<0, 1>>       \* and of one that executeUpdate of BEGIN opens
Names  == (Blocks \X Writes) \cup {Begin, ByHand}
Levels == [name : Names, writes : SUBSET Writes]

VARIABLES
    queue,               \* the blocks callers wait for, the running one first
    received,            \* number of blocks so far
    running,             \* the kind of the block that runs, or "none"
    frames,              \* inSavePoint calls it is in, by name
    saved,               \* number of save points it has opened
    isOpen,              \* the connection
    isInTransaction,
    levels,              \* SQLite: open transaction, one set per save point
    durable, lost,       \* writes of the block that were committed, rolled back
    undone,              \* writes it asked to undo
    ended,               \* how its transaction ended, or "none"
    hurt                 \* SQLite let it down unnoticed, or it ended what
                         \* was not its own

callVars == <<queue, received>>
blockVars == <<running, frames, saved>>
sqliteVars == <<levels, durable, lost>>
history == <<undone, ended, hurt>>
vars == <<callVars, blockVars, isOpen, isInTransaction, sqliteVars, history>>

Init ==
    /\ queue = <<>>
    /\ received = 0
    /\ running = "none"
    /\ frames = <<>>
    /\ saved = 0
    /\ isOpen = TRUE
    /\ isInTransaction = FALSE
    /\ levels = <<>>
    /\ durable = {} /\ lost = {}
    /\ undone = {} /\ ended = "none" /\ hurt = FALSE

Uncommitted == UNION {levels[i].writes : i \in DOMAIN levels}
InBegin == levels # <<>> /\ levels[1].name = Begin
Block == Head(queue)

-----------------------------------------------------------------------------
(* SQLite *)

PushLevel(name) == levels' = Append(levels, [name |-> name, writes |-> {}])

\* Levels left by an earlier block, as a new one finds them.
Leftover == [i \in DOMAIN levels |-> [name |-> levels[i].name, writes |-> {}]]

\* The levels s with the writes ws in the last of them.
WithWrites(s, ws) ==
    [s EXCEPT ![Len(s)] = [name |-> Last(s).name, writes |-> Last(s).writes \cup ws]]

CommitAll ==
    /\ levels' = <<>>
    /\ durable' = durable \cup Uncommitted
    /\ UNCHANGED lost

RollbackAll ==
    /\ levels' = <<>>
    /\ lost' = lost \cup Uncommitted
    /\ UNCHANGED durable

\* ROLLBACK TO empties the level; RELEASE gives its writes to the level
\* below, or commits if there is none.
ReleaseTop(writes) ==
    /\ lost' = lost \cup (Last(levels).writes \ writes)
    /\ IF Len(levels) = 1
       THEN levels' = <<>> /\ durable' = durable \cup writes
       ELSE /\ levels' = WithWrites(Front(levels), writes)
            /\ UNCHANGED durable

-----------------------------------------------------------------------------
(* Callers *)

\* dispatch_sync of a block: the caller waits.
Call ==
    /\ received < MaxBlocks
    /\ received' = received + 1
    /\ queue' = Append(queue, received + 1)
    /\ UNCHANGED <<blockVars, isOpen, isInTransaction, sqliteVars, history>>

\* The block returns, and the caller with it.
Return ==
    /\ running' = "none"
    /\ queue' = Tail(queue)
    /\ saved' = 0
    /\ UNCHANGED received

-----------------------------------------------------------------------------
(* The queue *)

CanStart == running = "none" /\ queue # <<>>

Run(kind) == running' = kind /\ UNCHANGED callVars

Follow(let_down) ==
    /\ durable' = {} /\ lost' = {} /\ undone' = {}
    /\ ended' = "none" /\ hurt' = let_down

\* database: opens the connection if it is closed.
Database == isOpen' \in IF isOpen \/ "open" \notin Faults THEN {TRUE} ELSE BOOLEAN

StartInDatabase ==
    /\ CanStart
    /\ Database
    /\ Run("inDatabase")
    /\ Follow(FALSE)
    /\ levels' = Leftover
    /\ UNCHANGED <<frames, saved, isInTransaction>>

\* beginTransaction:withBlock: runs the block whether BEGIN succeeds or not.
\* If the connection cannot be opened for BEGIN it may be for the block.
StartInTransaction ==
    /\ CanStart
    /\ Database
    /\ Run("inTransaction")
    /\ \/ /\ isOpen' /\ levels = <<>>
          /\ PushLevel(Begin)
          /\ isInTransaction' = TRUE
          /\ Follow(FALSE)
       \/ /\ levels # <<>> \/ (~isOpen /\ "open" \in Faults) \/ "begin" \in Faults
          /\ levels' = Leftover
          /\ Follow(TRUE)
          /\ UNCHANGED isInTransaction
    /\ UNCHANGED <<frames, saved>>

\* inSavePoint of the queue: no block if the save point cannot be started.
StartInSavePoint ==
    /\ CanStart
    /\ Database
    /\ Follow(FALSE)
    /\ \/ /\ isOpen'
          /\ Run("inSavePoint")
          /\ saved' = 1
          /\ frames' = <<1>>
          /\ levels' = Append(Leftover, [name |-> <<Block, 1>>, writes |-> {}])
       \/ /\ ~isOpen' \/ "savepoint" \in Faults
          /\ Return
          /\ levels' = Leftover
          /\ UNCHANGED frames
    /\ UNCHANGED isInTransaction

\* close: what SQLite has not committed is rolled back; the next block
\* finds a new connection object.
Close ==
    /\ CanStart
    /\ isOpen' = FALSE
    /\ isInTransaction' = FALSE
    /\ levels' = <<>>
    /\ Follow(FALSE)
    /\ Return
    /\ UNCHANGED frames

-----------------------------------------------------------------------------
(* In a block *)

\* An update.  One that fails has no effect, or SQLite rolls the transaction
\* back with it: a conflict clause, a full disk, an interrupt.
Write ==
    LET tag == IF frames = <<>> THEN 0 ELSE Last(frames) IN
    /\ running # "none" /\ isOpen
    /\ \/ /\ IF levels = <<>>
             THEN durable' = durable \cup {tag} /\ UNCHANGED levels
             ELSE /\ levels' = WithWrites(levels, {tag})
                  /\ UNCHANGED durable
          /\ UNCHANGED <<lost, hurt>>
       \/ /\ "conflict" \in Faults /\ levels # <<>>
          /\ RollbackAll
          /\ hurt' = TRUE
    /\ UNCHANGED <<callVars, blockVars, isOpen, isInTransaction, undone, ended>>

\* executeUpdate of BEGIN, in a block of any kind: a transaction opens if
\* none is open, and isInTransaction knows nothing of it.  It outlives the
\* block.
BeginByHand ==
    /\ running # "none" /\ isOpen
    /\ levels = <<>>
    /\ PushLevel(ByHand)
    /\ UNCHANGED <<callVars, blockVars, isOpen, isInTransaction, durable, lost, history>>

\* executeUpdate of COMMIT or ROLLBACK ends whatever is open, the save points
\* the block is in and the transaction of inTransaction too.
EndByHand ==
    /\ running # "none" /\ isOpen
    /\ levels # <<>>
    /\ CommitAll \/ RollbackAll
    /\ hurt' = (hurt \/ running # "inDatabase" \/ frames # <<>>)
    /\ UNCHANGED <<callVars, blockVars, isOpen, isInTransaction, undone, ended>>

\* inSavePoint of the connection.
StartSavePoint ==
    /\ running # "none" /\ isOpen
    /\ saved < MaxSavePoints
    /\ saved' = saved + 1
    /\ frames' = Append(frames, saved + 1)
    /\ PushLevel(<<Block, saved + 1>>)
    /\ UNCHANGED <<callVars, running, isOpen, isInTransaction, durable, lost, history>>

\* The save points it contains are undone with it.
Undo(rollback) ==
    undone' = IF rollback
              THEN undone \cup (Last(frames)..saved)
              ELSE undone

\* Mutant: the save point is released, and what was to be undone with it.
ReleaseOnly(rollback) ==
    /\ running # "none" /\ frames # <<>>
    /\ frames' = Front(frames)
    /\ Undo(rollback)
    /\ IF levels # <<>> /\ Last(levels).name = <<Block, Last(frames)>>
       THEN ReleaseTop(Last(levels).writes)
       ELSE UNCHANGED sqliteVars
    /\ IF Len(frames) = 1 /\ running = "inSavePoint"
       THEN Return
       ELSE UNCHANGED <<callVars, running, saved>>
    /\ UNCHANGED <<isOpen, isInTransaction, ended, hurt>>

\* The end of inSavePoint: ROLLBACK TO if it was asked for, then RELEASE,
\* which may fail where it commits.  Both fail if SQLite has rolled the
\* save point back by itself.  The block of the queue's inSavePoint ends
\* with its save point.
EndSavePoint(rollback) ==
    /\ running # "none" /\ frames # <<>>
    /\ frames' = Front(frames)
    /\ Undo(rollback)
    /\ IF levels # <<>> /\ Last(levels).name = <<Block, Last(frames)>>
       THEN \/ /\ ReleaseTop(IF rollback THEN {} ELSE Last(levels).writes)
               /\ UNCHANGED hurt
            \/ /\ "commit" \in Faults /\ Len(levels) = 1 /\ ~rollback
               /\ hurt' = TRUE
               /\ UNCHANGED sqliteVars
       ELSE UNCHANGED <<sqliteVars, hurt>>
    /\ IF Len(frames) = 1 /\ running = "inSavePoint"
       THEN Return
       ELSE UNCHANGED <<callVars, running, saved>>
    /\ UNCHANGED <<isOpen, isInTransaction, ended>>

EndInDatabase ==
    /\ running = "inDatabase" /\ frames = <<>>
    /\ Return
    /\ UNCHANGED <<frames, isOpen, isInTransaction, sqliteVars, history>>

\* Mutant: the rollback the block asked for is forgotten.
CommitTransaction(rollback) ==
    /\ running = "inTransaction" /\ frames = <<>>
    /\ Database
    /\ ended' = IF rollback THEN "rollback" ELSE "commit"
    /\ CommitAll
    /\ isInTransaction' = FALSE
    /\ Return
    /\ UNCHANGED <<frames, undone, hurt>>

\* Mutant: the flag is reset without looking at the result.
ResetAnyway(rollback) ==
    /\ running = "inTransaction" /\ frames = <<>>
    /\ Database
    /\ ended' = IF rollback THEN "rollback" ELSE "commit"
    /\ isInTransaction' = FALSE
    /\ \/ /\ isOpen' /\ levels # <<>>
          /\ IF rollback THEN RollbackAll ELSE CommitAll
          /\ UNCHANGED hurt
       \/ /\ levels = <<>> \/ (~rollback /\ "commit" \in Faults)
          /\ hurt' = TRUE
          /\ UNCHANGED sqliteVars
    /\ Return
    /\ UNCHANGED <<frames, undone>>

\* Mutant: a COMMIT that fails is tried again and again.
CommitUntilDone(rollback) ==
    /\ running = "inTransaction" /\ frames = <<>>
    /\ Database
    /\ ended' = IF rollback THEN "rollback" ELSE "commit"
    /\ isOpen' /\ levels # <<>>
    /\ isInTransaction' = FALSE
    /\ IF rollback THEN RollbackAll ELSE CommitAll
    /\ Return
    /\ UNCHANGED <<frames, undone, hurt>>

\* ROLLBACK if the block asked for it, else COMMIT.  The flag is reset if it
\* succeeds; otherwise SQLite is in no transaction, or still in it.
EndInTransaction(rollback) ==
    /\ running = "inTransaction" /\ frames = <<>>
    /\ Database
    /\ ended' = IF rollback THEN "rollback" ELSE "commit"
    /\ \/ /\ isOpen' /\ levels # <<>>
          /\ IF rollback THEN RollbackAll ELSE CommitAll
          /\ isInTransaction' = FALSE
          /\ UNCHANGED hurt
       \/ /\ levels = <<>> \/ (~rollback /\ "commit" \in Faults)
          /\ hurt' = TRUE
          /\ UNCHANGED <<sqliteVars, isInTransaction>>
    /\ Return
    /\ UNCHANGED <<frames, undone>>

-----------------------------------------------------------------------------
Start == StartInDatabase \/ StartInTransaction \/ StartInSavePoint \/ Close

End ==
    \/ EndInDatabase
    \/ \E rollback \in BOOLEAN : EndSavePoint(rollback) \/ EndInTransaction(rollback)

Next ==
    \/ Call
    \/ Start \/ End
    \/ Write \/ StartSavePoint \/ BeginByHand \/ EndByHand

Spec == Init /\ [][Next]_vars

\* The queue runs its blocks, and the code of a block comes to its end.
FairSpec == Spec /\ WF_vars(Start) /\ WF_vars(End)

-----------------------------------------------------------------------------
(* Properties *)

TypeOK ==
    /\ queue \in Seq(Blocks)
    /\ running # "none" => queue # <<>>
    /\ received \in 0..MaxBlocks
    /\ running \in Kinds \cup {"none"}
    /\ isOpen \in BOOLEAN /\ isInTransaction \in BOOLEAN
    /\ frames \in Seq(1..MaxSavePoints)
    /\ saved \in 0..MaxSavePoints
    /\ levels \in Seq(Levels)
    /\ durable \subseteq Writes /\ lost \subseteq Writes /\ undone \subseteq Writes
    /\ ended \in {"none", "commit", "rollback"}
    /\ hurt \in BOOLEAN

\* Whatever failed, isInTransaction is never NO while SQLite is in a
\* transaction that a block of inTransaction opened (beginTransaction of the
\* connection), so that a COMMIT that failed can still be seen.  It is NO in
\* all others, the plugin's own included: of those "Identify whether
\* currently in a transaction or not" is not true.
FlagHidesNothing == ~isInTransaction => ~InBegin

\* The block of inTransaction is all or nothing, and what it asks for: its
\* writes are committed together when it ends, or lost together if it set
\* rollback.  (Unless SQLite refused BEGIN or COMMIT or ended the
\* transaction, of which the block is not told, or the block ended it.)
AtomicBlocks ==
    /\ ended = "commit" /\ ~hurt => (lost \cup Uncommitted) \subseteq undone
    /\ ended = "rollback" /\ ~hurt => durable = {} /\ Uncommitted = {}

\* What was written in a save point that was rolled back, or in one nested
\* in it, never becomes durable, with the same reservation.
SavePointsUndone == ~hurt => undone \cap durable = {}

\* Every caller gets its thread back.
EveryCallReturns ==
    \A b \in Blocks : (received >= b) ~> (\A i \in DOMAIN queue : queue[i] # b)
=============================================================================
