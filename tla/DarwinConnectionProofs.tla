----------------------- MODULE DarwinConnectionProofs -----------------------
(***************************************************************************)
(* Proofs about DarwinConnection, for any number of queries, result sets,  *)
(* statement objects and rows.                                             *)
(*                                                                         *)
(* NoLeakedStatement and ListedSetsAreOpen hold whatever the callers do.   *)
(* The other properties need callers that leave the traps of the library   *)
(* alone (CarefulCallers): the invariant behind them is that the objects   *)
(* with a handle are exactly those that SQLite has a handle for, that the  *)
(* cache holds such objects only, and that those of open result sets say   *)
(* that they are in use.                                                   *)
(***************************************************************************)
EXTENDS DarwinConnection, TLAPS

\* What a caller may do: neither resultSetDidClose on an open result set,
\* nor wrong arguments for a cached statement or a rebound one, nor rebinding
\* while statements are cached.
CarefulCallers ==
    /\ "detach" \notin Calls /\ "misbind" \notin Calls
    /\ "bind" \in Calls => "cache" \notin Calls

-----------------------------------------------------------------------------
(* The invariant that needs nothing of the callers *)

Referenced == Cached \cup UsedBy(ResultSets)

Inv ==
    /\ TypeOK
    /\ handles \subseteq pointer
    /\ pointer \subseteq Referenced
    /\ openResultSets \subseteq OpenSets
    /\ ~isOpen => Cached = {} /\ openResultSets = {} /\ handles = {}

(* The one for careful callers *)

CarefulInv ==
    /\ pointer \subseteq handles
    /\ openResultSets = OpenSets
    /\ Cached \subseteq pointer
    /\ "bind" \notin Calls => UsedBy(ResultSets) \cap pointer \subseteq inUse
    /\ "cache" \notin Calls => ~shouldCacheStatements /\ Cached = {}
    /\ ExclusiveStatements
-----------------------------------------------------------------------------
(* Membership in the derived sets *)

LEMMA CachedIs ==
    \A s : s \in Cached <=> \E q \in Queries : s \in cachedStatements[q]
BY DEF Cached

LEMMA CachedNextIs ==
    \A s : s \in Cached' <=> \E q \in Queries : s \in cachedStatements'[q]
BY DEF Cached

LEMMA UsedIs ==
    ASSUME NEW rs, rs \subseteq ResultSets
    PROVE  \A s : s \in UsedBy(rs) <=> s # NoStatement /\ \E r \in rs : s = statementOf[r]
BY DEF UsedBy, OpenSets

LEMMA UsedNextIs ==
    ASSUME NEW rs, rs \subseteq ResultSets
    PROVE  \A s : s \in UsedBy(rs)' <=> s # NoStatement /\ \E r \in rs : s = statementOf'[r]
BY DEF UsedBy, OpenSets

-----------------------------------------------------------------------------
(* One step each *)

LEMMA CloseSetsKeepsInv ==
    ASSUME Inv, NEW rs \in SUBSET ResultSets, CloseSets(rs),
           UNCHANGED <<isOpen, shouldCacheStatements, cachedStatements>>
    PROVE  Inv'
<1> DEFINE freed == UsedBy(rs) \ (Cached \cup UsedBy(ResultSets \ rs))
<1>1. /\ pointer' = pointer \ freed
      /\ handles' = handles \ (freed \cap pointer)
      /\ inUse' = inUse \ UsedBy(rs)
      /\ openResultSets' = openResultSets \ rs
      /\ shouldAutoClose' = shouldAutoClose \ rs
      /\ row' = [s \in Statements |-> IF s \in UsedBy(rs) THEN 0 ELSE row[s]]
      /\ statementOf' = [r \in ResultSets |-> IF r \in rs THEN NoStatement ELSE statementOf[r]]
  BY DEF CloseSets, Free, ResetRows
<1>2. Cached' = Cached
  BY DEF Cached
<1>3. TypeOK'
  BY <1>1, ConnectionAssumption DEF ConnectionAssumption, Inv, TypeOK
<1>4. UsedBy(ResultSets)' = UsedBy(ResultSets \ rs)
  <2>1. \A s : s \in UsedBy(ResultSets)' <=>
                s # NoStatement /\ \E r \in ResultSets : s = statementOf'[r]
    BY DEF UsedBy, OpenSets
  <2>2. \A s : s \in UsedBy(ResultSets \ rs) <=>
                s # NoStatement /\ \E r \in ResultSets \ rs : s = statementOf[r]
    BY DEF UsedBy, OpenSets
  <2> QED BY <1>1, <2>1, <2>2
<1>5. UsedBy(ResultSets) = UsedBy(rs) \cup UsedBy(ResultSets \ rs)
  BY UsedIs, ResultSets \ rs \subseteq ResultSets
<1>6. pointer' \subseteq Referenced'
  BY <1>1, <1>2, <1>4, <1>5 DEF Inv, Referenced
<1>7. openResultSets' \subseteq OpenSets'
  BY <1>1 DEF Inv, OpenSets, TypeOK
<1>8. handles' \subseteq pointer'
  BY <1>1 DEF Inv
<1>9. ~isOpen' => Cached' = {} /\ openResultSets' = {} /\ handles' = {}
  BY <1>1, <1>2 DEF Inv
<1> QED BY <1>3, <1>6, <1>7, <1>8, <1>9 DEF Inv

LEMMA InitInv == Init => Inv
<1> SUFFICES ASSUME Init PROVE Inv OBVIOUS
<1>1. Cached = {} BY CachedIs DEF Init
<1>2. TypeOK
  <2>1. 0 \in 0..MaxRows BY ConnectionAssumption DEF ConnectionAssumption
  <2>2. row \in [Statements -> 0..MaxRows] BY <2>1 DEF Init
  <2>3. cachedStatements \in [Queries -> SUBSET Statements] BY DEF Init
  <2> QED BY <2>2, <2>3 DEF Init, TypeOK
<1> QED BY <1>1, <1>2 DEF Init, Inv, OpenSets, Referenced

\* A query, prepared or not, and what it shares with the other.
LEMMA TakeKeepsInv ==
    ASSUME Inv, NEW r \in ResultSets, NEW q \in Queries, Take(r, q),
           shouldAutoClose' \in SUBSET ResultSets
    PROVE  Inv'
<1> PICK s \in StatementFor(q) :
         /\ Obtain(q, s)
         /\ statementOf' = [statementOf EXCEPT ![r] = s]
         /\ inUse' = inUse \cup {s}
  BY DEF Take
<1>1. s \in Statements /\ s # NoStatement
  BY ConnectionAssumption DEF ConnectionAssumption, StatementFor, Unallocated, Inv, TypeOK
<1>2. 0 \in 0..MaxRows
  BY ConnectionAssumption DEF ConnectionAssumption
<1>3. /\ isOpen' = isOpen /\ isOpen
      /\ shouldCacheStatements' = shouldCacheStatements
      /\ openResultSets' = openResultSets \cup {r}
      /\ pointer' = pointer \cup {s}
      /\ handles' \subseteq handles \cup {s}
      /\ statementOf[r] = NoStatement
  BY DEF Take, Obtain
<1>4. cachedStatements' \in [Queries -> SUBSET Statements]
  BY <1>1 DEF Obtain, Inv, TypeOK
<1>5. row' \in [Statements -> 0..MaxRows]
  BY <1>2 DEF Obtain, ResetRows, Inv, TypeOK
<1>6. TypeOK'
  BY <1>1, <1>3, <1>4, <1>5 DEF Inv, TypeOK
<1>7. Cached \subseteq Cached'
  <2>1. \A p \in Queries : cachedStatements[p] \subseteq cachedStatements'[p]
    BY DEF Obtain, Inv, TypeOK
  <2> QED BY <2>1 DEF Cached
<1>8. s \in UsedBy(ResultSets)' /\ UsedBy(ResultSets) \subseteq UsedBy(ResultSets)'
  BY <1>1, <1>3 DEF UsedBy, OpenSets, Inv, TypeOK
<1>9. openResultSets' \subseteq OpenSets'
  BY <1>1, <1>3 DEF OpenSets, Inv, TypeOK
<1> QED BY <1>3, <1>6, <1>7, <1>8, <1>9 DEF Inv, Referenced

LEMMA ExecuteUpdateKeepsInv ==
    ASSUME Inv, NEW q \in Queries, ExecuteUpdate(q)
    PROVE  Inv'
<1> PICK s \in StatementFor(q) : Obtain(q, s)
  BY DEF ExecuteUpdate
<1>1. s \in Statements
  BY DEF StatementFor, Unallocated, Inv, TypeOK
<1>2. 0 \in 0..MaxRows
  BY ConnectionAssumption DEF ConnectionAssumption
<1>3. /\ UNCHANGED <<isOpen, shouldCacheStatements, openResultSets, statementOf,
                     shouldAutoClose, inUse>>
      /\ isOpen /\ shouldCacheStatements
      /\ pointer' = pointer \cup {s}
      /\ handles' \subseteq handles \cup {s}
      /\ cachedStatements' = [cachedStatements EXCEPT ![q] = @ \cup {s}]
  BY DEF ExecuteUpdate, Obtain
<1>4. row' \in [Statements -> 0..MaxRows]
  BY <1>2 DEF Obtain, ResetRows, Inv, TypeOK
<1>5. TypeOK'
  BY <1>1, <1>3, <1>4 DEF Inv, TypeOK
<1>6. s \in Cached' /\ Cached \subseteq Cached'
  <2>1. \A p \in Queries : cachedStatements[p] \subseteq cachedStatements'[p]
    BY <1>3 DEF Inv, TypeOK
  <2>2. s \in cachedStatements'[q]
    BY <1>3 DEF Inv, TypeOK
  <2> QED BY <2>1, <2>2 DEF Cached
<1>7. UsedBy(ResultSets)' = UsedBy(ResultSets) /\ OpenSets' = OpenSets
  BY <1>3 DEF UsedBy, OpenSets
<1> QED BY <1>3, <1>5, <1>6, <1>7 DEF Inv, Referenced

LEMMA NextKeepsInv == Inv /\ [Next]_vars => Inv'
<1> SUFFICES ASSUME Inv, [Next]_vars PROVE Inv' OBVIOUS
<1>a. 0 \in 0..MaxRows
  BY ConnectionAssumption DEF ConnectionAssumption
<1>1. CASE Open
  <2>1. UNCHANGED <<Cached, OpenSets, Referenced>>
    BY <1>1 DEF Open, Cached, OpenSets, Referenced, UsedBy
  <2> QED BY <1>1, <2>1 DEF Open, statementVars, Inv, TypeOK
<1>2. CASE Close
  <2> DEFINE kept == UsedBy(OpenSets \ openResultSets)
  <2>1. /\ isOpen' = FALSE /\ openResultSets' = {} /\ handles' = {}
        /\ cachedStatements' = [q \in Queries |-> {}]
        /\ statementOf' = [r \in ResultSets |->
                         IF r \in openResultSets THEN NoStatement ELSE statementOf[r]]
        /\ pointer' = (pointer \cap kept) \ Cached
        /\ shouldAutoClose' = shouldAutoClose \ openResultSets
        /\ inUse' = (inUse \cap kept) \ (Cached \cup UsedBy(openResultSets))
        /\ row' = [s \in Statements |-> 0]
        /\ UNCHANGED shouldCacheStatements
    BY <1>2 DEF Close
  <2>2. Cached' = {}
    BY <2>1, CachedNextIs
  <2>3. kept \subseteq UsedBy(ResultSets)'
    BY <2>1 DEF UsedBy, OpenSets, Inv, TypeOK
  <2>4. TypeOK'
    BY <2>1, <1>a DEF Inv, TypeOK
  <2>5. pointer' \subseteq Referenced'
    BY <2>1, <2>3 DEF Referenced
  <2> QED BY <2>1, <2>2, <2>4, <2>5 DEF Inv
<1>3. CASE CloseOpenResultSets
  BY <1>3, CloseSetsKeepsInv DEF CloseOpenResultSets, Inv, TypeOK
<1>4. CASE ClearCachedStatements
  <2>1. /\ cachedStatements' = [q \in Queries |-> {}]
        /\ pointer' = pointer \ Cached
        /\ handles' = handles \ (Cached \cap pointer)
        /\ inUse' = inUse \ Cached
        /\ row' = [s \in Statements |-> IF s \in Cached THEN 0 ELSE row[s]]
        /\ UNCHANGED <<isOpen, shouldCacheStatements, openResultSets, statementOf,
                       shouldAutoClose>>
    BY <1>4 DEF ClearCachedStatements, ResetRows, Free
  <2>2. Cached' = {}
    BY <2>1, CachedNextIs
  <2>3. UNCHANGED <<OpenSets, UsedBy(ResultSets)>>
    BY <2>1 DEF OpenSets, UsedBy
  <2>4. TypeOK'
    BY <2>1, <1>a DEF Inv, TypeOK
  <2> QED BY <2>1, <2>2, <2>3, <2>4 DEF Inv, Referenced
<1>5. ASSUME NEW value \in BOOLEAN, SetShouldCacheStatements(value) PROVE Inv'
  <2> DEFINE freed == IF value THEN {} ELSE Cached \ UsedBy(ResultSets)
  <2>1. /\ shouldCacheStatements' = value
        /\ cachedStatements' = IF value THEN cachedStatements ELSE [q \in Queries |-> {}]
        /\ inUse' = inUse \ freed
        /\ pointer' = pointer \ freed
        /\ handles' = handles \ (freed \cap pointer)
        /\ row' = [s \in Statements |-> IF s \in freed THEN 0 ELSE row[s]]
        /\ UNCHANGED <<isOpen, openResultSets, statementOf, shouldAutoClose>>
    BY <1>5 DEF SetShouldCacheStatements, ResetRows, Free
  <2>2. UNCHANGED <<OpenSets, UsedBy(ResultSets)>>
    BY <2>1 DEF OpenSets, UsedBy
  <2>3. TypeOK'
    BY <2>1, <1>a DEF Inv, TypeOK
  <2>4. CASE value
    <3>1. Cached' = Cached BY <2>1, <2>4 DEF Cached
    <3> QED BY <2>1, <2>2, <2>3, <2>4, <3>1 DEF Inv, Referenced
  <2>5. CASE ~value
    <3>1. Cached' = {} BY <2>1, <2>5, CachedNextIs
    <3> QED BY <2>1, <2>2, <2>3, <2>5, <3>1 DEF Inv, Referenced
  <2> QED BY <2>4, <2>5
<1>6. ASSUME NEW q \in Queries, ExecuteUpdate(q) PROVE Inv'
  BY <1>6, ExecuteUpdateKeepsInv
<1>7. ASSUME NEW q \in Queries, MisbindCached(q) PROVE Inv'
  <2>1. UNCHANGED <<Cached, OpenSets, Referenced>>
    BY <1>7 DEF MisbindCached, Cached, OpenSets, Referenced, UsedBy
  <2> QED BY <1>7, <1>a, <2>1 DEF MisbindCached, ResetRows, Inv, TypeOK
<1>8. ASSUME NEW r \in ResultSets, NEW q \in Queries, ExecuteQuery(r, q) PROVE Inv'
  BY <1>8, TakeKeepsInv DEF ExecuteQuery, Inv, TypeOK
<1>9. ASSUME NEW r \in ResultSets, NEW q \in Queries, Prepare(r, q) PROVE Inv'
  BY <1>9, TakeKeepsInv DEF Prepare, Inv, TypeOK
<1>10. ASSUME NEW r \in ResultSets, NextRow(r) PROVE Inv'
  <2>1. UNCHANGED <<Cached, OpenSets, Referenced>>
    BY <1>10 DEF NextRow, Cached, OpenSets, Referenced, UsedBy
  <2>2. row' \in [Statements -> 0..MaxRows]
    BY <1>10, ConnectionAssumption DEF ConnectionAssumption, NextRow, Inv, TypeOK
  <2> QED BY <1>10, <2>1, <2>2 DEF NextRow, Inv, TypeOK
<1>11. ASSUME NEW r \in ResultSets, NoMoreRows(r) PROVE Inv'
  <2>1. CASE r \in shouldAutoClose
    BY <1>11, <2>1, CloseSetsKeepsInv DEF NoMoreRows
  <2>2. CASE r \notin shouldAutoClose
    <3>1. UNCHANGED <<Cached, OpenSets, Referenced>>
      BY <1>11, <2>2 DEF NoMoreRows, Cached, OpenSets, Referenced, UsedBy
    <3> QED BY <1>11, <1>a, <2>2, <3>1 DEF NoMoreRows, ResetRows, Inv, TypeOK
  <2> QED BY <2>1, <2>2
<1>12. ASSUME NEW r \in ResultSets, Bind(r) PROVE Inv'
  <2>1. UNCHANGED <<Cached, OpenSets, Referenced>>
    BY <1>12 DEF Bind, Cached, OpenSets, Referenced, UsedBy
  <2> QED BY <1>12, <1>a, <2>1 DEF Bind, ResetRows, Inv, TypeOK
<1>13. ASSUME NEW r \in ResultSets, CloseResultSet(r) PROVE Inv'
  BY <1>13, CloseSetsKeepsInv DEF CloseResultSet
<1>14. ASSUME NEW r \in ResultSets, Detach(r) PROVE Inv'
  <2>1. UNCHANGED <<Cached, OpenSets, Referenced>>
    BY <1>14 DEF Detach, Cached, OpenSets, Referenced, UsedBy
  <2> QED BY <1>14, <2>1 DEF Detach, statementVars, Inv, TypeOK
<1>15. CASE UNCHANGED vars
  <2>1. UNCHANGED <<Cached, OpenSets, Referenced>>
    BY <1>15 DEF vars, Cached, OpenSets, Referenced, UsedBy
  <2> QED BY <1>15, <2>1 DEF vars, statementVars, Inv, TypeOK
<1> QED BY <1>1, <1>2, <1>3, <1>4, <1>5, <1>6, <1>7, <1>8, <1>9, <1>10, <1>11,
           <1>12, <1>13, <1>14, <1>15 DEF Next

\* In every state the types are right, whatever the callers do.
THEOREM TypeCorrect == Spec => []TypeOK
<1>1. Inv => TypeOK BY DEF Inv
<1> QED BY InitInv, NextKeepsInv, <1>1, PTL DEF Spec

\* A handle has an owner that can be reached and will finalize it: clearing
\* or dropping the cache, freed result sets and failing binds leak nothing.
THEOREM NothingLeaks == Spec => []NoLeakedStatement
<1>1. Inv => NoLeakedStatement BY DEF Inv, NoLeakedStatement, Referenced
<1> QED BY InitInv, NextKeepsInv, <1>1, PTL DEF Spec

\* The list of open result sets, which retains nothing, never names one that
\* is closed or freed.
THEOREM ListNamesOpenSets == Spec => []ListedSetsAreOpen
<1>1. Inv => ListedSetsAreOpen BY DEF Inv, ListedSetsAreOpen
<1> QED BY InitInv, NextKeepsInv, <1>1, PTL DEF Spec

-----------------------------------------------------------------------------
(* Careful callers: the invariant, and the refinement it supports *)

\* The rows the result sets stand on, as SqlConnection has them.
LiveSets == {r \in OpenSets : statementOf[r] \in pointer}
RowOf == [r \in ResultSets |->
            IF statementOf[r] = NoStatement THEN 0 ELSE row[statementOf[r]]]

CarefulStep == Inv /\ CarefulInv /\ Inv'

\* The statement a query is given is used by no other result set.
LEMMA StatementIsFree ==
    ASSUME CarefulCallers, Inv, CarefulInv, NEW q \in Queries, NEW s \in StatementFor(q)
    PROVE  s \in Statements /\ s # NoStatement /\ s \notin UsedBy(ResultSets)
<1>1. s \in Statements /\ s # NoStatement
  BY ConnectionAssumption DEF ConnectionAssumption, StatementFor, Unallocated, Inv, TypeOK
<1>2. CASE shouldCacheStatements /\ cachedStatements[q] \ inUse # {}
  <2>1. s \in Cached /\ s \notin inUse
    BY <1>2 DEF StatementFor, Cached
  <2>2. "bind" \notin Calls
    BY <1>2 DEF CarefulCallers, CarefulInv
  <2> QED BY <1>1, <2>1, <2>2 DEF CarefulInv
<1>3. CASE ~(shouldCacheStatements /\ cachedStatements[q] \ inUse # {})
  BY <1>1, <1>3 DEF StatementFor, Unallocated
<1> QED BY <1>1, <1>2, <1>3

LEMMA CloseSetsIsClosing ==
    ASSUME CarefulStep, NEW rs \in SUBSET ResultSets, CloseSets(rs),
           UNCHANGED <<isOpen, shouldCacheStatements, cachedStatements>>
    PROVE  CarefulInv' /\ C!Closing(rs)
<1> DEFINE freed == UsedBy(rs) \ (Cached \cup UsedBy(ResultSets \ rs))
<1>1. /\ pointer' = pointer \ freed
      /\ handles' = handles \ (freed \cap pointer)
      /\ inUse' = inUse \ UsedBy(rs)
      /\ openResultSets' = openResultSets \ rs
      /\ shouldAutoClose' = shouldAutoClose \ rs
      /\ row' = [s \in Statements |-> IF s \in UsedBy(rs) THEN 0 ELSE row[s]]
      /\ statementOf' = [r \in ResultSets |-> IF r \in rs THEN NoStatement ELSE statementOf[r]]
  BY DEF CloseSets, Free, ResetRows
<1>2. Cached' = Cached
  BY DEF Cached
<1>3. OpenSets' = OpenSets \ rs
  BY <1>1 DEF OpenSets
<1>4. \A r \in OpenSets \ rs : statementOf[r] \notin UsedBy(rs)
  BY DEF CarefulStep, CarefulInv, ExclusiveStatements, UsedBy
<1>5. UsedBy(ResultSets)' \subseteq UsedBy(ResultSets) \ UsedBy(rs)
  BY <1>1, <1>3, <1>4 DEF UsedBy, OpenSets
<1>6. CarefulInv'
  <2>1. ExclusiveStatements'
    BY <1>1, <1>3 DEF CarefulStep, CarefulInv, ExclusiveStatements, OpenSets
  <2> QED BY <1>1, <1>2, <1>3, <1>5, <2>1 DEF CarefulStep, CarefulInv
<1>7. LiveSets' = LiveSets \ rs
  BY <1>1, <1>3, <1>4 DEF LiveSets, OpenSets
<1>8. RowOf' = [r \in ResultSets |-> IF r \in rs THEN 0 ELSE RowOf[r]]
  <2>1. \A r \in ResultSets \ rs : statementOf[r] # NoStatement =>
            row'[statementOf[r]] = row[statementOf[r]]
    BY <1>1, <1>4 DEF CarefulStep, Inv, TypeOK, OpenSets
  <2> QED BY <1>1, <2>1 DEF RowOf
<1> QED BY <1>1, <1>3, <1>6, <1>7, <1>8 DEF C!Closing, LiveSets, RowOf

LEMMA TakeIsQuery ==
    ASSUME CarefulCallers, CarefulStep, NEW r \in ResultSets, NEW q \in Queries, Take(r, q)
    PROVE  /\ CarefulInv'
           /\ r \notin OpenSets /\ OpenSets' = OpenSets \cup {r}
           /\ LiveSets' = LiveSets \cup {r} /\ RowOf' = RowOf
           /\ isOpen /\ isOpen' = isOpen
<1> PICK s \in StatementFor(q) :
         /\ Obtain(q, s)
         /\ statementOf' = [statementOf EXCEPT ![r] = s]
         /\ inUse' = inUse \cup {s}
  BY DEF Take
<1>1. s \in Statements /\ s # NoStatement /\ s \notin UsedBy(ResultSets)
  BY StatementIsFree DEF CarefulStep
<1>2. /\ isOpen' = isOpen /\ isOpen
      /\ shouldCacheStatements' = shouldCacheStatements
      /\ openResultSets' = openResultSets \cup {r}
      /\ pointer' = pointer \cup {s}
      /\ handles' = IF s \in pointer THEN handles ELSE handles \cup {s}
      /\ row' = [t \in Statements |-> IF t = s THEN 0 ELSE row[t]]
      /\ statementOf[r] = NoStatement
  BY DEF Take, Obtain, ResetRows
<1>3. r \notin OpenSets /\ OpenSets' = OpenSets \cup {r}
  BY <1>1, <1>2 DEF OpenSets, CarefulStep, Inv, TypeOK
<1>4. /\ Cached' \subseteq Cached \cup {s}
      /\ ~shouldCacheStatements => Cached' = Cached
  <2>1. CASE shouldCacheStatements
    <3>1. \A p \in Queries : cachedStatements'[p] \subseteq cachedStatements[p] \cup {s}
      BY <2>1 DEF Obtain, CarefulStep, Inv, TypeOK
    <3> QED BY <2>1, <3>1 DEF Cached
  <2>2. CASE ~shouldCacheStatements
    BY <2>2 DEF Obtain, Cached
  <2> QED BY <2>1, <2>2
<1>5. UsedBy(ResultSets)' = UsedBy(ResultSets) \cup {s}
  BY <1>1, <1>2, <1>3 DEF UsedBy, OpenSets, CarefulStep, Inv, TypeOK
<1>6. ExclusiveStatements'
  BY <1>1, <1>2, <1>3 DEF ExclusiveStatements, UsedBy, OpenSets, CarefulStep, CarefulInv,
                          Inv, TypeOK
<1>7. CarefulInv'
  BY <1>1, <1>2, <1>3, <1>4, <1>5, <1>6 DEF CarefulStep, CarefulInv
<1>8. \A x \in OpenSets : statementOf'[x] = statementOf[x] /\ statementOf[x] # s
  BY <1>1, <1>3 DEF UsedBy, OpenSets, CarefulStep, Inv, TypeOK
<1>9. LiveSets' = LiveSets \cup {r}
  BY <1>2, <1>3, <1>8 DEF LiveSets, CarefulStep, Inv, TypeOK
<1>10. RowOf' = RowOf
  <2>1. ASSUME NEW x \in ResultSets PROVE RowOf'[x] = RowOf[x]
    <3>1. CASE x = r
      BY <1>1, <1>2, <3>1 DEF RowOf, CarefulStep, Inv, TypeOK
    <3>2. CASE x # r
      BY <1>1, <1>2, <1>8, <3>2 DEF RowOf, OpenSets, CarefulStep, Inv, TypeOK
    <3> QED BY <3>1, <3>2
  <2> QED BY <2>1 DEF RowOf
<1> QED BY <1>2, <1>3, <1>7, <1>9, <1>10

LEMMA InitCareful == Init => CarefulInv /\ C!Init
<1> SUFFICES ASSUME Init PROVE CarefulInv /\ C!Init OBVIOUS
<1>1. Cached = {} BY CachedIs DEF Init
<1>2. OpenSets = {} /\ UsedBy(ResultSets) = {} BY DEF Init, OpenSets, UsedBy
<1> QED BY <1>1, <1>2 DEF Init, CarefulInv, ExclusiveStatements, C!Init

LEMMA CarefulNext ==
    ASSUME CarefulCallers, CarefulStep, [Next]_vars
    PROVE  CarefulInv' /\ [C!Next]_(C!vars)
<1> DEFINE Quiet == UNCHANGED <<isOpen, OpenSets, shouldAutoClose, LiveSets, RowOf>>
<1>a. Quiet => UNCHANGED C!vars
  BY DEF C!vars, LiveSets, RowOf
<1>1. CASE Open
  <2>1. UNCHANGED <<Cached, OpenSets, UsedBy(ResultSets), RowOf, LiveSets>>
    BY <1>1 DEF Open, statementVars, Cached, OpenSets, UsedBy, RowOf, LiveSets
  <2>2. CarefulInv'
    BY <1>1, <2>1 DEF Open, statementVars, CarefulStep, CarefulInv, ExclusiveStatements
  <2>3. C!Open
    BY <1>1, <2>1 DEF Open, C!Open, LiveSets, RowOf
  <2> QED BY <2>2, <2>3 DEF C!Next
<1>2. CASE Close
  <2>1. /\ isOpen' = FALSE /\ openResultSets' = {} /\ handles' = {}
        /\ cachedStatements' = [q \in Queries |-> {}]
        /\ statementOf' = [r \in ResultSets |->
                         IF r \in openResultSets THEN NoStatement ELSE statementOf[r]]
        /\ pointer' = (pointer \cap UsedBy(OpenSets \ openResultSets)) \ Cached
        /\ shouldAutoClose' = shouldAutoClose \ openResultSets
        /\ UNCHANGED shouldCacheStatements
    BY <1>2 DEF Close
  <2>2. openResultSets = OpenSets
    BY DEF CarefulStep, CarefulInv
  <2>3. pointer' = {} /\ OpenSets' = {} /\ UsedBy(ResultSets)' = {}
    BY <2>1, <2>2 DEF UsedBy, OpenSets
  <2>4. Cached' = {}
    BY <2>1, CachedNextIs
  <2>5. CarefulInv'
    BY <2>1, <2>3, <2>4 DEF CarefulStep, CarefulInv, ExclusiveStatements
  <2>6. LiveSets' = {} /\ RowOf' = [r \in ResultSets |-> 0]
    BY <2>3 DEF LiveSets, RowOf, OpenSets
  <2>7. RowOf' = [r \in ResultSets |-> IF r \in OpenSets THEN 0 ELSE RowOf[r]]
    BY <2>6 DEF RowOf, OpenSets
  <2>8. C!Close
    BY <2>1, <2>2, <2>3, <2>6, <2>7 DEF C!Close, C!Closing, LiveSets, RowOf
  <2> QED BY <2>5, <2>8 DEF C!Next
<1>3. CASE CloseOpenResultSets
  <2>1. openResultSets = OpenSets /\ openResultSets \in SUBSET ResultSets
    BY DEF CarefulStep, CarefulInv, OpenSets
  <2>2. PICK rs \in SUBSET ResultSets : rs = openResultSets
    BY <2>1
  <2>3. CloseSets(rs)
    BY <1>3, <2>2 DEF CloseOpenResultSets, CloseSets
  <2>4. CarefulInv' /\ C!Closing(rs)
    BY <1>3, <2>3, CloseSetsIsClosing DEF CloseOpenResultSets
  <2>5. C!CloseOpenResultSets
    BY <1>3, <2>1, <2>2, <2>4 DEF CloseOpenResultSets, C!CloseOpenResultSets, C!Closing
  <2> QED BY <2>4, <2>5 DEF C!Next
<1>4. CASE ClearCachedStatements
  <2> DEFINE rs == {r \in OpenSets : statementOf[r] \in Cached}
  <2>1. /\ cachedStatements' = [q \in Queries |-> {}]
        /\ pointer' = pointer \ Cached
        /\ handles' = handles \ (Cached \cap pointer)
        /\ inUse' = inUse \ Cached
        /\ row' = [s \in Statements |-> IF s \in Cached THEN 0 ELSE row[s]]
        /\ UNCHANGED <<isOpen, shouldCacheStatements, openResultSets, statementOf,
                       shouldAutoClose>>
    BY <1>4 DEF ClearCachedStatements, ResetRows, Free
  <2>2. Cached' = {}
    BY <2>1, CachedNextIs
  <2>3. UNCHANGED <<OpenSets, UsedBy(ResultSets)>>
    BY <2>1 DEF OpenSets, UsedBy
  <2>4. CarefulInv'
    BY <2>1, <2>2, <2>3 DEF CarefulStep, CarefulInv, ExclusiveStatements
  <2>5. rs \subseteq LiveSets /\ LiveSets' = LiveSets \ rs
    BY <2>1, <2>3 DEF LiveSets, CarefulStep, CarefulInv
  <2>6. RowOf' = [r \in ResultSets |-> IF r \in rs THEN 0 ELSE RowOf[r]]
    BY <2>1 DEF RowOf, OpenSets, CarefulStep, Inv, TypeOK
  <2>7. C!ClearCachedStatements
    BY <2>1, <2>3, <2>5, <2>6 DEF C!ClearCachedStatements, LiveSets, RowOf
  <2> QED BY <2>4, <2>7 DEF C!Next
<1>5. ASSUME NEW value \in BOOLEAN, SetShouldCacheStatements(value)
      PROVE  CarefulInv' /\ [C!Next]_(C!vars)
  <2> DEFINE freed == IF value THEN {} ELSE Cached \ UsedBy(ResultSets)
  <2>1. /\ shouldCacheStatements' = value
        /\ cachedStatements' = IF value THEN cachedStatements ELSE [q \in Queries |-> {}]
        /\ inUse' = inUse \ freed
        /\ pointer' = pointer \ freed
        /\ handles' = handles \ (freed \cap pointer)
        /\ row' = [s \in Statements |-> IF s \in freed THEN 0 ELSE row[s]]
        /\ UNCHANGED <<isOpen, openResultSets, statementOf, shouldAutoClose>>
        /\ "cache" \in Calls
    BY <1>5 DEF SetShouldCacheStatements, ResetRows, Free
  <2>2. UNCHANGED <<OpenSets, UsedBy(ResultSets)>>
    BY <2>1 DEF OpenSets, UsedBy
  <2>3. Cached' = IF value THEN Cached ELSE {}
    BY <2>1 DEF Cached
  <2>4. CarefulInv'
    BY <2>1, <2>2, <2>3 DEF CarefulStep, CarefulInv, ExclusiveStatements
  <2>5. \A r \in OpenSets : statementOf[r] \in UsedBy(ResultSets)
    BY DEF UsedBy, OpenSets
  <2>6. LiveSets' = LiveSets
    BY <2>1, <2>2, <2>5 DEF LiveSets
  <2>7. RowOf' = RowOf
    BY <2>1, <2>5 DEF RowOf, OpenSets, CarefulStep, Inv, TypeOK
  <2> QED BY <1>a, <2>1, <2>2, <2>4, <2>6, <2>7
<1>6. ASSUME NEW q \in Queries, ExecuteUpdate(q)
      PROVE  CarefulInv' /\ [C!Next]_(C!vars)
  <2> PICK s \in StatementFor(q) : Obtain(q, s)
    BY <1>6 DEF ExecuteUpdate
  <2>1. s \in Statements /\ s # NoStatement /\ s \notin UsedBy(ResultSets)
    BY StatementIsFree DEF CarefulStep
  <2>2. /\ UNCHANGED <<isOpen, shouldCacheStatements, openResultSets, statementOf,
                       shouldAutoClose, inUse>>
        /\ pointer' = pointer \cup {s}
        /\ handles' = IF s \in pointer THEN handles ELSE handles \cup {s}
        /\ row' = [t \in Statements |-> IF t = s THEN 0 ELSE row[t]]
        /\ cachedStatements' = [cachedStatements EXCEPT ![q] = @ \cup {s}]
        /\ shouldCacheStatements
    BY <1>6 DEF ExecuteUpdate, Obtain, ResetRows
  <2>3. Cached' \subseteq Cached \cup {s}
    <3>1. \A p \in Queries : cachedStatements'[p] \subseteq cachedStatements[p] \cup {s}
      BY <2>2 DEF CarefulStep, Inv, TypeOK
    <3> QED BY <3>1 DEF Cached
  <2>4. UNCHANGED <<OpenSets, UsedBy(ResultSets)>>
    BY <2>2 DEF OpenSets, UsedBy
  <2>5. CarefulInv'
    BY <2>1, <2>2, <2>3, <2>4 DEF CarefulStep, CarefulInv, ExclusiveStatements
  <2>6. \A r \in OpenSets : statementOf[r] # s
    BY <2>1 DEF UsedBy, OpenSets
  <2>7. LiveSets' = LiveSets
    BY <2>2, <2>4, <2>6 DEF LiveSets
  <2>8. RowOf' = RowOf
    BY <2>2, <2>6 DEF RowOf, OpenSets, CarefulStep, Inv, TypeOK
  <2> QED BY <1>a, <2>2, <2>4, <2>5, <2>7, <2>8
<1>7. ASSUME NEW q \in Queries, MisbindCached(q)
      PROVE  CarefulInv' /\ [C!Next]_(C!vars)
  BY <1>7 DEF MisbindCached, CarefulCallers
<1>8. ASSUME NEW r \in ResultSets, NEW q \in Queries, ExecuteQuery(r, q)
      PROVE  CarefulInv' /\ [C!Next]_(C!vars)
  <2>1. /\ CarefulInv' /\ r \notin OpenSets /\ OpenSets' = OpenSets \cup {r}
        /\ LiveSets' = LiveSets \cup {r} /\ RowOf' = RowOf
        /\ isOpen /\ isOpen' = isOpen
    BY <1>8, TakeIsQuery DEF ExecuteQuery
  <2>2. C!ExecuteQuery(r)
    BY <1>8, <2>1 DEF ExecuteQuery, C!ExecuteQuery, LiveSets, RowOf
  <2> QED BY <2>1, <2>2 DEF C!Next
<1>9. ASSUME NEW r \in ResultSets, NEW q \in Queries, Prepare(r, q)
      PROVE  CarefulInv' /\ [C!Next]_(C!vars)
  <2>1. /\ CarefulInv' /\ r \notin OpenSets /\ OpenSets' = OpenSets \cup {r}
        /\ LiveSets' = LiveSets \cup {r} /\ RowOf' = RowOf
        /\ isOpen /\ isOpen' = isOpen
    BY <1>9, TakeIsQuery DEF Prepare
  <2>2. C!Prepare(r)
    BY <1>9, <2>1 DEF Prepare, C!Prepare, LiveSets, RowOf
  <2> QED BY <2>1, <2>2 DEF C!Next
<1>10. ASSUME NEW r \in ResultSets, NextRow(r)
       PROVE  CarefulInv' /\ [C!Next]_(C!vars)
  <2>1. /\ statementOf[r] \in pointer /\ statementOf[r] \in Statements
        /\ row[statementOf[r]] < MaxRows
        /\ row' = [row EXCEPT ![statementOf[r]] = @ + 1]
        /\ UNCHANGED <<isOpen, shouldCacheStatements, cachedStatements, openResultSets,
                       statementOf, shouldAutoClose, pointer, inUse, handles>>
    BY <1>10 DEF NextRow, CarefulStep, Inv, TypeOK
  <2>2. UNCHANGED <<Cached, OpenSets, UsedBy(ResultSets), LiveSets>>
    BY <2>1 DEF Cached, OpenSets, UsedBy, LiveSets
  <2>3. CarefulInv'
    BY <2>1, <2>2 DEF CarefulStep, CarefulInv, ExclusiveStatements
  <2>4. statementOf[r] # NoStatement /\ r \in LiveSets
    BY <2>1, ConnectionAssumption DEF ConnectionAssumption, LiveSets, OpenSets
  <2>5. \A x \in OpenSets \ {r} : statementOf[x] # statementOf[r]
    BY <2>4 DEF CarefulStep, CarefulInv, ExclusiveStatements, LiveSets
  <2>6. RowOf' = [RowOf EXCEPT ![r] = @ + 1]
    BY <2>1, <2>4, <2>5 DEF RowOf, OpenSets, CarefulStep, Inv, TypeOK
  <2>7. RowOf[r] < MaxRows
    BY <2>1, <2>4 DEF RowOf
  <2>8. C!NextRow(r)
    BY <2>1, <2>2, <2>4, <2>6, <2>7 DEF C!NextRow, LiveSets, RowOf
  <2> QED BY <2>3, <2>8 DEF C!Next
<1>11. ASSUME NEW r \in ResultSets, NoMoreRows(r)
       PROVE  CarefulInv' /\ [C!Next]_(C!vars)
  <2>0. r \in OpenSets
    BY <1>11 DEF NoMoreRows
  <2>1. CASE r \in shouldAutoClose
    <3>1. CarefulInv' /\ C!Closing({r}) /\ isOpen' = isOpen
      BY <1>11, <2>1, CloseSetsIsClosing DEF NoMoreRows
    <3>2. C!NoMoreRows(r)
      BY <2>0, <2>1, <3>1 DEF C!NoMoreRows
    <3> QED BY <3>1, <3>2 DEF C!Next
  <2>2. CASE r \notin shouldAutoClose
    <3>1. /\ row' = [s \in Statements |-> IF s = statementOf[r] THEN 0 ELSE row[s]]
          /\ UNCHANGED <<isOpen, shouldCacheStatements, cachedStatements, openResultSets,
                         statementOf, shouldAutoClose, pointer, inUse, handles>>
      BY <1>11, <2>2 DEF NoMoreRows, ResetRows
    <3>2. UNCHANGED <<Cached, OpenSets, UsedBy(ResultSets), LiveSets>>
      BY <3>1 DEF Cached, OpenSets, UsedBy, LiveSets
    <3>3. CarefulInv'
      BY <3>1, <3>2 DEF CarefulStep, CarefulInv, ExclusiveStatements
    <3>4. \A x \in OpenSets \ {r} : statementOf[x] # statementOf[r]
      BY <2>0 DEF CarefulStep, CarefulInv, ExclusiveStatements
    <3>5. RowOf' = [RowOf EXCEPT ![r] = 0]
      BY <2>0, <3>1, <3>4 DEF RowOf, OpenSets, CarefulStep, Inv, TypeOK
    <3>6. C!NoMoreRows(r)
      BY <2>0, <2>2, <3>1, <3>2, <3>5 DEF C!NoMoreRows, LiveSets, RowOf
    <3> QED BY <3>3, <3>6 DEF C!Next
  <2> QED BY <2>1, <2>2
<1>12. ASSUME NEW r \in ResultSets, Bind(r)
       PROVE  CarefulInv' /\ [C!Next]_(C!vars)
  <2>1. /\ row' = [s \in Statements |-> IF s = statementOf[r] THEN 0 ELSE row[s]]
        /\ UNCHANGED <<isOpen, shouldCacheStatements, cachedStatements, openResultSets,
                       statementOf, shouldAutoClose, pointer, handles>>
        /\ "bind" \in Calls /\ r \in OpenSets \ shouldAutoClose
    BY <1>12 DEF Bind, ResetRows, CarefulCallers
  <2>2. UNCHANGED <<Cached, OpenSets, UsedBy(ResultSets), LiveSets>>
    BY <2>1 DEF Cached, OpenSets, UsedBy, LiveSets
  <2>3. CarefulInv'
    BY <2>1, <2>2 DEF CarefulStep, CarefulInv, ExclusiveStatements
  <2>4. \A x \in OpenSets \ {r} : statementOf[x] # statementOf[r]
    BY <2>1 DEF CarefulStep, CarefulInv, ExclusiveStatements
  <2>5. RowOf' = [RowOf EXCEPT ![r] = 0]
    BY <2>1, <2>4 DEF RowOf, OpenSets, CarefulStep, Inv, TypeOK
  <2>6. C!Bind(r)
    BY <2>1, <2>2, <2>5 DEF C!Bind, LiveSets, RowOf
  <2> QED BY <2>3, <2>6 DEF C!Next
<1>13. ASSUME NEW r \in ResultSets, CloseResultSet(r)
       PROVE  CarefulInv' /\ [C!Next]_(C!vars)
  <2>1. CarefulInv' /\ C!Closing({r}) /\ isOpen' = isOpen
    BY <1>13, CloseSetsIsClosing DEF CloseResultSet
  <2>2. C!CloseResultSet(r)
    BY <2>1 DEF C!CloseResultSet
  <2> QED BY <2>1, <2>2 DEF C!Next
<1>14. ASSUME NEW r \in ResultSets, Detach(r)
       PROVE  CarefulInv' /\ [C!Next]_(C!vars)
  BY <1>14 DEF Detach, CarefulCallers
<1>15. CASE UNCHANGED vars
  <2>1. UNCHANGED <<Cached, OpenSets, UsedBy(ResultSets), RowOf, LiveSets>>
    BY <1>15 DEF vars, statementVars, Cached, OpenSets, UsedBy, RowOf, LiveSets
  <2>2. CarefulInv'
    BY <1>15, <2>1 DEF vars, statementVars, CarefulStep, CarefulInv, ExclusiveStatements
  <2> QED BY <1>a, <1>15, <2>1, <2>2 DEF vars
<1> QED BY <1>1, <1>2, <1>3, <1>4, <1>5, <1>6, <1>7, <1>8, <1>9, <1>10, <1>11,
           <1>12, <1>13, <1>14, <1>15 DEF Next

LEMMA CarefulAlways == CarefulCallers /\ Spec => [](Inv /\ CarefulInv)
<1> SUFFICES ASSUME CarefulCallers PROVE Spec => [](Inv /\ CarefulInv)
  OBVIOUS
<1>1. Inv /\ CarefulInv /\ [Next]_vars => (Inv /\ CarefulInv)'
  BY NextKeepsInv, CarefulNext DEF CarefulStep
<1> QED BY InitInv, InitCareful, <1>1, PTL DEF Spec

\* With careful callers no statement object has a finalized handle: the
\* cache, the result sets and the close of the connection may come in any
\* order.
THEOREM NothingDangles == CarefulCallers /\ Spec => []NoDanglingStatement
<1>1. CarefulInv => NoDanglingStatement BY DEF CarefulInv, NoDanglingStatement
<1> QED BY CarefulAlways, <1>1, PTL

\* With careful callers a cached statement is in the hands of one open result
\* set at a time.
THEOREM StatementsAreExclusive == CarefulCallers /\ Spec => []ExclusiveStatements
<1>1. CarefulInv => ExclusiveStatements BY DEF CarefulInv
<1> QED BY CarefulAlways, <1>1, PTL

\* With careful callers the library does what its headers declare: every
\* step of the connection is one of SqlConnection, or none.
THEOREM Refinement == CarefulCallers /\ Spec => ImplementsConnection
<1> SUFFICES ASSUME CarefulCallers PROVE Spec => ImplementsConnection
  OBVIOUS
<1>1. Init => C!Init
  BY InitCareful
<1>2. Inv /\ CarefulInv /\ Inv' /\ [Next]_vars => [C!Next]_(C!vars)
  BY CarefulNext DEF CarefulStep
<1>3. Spec => [](Inv /\ CarefulInv)
  BY CarefulAlways
<1> QED BY <1>1, <1>2, <1>3, PTL DEF Spec, ImplementsConnection, C!Spec
=============================================================================
