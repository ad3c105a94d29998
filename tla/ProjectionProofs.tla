-------------------------- MODULE ProjectionProofs --------------------------
(***************************************************************************)
(* Proofs about what is made of the services' events: the library and the  *)
(* taste signals that follow it, playlists with their search document, and *)
(* the rebuilding of the search indices.                                   *)
(***************************************************************************)
EXTENDS MCProjections, OrderingProofs

\* Of finitely many indices one is the last.
LEMMA LastExists ==
  ASSUME NEW n \in Nat, NEW S, S \subseteq 1..n, S # {}
  PROVE  \E x \in S : \A y \in S : y <= x
<1> DEFINE T == {n - x : x \in S}
<1>1. T \subseteq Nat /\ T # {}
  <2>1. ASSUME NEW x \in S PROVE n - x \in Nat
    <3>1. x \in 1..n
      OBVIOUS
    <3>2. QED
      BY <3>1
  <2>2. PICK x \in S : TRUE
    OBVIOUS
  <2>3. n - x \in T
    BY <2>2
  <2>4. QED
    BY <2>1, <2>3
<1>2. PICK m \in T : \A y \in T : ~ (<<y, m>> \in NatLess)
  <2> HIDE DEF T
  <2>1. QED
    BY <1>1, NatLessWellFounded, WFMin, Zenon
<1>3. PICK x \in S : m = n - x
  OBVIOUS
<1>4. ASSUME NEW y \in S PROVE y <= x
  <2>1. n - y \in T /\ n - y \in Nat /\ m \in Nat
    BY <1>1
  <2>2. ~ (n - y < m)
    BY <1>2, <2>1 DEF NatLess
  <2>3. QED
    BY <1>3, <2>2
<1>5. QED
  BY <1>4

-----------------------------------------------------------------------------
(* The library *)

LibraryPcs == {"idle", "catalog", "statement", "existing", "commit", "answer"}
LibraryOps == {"none", "save", "remove"}
LibraryStatuses == {0, 204, 404, 503}
LibraryItems == LikedItems \cup {<<>>}
SaveTimes == 0..LastSave
LibraryRecord == [pc : LibraryPcs, op : LibraryOps, item : LibraryItems, at : SaveTimes, status : LibraryStatuses]
LibraryEventRecord == [on : BOOLEAN, item : LikedItems, at : SaveTimes \ {0}]

LibraryTypes ==
  /\ saved \in [LikedItems -> SaveTimes]
  /\ libraryEvents \in Seq(LibraryEventRecord)
  /\ libraryReq \in [LibraryReqs -> LibraryRecord]
  /\ saveClock \in SaveTimes \ {0}

\* A request in a transaction has read the clock; one that has the row saves
\* an item that is not there or removes one that is.
LibraryKnows(q) ==
  /\ q.pc \in {"catalog", "statement", "existing", "commit"} => q.item \in LikedItems
  /\ q.pc \in {"statement", "commit"} => q.at # 0
  /\ q.pc = "commit" => (q.op = "save" <=> saved[q.item] = 0)

\* Of one item only one open transaction has the row.
OneSaver ==
  \A r, o \in LibraryReqs :
    libraryReq[r].pc = "commit" /\ libraryReq[o].pc = "commit" /\ libraryReq[r].item = libraryReq[o].item => r = o

LibraryInv ==
  /\ LibraryTypes
  /\ \A r \in LibraryReqs : LibraryKnows(libraryReq[r])
  /\ OneSaver
  /\ EventsReplayLibrary

\* The event of a commit continues those of its item, and says what it did.
LEMMA LibraryEventsFollow ==
  ASSUME LibraryTypes, EventsReplayLibrary, NEW e \in LibraryEventRecord,
         e.on <=> saved[e.item] = 0,
         saved' = [saved EXCEPT ![e.item] = IF e.on THEN e.at ELSE 0],
         libraryEvents' = Append(libraryEvents, e)
  PROVE  EventsReplayLibrary'
<1> DEFINE n == Len(libraryEvents) + 1
<1>1. /\ e.item \in LikedItems /\ e.on \in BOOLEAN
      /\ saved'[e.item] = IF e.on THEN e.at ELSE 0
      /\ \A x \in LikedItems \ {e.item} : saved'[x] = saved[x]
  BY DEF LibraryTypes, LibraryEventRecord
<1>2. libraryEvents \in Seq(LibraryEventRecord)
  BY DEF LibraryTypes
<1>3. /\ Len(libraryEvents) \in Nat /\ Len(libraryEvents') = n
      /\ libraryEvents'[n] = e
      /\ \A i \in 1..Len(libraryEvents) :
           libraryEvents'[i] = libraryEvents[i] /\ libraryEvents[i] \in LibraryEventRecord
  BY <1>2
<1> SUFFICES ASSUME NEW x \in LikedItems
             PROVE  LET of == {i \in 1..Len(libraryEvents') : libraryEvents'[i].item = x} IN
                    /\ \A i \in of : (\A j \in of : i <= j) => libraryEvents'[i].on
                    /\ \A i, j \in of : (i < j /\ \A k \in of : k <= i \/ j <= k)
                         => libraryEvents'[i].on # libraryEvents'[j].on
                    /\ of = {} => saved'[x] = 0
                    /\ \A i \in of : (\A j \in of : j <= i)
                         => saved'[x] = IF libraryEvents'[i].on THEN libraryEvents'[i].at ELSE 0
  BY DEF EventsReplayLibrary, ItemEvents, Adjacent
<1> DEFINE old == {i \in 1..Len(libraryEvents) : libraryEvents[i].item = x}
           of == {i \in 1..Len(libraryEvents') : libraryEvents'[i].item = x}
           E(i) == libraryEvents[i]
           F(i) == libraryEvents'[i]
<1>4. /\ \A i \in old : (\A j \in old : i <= j) => E(i).on
      /\ \A i, j \in old : (i < j /\ \A k \in old : k <= i \/ j <= k) => E(i).on # E(j).on
      /\ old = {} => saved[x] = 0
      /\ \A i \in old : (\A j \in old : j <= i) => saved[x] = IF E(i).on THEN E(i).at ELSE 0
  BY DEF EventsReplayLibrary, ItemEvents, Adjacent
<1>5. \A i \in old : i \in Nat /\ i < n /\ F(i) = E(i) /\ E(i) \in LibraryEventRecord
  BY <1>3
<1>6. CASE x # e.item
  <2>1. of = old
    BY <1>3, <1>6
  <2> HIDE DEF of, old, E, F
  <2>2. /\ \A i \in of : (\A j \in of : i <= j) => F(i).on
        /\ \A i, j \in of : (i < j /\ \A k \in of : k <= i \/ j <= k) => F(i).on # F(j).on
        /\ of = {} => saved'[x] = 0
        /\ \A i \in of : (\A j \in of : j <= i) => saved'[x] = IF F(i).on THEN F(i).at ELSE 0
    BY <1>1, <1>4, <1>5, <1>6, <2>1
  <2>3. QED
    BY <2>2 DEF of, F
<1>7. CASE x = e.item
  <2>1. of = old \cup {n} /\ n \in Nat /\ F(n) = e
    BY <1>3, <1>7
  <2> HIDE DEF of, old, E, F, n
  <2>2. ASSUME NEW i \in of, \A j \in of : i <= j PROVE F(i).on
    <3>1. CASE i = n
      <4>1. old = {}
        BY <1>5, <2>1, <2>2, <3>1
      <4>2. QED
        BY <1>4, <1>7, <2>1, <3>1, <4>1
    <3>2. CASE i # n
      BY <1>4, <1>5, <2>1, <2>2, <3>2
    <3>3. QED
      BY <3>1, <3>2
  <2>3. ASSUME NEW i \in of, NEW j \in of, i < j, \A k \in of : k <= i \/ j <= k PROVE F(i).on # F(j).on
    <3>1. i \in old /\ F(i) = E(i) /\ E(i).on \in BOOLEAN /\ E(i).at # 0
      BY <1>5, <2>1, <2>3 DEF LibraryEventRecord
    <3>2. CASE j = n
      <4>1. \A k \in old : k <= i
        BY <1>5, <2>1, <2>3, <3>2
      <4>2. saved[x] = IF E(i).on THEN E(i).at ELSE 0
        BY <1>4, <3>1, <4>1
      <4>3. E(i).on <=> saved[x] # 0
        BY <3>1, <4>2
      <4>4. QED
        BY <1>7, <2>1, <3>1, <3>2, <4>3
    <3>3. CASE j # n
      <4>1. j \in old /\ F(j) = E(j) /\ \A k \in old : k <= i \/ j <= k
        BY <1>5, <2>1, <2>3, <3>3
      <4>2. QED
        BY <1>4, <2>3, <3>1, <4>1
    <3>4. QED
      BY <3>2, <3>3
  <2>4. ASSUME NEW i \in of, \A j \in of : j <= i PROVE saved'[x] = IF F(i).on THEN F(i).at ELSE 0
    <3>1. i = n
      BY <1>5, <2>1, <2>4
    <3>2. QED
      BY <1>1, <1>7, <2>1, <3>1
  <2>5. of # {}
    BY <2>1
  <2>6. QED
    BY <2>2, <2>3, <2>4, <2>5 DEF of, F
<1>8. QED
  BY <1>6, <1>7

\* A step of one request that commits nothing.
LEMMA LibraryMoves ==
  ASSUME LibraryInv, NEW r \in LibraryReqs, NEW q \in LibraryRecord, LibraryKnows(q),
         libraryReq' = [libraryReq EXCEPT ![r] = q], ItemsUnchanged, saveClock' \in SaveTimes \ {0},
         q.pc = "commit" => \A o \in LibraryReqs \ {r} : libraryReq[o].pc = "commit" => libraryReq[o].item # q.item
  PROVE  LibraryInv'
<1>1. libraryReq' \in [LibraryReqs -> LibraryRecord] /\ libraryReq'[r] = q
      /\ \A o \in LibraryReqs \ {r} : libraryReq'[o] = libraryReq[o]
  BY DEF LibraryInv, LibraryTypes
<1>2. saved' = saved /\ libraryEvents' = libraryEvents
  BY DEF ItemsUnchanged
<1>3. LibraryTypes'
  BY <1>1, <1>2 DEF LibraryInv, LibraryTypes
<1>4. ASSUME NEW o \in LibraryReqs PROVE LibraryKnows(libraryReq[o])'
  <2>1. LibraryKnows(libraryReq'[o])
    BY <1>1 DEF LibraryInv
  <2>2. QED
    BY <1>2, <2>1 DEF LibraryKnows
<1>5. OneSaver'
  BY <1>1 DEF LibraryInv, OneSaver
<1>6. EventsReplayLibrary'
  <2>1. EventsReplayLibrary
    BY DEF LibraryInv
  <2>2. \A x : ItemEvents(x)' = ItemEvents(x)
    BY <1>2 DEF ItemEvents
  <2>3. QED
    BY <1>2, <2>1, <2>2 DEF EventsReplayLibrary, Adjacent
<1>7. QED
  BY <1>3, <1>4, <1>5, <1>6 DEF LibraryInv

\* What the steps of a request assign to its fields.
LEMMA NewLibraryFields ==
  /\ "catalog" \in LibraryPcs /\ "statement" \in LibraryPcs /\ "existing" \in LibraryPcs
  /\ "commit" \in LibraryPcs /\ "answer" \in LibraryPcs /\ "save" \in LibraryOps /\ "remove" \in LibraryOps
  /\ NoLibraryReq \in LibraryRecord /\ NoLibraryReq.pc = "idle" /\ LibraryKnows(NoLibraryReq)
<1>1. 0 \in SaveTimes /\ <<>> \in LibraryItems
  BY LibraryAssumption DEF SaveTimes, LibraryItems
<1>2. QED
  BY <1>1 DEF LibraryPcs, LibraryOps, LibraryStatuses, LibraryRecord, NoLibraryReq, LibraryKnows

\* An answered request knows nothing any more.
LEMMA LibraryReplyTyped ==
  ASSUME NEW op, NEW err
  PROVE  /\ LibraryReply(op, err) \in LibraryRecord /\ LibraryReply(op, err).pc = "answer"
         /\ LibraryKnows(LibraryReply(op, err))
<1> DEFINE st == IF op = "save" THEN SaveStatus(err) ELSE RemoveStatus(err)
           new == [NoLibraryReq EXCEPT !.pc = "answer", !.status = st]
<1>1. st \in LibraryStatuses
  BY DEF SaveStatus, RemoveStatus, LibraryStatuses
<1>2. LibraryReply(op, err) = new
  BY DEF LibraryReply
<1> HIDE DEF st
<1>3. new \in LibraryRecord /\ new.pc = "answer"
  BY <1>1, NewLibraryFields DEF LibraryRecord
<1> HIDE DEF new
<1>4. QED
  BY <1>2, <1>3 DEF LibraryKnows

\* The commit changes the item and appends the event, and ends the request.
LEMMA CommitKeepsLibrary ==
  ASSUME LibraryInv, NEW r \in LibraryReqs, CommitLibrary(r)
  PROVE  LibraryInv'
<1> DEFINE q == libraryReq[r]
           e == [on |-> q.op = "save", item |-> q.item, at |-> q.at]
<1>1. q \in LibraryRecord /\ LibraryKnows(q) /\ q.pc = "commit" /\ LibraryTypes
  BY DEF LibraryInv, LibraryTypes, CommitLibrary, LibraryStep
<1>2. q.item \in LikedItems /\ q.at \in SaveTimes \ {0} /\ (q.op = "save" <=> saved[q.item] = 0)
  BY <1>1 DEF LibraryKnows, LibraryRecord
<1>3. e \in LibraryEventRecord /\ e.item = q.item /\ e.on = (q.op = "save") /\ e.at = q.at
  BY <1>2 DEF LibraryEventRecord
<1>4. /\ saved' = [saved EXCEPT ![q.item] = IF q.op = "save" THEN q.at ELSE 0]
      /\ libraryEvents' = Append(libraryEvents, e)
      /\ libraryReq' = [libraryReq EXCEPT ![r] = LibraryReply(q.op, "nil")]
      /\ saveClock' = saveClock
  BY DEF CommitLibrary, LibraryEvent, LibraryStep
<1> HIDE DEF e
<1>5. saved' = [saved EXCEPT ![e.item] = IF e.on THEN e.at ELSE 0] /\ (e.on <=> saved[e.item] = 0)
  BY <1>2, <1>3, <1>4
<1>6. EventsReplayLibrary'
  BY <1>1, <1>3, <1>4, <1>5, LibraryEventsFollow DEF LibraryInv
<1>7. 0 \in SaveTimes
  BY LibraryAssumption DEF SaveTimes
<1>8. /\ saved' \in [LikedItems -> SaveTimes]
      /\ \A x \in LikedItems \ {q.item} : saved'[x] = saved[x]
  BY <1>1, <1>2, <1>4, <1>7 DEF LibraryTypes
<1>9. libraryEvents' \in Seq(LibraryEventRecord)
  BY <1>1, <1>3, <1>4 DEF LibraryTypes
<1>10. /\ libraryReq' \in [LibraryReqs -> LibraryRecord]
       /\ libraryReq'[r].pc = "answer"
       /\ \A o \in LibraryReqs \ {r} : libraryReq'[o] = libraryReq[o]
  <2> DEFINE new == LibraryReply(q.op, "nil")
  <2>1. new \in LibraryRecord /\ new.pc = "answer"
    BY LibraryReplyTyped
  <2>2. libraryReq' = [libraryReq EXCEPT ![r] = new]
    BY <1>4
  <2> HIDE DEF new
  <2>3. QED
    BY <1>1, <2>1, <2>2 DEF LibraryTypes
<1>11. LibraryTypes'
  BY <1>1, <1>4, <1>8, <1>9, <1>10 DEF LibraryTypes
<1>12. ASSUME NEW o \in LibraryReqs PROVE LibraryKnows(libraryReq[o])'
  <2>1. CASE o = r
    BY <1>10, <2>1 DEF LibraryKnows
  <2>2. CASE o # r
    <3>1. libraryReq'[o] = libraryReq[o] /\ LibraryKnows(libraryReq[o])
      BY <1>10, <2>2 DEF LibraryInv
    <3>2. libraryReq[o].pc = "commit" => libraryReq[o].item \in LikedItems \ {q.item}
      BY <1>1, <2>2, <3>1 DEF LibraryInv, OneSaver, LibraryKnows
    <3>3. QED
      BY <1>8, <3>1, <3>2 DEF LibraryKnows
  <2>3. QED
    BY <2>1, <2>2
<1>13. OneSaver'
  BY <1>10 DEF LibraryInv, OneSaver
<1>14. QED
  BY <1>6, <1>11, <1>12, <1>13 DEF LibraryInv

\* Every step of a request keeps the invariant.
LEMMA LibraryKeeps ==
  ASSUME LibraryInv, LibraryNext
  PROVE  LibraryInv'
<1>1. PICK r \in LibraryReqs :
        \/ \E x \in LikedItems : Save(r, x) \/ Unsave(r, x)
        \/ \E err \in {"nil", "ErrNotFound", "failed"} : CatalogExists(r, err)
        \/ SaveItem(r) \/ SaveReadExisting(r) \/ RemoveItem(r) \/ CommitLibrary(r)
        \/ LibraryTxFails(r) \/ LibraryAnswered(r)
  BY DEF LibraryNext
<1> DEFINE q == libraryReq[r]
<1>2. LibraryTypes /\ q \in LibraryRecord /\ LibraryKnows(q) /\ saveClock \in SaveTimes \ {0}
  BY DEF LibraryInv, LibraryTypes
<1>3. ASSUME ReadClock PROVE saveClock' \in SaveTimes \ {0}
  BY <1>2, <1>3, LibraryAssumption DEF ReadClock, SaveTimes
<1>4. ASSUME NEW op, NEW err, libraryReq' = [libraryReq EXCEPT ![r] = LibraryReply(op, err)],
             ItemsUnchanged, saveClock' = saveClock
      PROVE  LibraryInv'
  <2> DEFINE new == LibraryReply(op, err)
  <2>1. new \in LibraryRecord /\ new.pc = "answer" /\ LibraryKnows(new)
    BY LibraryReplyTyped
  <2>2. libraryReq' = [libraryReq EXCEPT ![r] = new]
    BY <1>4
  <2> HIDE DEF new
  <2>3. QED
    BY <1>2, <1>4, <2>1, <2>2, LibraryMoves
<1>5. ASSUME NEW x \in LikedItems, Save(r, x) PROVE LibraryInv'
  <2> DEFINE new == [NoLibraryReq EXCEPT !.pc = "catalog", !.op = "save", !.item = x]
  <2>1. x \in LibraryItems
    BY DEF LibraryItems
  <2>2. new \in LibraryRecord /\ new.pc = "catalog" /\ new.item = x
    BY <2>1, NewLibraryFields DEF LibraryRecord
  <2>3. libraryReq' = [libraryReq EXCEPT ![r] = new] /\ ItemsUnchanged /\ saveClock' = saveClock
    BY <1>5 DEF Save, LibraryStep
  <2> HIDE DEF new
  <2>4. LibraryKnows(new)
    BY <2>2 DEF LibraryKnows
  <2>5. QED
    BY <1>2, <2>2, <2>3, <2>4, LibraryMoves
<1>6. ASSUME NEW x \in LikedItems, Unsave(r, x) PROVE LibraryInv'
  <2> DEFINE at == saveClock'
             new == [NoLibraryReq EXCEPT !.pc = "statement", !.op = "remove", !.item = x, !.at = at]
  <2>1. x \in LibraryItems /\ at \in SaveTimes \ {0} /\ at \in SaveTimes
    BY <1>3, <1>6 DEF LibraryItems, Unsave
  <2>2. libraryReq' = [libraryReq EXCEPT ![r] = new] /\ ItemsUnchanged
    BY <1>6 DEF Unsave, LibraryStep
  <2> HIDE DEF at
  <2>3. new \in LibraryRecord /\ new.pc = "statement" /\ new.item = x /\ new.at = at
    BY <2>1, NewLibraryFields DEF LibraryRecord
  <2> HIDE DEF new
  <2>4. LibraryKnows(new)
    BY <2>1, <2>3 DEF LibraryKnows
  <2>5. QED
    BY <2>1, <2>2, <2>3, <2>4, LibraryMoves DEF at
<1>7. ASSUME NEW err, CatalogExists(r, err) PROVE LibraryInv'
  <2>1. CASE err = "nil"
    <3> DEFINE at == saveClock'
               new == [q EXCEPT !.pc = "statement", !.at = at]
    <3>1. at \in SaveTimes \ {0} /\ at \in SaveTimes
      BY <1>3, <1>7, <2>1 DEF CatalogExists
    <3>2. libraryReq' = [libraryReq EXCEPT ![r] = new] /\ ItemsUnchanged /\ q.pc = "catalog"
      BY <1>7, <2>1 DEF CatalogExists, LibraryStep
    <3>3. q.item \in LikedItems
      BY <1>2, <3>2 DEF LibraryKnows
    <3> HIDE DEF at
    <3>4. new \in LibraryRecord /\ new.pc = "statement" /\ new.item = q.item /\ new.at = at
      BY <1>2, <3>1, NewLibraryFields DEF LibraryRecord
    <3> HIDE DEF new
    <3>5. LibraryKnows(new)
      BY <3>1, <3>3, <3>4 DEF LibraryKnows
    <3>6. QED
      BY <3>1, <3>2, <3>4, <3>5, LibraryMoves DEF at
  <2>2. CASE err # "nil"
    BY <1>4, <1>7, <2>2 DEF CatalogExists, LibraryStep
  <2>3. QED
    BY <2>1, <2>2
<1>8. ASSUME NEW pc \in {"commit", "existing"}, q.pc = "statement", ItemsUnchanged, saveClock' = saveClock,
             ItemFree(r), pc = "commit" => (q.op = "save" <=> saved[q.item] = 0),
             libraryReq' = [libraryReq EXCEPT ![r] = [q EXCEPT !.pc = pc]]
      PROVE  LibraryInv'
  <2> DEFINE new == [q EXCEPT !.pc = pc]
  <2>1. q.item \in LikedItems /\ q.at # 0
    BY <1>2, <1>8 DEF LibraryKnows
  <2>2. new \in LibraryRecord /\ new.pc = pc /\ new.item = q.item /\ new.at = q.at /\ new.op = q.op
    BY <1>2, NewLibraryFields DEF LibraryRecord
  <2>3. libraryReq' = [libraryReq EXCEPT ![r] = new]
    BY <1>8
  <2> HIDE DEF new
  <2>4. LibraryKnows(new)
    BY <1>8, <2>1, <2>2 DEF LibraryKnows
  <2>5. \A o \in LibraryReqs \ {r} : libraryReq[o].pc = "commit" => libraryReq[o].item # new.item
    BY <1>8, <2>2 DEF ItemFree
  <2>6. QED
    BY <1>2, <1>8, <2>2, <2>3, <2>4, <2>5, LibraryMoves
<1>9. CASE SaveItem(r)
  <2>1. /\ q.op = "save" /\ ItemFree(r) /\ q.pc = "statement" /\ ItemsUnchanged /\ saveClock' = saveClock
        /\ libraryReq' = [libraryReq EXCEPT ![r] =
             [q EXCEPT !.pc = IF saved[q.item] = 0 THEN "commit" ELSE "existing"]]
    BY <1>9 DEF SaveItem, LibraryStep
  <2>2. CASE saved[q.item] = 0
    BY <1>8, <2>1, <2>2
  <2>3. CASE saved[q.item] # 0
    BY <1>8, <2>1, <2>3
  <2>4. QED
    BY <2>2, <2>3
<1>10. CASE RemoveItem(r)
  <2>1. q.op = "remove" /\ ItemsUnchanged /\ saveClock' = saveClock
    BY <1>10 DEF RemoveItem
  <2>2. CASE saved[q.item] = 0
    BY <1>4, <1>10, <2>1, <2>2 DEF RemoveItem, LibraryStep
  <2>3. CASE saved[q.item] # 0
    BY <1>8, <1>10, <2>1, <2>3 DEF RemoveItem, LibraryStep
  <2>4. QED
    BY <2>2, <2>3
<1>11. CASE SaveReadExisting(r) \/ LibraryTxFails(r)
  BY <1>4, <1>11 DEF SaveReadExisting, LibraryTxFails, LibraryStep
<1>12. CASE LibraryAnswered(r)
  BY <1>2, <1>12, NewLibraryFields, LibraryMoves DEF LibraryAnswered, LibraryStep
<1>13. QED
  BY <1>1, <1>5, <1>6, <1>7, <1>9, <1>10, <1>11, <1>12, CommitKeepsLibrary

\* The initial state satisfies the invariant.
LEMMA LibraryInvInit == LibraryInit => LibraryInv
<1> SUFFICES ASSUME LibraryInit PROVE LibraryInv
  OBVIOUS
<1>1. 0 \in SaveTimes /\ 1 \in SaveTimes
  BY LibraryAssumption DEF SaveTimes
<1>2. /\ saved = [x \in LikedItems |-> 0] /\ libraryEvents = <<>> /\ saveClock = 1
      /\ libraryReq = [r \in LibraryReqs |-> NoLibraryReq]
  BY DEF LibraryInit
<1>3. \A r \in LibraryReqs : libraryReq[r] = NoLibraryReq
  BY <1>2
<1>4. LibraryTypes
  BY <1>1, <1>2, NewLibraryFields DEF LibraryTypes
<1>5. (\A r \in LibraryReqs : LibraryKnows(libraryReq[r])) /\ OneSaver
  BY <1>3, NewLibraryFields DEF OneSaver
<1>6. \A x \in LikedItems : ItemEvents(x) = {} /\ saved[x] = 0
  BY <1>2 DEF ItemEvents
<1>7. EventsReplayLibrary
  BY <1>6 DEF EventsReplayLibrary
<1>8. QED
  BY <1>4, <1>5, <1>7 DEF LibraryInv

-----------------------------------------------------------------------------
(* Taste signals *)

SignalRecord == [on : BOOLEAN, at : Nat]
DeliveredRecord == [key : SignalKeys, on : BOOLEAN, at : Nat]

SignalTypes ==
  /\ signal \in [SignalKeys -> SignalRecord]
  /\ heard \in SUBSET DeliveredRecord

\* What is delivered of an item was published by the library, and a key of
\* which nothing was delivered has no signal.
HeardPublished ==
  \A s \in heard : s.key \in LikedItems => \E i \in 1..Len(libraryEvents) : s = LikeOf(libraryEvents[i])
NothingHeard == \A k \in SignalKeys : (\A s \in heard : s.key # k) => signal[k] = NoSignal

SignalsInv == LibraryInv /\ SignalTypes /\ HeardPublished /\ NothingHeard /\ LastByTimeWins

\* An event that is delivered leaves the newest of those delivered.
LEMMA HandleKeepsNewest ==
  ASSUME SignalTypes, NothingHeard, LastByTimeWins, NEW s \in DeliveredRecord, HandleSignal(s)
  PROVE  SignalTypes' /\ NothingHeard' /\ LastByTimeWins'
<1> DEFINE old == signal[s.key]
           new == IF s.at >= old.at THEN [on |-> s.on, at |-> s.at] ELSE old
<1>1. s.key \in SignalKeys /\ s.on \in BOOLEAN /\ s.at \in Nat /\ [on |-> s.on, at |-> s.at] \in SignalRecord
  BY DEF DeliveredRecord, SignalRecord
<1>2. old \in SignalRecord /\ old.at \in Nat
  BY <1>1 DEF SignalTypes, SignalRecord
<1>3. signal' = [signal EXCEPT ![s.key] = new] /\ heard' = heard \cup {s}
  BY DEF HandleSignal, SaveFeatures, SetSignal
<1>4. new \in SignalRecord
  BY <1>1, <1>2
<1> HIDE DEF new
<1>5. /\ signal' \in [SignalKeys -> SignalRecord] /\ signal'[s.key] = new
      /\ \A k \in SignalKeys \ {s.key} : signal'[k] = signal[k]
  BY <1>1, <1>3, <1>4 DEF SignalTypes
<1>6. SignalTypes'
  BY <1>3, <1>5 DEF SignalTypes
<1>7. NothingHeard'
  <2> SUFFICES ASSUME NEW k \in SignalKeys, \A o \in heard' : o.key # k PROVE signal'[k] = NoSignal
    BY DEF NothingHeard
  <2>1. k # s.key /\ \A o \in heard : o.key # k
    BY <1>3
  <2>2. QED
    BY <1>5, <2>1 DEF NothingHeard
<1>8. LastByTimeWins'
  <2> SUFFICES ASSUME NEW k \in SignalKeys, {o \in heard' : o.key = k} # {}
               PROVE  \E t \in {o \in heard' : o.key = k} :
                        /\ signal'[k] = [on |-> t.on, at |-> t.at]
                        /\ \A o \in {x \in heard' : x.key = k} : o.at <= t.at
    BY DEF LastByTimeWins, HeardOf
  <2>1. ASSUME NEW t \in heard, t.key = k, signal'[k] = [on |-> t.on, at |-> t.at],
               \A o \in heard' : o.key = k => o.at <= t.at
        PROVE  \E x \in {o \in heard' : o.key = k} :
                 /\ signal'[k] = [on |-> x.on, at |-> x.at]
                 /\ \A o \in {y \in heard' : y.key = k} : o.at <= x.at
    BY <1>3, <2>1
  <2>2. \A o \in heard : o.at \in Nat
    BY DEF SignalTypes, DeliveredRecord
  <2>3. CASE k # s.key
    <3>1. {o \in heard' : o.key = k} = {o \in heard : o.key = k}
      BY <1>3, <2>3
    <3>2. PICK t \in {o \in heard : o.key = k} :
            /\ signal[k] = [on |-> t.on, at |-> t.at]
            /\ \A o \in {x \in heard : x.key = k} : o.at <= t.at
      BY <3>1 DEF LastByTimeWins, HeardOf
    <3>3. signal'[k] = signal[k]
      BY <1>5, <2>3
    <3>4. QED
      BY <3>1, <3>2, <3>3
  <2>4. CASE k = s.key /\ s.at >= old.at
    <3>1. signal'[k] = [on |-> s.on, at |-> s.at]
      BY <1>5, <2>4 DEF new
    <3>2. ASSUME NEW o \in heard, o.key = k PROVE o.at <= s.at
      <4>1. PICK t \in {x \in heard : x.key = k} :
              /\ signal[k] = [on |-> t.on, at |-> t.at]
              /\ \A x \in {y \in heard : y.key = k} : x.at <= t.at
        BY <3>2 DEF LastByTimeWins, HeardOf
      <4>2. old.at = t.at
        BY <2>4, <4>1
      <4>3. o.at <= t.at
        BY <3>2, <4>1
      <4>4. QED
        BY <1>1, <1>2, <2>2, <2>4, <4>2, <4>3
    <3>3. s \in {o \in heard' : o.key = k} /\ \A o \in {x \in heard' : x.key = k} : o.at <= s.at
      BY <1>1, <1>3, <2>4, <3>2
    <3>4. QED
      BY <3>1, <3>3
  <2>5. CASE k = s.key /\ ~ (s.at >= old.at)
    <3>1. \E o \in heard : o.key = k
      <4>1. SUFFICES ASSUME \A o \in heard : o.key # k PROVE FALSE
        OBVIOUS
      <4>2. old = NoSignal
        BY <2>5, <4>1 DEF NothingHeard
      <4>3. QED
        BY <1>1, <2>5, <4>2 DEF NoSignal
    <3>2. PICK t \in {x \in heard : x.key = k} :
            /\ signal[k] = [on |-> t.on, at |-> t.at]
            /\ \A x \in {y \in heard : y.key = k} : x.at <= t.at
      BY <3>1 DEF LastByTimeWins, HeardOf
    <3>3. signal'[k] = signal[k] /\ old.at = t.at
      BY <1>5, <2>5, <3>2 DEF new
    <3>4. \A o \in heard' : o.key = k => o.at <= t.at
      BY <1>1, <1>2, <1>3, <2>5, <3>2, <3>3
    <3>5. QED
      BY <2>1, <3>2, <3>3, <3>4
  <2>6. QED
    BY <2>3, <2>4, <2>5
<1>9. QED
  BY <1>6, <1>7, <1>8

\* What of an item was delivered stays published.
LEMMA PublishedStays ==
  ASSUME LibraryTypes, LibraryNext, HeardPublished, heard' = heard
  PROVE  HeardPublished'
<1>1. libraryEvents \in Seq(LibraryEventRecord)
  BY DEF LibraryTypes
<1>2. libraryEvents' = libraryEvents \/ \E q : libraryEvents' = Append(libraryEvents, q)
  BY DEF LibraryNext, Save, Unsave, CatalogExists, SaveItem, SaveReadExisting, RemoveItem, CommitLibrary,
         LibraryTxFails, LibraryAnswered, ItemsUnchanged
<1>3. \A i \in 1..Len(libraryEvents) : i \in 1..Len(libraryEvents') /\ libraryEvents'[i] = libraryEvents[i]
  <2>1. CASE libraryEvents' = libraryEvents
    BY <2>1
  <2>2. ASSUME NEW q, libraryEvents' = Append(libraryEvents, q)
        PROVE  \A i \in 1..Len(libraryEvents) : i \in 1..Len(libraryEvents') /\ libraryEvents'[i] = libraryEvents[i]
    BY <1>1, <2>2
  <2>3. QED
    BY <1>2, <2>1, <2>2
<1>4. QED
  BY <1>3 DEF HeardPublished, LikeOf

\* Every step of the library and every delivery keep the invariant.
LEMMA SignalsInvNext == SignalsInv /\ [LikesNext \/ OthersNext]_<<libraryVars, signalVars>> => SignalsInv'
<1> SUFFICES ASSUME SignalsInv, [LikesNext \/ OthersNext]_<<libraryVars, signalVars>> PROVE SignalsInv'
  OBVIOUS
<1>1. ASSUME UNCHANGED signalVars PROVE SignalTypes' /\ NothingHeard' /\ LastByTimeWins'
  <2>1. signal' = signal /\ heard' = heard
    BY <1>1 DEF signalVars
  <2>2. SignalTypes /\ NothingHeard /\ LastByTimeWins
    BY DEF SignalsInv
  <2>3. QED
    BY <2>1, <2>2 DEF SignalTypes, NothingHeard, LastByTimeWins, HeardOf
<1>2. ASSUME UNCHANGED libraryVars PROVE LibraryInv' /\ libraryEvents' = libraryEvents
  <2>1. saved' = saved /\ libraryEvents' = libraryEvents /\ libraryReq' = libraryReq /\ saveClock' = saveClock
    BY <1>2 DEF libraryVars
  <2>2. \A r \in LibraryReqs : LibraryKnows(libraryReq[r])'
    BY <2>1 DEF SignalsInv, LibraryInv, LibraryKnows
  <2>3. LibraryTypes' /\ OneSaver'
    BY <2>1 DEF SignalsInv, LibraryInv, LibraryTypes, OneSaver
  <2>4. EventsReplayLibrary'
    <3>1. EventsReplayLibrary
      BY DEF SignalsInv, LibraryInv
    <3>2. \A x : ItemEvents(x)' = ItemEvents(x)
      BY <2>1 DEF ItemEvents
    <3>3. QED
      BY <2>1, <3>1, <3>2 DEF EventsReplayLibrary, Adjacent
  <2>5. QED
    BY <2>1, <2>2, <2>3, <2>4 DEF LibraryInv
<1>3. ASSUME NEW s \in DeliveredRecord, HandleSignal(s), UNCHANGED libraryVars,
             s.key \in LikedItems => \E i \in 1..Len(libraryEvents) : s = LikeOf(libraryEvents[i])
      PROVE  SignalsInv'
  <2>1. SignalTypes' /\ NothingHeard' /\ LastByTimeWins'
    BY <1>3, HandleKeepsNewest DEF SignalsInv
  <2>2. heard' = heard \cup {s}
    BY <1>3 DEF HandleSignal
  <2>3. HeardPublished'
    BY <1>2, <1>3, <2>2 DEF SignalsInv, HeardPublished, LikeOf
  <2>4. QED
    BY <1>2, <1>3, <2>1, <2>3 DEF SignalsInv
<1>4. CASE LibraryNext /\ UNCHANGED signalVars
  BY <1>1, <1>4, LibraryKeeps, PublishedStays DEF SignalsInv, LibraryInv, signalVars
<1>5. ASSUME NEW i \in 1..Len(libraryEvents), HandleSignal(LikeOf(libraryEvents[i])), UNCHANGED libraryVars
      PROVE  SignalsInv'
  <2>1. libraryEvents[i] \in LibraryEventRecord
    BY DEF SignalsInv, LibraryInv, LibraryTypes
  <2>2. LikeOf(libraryEvents[i]) \in DeliveredRecord
    BY <2>1, LibraryAssumption DEF LikeOf, DeliveredRecord, LibraryEventRecord, SignalKeys, SaveTimes
  <2>3. QED
    BY <1>3, <1>5, <2>2
<1>6. ASSUME NEW e \in OtherSignals, HandleSignal(OtherOf(e)), UNCHANGED libraryVars PROVE SignalsInv'
  <2>1. OtherOf(e) \in DeliveredRecord /\ OtherOf(e).key \in {<<"artist">>, <<"features">>}
    BY SignalsAssumption DEF OtherOf, FollowOf, FeaturesOf, DeliveredRecord, SignalKeys
  <2>2. \A x \in LikedItems : x[1] \in {"track", "album"}
    BY LibraryAssumption
  <2>3. OtherOf(e).key \notin LikedItems
    <3>1. OtherOf(e).key[1] \in {"artist", "features"}
      BY <2>1
    <3>2. QED
      BY <2>2, <3>1
  <2>4. QED
    BY <1>3, <1>6, <2>1, <2>3
<1>7. CASE UNCHANGED <<libraryVars, signalVars>>
  <2>1. UNCHANGED libraryVars /\ UNCHANGED signalVars
    BY <1>7
  <2>2. heard' = heard
    BY <2>1 DEF signalVars
  <2>3. HeardPublished'
    BY <1>2, <2>1, <2>2 DEF SignalsInv, HeardPublished, LikeOf
  <2>4. QED
    BY <1>1, <1>2, <2>1, <2>3 DEF SignalsInv
<1>8. QED
  BY <1>4, <1>5, <1>6, <1>7 DEF LikesNext, OthersNext

\* The initial state satisfies the invariant.
LEMMA SignalsInvInit == LibraryInit /\ SignalsInit => SignalsInv
<1> SUFFICES ASSUME LibraryInit, SignalsInit PROVE SignalsInv
  OBVIOUS
<1>1. heard = {} /\ signal = [k \in SignalKeys |-> NoSignal] /\ NoSignal \in SignalRecord
  BY DEF SignalsInit, NoSignal, SignalRecord
<1>2. SignalTypes /\ NothingHeard /\ HeardPublished /\ LastByTimeWins
  BY <1>1 DEF SignalTypes, NothingHeard, HeardPublished, LastByTimeWins, HeardOf
<1>3. QED
  BY <1>2, LibraryInvInit DEF SignalsInv

-----------------------------------------------------------------------------
(* The lists of the library *)

\* (savedAt, entity) orders the rows of a list.
LEMMA BeforeOrders ==
  ASSUME NEW rows, \A x \in rows : x[1] \in Int /\ x[2] \in Int /\ x = <<x[1], x[2]>>
  PROVE  TotalOrder({p \in rows \X rows : Before(p[1], p[2])}, rows)
<1> DEFINE R == {p \in rows \X rows : Before(p[1], p[2])}
<1>1. ASSUME NEW a \in rows, NEW b \in rows PROVE <<a, b>> \in R <=> Before(a, b)
  OBVIOUS
<1> HIDE DEF R
<1>2. \A a \in rows : <<a, a>> \notin R
  BY <1>1 DEF Before
<1>3. ASSUME NEW a \in rows, NEW b \in rows, a # b PROVE <<a, b>> \in R \/ <<b, a>> \in R
  BY <1>1, <1>3 DEF Before
<1>4. ASSUME NEW a \in rows, NEW b \in rows, NEW c \in rows, <<a, b>> \in R, <<b, c>> \in R PROVE <<a, c>> \in R
  BY <1>1, <1>4 DEF Before
<1>5. QED
  BY <1>2, <1>3, <1>4 DEF TotalOrder, R

\* A list has a row for each item saved.
LEMMA RowsOfKind ==
  ASSUME LibraryTypes, NEW kind
  PROVE  /\ IsFiniteSet(SavedRows(kind)) /\ <<>> \notin SavedRows(kind)
         /\ \A x \in SavedRows(kind) : x[1] \in Int /\ x[2] \in Int /\ x = <<x[1], x[2]>>
         /\ Cardinality(SavedRows(kind)) = Cardinality(ItemsOf(kind))
         /\ Cardinality(LikedItems) \in Nat /\ Cardinality(SavedRows(kind)) <= Cardinality(LikedItems)
         /\ {row[2] : row \in SavedRows(kind)} = SavedAmong(kind, {x[2] : x \in LikedItems})
<1> USE LibraryAssumption
<1> DEFINE row == [x \in ItemsOf(kind) |-> <<saved[x], x[2]>>]
<1>1. /\ ItemsOf(kind) \subseteq LikedItems /\ IsFiniteSet(ItemsOf(kind))
      /\ Cardinality(ItemsOf(kind)) <= Cardinality(LikedItems) /\ Cardinality(LikedItems) \in Nat
  BY FS_Subset, FS_CardinalityType DEF ItemsOf
<1>2. ASSUME NEW x \in ItemsOf(kind) PROVE x[1] = kind /\ x[2] \in Nat /\ x = <<x[1], x[2]>> /\ saved[x] \in Nat
  BY <1>1 DEF ItemsOf, LibraryTypes, SaveTimes
<1>3. row \in Bijection(ItemsOf(kind), SavedRows(kind))
  <2>1. row \in [ItemsOf(kind) -> SavedRows(kind)]
    BY DEF SavedRows
  <2>2. \A x, y \in ItemsOf(kind) : row[x] = row[y] => x = y
    BY <1>2
  <2>3. \A s \in SavedRows(kind) : \E x \in ItemsOf(kind) : row[x] = s
    BY DEF SavedRows
  <2>4. QED
    BY <2>1, <2>2, <2>3, Zenon DEF Bijection, Injection, IsInjective, Surjection
<1>4. IsFiniteSet(SavedRows(kind)) /\ Cardinality(SavedRows(kind)) = Cardinality(ItemsOf(kind))
  <2>1. ExistsBijection(ItemsOf(kind), SavedRows(kind))
    BY <1>3, Zenon DEF ExistsBijection
  <2>2. QED
    BY <1>1, <2>1, FS_Bijection
<1>5. ASSUME NEW s \in SavedRows(kind) PROVE s[1] \in Int /\ s[2] \in Int /\ s = <<s[1], s[2]>> /\ s # <<>>
  BY <1>2 DEF SavedRows
<1>6. {s[2] : s \in SavedRows(kind)} = {x[2] : x \in ItemsOf(kind)}
  <2>1. ASSUME NEW s \in SavedRows(kind) PROVE \E x \in ItemsOf(kind) : s[2] = x[2]
    BY DEF SavedRows
  <2>2. ASSUME NEW x \in ItemsOf(kind) PROVE \E s \in SavedRows(kind) : s[2] = x[2]
    <3>1. <<saved[x], x[2]>> \in SavedRows(kind)
      BY Zenon DEF SavedRows
    <3>2. <<saved[x], x[2]>>[2] = x[2]
      OBVIOUS
    <3>3. QED
      BY <3>1, <3>2, Zenon
  <2>3. PICK L, R : L = {s[2] : s \in SavedRows(kind)} /\ R = {x[2] : x \in ItemsOf(kind)}
    OBVIOUS
  <2>4. ASSUME NEW y \in L PROVE y \in R
    <3>1. PICK s \in SavedRows(kind) : y = s[2]
      BY <2>3, Zenon
    <3>2. PICK x \in ItemsOf(kind) : s[2] = x[2]
      BY <2>1, Zenon
    <3>3. QED
      BY <2>3, <3>1, <3>2, Zenon
  <2>5. ASSUME NEW y \in R PROVE y \in L
    <3>1. PICK x \in ItemsOf(kind) : y = x[2]
      BY <2>3, Zenon
    <3>2. PICK s \in SavedRows(kind) : s[2] = x[2]
      BY <2>2, Zenon
    <3>3. QED
      BY <2>3, <3>1, <3>2, Zenon
  <2>6. L = R
    BY <2>4, <2>5, Zenon
  <2>7. QED
    BY <2>3, <2>6, Zenon
<1>7. {x[2] : x \in ItemsOf(kind)} \subseteq {x[2] : x \in LikedItems}
  BY <1>1
<1>8. QED
  BY <1>1, <1>4, <1>5, <1>6, <1>7 DEF SavedAmong

\* One page of a list.
LEMMA PageOfKind ==
  ASSUME LibraryTypes, NEW kind, NEW S, S = SavedRows(kind), NEW R, R = {p \in S \X S : Before(p[1], p[2])},
         NEW after \in S \cup {<<>>}
  PROVE  IsPage(ListPage(kind, after, 1), Rest(S, R, after), R)
<1>1. PICK rest : rest = {x \in S : after = <<>> \/ Before(after, x)}
  OBVIOUS
<1>2. PICK Q : Q = {p \in rest \X rest : Before(p[1], p[2])}
  OBVIOUS
<1>3. rest = Rest(S, R, after)
  BY <1>1 DEF Rest
<1>4. /\ IsFiniteSet(S) /\ <<>> \notin S
      /\ \A x \in S : x[1] \in Int /\ x[2] \in Int /\ x = <<x[1], x[2]>>
  BY RowsOfKind
<1>5. rest \subseteq S /\ IsFiniteSet(rest) /\ <<>> \notin rest
  BY <1>1, <1>4, FS_Subset
<1>6. TotalOrder(Q, rest)
  BY <1>2, <1>4, <1>5, BeforeOrders
<1>7. ListPage(kind, after, 1) = NextPage(FirstRows(rest, Q, 1 + 1), 1)
  BY <1>1, <1>2 DEF ListPage, ListItems
<1>8. IsPage(ListPage(kind, after, 1), rest, Q)
  BY <1>5, <1>6, <1>7, PageOfRows
<1>9. Q \subseteq R
  BY <1>2, <1>5
<1>10. QED
  BY <1>3, <1>8, <1>9 DEF IsPage

\* Every list is enumerated.
LEMMA ListIsEnumerated ==
  ASSUME LibraryTypes, NEW kind, NEW rows, rows = Walk(ListPages(kind), Cardinality(LikedItems))
  PROVE  /\ {row[2] : row \in Range(rows)} = SavedAmong(kind, {x[2] : x \in LikedItems})
         /\ Len(rows) = Cardinality(ItemsOf(kind))
<1>1. PICK S : S = SavedRows(kind)
  OBVIOUS
<1>2. PICK R : R = {p \in S \X S : Before(p[1], p[2])}
  OBVIOUS
<1>3. PICK page : page = ListPages(kind)
  OBVIOUS
<1>4. PICK n : n = Cardinality(LikedItems)
  OBVIOUS
<1>5. /\ IsFiniteSet(S) /\ <<>> \notin S /\ n \in Nat /\ Cardinality(S) <= n
      /\ \A x \in S : x[1] \in Int /\ x[2] \in Int /\ x = <<x[1], x[2]>>
  BY <1>1, <1>4, RowsOfKind
<1>6. TotalOrder(R, S)
  BY <1>2, <1>5, BeforeOrders
<1>7. ASSUME NEW a \in S \cup {<<>>} PROVE IsPage(page[a], Rest(S, R, a), R)
  <2>1. page[a] = ListPage(kind, a, 1)
    BY <1>1, <1>3 DEF ListPages
  <2>2. QED
    BY <1>1, <1>2, <2>1, PageOfKind
<1>8. rows = Walk(page, n)
  BY <1>3, <1>4
<1>9. Range(rows) = S /\ Len(rows) = Cardinality(S)
  BY <1>5, <1>6, <1>7, <1>8, WalkEnumerates
<1>10. QED
  BY <1>1, <1>9, RowsOfKind

\* The library, for any number of items and overlapping requests: its events,
\* replayed, are the rows, and the pages of a list give each item once.
THEOREM LibraryIsFollowed == SignalsSpec => []LibraryFollowed
<1>1. ASSUME SignalsInv PROVE PagesEnumerate
  <2>1. LibraryTypes
    BY <1>1 DEF SignalsInv, LibraryInv
  <2>2. ASSUME NEW kind \in {"track", "album"} 
        PROVE  LET rows == Walk(ListPages(kind), Cardinality(LikedItems)) IN
                 /\ {row[2] : row \in Range(rows)} = SavedAmong(kind, {x[2] : x \in LikedItems})
                 /\ Len(rows) = IF kind = "track" THEN LibraryCounts.tracks ELSE LibraryCounts.albums
    <3>1. PICK rows : rows = Walk(ListPages(kind), Cardinality(LikedItems))
      OBVIOUS
    <3>2. /\ {row[2] : row \in Range(rows)} = SavedAmong(kind, {x[2] : x \in LikedItems})
          /\ Len(rows) = Cardinality(ItemsOf(kind))
      BY <2>1, <3>1, ListIsEnumerated
    <3>3. Cardinality(ItemsOf(kind)) = IF kind = "track" THEN LibraryCounts.tracks ELSE LibraryCounts.albums
      BY <2>2 DEF LibraryCounts
    <3>4. QED
      BY <3>1, <3>2, <3>3
  <2>3. QED
    BY <2>2 DEF PagesEnumerate
<1>2. SignalsInv => LibraryFollowed
  <2>1. SignalsInv => EventsReplayLibrary
    BY DEF SignalsInv, LibraryInv
  <2>2. QED
    BY <1>1, <2>1 DEF LibraryFollowed
<1>3. QED
  BY SignalsInvInit, SignalsInvNext, <1>2, PTL DEF SignalsSpec

\* The recommendation worker's signals, in whatever order and however often the
\* events are delivered: the newest delivered one is stored, and the likes are
\* the library once its events were delivered and their times follow the commits.
THEOREM TasteFollowsEvents == SignalsSpec => []TasteFollows
<1>1. SignalsInv => TasteFollows
  <2> SUFFICES ASSUME SignalsInv PROVE LikesMatchLibrary
    BY DEF SignalsInv, TasteFollows
  <2> SUFFICES ASSUME NEW x \in LikedItems, InOrder(x) PROVE signal[x].on = (saved[x] # 0)
    BY DEF LikesMatchLibrary
  <2> DEFINE of == ItemEvents(x)
             E(i) == libraryEvents[i]
  <2>1. /\ \A i \in of : i \in Nat /\ E(i) \in LibraryEventRecord /\ E(i).item = x
        /\ Len(libraryEvents) \in Nat /\ of \subseteq 1..Len(libraryEvents)
    BY DEF SignalsInv, LibraryInv, LibraryTypes, ItemEvents
  <2>2. /\ of = {} => saved[x] = 0
        /\ \A i \in of : (\A j \in of : j <= i) => saved[x] = IF E(i).on THEN E(i).at ELSE 0
    BY DEF SignalsInv, LibraryInv, EventsReplayLibrary
  <2>3. ASSUME NEW s \in heard, s.key = x PROVE \E i \in of : s = LikeOf(E(i))
    BY <2>3 DEF SignalsInv, HeardPublished, LikeOf, ItemEvents
  <2>4. x \in SignalKeys
    BY DEF SignalKeys
  <2>5. CASE of = {}
    <3>1. signal[x] = NoSignal
      BY <2>3, <2>4, <2>5 DEF SignalsInv, NothingHeard
    <3>2. signal[x].on = FALSE
      BY <3>1 DEF NoSignal
    <3>3. QED
      BY <2>2, <2>5, <3>2
  <2>6. CASE of # {}
    <3>1. PICK l \in of : \A j \in of : j <= l
      BY <2>1, <2>6, LastExists
    <3>2. LikeOf(E(l)) \in heard /\ LikeOf(E(l)).key = x /\ LikeOf(E(l)).at = E(l).at
      BY <2>1 DEF InOrder, LikeOf
    <3>3. PICK s \in HeardOf(x) : /\ signal[x] = [on |-> s.on, at |-> s.at]
                                  /\ \A o \in HeardOf(x) : o.at <= s.at
      BY <2>4, <3>2 DEF SignalsInv, LastByTimeWins, HeardOf
    <3>4. PICK i \in of : s = LikeOf(E(i))
      BY <2>3, <3>3 DEF HeardOf
    <3>5. E(l).at <= E(i).at /\ s.on = E(i).on
      BY <3>2, <3>3, <3>4 DEF HeardOf, LikeOf
    <3>6. E(i).at \in Nat /\ E(l).at \in Nat /\ E(l).at # 0 /\ E(l).on \in BOOLEAN
      BY <2>1, LibraryAssumption DEF LibraryEventRecord, SaveTimes
    <3>7. i = l
      <4>1. i < l => E(i).at < E(l).at
        BY DEF InOrder
      <4>2. QED
        BY <2>1, <3>1, <3>5, <3>6, <4>1
    <3>8. saved[x] = IF E(l).on THEN E(l).at ELSE 0
      BY <2>2, <3>1
    <3>9. signal[x].on = E(l).on
      BY <3>3, <3>5, <3>7
    <3>10. QED
      BY <3>6, <3>8, <3>9
  <2>7. QED
    BY <2>5, <2>6
<1>2. QED
  BY SignalsInvInit, SignalsInvNext, <1>1, PTL DEF SignalsSpec

-----------------------------------------------------------------------------
(* Playlists *)

\* Of finitely many songs one has the largest position.
LEMMA LargestExists ==
  ASSUME NEW f \in [Songs -> Nat], NEW S, S \subseteq Songs, S # {}
  PROVE  \E t \in S : \A u \in S : f[u] <= f[t]
<1> DEFINE Has(T) == \E t \in T : \A u \in T : f[u] <= f[t]
           Bad == {n \in Nat : \E T \in SUBSET Songs : Cardinality(T) = n /\ T # {} /\ ~Has(T)}
<1>1. \A T \in SUBSET Songs : IsFiniteSet(T) /\ Cardinality(T) \in Nat
  BY PlaylistAssumption, FS_Subset, FS_CardinalityType
<1>2. Bad = {}
  <2> SUFFICES ASSUME Bad # {} PROVE FALSE
    OBVIOUS
  <2>1. Bad \subseteq Nat
    OBVIOUS
  <2> HIDE DEF Bad
  <2>2. PICK n \in Bad : \A m \in Bad : ~ (<<m, n>> \in NatLess)
    BY <2>1, NatLessWellFounded, WFMin, Zenon
  <2> USE DEF Bad
  <2>3. PICK T \in SUBSET Songs : Cardinality(T) = n /\ T # {} /\ ~Has(T)
    BY <2>2
  <2>4. PICK x \in T : TRUE
    BY <2>3
  <2> DEFINE U == T \ {x}
  <2>5. U \in SUBSET Songs /\ Cardinality(U) = n - 1 /\ Cardinality(U) \in Nat
    BY <1>1, <2>3, <2>4, FS_RemoveElement
  <2> HIDE DEF U
  <2>6. <<n - 1, n>> \in NatLess
    BY <2>1, <2>2, <2>5 DEF NatLess
  <2>7. n - 1 \notin Bad
    BY <2>2, <2>6
  <2>8. U = {} \/ Has(U)
    <3> HIDE DEF Has
    <3>1. QED
      BY <2>5, <2>7
  <2>9. CASE U = {}
    <3>1. T = {x}
      BY <2>4, <2>9 DEF U
    <3>2. QED
      BY <2>3, <3>1
  <2>10. CASE Has(U)
    <3>1. PICK t \in U : \A u \in U : f[u] <= f[t]
      BY <2>10
    <3>2. f[t] \in Nat /\ f[x] \in Nat /\ t \in T /\ T = U \cup {x} /\ \A u \in T : f[u] \in Nat
      BY <2>3, <2>4, <2>5, <3>1 DEF U
    <3>3. CASE f[x] <= f[t]
      <4>1. \A u \in T : f[u] <= f[t]
        BY <3>1, <3>2, <3>3
      <4>2. QED
        BY <2>3, <3>2, <4>1
    <3>4. CASE f[t] < f[x]
      <4>1. \A u \in T : f[u] <= f[x]
        BY <3>1, <3>2, <3>4
      <4>2. QED
        BY <2>3, <2>4, <4>1
    <3>5. QED
      BY <3>2, <3>3, <3>4
  <2>11. QED
    BY <2>8, <2>9, <2>10
<1>3. QED
  <2> HIDE DEF Has
  <2>1. Has(S)
    BY <1>1, <1>2
  <2>2. QED
    BY <2>1 DEF Has

\* A track is appended behind all that are listed.
LEMMA AppendedIsLast ==
  ASSUME NEW p, p.pos \in [Songs -> Nat]
  PROVE  NextPosition(p) \in Nat /\ NextPosition(p) # 0 /\ \A t \in Songs : p.pos[t] < NextPosition(p)
<1> DEFINE P == {p.pos[t] : t \in Songs} \cup {0}
<1>1. P \subseteq Nat
  OBVIOUS
<1>2. \E x \in P : \A y \in P : x >= y
  <2>1. CASE Songs = {}
    BY <2>1
  <2>2. CASE Songs # {}
    <3>1. PICK t \in Songs : \A u \in Songs : p.pos[u] <= p.pos[t]
      BY <2>2, LargestExists
    <3>2. p.pos[t] \in Nat /\ \A u \in Songs : p.pos[u] \in Nat
      OBVIOUS
    <3>3. p.pos[t] \in P /\ \A y \in P : p.pos[t] >= y
      BY <3>1, <3>2
    <3>4. QED
      BY <3>3
  <2>3. QED
    BY <2>1, <2>2
<1>3. \A t \in Songs : p.pos[t] \in P
  OBVIOUS
<1> DEFINE m == Max(P)
<1>4. NextPosition(p) = m + 1
  BY DEF NextPosition
<1> HIDE DEF P
<1>5. m \in P /\ \A y \in P : m >= y
  BY <1>2 DEF Max
<1> HIDE DEF m
<1>6. m \in Nat /\ \A t \in Songs : p.pos[t] \in Nat /\ p.pos[t] <= m
  BY <1>1, <1>3, <1>5
<1>7. QED
  BY <1>4, <1>6

\* Positions no two songs share.
Distinct(p) == \A s, t \in Songs : s # t /\ p.pos[s] # 0 => p.pos[s] # p.pos[t]

\* An order that CheckOrder accepts names every listed song, each once.
LEMMA OrderIsComplete ==
  ASSUME NEW p, NEW order \in Orders, CheckOrder(p, order)
  PROVE  \A t \in Listed(p) : \E i \in 1..Len(order) : order[i] = t
<1>1. PICK n \in Nat : order \in [1..n -> Songs]
  <2>1. PICK n \in 0..Cardinality(Songs) : order \in [1..n -> Songs]
    BY DEF Orders
  <2>2. QED
    BY <2>1
<1>2. Len(order) = n /\ DOMAIN order = 1..n
  BY <1>1
<1>3. IsFiniteSet(Listed(p))
  BY PlaylistAssumption, FS_Subset DEF Listed
<1>4. n = Cardinality(Listed(p)) /\ IsInjective(order) /\ \A i \in 1..n : order[i] \in Listed(p)
  BY <1>2 DEF CheckOrder, Range
<1>5. order \in Injection(1..n, Listed(p))
  BY <1>1, <1>4 DEF Injection
<1>6. Cardinality(1..n) = n
  BY FS_Interval
<1>7. order \in Surjection(1..n, Listed(p))
  BY <1>3, <1>4, <1>5, <1>6, FS_Injection
<1>8. QED
  BY <1>2, <1>7 DEF Surjection

Positions == [Songs -> Nat]
Flags == BOOLEAN
RowTitles == Titles \cup {""}
Stamps == 0..LastStamp
RowRecord == [exists : Flags, title : RowTitles, pos : Positions, updated : Stamps]

\* Each statement changes the row it was given and keeps positions apart.
LEMMA StatementsKeepDistinct ==
  ASSUME NEW p \in RowRecord, Distinct(p), NEW q, q.at \in Stamps, NEW new,
         \/ q.arg \in Titles /\ new = UpdateTitle(p, q)
         \/ q.arg \in Songs /\ new = AppendTrack(p, q)
         \/ q.arg \in Songs /\ new = DropTrack(p, q)
         \/ q.arg \in Orders /\ CheckOrder(p, q.arg) /\ new = SetPositions(p, q)
  PROVE  new \in RowRecord /\ new.exists = p.exists /\ Distinct(new)
<1>1. p.pos \in Positions /\ p.pos \in [Songs -> Nat]
  BY DEF RowRecord, Positions
<1>2. ASSUME NEW f \in [Songs -> Nat], new = [p EXCEPT !.pos = f, !.updated = q.at],
             \A s, t \in Songs : s # t /\ f[s] # 0 => f[s] # f[t]
      PROVE  new \in RowRecord /\ new.exists = p.exists /\ Distinct(new)
  <2>1. f \in Positions
    BY DEF Positions
  <2>2. new \in RowRecord /\ new.exists = p.exists /\ new.pos = f
    BY <1>2, <2>1 DEF RowRecord
  <2>3. QED
    BY <1>2, <2>2 DEF Distinct
<1>3. CASE q.arg \in Titles /\ new = UpdateTitle(p, q)
  <2>1. new = [p EXCEPT !.title = q.arg, !.updated = q.at] /\ q.arg \in RowTitles
    BY <1>3 DEF UpdateTitle, RowTitles
  <2>2. new \in RowRecord /\ new.exists = p.exists /\ new.pos = p.pos
    BY <2>1 DEF RowRecord
  <2>3. QED
    BY <2>2 DEF Distinct
<1>4. CASE q.arg \in Songs /\ new = AppendTrack(p, q)
  <2> DEFINE n == NextPosition(p)
             f == [p.pos EXCEPT ![q.arg] = n]
  <2>1. new = [p EXCEPT !.pos = f, !.updated = q.at]
    BY <1>4 DEF AppendTrack, RowRecord
  <2>2. n \in Nat /\ n # 0 /\ \A t \in Songs : p.pos[t] < n
    BY <1>1, AppendedIsLast
  <2> HIDE DEF n
  <2>3. f \in [Songs -> Nat] /\ f[q.arg] = n /\ \A t \in Songs \ {q.arg} : f[t] = p.pos[t]
    BY <1>1, <1>4, <2>2
  <2> HIDE DEF f
  <2>4. \A s, t \in Songs : s # t /\ f[s] # 0 => f[s] # f[t]
    BY <1>1, <2>2, <2>3 DEF Distinct
  <2>5. QED
    BY <1>2, <2>1, <2>3, <2>4
<1>5. CASE q.arg \in Songs /\ new = DropTrack(p, q)
  <2> DEFINE f == [p.pos EXCEPT ![q.arg] = 0]
  <2>1. new = [p EXCEPT !.pos = f, !.updated = q.at]
    BY <1>5 DEF DropTrack, RowRecord
  <2>2. f \in [Songs -> Nat] /\ f[q.arg] = 0 /\ \A t \in Songs \ {q.arg} : f[t] = p.pos[t]
    BY <1>1, <1>5
  <2> HIDE DEF f
  <2>3. \A s, t \in Songs : s # t /\ f[s] # 0 => f[s] # f[t]
    BY <1>1, <2>2 DEF Distinct
  <2>4. QED
    BY <1>2, <2>1, <2>2, <2>3
<1>6. CASE q.arg \in Orders /\ CheckOrder(p, q.arg) /\ new = SetPositions(p, q)
  <2> DEFINE In(t) == \E i \in 1..Len(q.arg) : q.arg[i] = t
             At(t) == CHOOSE i \in 1..Len(q.arg) : q.arg[i] = t
             f == [t \in Songs |-> IF In(t) THEN At(t) ELSE p.pos[t]]
  <2>1. new = [p EXCEPT !.pos = f, !.updated = q.at]
    BY <1>6 DEF SetPositions, RowRecord
  <2>2. \A t : In(t) => At(t) \in 1..Len(q.arg) /\ q.arg[At(t)] = t
    OBVIOUS
  <2>3. \A t \in Songs : p.pos[t] # 0 => In(t)
    BY <1>6, OrderIsComplete DEF Listed
  <2>4. Len(q.arg) \in Nat
    <3>1. PICK n \in 0..Cardinality(Songs) : q.arg \in [1..n -> Songs]
      BY <1>6 DEF Orders
    <3>2. QED
      BY <3>1
  <2> HIDE DEF In, At
  <2>5. \A t \in Songs : /\ In(t) => f[t] = At(t) /\ f[t] \in Nat /\ f[t] # 0
                         /\ ~In(t) => f[t] = 0
    BY <1>1, <2>2, <2>3, <2>4
  <2>6. f \in [Songs -> Nat]
    BY <1>1, <2>2, <2>4
  <2> HIDE DEF f
  <2>7. \A s, t \in Songs : s # t /\ f[s] # 0 => f[s] # f[t]
    BY <2>2, <2>5
  <2>8. QED
    BY <1>2, <2>1, <2>6, <2>7
<1>7. QED
  BY <1>3, <1>4, <1>5, <1>6

PlaylistPcs == {"idle", "catalog", "begin", "locked", "commit", "answer"}
PlaylistOps == {"none", "rename", "delete", "add", "remove", "reorder"}
PlaylistStatuses == {0, 200, 201, 204, 403, 404, 409, 422, 503}
PlaylistArgs == Titles \cup Songs \cup Orders \cup {<<>>}
PlaylistReqRecord == [pc : PlaylistPcs, op : PlaylistOps, arg : PlaylistArgs, at : Stamps, new : RowRecord,
                      status : PlaylistStatuses]
EventTypes == {"created", "updated", "deleted", "track_added", "track_removed", "tracks_reordered"}
EventArgs == PlaylistArgs \cup (Songs \X Nat)
PlaylistEventRecord == [type : EventTypes, arg : EventArgs, at : Stamps]

PlaylistTypes ==
  /\ playlist \in RowRecord
  /\ playlistEvents \in Seq(PlaylistEventRecord)
  /\ playlistReq \in [PlaylistReqs -> PlaylistReqRecord]
  /\ stamp \in Stamps

Open(q) == q.pc \in {"catalog", "begin", "locked", "commit"}
Locks(q) == q.pc \in {"locked", "commit"}

\* A request's argument is what its operation takes; what it is about to
\* commit has positions apart, or is the missing row.
ReqFits(q) ==
  /\ Open(q) => /\ q.op # "none"
                /\ q.op = "rename" => q.arg \in Titles
                /\ q.op \in {"add", "remove"} => q.arg \in Songs
                /\ q.op = "reorder" => q.arg \in Orders
  /\ Open(q) /\ (q.pc # "commit" \/ q.op = "delete") => q.new = Missing
  /\ q.pc = "commit" /\ q.op # "delete" => q.new.exists /\ Distinct(q.new)

\* A request with the row's lock has a playlist to change, and a deletion has
\* read the clock after every change that was committed.
ReqHolds(q) ==
  /\ q.at < stamp
  /\ Locks(q) => playlist.exists
  /\ q.pc = "commit" /\ q.op = "delete" => \A i \in 1..Len(playlistEvents) : playlistEvents[i].at < q.at

OneLock == \A r, o \in PlaylistReqs : Locks(playlistReq[r]) /\ Locks(playlistReq[o]) => r = o

\* After a deletion nothing is committed, and its event is the newest.
DeletedIsLast ==
  LET n == Len(playlistEvents) IN
  ~playlist.exists /\ n # 0 =>
    playlistEvents[n].type = "deleted" /\ \A i \in 1..n : i # n => playlistEvents[i].at < playlistEvents[n].at

PlaylistInv ==
  /\ PlaylistTypes
  /\ \A r \in PlaylistReqs : ReqFits(playlistReq[r]) /\ ReqHolds(playlistReq[r])
  /\ OneLock
  /\ Distinct(playlist)
  /\ playlist.exists => Len(playlistEvents) # 0
  /\ \A i \in 1..Len(playlistEvents) : playlistEvents[i].at < stamp
  /\ DeletedIsLast

\* What the steps of a request assign to its fields.
LEMMA NewPlaylistFields ==
  /\ "catalog" \in PlaylistPcs /\ "begin" \in PlaylistPcs /\ "locked" \in PlaylistPcs
  /\ "commit" \in PlaylistPcs /\ "answer" \in PlaylistPcs
  /\ Missing \in RowRecord /\ Distinct(Missing) /\ Missing.exists = FALSE
  /\ Quiet \in PlaylistReqRecord /\ Quiet.pc = "idle" /\ Quiet.new = Missing /\ Quiet.at = 0
<1>1. 0 \in Stamps /\ <<>> \in PlaylistArgs /\ "" \in RowTitles /\ FALSE \in Flags
  BY PlaylistAssumption DEF Stamps, PlaylistArgs, RowTitles, Flags
<1>2. NoTracks \in Positions /\ \A t \in Songs : NoTracks[t] = 0
  BY DEF NoTracks, Positions
<1>3. Missing \in RowRecord /\ Missing.pos = NoTracks /\ Missing.exists = FALSE
  BY <1>1, <1>2 DEF Missing, RowRecord
<1>4. Distinct(Missing)
  BY <1>2, <1>3 DEF Distinct
<1>5. Quiet \in PlaylistReqRecord /\ Quiet.pc = "idle" /\ Quiet.new = Missing /\ Quiet.at = 0
  BY <1>1, <1>3 DEF Quiet, PlaylistReqRecord, PlaylistPcs, PlaylistOps, PlaylistStatuses
<1>6. QED
  BY <1>3, <1>4, <1>5 DEF PlaylistPcs

\* A step of one request that commits nothing.
LEMMA PlaylistMoves ==
  ASSUME PlaylistInv, NEW r \in PlaylistReqs, NEW q \in PlaylistReqRecord, ReqFits(q),
         playlistReq' = [playlistReq EXCEPT ![r] = q], RowsUnchanged,
         stamp' \in Stamps, stamp' >= stamp, q.at < stamp',
         Locks(q) => playlist.exists /\ \A o \in PlaylistReqs \ {r} : ~Locks(playlistReq[o]),
         q.pc = "commit" /\ q.op = "delete" => \A i \in 1..Len(playlistEvents) : playlistEvents[i].at < q.at
  PROVE  PlaylistInv'
<1>1. playlistReq' \in [PlaylistReqs -> PlaylistReqRecord] /\ playlistReq'[r] = q
      /\ \A o \in PlaylistReqs \ {r} : playlistReq'[o] = playlistReq[o]
  BY DEF PlaylistInv, PlaylistTypes
<1>2. playlist' = playlist /\ playlistEvents' = playlistEvents
  BY DEF RowsUnchanged
<1>3. PlaylistTypes'
  BY <1>1, <1>2 DEF PlaylistInv, PlaylistTypes
<1>4. stamp \in Int /\ stamp' \in Int
  BY DEF PlaylistInv, PlaylistTypes, Stamps
<1>5. ASSUME NEW o \in PlaylistReqs PROVE ReqFits(playlistReq[o])' /\ ReqHolds(playlistReq[o])'
  <2>1. CASE o = r
    BY <1>1, <1>2, <2>1 DEF ReqFits, ReqHolds, Open, Locks
  <2>2. CASE o # r
    <3>1. playlistReq'[o] = playlistReq[o] /\ ReqFits(playlistReq[o]) /\ ReqHolds(playlistReq[o])
      BY <1>1, <2>2 DEF PlaylistInv
    <3>2. playlistReq[o].at \in Int
      BY DEF PlaylistInv, PlaylistTypes, PlaylistReqRecord, Stamps
    <3>3. playlistReq[o].at < stamp'
      BY <1>4, <3>1, <3>2 DEF ReqHolds
    <3>4. QED
      BY <1>2, <3>1, <3>3 DEF ReqFits, ReqHolds, Open, Locks
  <2>3. QED
    BY <2>1, <2>2
<1>6. OneLock'
  BY <1>1 DEF PlaylistInv, OneLock, Locks
<1>7. \A i \in 1..Len(playlistEvents') : playlistEvents'[i].at < stamp'
  <2> SUFFICES ASSUME NEW i \in 1..Len(playlistEvents) PROVE playlistEvents[i].at < stamp'
    BY <1>2
  <2>1. playlistEvents[i].at < stamp /\ playlistEvents[i] \in PlaylistEventRecord
    BY DEF PlaylistInv, PlaylistTypes
  <2>2. playlistEvents[i].at \in Int
    BY <2>1 DEF PlaylistEventRecord, Stamps
  <2>3. QED
    BY <1>4, <2>1, <2>2
<1>8. DeletedIsLast' /\ Distinct(playlist)' /\ (playlist'.exists => Len(playlistEvents') # 0)
  BY <1>2 DEF PlaylistInv, DeletedIsLast, Distinct
<1>9. QED
  BY <1>3, <1>5, <1>6, <1>7, <1>8 DEF PlaylistInv

\* An answered request knows nothing any more.
LEMMA PlaylistReplies ==
  ASSUME PlaylistInv, NEW r \in PlaylistReqs, NEW st \in PlaylistStatuses,
         playlistReq' = [playlistReq EXCEPT ![r] = Reply(st)], RowsUnchanged,
         stamp' = stamp \/ Stamped
  PROVE  PlaylistInv'
<1> DEFINE new == [Quiet EXCEPT !.pc = "answer", !.status = st]
<1>1. new \in PlaylistReqRecord /\ new.pc = "answer" /\ new.at = 0
  BY NewPlaylistFields DEF PlaylistReqRecord
<1>2. playlistReq' = [playlistReq EXCEPT ![r] = new]
  BY DEF Reply
<1> HIDE DEF new
<1>3. ReqFits(new) /\ ~Locks(new)
  BY <1>1 DEF ReqFits, Open, Locks
<1>4. stamp \in Stamps /\ stamp > 0
  <2>1. stamp \in Stamps /\ playlistReq[r] \in PlaylistReqRecord /\ playlistReq[r].at < stamp
    BY DEF PlaylistInv, PlaylistTypes, ReqHolds
  <2>2. playlistReq[r].at \in Stamps
    BY <2>1 DEF PlaylistReqRecord
  <2>3. QED
    BY <2>1, <2>2, PlaylistAssumption DEF Stamps
<1>5. stamp' \in Stamps /\ stamp' >= stamp /\ 0 < stamp'
  BY <1>4, PlaylistAssumption DEF Stamped, Stamps
<1>6. QED
  BY <1>1, <1>2, <1>3, <1>5, PlaylistMoves

\* Every answer is one of the statuses.
LEMMA Statuses ==
  /\ \A err : FailStatus(err) \in PlaylistStatuses
  /\ \A op : \E st \in PlaylistStatuses : Done(op) = Reply(st)
<1>1. ASSUME NEW err PROVE FailStatus(err) \in PlaylistStatuses
  BY DEF FailStatus, PlaylistStatuses
<1>2. ASSUME NEW op PROVE \E st \in PlaylistStatuses : Done(op) = Reply(st)
  <2>1. 200 \in PlaylistStatuses /\ 201 \in PlaylistStatuses /\ 204 \in PlaylistStatuses
    BY DEF PlaylistStatuses
  <2>2. Done(op) = Reply(201) \/ Done(op) = Reply(200) \/ Done(op) = Reply(204)
    BY DEF Done
  <2>3. QED
    BY <2>1, <2>2
<1>3. QED
  BY <1>1, <1>2

\* A request that starts: owned answers, or the change is under way.
LEMMA OwnedStarts ==
  ASSUME PlaylistInv, NEW r \in PlaylistReqs, NEW caller, NEW next,
         NEW pc \in {"begin", "catalog"}, NEW op \in PlaylistOps \ {"none"}, NEW arg \in PlaylistArgs, NEW at,
         next = [[Quiet EXCEPT !.pc = "begin", !.op = op, !.arg = arg, !.at = at] EXCEPT !.pc = pc]
           \/ \E o : next = Done(o),
         op = "rename" => arg \in Titles, op \in {"add", "remove"} => arg \in Songs,
         op = "reorder" => arg \in Orders,
         Owned(r, caller, next), RowsUnchanged,
         \/ at = 0 /\ stamp' = stamp
         \/ at = stamp /\ Stamped
  PROVE  PlaylistInv'
<1>1. stamp' = stamp \/ Stamped
  OBVIOUS
<1>2. ASSUME NEW st \in PlaylistStatuses, playlistReq' = [playlistReq EXCEPT ![r] = Reply(st)] PROVE PlaylistInv'
  BY <1>1, <1>2, PlaylistReplies
<1>3. CASE ~playlist.exists \/ caller # "owner" \/ \E o : next = Done(o)
  BY <1>2, <1>3, Statuses DEF Owned, Go
<1>4. CASE /\ playlistReq' = [playlistReq EXCEPT ![r] = next]
           /\ next = [[Quiet EXCEPT !.pc = "begin", !.op = op, !.arg = arg, !.at = at] EXCEPT !.pc = pc]
  <2>1. stamp \in Stamps /\ stamp > 0
    <3>1. stamp \in Stamps /\ playlistReq[r] \in PlaylistReqRecord /\ playlistReq[r].at < stamp
      BY DEF PlaylistInv, PlaylistTypes, ReqHolds
    <3>2. playlistReq[r].at \in Stamps
      BY <3>1 DEF PlaylistReqRecord
    <3>3. QED
      BY <3>1, <3>2, PlaylistAssumption DEF Stamps
  <2>2. at \in Stamps /\ stamp' \in Stamps /\ stamp' >= stamp /\ at < stamp'
    BY <2>1, PlaylistAssumption DEF Stamped, Stamps
  <2>3. pc \in PlaylistPcs /\ op \in PlaylistOps
    BY DEF PlaylistPcs
  <2>4. /\ next \in PlaylistReqRecord /\ next.pc = pc /\ next.op = op /\ next.arg = arg /\ next.at = at
        /\ next.new = Missing
    BY <1>4, <2>2, <2>3, NewPlaylistFields DEF PlaylistReqRecord
  <2>5. ReqFits(next) /\ ~Locks(next)
    BY <2>4 DEF ReqFits, Open, Locks
  <2>6. next.pc # "commit"
    BY <2>4
  <2>7. QED
    BY <1>4, <2>2, <2>4, <2>5, <2>6, PlaylistMoves
<1>5. QED
  BY <1>3, <1>4 DEF Owned, Go

\* The playlist is created: the first event, of a row without tracks.
LEMMA CreateKeepsPlaylist ==
  ASSUME PlaylistInv, NEW r \in PlaylistReqs, NEW title \in Titles, Create(r, title)
  PROVE  PlaylistInv'
<1> DEFINE row == [Missing EXCEPT !.exists = TRUE, !.title = title, !.updated = stamp]
           e == [type |-> "created", arg |-> title, at |-> stamp]
<1>1. PlaylistTypes /\ stamp \in Stamps /\ stamp' \in Stamps /\ stamp' = stamp + 1 /\ stamp \in Int
  BY PlaylistAssumption DEF PlaylistInv, PlaylistTypes, Create, Stamped, Stamps
<1>2. playlist = Missing /\ playlistEvents = <<>> /\ playlist' = row /\ playlistEvents' = <<e>>
  BY DEF Create, Event
<1>3. TRUE \in Flags /\ title \in RowTitles /\ title \in EventArgs /\ "created" \in EventTypes
  BY DEF Flags, RowTitles, EventArgs, PlaylistArgs, EventTypes
<1>4. row \in RowRecord /\ row.exists = TRUE /\ row.pos = Missing.pos
  BY <1>1, <1>3, NewPlaylistFields DEF RowRecord
<1>5. Distinct(row)
  BY <1>4, NewPlaylistFields DEF Distinct
<1> HIDE DEF row
<1>6. e \in PlaylistEventRecord /\ e.at = stamp
  BY <1>1, <1>3 DEF PlaylistEventRecord
<1> HIDE DEF e
<1>7. playlistEvents' \in Seq(PlaylistEventRecord) /\ Len(playlistEvents') = 1 /\ playlistEvents'[1] = e
  BY <1>2, <1>6
<1>8. PICK st \in PlaylistStatuses : playlistReq' = [playlistReq EXCEPT ![r] = Reply(st)]
  BY Statuses DEF Create, Go
<1> DEFINE new == [Quiet EXCEPT !.pc = "answer", !.status = st]
<1>9. new \in PlaylistReqRecord /\ new.pc = "answer" /\ new.at = 0 /\ playlistReq' = [playlistReq EXCEPT ![r] = new]
  BY <1>8, NewPlaylistFields DEF PlaylistReqRecord, Reply
<1> HIDE DEF new
<1>10. /\ playlistReq' \in [PlaylistReqs -> PlaylistReqRecord] /\ playlistReq'[r] = new
       /\ \A o \in PlaylistReqs \ {r} : playlistReq'[o] = playlistReq[o]
  BY <1>1, <1>9 DEF PlaylistTypes
<1>11. \A o \in PlaylistReqs : ~Locks(playlistReq'[o])
  <2>1. \A o \in PlaylistReqs : ~Locks(playlistReq[o])
    BY <1>2, NewPlaylistFields DEF PlaylistInv, ReqHolds
  <2>2. ~Locks(new)
    BY <1>9 DEF Locks
  <2>3. QED
    BY <1>10, <2>1, <2>2
<1>12. \A o \in PlaylistReqs : playlistReq'[o].at < stamp'
  <2>1. ASSUME NEW o \in PlaylistReqs PROVE playlistReq'[o].at < stamp'
    <3>1. playlistReq[o].at < stamp /\ playlistReq[o] \in PlaylistReqRecord
      BY <1>1 DEF PlaylistInv, ReqHolds, PlaylistTypes
    <3>2. playlistReq[o].at \in Int /\ playlistReq[o].at >= 0
      BY <3>1 DEF PlaylistReqRecord, Stamps
    <3>3. 0 < stamp'
      BY <1>1 DEF Stamps
    <3>4. QED
      BY <1>1, <1>9, <1>10, <3>1, <3>2, <3>3
  <2>2. QED
    BY <2>1
<1>13. ASSUME NEW o \in PlaylistReqs PROVE ReqFits(playlistReq[o])' /\ ReqHolds(playlistReq[o])'
  <2>1. ReqFits(playlistReq'[o])
    <3>1. ReqFits(new)
      BY <1>9 DEF ReqFits, Open
    <3>2. QED
      BY <1>10, <3>1 DEF PlaylistInv
  <2>2. ReqFits(playlistReq[o])'
    BY <2>1 DEF ReqFits, Open
  <2>3. ReqHolds(playlistReq[o])'
    BY <1>11, <1>12 DEF ReqHolds, Locks
  <2>4. QED
    BY <2>2, <2>3
<1>14. OneLock'
  BY <1>11 DEF OneLock, Locks
<1>15. PlaylistTypes' /\ Distinct(playlist)' /\ DeletedIsLast' /\ (playlist'.exists => Len(playlistEvents') # 0)
  <2>1. playlist'.exists = TRUE /\ Distinct(playlist')
    BY <1>2, <1>4, <1>5
  <2>2. QED
    BY <1>1, <1>2, <1>4, <1>7, <1>10, <2>1 DEF PlaylistTypes, Distinct, DeletedIsLast
<1>16. \A i \in 1..Len(playlistEvents') : playlistEvents'[i].at < stamp'
  BY <1>1, <1>6, <1>7
<1>17. QED
  BY <1>13, <1>14, <1>15, <1>16 DEF PlaylistInv

\* The statements of a transaction, under the row's lock.
LEMMA ExecuteKeepsPlaylist ==
  ASSUME PlaylistInv, NEW r \in PlaylistReqs, Execute(r)
  PROVE  PlaylistInv'
<1> DEFINE q == playlistReq[r]
<1>1. /\ q \in PlaylistReqRecord /\ ReqFits(q) /\ ReqHolds(q) /\ q.pc = "locked" /\ RowsUnchanged
      /\ stamp \in Stamps /\ playlist \in RowRecord /\ Distinct(playlist)
  BY DEF PlaylistInv, PlaylistTypes, Execute
<1>2. /\ q.at \in Stamps /\ q.at < stamp /\ playlist.exists /\ q.new = Missing
      /\ q.op \in PlaylistOps /\ q.op # "none"
      /\ \A o \in PlaylistReqs \ {r} : ~Locks(playlistReq[o])
  <2>1. q.at \in Stamps /\ q.op \in PlaylistOps
    BY <1>1 DEF PlaylistReqRecord
  <2>2. Locks(q) /\ Open(q)
    BY <1>1 DEF Locks, Open
  <2>3. \A o \in PlaylistReqs \ {r} : ~Locks(playlistReq[o])
    BY <2>2 DEF PlaylistInv, OneLock
  <2>4. QED
    BY <1>1, <2>1, <2>2, <2>3 DEF ReqHolds, ReqFits
<1>3. ASSUME NEW st \in PlaylistStatuses, playlistReq' = [playlistReq EXCEPT ![r] = Reply(st)], stamp' = stamp
      PROVE  PlaylistInv'
  BY <1>1, <1>3, PlaylistReplies
<1>4. ASSUME NEW op, playlistReq' = [playlistReq EXCEPT ![r] = Done(op)], stamp' = stamp PROVE PlaylistInv'
  BY <1>3, <1>4, Statuses
<1>5. ASSUME NEW row \in RowRecord, row.exists = playlist.exists, Distinct(row), stamp' = stamp, q.op # "delete",
             playlistReq' = [playlistReq EXCEPT ![r] = [q EXCEPT !.pc = "commit", !.new = row]]
      PROVE  PlaylistInv'
  <2> DEFINE new == [q EXCEPT !.pc = "commit", !.new = row]
  <2>1. /\ new \in PlaylistReqRecord /\ new.pc = "commit" /\ new.op = q.op /\ new.arg = q.arg /\ new.at = q.at
        /\ new.new = row
    BY <1>1, <1>5, NewPlaylistFields DEF PlaylistReqRecord
  <2>2. playlistReq' = [playlistReq EXCEPT ![r] = new]
    BY <1>5
  <2> HIDE DEF new
  <2>3. ReqFits(new)
    BY <1>1, <1>2, <1>5, <2>1 DEF ReqFits, Open
  <2>4. stamp' \in Stamps /\ stamp' >= stamp /\ new.at < stamp'
    BY <1>1, <1>2, <1>5, <2>1 DEF Stamps
  <2>5. QED
    BY <1>1, <1>2, <1>5, <2>1, <2>2, <2>3, <2>4, PlaylistMoves
<1>6. ASSUME q.op = "delete", Stamped, playlistReq' = [playlistReq EXCEPT ![r] = [q EXCEPT !.pc = "commit", !.at = stamp]]
      PROVE  PlaylistInv'
  <2> DEFINE new == [q EXCEPT !.pc = "commit", !.at = stamp]
  <2>1. /\ new \in PlaylistReqRecord /\ new.pc = "commit" /\ new.op = q.op /\ new.arg = q.arg /\ new.at = stamp
        /\ new.new = q.new
    BY <1>1, <1>6, NewPlaylistFields DEF PlaylistReqRecord
  <2>2. playlistReq' = [playlistReq EXCEPT ![r] = new]
    BY <1>6
  <2> HIDE DEF new
  <2>3. ReqFits(new)
    BY <1>2, <1>6, <2>1 DEF ReqFits, Open
  <2>4. stamp' \in Stamps /\ stamp' >= stamp /\ new.at < stamp'
    BY <1>1, <1>6, <2>1, PlaylistAssumption DEF Stamps, Stamped
  <2>5. \A i \in 1..Len(playlistEvents) : playlistEvents[i].at < new.at
    BY <2>1 DEF PlaylistInv
  <2>6. QED
    BY <1>1, <1>2, <2>1, <2>2, <2>3, <2>4, <2>5, PlaylistMoves
<1>7. /\ q.op = "rename" => q.arg \in Titles
      /\ q.op \in {"add", "remove"} => q.arg \in Songs
      /\ q.op = "reorder" => q.arg \in Orders
  BY <1>1 DEF ReqFits, Open
<1>8. CASE q.op = "rename"
  <2>1. stamp' = stamp /\ playlistReq' = [playlistReq EXCEPT ![r] = [q EXCEPT !.pc = "commit", !.new = UpdateTitle(playlist, q)]]
    BY <1>8 DEF Execute, Go
  <2>2. QED
    BY <1>1, <1>2, <1>5, <1>7, <1>8, <2>1, StatementsKeepDistinct
<1>9. CASE q.op = "add"
  <2>1. CASE playlist.pos[q.arg] = 0
    <3>1. stamp' = stamp /\ playlistReq' = [playlistReq EXCEPT ![r] = [q EXCEPT !.pc = "commit", !.new = AppendTrack(playlist, q)]]
      BY <1>9, <2>1 DEF Execute, Go
    <3>2. QED
      BY <1>1, <1>2, <1>5, <1>7, <1>9, <3>1, StatementsKeepDistinct
  <2>2. CASE playlist.pos[q.arg] # 0
    BY <1>4, <1>9, <2>2 DEF Execute, Go
  <2>3. QED
    BY <2>1, <2>2
<1>10. CASE q.op = "remove"
  <2>1. CASE playlist.pos[q.arg] # 0
    <3>1. stamp' = stamp /\ playlistReq' = [playlistReq EXCEPT ![r] = [q EXCEPT !.pc = "commit", !.new = DropTrack(playlist, q)]]
      BY <1>10, <2>1 DEF Execute, Go
    <3>2. QED
      BY <1>1, <1>2, <1>5, <1>7, <1>10, <3>1, StatementsKeepDistinct
  <2>2. CASE playlist.pos[q.arg] = 0
    BY <1>4, <1>10, <2>2 DEF Execute, Go
  <2>3. QED
    BY <2>1, <2>2
<1>11. CASE q.op = "reorder"
  <2>1. CASE CheckOrder(playlist, q.arg)
    <3>1. stamp' = stamp /\ playlistReq' = [playlistReq EXCEPT ![r] = [q EXCEPT !.pc = "commit", !.new = SetPositions(playlist, q)]]
      BY <1>11, <2>1 DEF Execute, Go
    <3>2. QED
      BY <1>1, <1>2, <1>5, <1>7, <1>11, <2>1, <3>1, StatementsKeepDistinct
  <2>2. CASE ~CheckOrder(playlist, q.arg)
    BY <1>3, <1>11, <2>2, Statuses DEF Execute, Go
  <2>3. QED
    BY <2>1, <2>2
<1>12. CASE q.op = "delete"
  BY <1>6, <1>12 DEF Execute, Go
<1>13. QED
  BY <1>8, <1>9, <1>10, <1>11, <1>12 DEF Execute

\* The commit writes the row and its event, and ends the request.
LEMMA CommitKeepsPlaylist ==
  ASSUME PlaylistInv, NEW r \in PlaylistReqs, CommitPlaylist(r)
  PROVE  PlaylistInv'
<1> DEFINE q == playlistReq[r]
           e == Announce(q)
           n == Len(playlistEvents) + 1
<1>1. /\ PlaylistTypes /\ q \in PlaylistReqRecord /\ ReqFits(q) /\ ReqHolds(q) /\ q.pc = "commit" /\ stamp' = stamp
      /\ playlist' = q.new /\ playlistEvents' = Append(playlistEvents, e)
  BY DEF PlaylistInv, PlaylistTypes, CommitPlaylist, Go
<1>2. /\ q.at \in Stamps /\ q.op \in PlaylistOps \ {"none"} /\ q.arg \in PlaylistArgs /\ q.new \in RowRecord
      /\ q.at < stamp
  BY <1>1 DEF PlaylistReqRecord, ReqFits, Open, ReqHolds
<1>3. /\ q.op = "delete" => q.new = Missing
      /\ q.op # "delete" => q.new.exists /\ Distinct(q.new)
      /\ q.op = "delete" => \A i \in 1..Len(playlistEvents) : playlistEvents[i].at < q.at
      /\ q.op = "add" => q.arg \in Songs
  BY <1>1 DEF ReqFits, ReqHolds, Open
<1>4. e \in PlaylistEventRecord /\ e.at = q.at /\ (q.op = "delete" => e.type = "deleted")
  <2> DEFINE t == CASE q.op = "rename" -> "updated" [] q.op = "delete" -> "deleted" [] q.op = "add" -> "track_added"
                    [] q.op = "remove" -> "track_removed" [] q.op = "reorder" -> "tracks_reordered"
             a == IF q.op = "add" THEN <<q.arg, q.new.pos[q.arg]>> ELSE q.arg
  <2>1. t \in EventTypes /\ (q.op = "delete" => t = "deleted")
    BY <1>2 DEF PlaylistOps, EventTypes
  <2>2. a \in EventArgs
    <3>1. q.new.pos \in [Songs -> Nat]
      BY <1>2 DEF RowRecord, Positions
    <3>2. QED
      BY <1>2, <1>3, <3>1 DEF EventArgs
  <2>3. e = [type |-> t, arg |-> a, at |-> q.at]
    BY DEF Announce, Event
  <2> HIDE DEF t, a
  <2>4. QED
    BY <1>2, <2>1, <2>2, <2>3 DEF PlaylistEventRecord
<1> HIDE DEF e
<1>5. playlistEvents \in Seq(PlaylistEventRecord)
  BY <1>1 DEF PlaylistTypes
<1>6. /\ playlistEvents' \in Seq(PlaylistEventRecord) /\ Len(playlistEvents) \in Nat
      /\ Len(playlistEvents') = n /\ playlistEvents'[n] = e
      /\ \A i \in 1..Len(playlistEvents) : playlistEvents'[i] = playlistEvents[i]
  BY <1>1, <1>4, <1>5
<1>7. PICK st \in PlaylistStatuses : playlistReq' = [playlistReq EXCEPT ![r] = Reply(st)]
  BY Statuses DEF CommitPlaylist, Go
<1> DEFINE new == [Quiet EXCEPT !.pc = "answer", !.status = st]
<1>8. new \in PlaylistReqRecord /\ new.pc = "answer" /\ new.at = 0 /\ playlistReq' = [playlistReq EXCEPT ![r] = new]
  BY <1>7, NewPlaylistFields DEF PlaylistReqRecord, Reply
<1> HIDE DEF new
<1>9. /\ playlistReq' \in [PlaylistReqs -> PlaylistReqRecord] /\ playlistReq'[r] = new
      /\ \A o \in PlaylistReqs \ {r} : playlistReq'[o] = playlistReq[o]
  BY <1>1, <1>8 DEF PlaylistTypes
<1>10. \A o \in PlaylistReqs : ~Locks(playlistReq'[o])
  <2>1. Locks(q) /\ ~Locks(new)
    BY <1>1, <1>8 DEF Locks
  <2>2. \A o \in PlaylistReqs \ {r} : ~Locks(playlistReq[o])
    BY <2>1 DEF PlaylistInv, OneLock
  <2>3. QED
    BY <1>9, <2>1, <2>2
<1>11. \A o \in PlaylistReqs : playlistReq'[o].at < stamp'
  <2>1. 0 < stamp
    BY <1>1, <1>2 DEF PlaylistTypes, Stamps
  <2>2. QED
    BY <1>1, <1>8, <1>9, <2>1 DEF PlaylistInv, ReqHolds
<1>12. ASSUME NEW o \in PlaylistReqs PROVE ReqFits(playlistReq[o])' /\ ReqHolds(playlistReq[o])'
  <2>1. ReqFits(playlistReq'[o])
    <3>1. ReqFits(new)
      BY <1>8 DEF ReqFits, Open
    <3>2. QED
      BY <1>9, <3>1 DEF PlaylistInv
  <2>2. ReqFits(playlistReq[o])'
    BY <2>1 DEF ReqFits, Open
  <2>3. ReqHolds(playlistReq[o])'
    BY <1>10, <1>11 DEF ReqHolds, Locks
  <2>4. QED
    BY <2>2, <2>3
<1>13. OneLock'
  BY <1>10 DEF OneLock, Locks
<1>14. Distinct(playlist)'
  <2>1. Distinct(playlist')
    BY <1>1, <1>3, NewPlaylistFields
  <2>2. QED
    BY <2>1 DEF Distinct
<1>15. DeletedIsLast'
  <2> SUFFICES ASSUME ~playlist'.exists
               PROVE  /\ playlistEvents'[n].type = "deleted"
                      /\ \A i \in 1..n : i # n => playlistEvents'[i].at < playlistEvents'[n].at
    BY <1>6 DEF DeletedIsLast
  <2>1. q.op = "delete"
    BY <1>1, <1>3
  <2>2. QED
    BY <1>3, <1>4, <1>6, <2>1
<1>16. \A i \in 1..Len(playlistEvents') : playlistEvents'[i].at < stamp'
  BY <1>1, <1>2, <1>4, <1>6 DEF PlaylistInv
<1>17. PlaylistTypes' /\ Len(playlistEvents') # 0
  BY <1>1, <1>2, <1>6, <1>9 DEF PlaylistTypes
<1>18. QED
  BY <1>12, <1>13, <1>14, <1>15, <1>16, <1>17 DEF PlaylistInv

\* Every step of a request keeps the invariant.
LEMMA PlaylistKeeps ==
  ASSUME PlaylistInv, PlaylistNext
  PROVE  PlaylistInv'
<1>1. PICK r \in PlaylistReqs : PlaylistRequest(r)
  BY DEF PlaylistNext
<1> DEFINE q == playlistReq[r]
<1>2. q \in PlaylistReqRecord /\ ReqFits(q) /\ ReqHolds(q) /\ stamp \in Stamps
  BY DEF PlaylistInv, PlaylistTypes
<1>3. q.at \in Stamps /\ q.at < stamp
  BY <1>2 DEF PlaylistReqRecord, ReqHolds
<1>4. ASSUME NEW st \in PlaylistStatuses, playlistReq' = [playlistReq EXCEPT ![r] = Reply(st)], RowsUnchanged,
             stamp' = stamp
      PROVE  PlaylistInv'
  BY <1>4, PlaylistReplies
<1>5. ASSUME NEW title \in Titles, Create(r, title) PROVE PlaylistInv'
  BY <1>5, CreateKeepsPlaylist
<1>6. CASE RefuseTitle(r)
  BY <1>4, <1>6, Statuses DEF RefuseTitle, Go
<1>7. ASSUME NEW caller, NEW title \in Titles, Rename(r, caller, title) PROVE PlaylistInv'
  <2> DEFINE next == IF playlist.title = title THEN Done("rename") ELSE Change("rename", title, stamp)
  <2>1. Owned(r, caller, next) /\ Stamped /\ RowsUnchanged
    BY <1>7 DEF Rename
  <2>2. next = [[Quiet EXCEPT !.pc = "begin", !.op = "rename", !.arg = title, !.at = stamp] EXCEPT !.pc = "begin"]
          \/ \E o : next = Done(o)
    BY NewPlaylistFields DEF Change, Quiet
  <2> HIDE DEF next
  <2>3. "rename" \in PlaylistOps \ {"none"} /\ title \in PlaylistArgs
    BY DEF PlaylistOps, PlaylistArgs
  <2>4. QED
    BY <2>1, <2>2, <2>3, OwnedStarts
<1>8. ASSUME NEW caller, Delete(r, caller) PROVE PlaylistInv'
  <2> DEFINE next == Change("delete", <<>>, 0)
  <2>1. Owned(r, caller, next) /\ stamp' = stamp /\ RowsUnchanged
    BY <1>8 DEF Delete
  <2>2. next = [[Quiet EXCEPT !.pc = "begin", !.op = "delete", !.arg = <<>>, !.at = 0] EXCEPT !.pc = "begin"]
    BY DEF Change, Quiet
  <2> HIDE DEF next
  <2>3. "delete" \in PlaylistOps \ {"none"} /\ <<>> \in PlaylistArgs
    BY DEF PlaylistOps, PlaylistArgs
  <2>4. QED
    BY <2>1, <2>2, <2>3, OwnedStarts
<1>9. ASSUME NEW caller, NEW t \in Songs, AddTrack(r, caller, t) PROVE PlaylistInv'
  <2> DEFINE next == [Change("add", t, 0) EXCEPT !.pc = "catalog"]
  <2>1. Owned(r, caller, next) /\ stamp' = stamp /\ RowsUnchanged
    BY <1>9 DEF AddTrack
  <2>2. next = [[Quiet EXCEPT !.pc = "begin", !.op = "add", !.arg = t, !.at = 0] EXCEPT !.pc = "catalog"]
    BY DEF Change
  <2> HIDE DEF next
  <2>3. "add" \in PlaylistOps \ {"none"} /\ t \in PlaylistArgs
    BY DEF PlaylistOps, PlaylistArgs
  <2>4. QED
    BY <2>1, <2>2, <2>3, OwnedStarts
<1>10. ASSUME NEW caller, NEW t \in Songs, RemoveTrack(r, caller, t) PROVE PlaylistInv'
  <2> DEFINE next == Change("remove", t, stamp)
  <2>1. Owned(r, caller, next) /\ Stamped /\ RowsUnchanged
    BY <1>10 DEF RemoveTrack
  <2>2. next = [[Quiet EXCEPT !.pc = "begin", !.op = "remove", !.arg = t, !.at = stamp] EXCEPT !.pc = "begin"]
    BY DEF Change, Quiet
  <2> HIDE DEF next
  <2>3. "remove" \in PlaylistOps \ {"none"} /\ t \in PlaylistArgs
    BY DEF PlaylistOps, PlaylistArgs
  <2>4. QED
    BY <2>1, <2>2, <2>3, OwnedStarts
<1>11. ASSUME NEW caller, NEW order \in Orders, Reorder(r, caller, order) PROVE PlaylistInv'
  <2> DEFINE next == Change("reorder", order, stamp)
  <2>1. Owned(r, caller, next) /\ Stamped /\ RowsUnchanged
    BY <1>11 DEF Reorder
  <2>2. next = [[Quiet EXCEPT !.pc = "begin", !.op = "reorder", !.arg = order, !.at = stamp] EXCEPT !.pc = "begin"]
    BY DEF Change, Quiet
  <2> HIDE DEF next
  <2>3. "reorder" \in PlaylistOps \ {"none"} /\ order \in PlaylistArgs
    BY DEF PlaylistOps, PlaylistArgs
  <2>4. QED
    BY <2>1, <2>2, <2>3, OwnedStarts
<1>12. ASSUME NEW err, TrackExists(r, err) PROVE PlaylistInv'
  <2>1. CASE err # "nil"
    BY <1>4, <1>12, <2>1, Statuses DEF TrackExists, Go
  <2>2. CASE err = "nil"
    <3> DEFINE new == [q EXCEPT !.pc = "begin", !.at = stamp]
    <3>1. Stamped /\ RowsUnchanged /\ q.pc = "catalog" /\ playlistReq' = [playlistReq EXCEPT ![r] = new]
      BY <1>12, <2>2 DEF TrackExists, Go
    <3>2. /\ new \in PlaylistReqRecord /\ new.pc = "begin" /\ new.op = q.op /\ new.arg = q.arg /\ new.at = stamp
          /\ new.new = q.new
      BY <1>2, NewPlaylistFields DEF PlaylistReqRecord
    <3> HIDE DEF new
    <3>3. ReqFits(new) /\ ~Locks(new) /\ new.pc # "commit"
      BY <1>2, <3>1, <3>2 DEF ReqFits, Open, Locks
    <3>4. stamp' \in Stamps /\ stamp' >= stamp /\ new.at < stamp'
      BY <1>2, <3>1, <3>2, PlaylistAssumption DEF Stamps, Stamped
    <3>5. QED
      BY <3>1, <3>2, <3>3, <3>4, PlaylistMoves
  <2>3. QED
    BY <2>1, <2>2
<1>13. CASE LockPlaylist(r)
  <2>1. CASE ~playlist.exists
    BY <1>4, <1>13, <2>1, Statuses DEF LockPlaylist, Go
  <2>2. CASE playlist.exists
    <3> DEFINE new == [q EXCEPT !.pc = "locked"]
    <3>1. /\ RowsUnchanged /\ stamp' = stamp /\ q.pc = "begin" /\ playlistReq' = [playlistReq EXCEPT ![r] = new]
          /\ \A o \in PlaylistReqs : ~Locks(playlistReq[o])
      BY <1>13, <2>2 DEF LockPlaylist, Go, Locks
    <3>2. /\ new \in PlaylistReqRecord /\ new.pc = "locked" /\ new.op = q.op /\ new.arg = q.arg /\ new.at = q.at
          /\ new.new = q.new
      BY <1>2, NewPlaylistFields DEF PlaylistReqRecord
    <3> HIDE DEF new
    <3>3. ReqFits(new) /\ new.pc # "commit"
      BY <1>2, <3>1, <3>2 DEF ReqFits, Open
    <3>4. stamp' \in Stamps /\ stamp' >= stamp /\ new.at < stamp'
      BY <1>2, <1>3, <3>1, <3>2 DEF Stamps
    <3>5. QED
      BY <2>2, <3>1, <3>2, <3>3, <3>4, PlaylistMoves
  <2>3. QED
    BY <2>1, <2>2
<1>14. CASE Execute(r)
  BY <1>14, ExecuteKeepsPlaylist
<1>15. CASE CommitPlaylist(r)
  BY <1>15, CommitKeepsPlaylist
<1>16. CASE PlaylistTxFails(r)
  BY <1>4, <1>16, Statuses DEF PlaylistTxFails, Go
<1>17. CASE PlaylistAnswered(r)
  <2>1. RowsUnchanged /\ stamp' = stamp /\ playlistReq' = [playlistReq EXCEPT ![r] = Quiet]
    BY <1>17 DEF PlaylistAnswered, Go
  <2>2. ReqFits(Quiet) /\ ~Locks(Quiet) /\ Quiet.pc # "commit"
    BY NewPlaylistFields DEF ReqFits, Open, Locks
  <2>3. stamp' \in Stamps /\ stamp' >= stamp /\ Quiet.at < stamp'
    BY <1>2, <1>3, <2>1, NewPlaylistFields DEF Stamps
  <2>4. QED
    BY <2>1, <2>2, <2>3, NewPlaylistFields, PlaylistMoves
<1>18. QED
  BY <1>1, <1>5, <1>6, <1>7, <1>8, <1>9, <1>10, <1>11, <1>12, <1>13, <1>14, <1>15, <1>16, <1>17 DEF PlaylistRequest

\* Events are only ever added behind those that are there.
LEMMA EventsGrow ==
  ASSUME PlaylistInv, PlaylistNext
  PROVE  /\ Len(playlistEvents') >= Len(playlistEvents)
         /\ \A i \in 1..Len(playlistEvents) : playlistEvents'[i] = playlistEvents[i]
<1>1. playlistEvents \in Seq(PlaylistEventRecord) /\ Len(playlistEvents) \in Nat
  BY DEF PlaylistInv, PlaylistTypes
<1>2. CASE playlistEvents' = playlistEvents
  BY <1>1, <1>2
<1>3. ASSUME NEW e, playlistEvents = <<>>, playlistEvents' = <<e>> PROVE Len(playlistEvents) = 0 /\ Len(playlistEvents') = 1
  BY <1>3
<1>4. ASSUME NEW r \in PlaylistReqs, CommitPlaylist(r)
      PROVE  /\ Len(playlistEvents') = Len(playlistEvents) + 1
             /\ \A i \in 1..Len(playlistEvents) : playlistEvents'[i] = playlistEvents[i]
  <2>1. \E e : playlistEvents' = Append(playlistEvents, e)
    BY <1>4 DEF CommitPlaylist
  <2>2. PICK e : playlistEvents' = Append(playlistEvents, e)
    BY <2>1
  <2>3. QED
    BY <1>1, <2>2
<1>5. \/ playlistEvents' = playlistEvents
      \/ \E e : playlistEvents = <<>> /\ playlistEvents' = <<e>>
      \/ \E r \in PlaylistReqs : CommitPlaylist(r)
  BY DEF PlaylistNext, PlaylistRequest, Create, RefuseTitle, Rename, Delete, AddTrack, RemoveTrack, Reorder,
         TrackExists, LockPlaylist, Execute, PlaylistTxFails, PlaylistAnswered, RowsUnchanged
<1>6. QED
  BY <1>1, <1>2, <1>3, <1>4, <1>5

Contents == [exists : Flags, title : RowTitles, count : Nat]
JobRecord == [n : Nat, read : Flags, content : Contents]
DocRecord == [version : Nat, content : Contents]

\* A consumer is at an event that the group has committed or commits next, and
\* of a playlist that was deleted it writes nothing for the deletion itself.
JobSound(j) ==
  /\ j.n <= Len(playlistEvents) /\ j.n <= taken + 1
  /\ j.read => j.n # 0
  /\ j.content.exists => j.n # 0 /\ playlistEvents[j.n].type # "deleted"

\* The last event is a deletion of version v that was committed by writing it.
DeletionWritten(v) ==
  LET n == Len(playlistEvents) IN
  taken = n /\ n # 0 /\ playlistEvents[n].type = "deleted" /\ n \notin deadEvents /\ Version(n) = v

\* The document's version covers what the group has committed and not
\* dead-lettered.  A document that exists was written for an event other than a
\* deletion, and late if the deletion has its version and was written.
Covers == \A i \in 1..taken : i \in deadEvents \/ Version(i) <= doc.version
WrittenFor ==
  doc.content.exists =>
    \E i \in 1..Len(playlistEvents) :
      /\ playlistEvents[i].type # "deleted" /\ doc.version = Version(i)
      /\ i \in late \/ ~DeletionWritten(doc.version)
DocSound == Covers /\ WrittenFor

IndexInv ==
  /\ taken \in Nat /\ taken <= Len(playlistEvents)
  /\ job \in [Indexers -> JobRecord]
  /\ doc \in DocRecord
  /\ \A x \in Indexers : JobSound(job[x])
  /\ DocSound

\* An event's version is a number.
LEMMA VersionsTyped ==
  ASSUME PlaylistInv
  PROVE  /\ Len(playlistEvents) \in Nat
         /\ \A i \in 1..Len(playlistEvents) : playlistEvents[i].at \in Stamps /\ Version(i) \in Nat
<1>1. playlistEvents \in Seq(PlaylistEventRecord) /\ Len(playlistEvents) \in Nat
  BY DEF PlaylistInv, PlaylistTypes
<1>2. ASSUME NEW i \in 1..Len(playlistEvents) PROVE playlistEvents[i].at \in Stamps
  <2>1. playlistEvents[i] \in PlaylistEventRecord
    BY <1>1
  <2>2. QED
    BY <2>1 DEF PlaylistEventRecord
<1>3. Millis \in [Stamps -> Nat]
  BY MillisAssumption DEF Stamps
<1>4. QED
  BY <1>1, <1>2, <1>3 DEF Version

\* The invariant survives new events.
LEMMA IndexSurvives ==
  ASSUME PlaylistInv, IndexInv, PlaylistNext, UNCHANGED indexVars
  PROVE  IndexInv'
<1>1. Len(playlistEvents) \in Nat /\ Len(playlistEvents') \in Nat
  <2>1. PlaylistInv'
    BY PlaylistKeeps
  <2>2. playlistEvents \in Seq(PlaylistEventRecord) /\ playlistEvents' \in Seq(PlaylistEventRecord)
    BY <2>1 DEF PlaylistInv, PlaylistTypes
  <2>3. QED
    BY <2>2
<1>2. doc' = doc /\ taken' = taken /\ job' = job /\ deadEvents' = deadEvents /\ late' = late
  BY DEF indexVars
<1>3. ASSUME NEW x \in Indexers PROVE JobSound(job[x])'
  <2>1. JobSound(job[x]) /\ job[x].n \in Nat
    BY DEF IndexInv, JobRecord
  <2>2. job[x].n # 0 => job[x].n \in 1..Len(playlistEvents)
    BY <1>1, <2>1 DEF JobSound
  <2>3. QED
    BY <1>1, <1>2, <2>1, <2>2, EventsGrow DEF JobSound
<1>4. taken \in Nat /\ taken <= Len(playlistEvents) /\ Covers /\ WrittenFor
  BY DEF IndexInv, DocSound
<1>5. \A i \in 1..Len(playlistEvents) :
        i \in 1..Len(playlistEvents') /\ Version(i)' = Version(i) /\ playlistEvents'[i].type = playlistEvents[i].type
  BY <1>1, EventsGrow DEF Version
<1>6. Covers'
  <2>1. \A i \in 1..taken : i \in 1..Len(playlistEvents)
    BY <1>1, <1>4
  <2>2. QED
    BY <1>2, <1>4, <1>5, <2>1 DEF Covers
<1>7. ASSUME DeletionWritten(doc.version)' PROVE DeletionWritten(doc.version)
  <2>1. Len(playlistEvents') = taken /\ taken # 0
    BY <1>2, <1>7 DEF DeletionWritten
  <2>2. Len(playlistEvents) = taken /\ taken \in 1..Len(playlistEvents)
    BY <1>1, <1>4, <2>1, EventsGrow
  <2>3. QED
    BY <1>2, <1>5, <1>7, <2>1, <2>2 DEF DeletionWritten
<1>8. WrittenFor'
  <2> SUFFICES ASSUME doc.content.exists PROVE WrittenFor'
    BY <1>2 DEF WrittenFor
  <2>1. PICK i \in 1..Len(playlistEvents) :
          playlistEvents[i].type # "deleted" /\ doc.version = Version(i) /\ (i \in late \/ ~DeletionWritten(doc.version))
    BY <1>4 DEF WrittenFor
  <2>2. i \in 1..Len(playlistEvents') /\ playlistEvents'[i].type # "deleted" /\ doc'.version = Version(i)'
    BY <1>2, <1>5, <2>1
  <2>3. i \in late' \/ ~DeletionWritten(doc.version)'
    BY <1>2, <1>7, <2>1
  <2>4. QED
    BY <2>2, <2>3 DEF WrittenFor
<1>9. taken' \in Nat /\ taken' <= Len(playlistEvents')
  BY <1>1, <1>2, EventsGrow DEF IndexInv
<1>10. QED
  BY <1>2, <1>3, <1>6, <1>8, <1>9 DEF IndexInv, DocSound

\* What the indexers assign.
LEMMA IndexFields ==
  /\ Absent \in Contents /\ Absent.exists = FALSE
  /\ NoJob \in JobRecord /\ NoJob.n = 0 /\ NoJob.read = FALSE /\ NoJob.content = Absent
  /\ PlaylistInv => PlaylistDoc \in Contents
<1>1. FALSE \in Flags /\ "" \in RowTitles
  BY DEF Flags, RowTitles
<1>2. Absent \in Contents /\ Absent.exists = FALSE
  BY <1>1 DEF Absent, Contents
<1>3. NoJob \in JobRecord /\ NoJob.n = 0 /\ NoJob.read = FALSE /\ NoJob.content = Absent
  BY <1>1, <1>2 DEF NoJob, JobRecord
<1>4. ASSUME PlaylistInv PROVE PlaylistDoc \in Contents
  <2>1. playlist.exists \in Flags /\ playlist.title \in RowTitles
    BY <1>4 DEF PlaylistInv, PlaylistTypes, RowRecord
  <2>2. Cardinality(Listed(playlist)) \in Nat
    <3>1. Listed(playlist) \subseteq Songs
      BY DEF Listed
    <3>2. QED
      BY <3>1, PlaylistAssumption, FS_Subset, FS_CardinalityType
  <2>3. QED
    BY <2>1, <2>2 DEF PlaylistDoc, Contents
<1>5. QED
  BY <1>2, <1>3, <1>4

\* What one consumer holds, and how the positions it may commit move.
Taker(x) ==
  /\ job[x] \in JobRecord /\ JobSound(job[x]) /\ job[x].n \in Nat /\ job[x].content \in Contents
  /\ taken \in Nat /\ taken <= Len(playlistEvents) /\ doc \in DocRecord /\ doc.version \in Nat
  /\ Covers /\ WrittenFor
Passes(n) == taken' = taken \/ (taken' = n /\ n = taken + 1)
SameEvents == playlistEvents' = playlistEvents

\* A write leaves the document sound, whether or not the event is committed.
LEMMA AppliedKeeps ==
  ASSUME PlaylistInv, NEW x \in Indexers, Taker(x), job[x].read, Applied(x), Passes(job[x].n), SameEvents,
         deadEvents' = deadEvents
  PROVE  doc' \in DocRecord /\ DocSound'
<1>1. PICK n : n = job[x].n
  OBVIOUS
<1>2. PICK v : v = Version(n)
  OBVIOUS
<1>3. PICK c : c = job[x].content
  OBVIOUS
<1>4. PICK l : l = Len(playlistEvents)
  OBVIOUS
<1>5. /\ n \in 1..l /\ l \in Nat /\ n \in Nat /\ v \in Nat /\ c \in Contents /\ n <= taken + 1
      /\ c.exists => playlistEvents[n].type # "deleted"
  <2>1. n \in Nat /\ l \in Nat /\ n # 0 /\ n <= l
    BY <1>1, <1>4, VersionsTyped DEF Taker, JobSound
  <2>2. n \in 1..l
    BY <2>1
  <2>3. v \in Nat
    BY <1>2, <1>4, <2>2, VersionsTyped
  <2>4. c \in Contents /\ n <= taken + 1 /\ (c.exists => playlistEvents[n].type # "deleted")
    BY <1>1, <1>3 DEF Taker, JobSound
  <2>5. QED
    BY <2>1, <2>2, <2>3, <2>4
<1>6. taken \in Nat /\ taken <= l /\ doc \in DocRecord /\ doc.version \in Nat /\ Covers /\ WrittenFor
  BY <1>4 DEF Taker
<1>7. /\ doc' = IF v >= doc.version THEN [version |-> v, content |-> c] ELSE doc
      /\ late' = IF n <= taken THEN late \cup {n} ELSE late
  BY <1>1, <1>2, <1>3 DEF Applied, Apply
<1>8. doc' \in DocRecord /\ v <= doc'.version /\ doc.version <= doc'.version /\ doc'.version \in Nat
  BY <1>5, <1>6, <1>7 DEF DocRecord
<1>9. \A i : Version(i)' = Version(i)
  BY DEF Version, SameEvents
<1>10. \A i \in 1..taken' : i \in 1..taken \/ i = n
  BY <1>1, <1>5, <1>6 DEF Passes
<1>11. Covers'
  <2> SUFFICES ASSUME NEW i \in 1..taken' PROVE i \in deadEvents \/ Version(i) <= doc'.version
    BY <1>9 DEF Covers
  <2>1. CASE i = n
    BY <1>2, <1>8, <2>1
  <2>2. CASE i \in 1..taken
    <3>1. i \in deadEvents \/ Version(i) <= doc.version
      BY <1>6, <2>2 DEF Covers
    <3>2. i \in 1..Len(playlistEvents)
      BY <1>4, <1>5, <1>6, <2>2
    <3>3. Version(i) \in Nat
      BY <3>2, VersionsTyped
    <3>4. QED
      BY <1>6, <1>8, <3>1, <3>3
  <2>3. QED
    BY <1>10, <2>1, <2>2
<1>12. ASSUME NEW u, DeletionWritten(u)'
       PROVE  taken' = l /\ playlistEvents[l].type = "deleted" /\ l \notin deadEvents /\ Version(l) = u /\ l # 0
  BY <1>4, <1>9, <1>12 DEF DeletionWritten, SameEvents
<1>13. ASSUME v >= doc.version PROVE WrittenFor'
  <2>1. doc'.version = v /\ doc'.content = c
    BY <1>7, <1>13
  <2> SUFFICES ASSUME c.exists PROVE WrittenFor'
    BY <2>1, Zenon DEF WrittenFor
  <2>2. n \in late' \/ ~DeletionWritten(doc.version)'
    <3>1. CASE n <= taken
      BY <1>7, <3>1
    <3>2. CASE n = taken + 1
      <4>1. taken' # l \/ n = l
        BY <1>1, <1>5, <1>6, <3>2 DEF Passes
      <4>2. QED
        BY <1>5, <1>12, <4>1
    <3>3. QED
      BY <1>5, <1>6, <3>1, <3>2
  <2>3. n \in 1..Len(playlistEvents') /\ playlistEvents'[n].type # "deleted" /\ doc'.version = Version(n)'
    BY <1>2, <1>4, <1>5, <1>9, <2>1 DEF SameEvents
  <2>4. QED
    BY <2>2, <2>3 DEF WrittenFor
<1>14. ASSUME ~(v >= doc.version) PROVE WrittenFor'
  <2>1. doc' = doc /\ v < doc.version
    BY <1>5, <1>6, <1>7, <1>14
  <2> SUFFICES ASSUME doc.content.exists PROVE WrittenFor'
    BY <2>1, Zenon DEF WrittenFor
  <2>2. PICK i \in 1..Len(playlistEvents) :
          playlistEvents[i].type # "deleted" /\ doc.version = Version(i) /\ (i \in late \/ ~DeletionWritten(doc.version))
    BY <1>6 DEF WrittenFor
  <2>3. ASSUME DeletionWritten(doc.version)' PROVE DeletionWritten(doc.version)
    <3>1. taken' = l /\ playlistEvents[l].type = "deleted" /\ l \notin deadEvents /\ Version(l) = doc.version /\ l # 0
      BY <1>12, <2>1, <2>3
    <3>2. taken' # n
      BY <1>2, <1>5, <1>6, <2>1, <3>1
    <3>3. taken' = taken
      BY <1>1, <3>2 DEF Passes
    <3>4. QED
      BY <1>4, <3>1, <3>3 DEF DeletionWritten
  <2>4. i \in late' \/ ~DeletionWritten(doc.version)'
    BY <1>7, <2>2, <2>3
  <2>5. i \in 1..Len(playlistEvents') /\ playlistEvents'[i].type # "deleted" /\ doc'.version = Version(i)'
    BY <1>9, <2>1, <2>2 DEF SameEvents
  <2>6. QED
    BY <2>4, <2>5 DEF WrittenFor
<1>15. QED
  BY <1>8, <1>11, <1>13, <1>14 DEF DocSound

\* A document that stays is sound after a step that passes a dead letter, or
\* none.
LEMMA DocStays ==
  ASSUME PlaylistInv, NEW x \in Indexers, Taker(x), SameEvents, doc' = doc, late' = late,
         \/ taken' = taken /\ deadEvents' = deadEvents
         \/ taken' = taken + 1 /\ deadEvents' = deadEvents \cup {taken + 1}
  PROVE  doc' \in DocRecord /\ DocSound'
<1>1. taken \in Nat /\ taken <= Len(playlistEvents) /\ doc \in DocRecord /\ Covers /\ WrittenFor
  BY DEF Taker
<1>2. \A i : Version(i)' = Version(i)
  BY DEF Version, SameEvents
<1>3. \A i \in 1..taken' : i \in 1..taken \/ i \in deadEvents'
  BY <1>1
<1>4. Covers'
  BY <1>1, <1>2, <1>3 DEF Covers
<1>5. ASSUME DeletionWritten(doc.version)' PROVE DeletionWritten(doc.version)
  <2>1. /\ taken' = Len(playlistEvents) /\ taken' # 0 /\ playlistEvents[taken'].type = "deleted" /\ taken' \notin deadEvents'
        /\ Version(taken') = doc.version
    BY <1>2, <1>5 DEF DeletionWritten, SameEvents
  <2>2. taken' = taken
    BY <2>1
  <2>3. QED
    BY <2>1, <2>2 DEF DeletionWritten
<1>6. WrittenFor'
  <2> SUFFICES ASSUME doc.content.exists PROVE WrittenFor'
    BY DEF WrittenFor
  <2>1. PICK i \in 1..Len(playlistEvents) :
          playlistEvents[i].type # "deleted" /\ doc.version = Version(i) /\ (i \in late \/ ~DeletionWritten(doc.version))
    BY <1>1 DEF WrittenFor
  <2>2. i \in late' \/ ~DeletionWritten(doc.version)'
    BY <1>5, <2>1
  <2>3. i \in 1..Len(playlistEvents') /\ playlistEvents'[i].type # "deleted" /\ doc'.version = Version(i)'
    BY <1>2, <2>1 DEF SameEvents
  <2>4. QED
    BY <2>2, <2>3 DEF WrittenFor
<1>7. QED
  BY <1>1, <1>4, <1>6 DEF DocSound

IndexerStep(x) == Deliver(x) \/ ReadPlaylist(x) \/ WriteDoc(x) \/ WriteFails(x) \/ DeadLetterEvent(x)

\* A step of an indexer.
LEMMA IndexKeeps ==
  ASSUME PlaylistInv, IndexInv, NEW x \in Indexers, IndexerStep(x)
  PROVE  PlaylistInv' /\ IndexInv'
<1>1. playlist' = playlist /\ playlistEvents' = playlistEvents /\ playlistReq' = playlistReq /\ stamp' = stamp
  BY DEF IndexerStep, Deliver, ReadPlaylist, WriteDoc, WriteFails, DeadLetterEvent, playlistVars
<1>2. PlaylistInv'
  BY <1>1 DEF PlaylistInv, PlaylistTypes, ReqFits, ReqHolds, Open, Locks, OneLock, Distinct, DeletedIsLast
<1>3. PICK j : j = job[x]
  OBVIOUS
<1>4. PICK l : l = Len(playlistEvents)
  OBVIOUS
<1>5. /\ taken \in Nat /\ taken <= l /\ l \in Nat /\ job \in [Indexers -> JobRecord] /\ \A o \in Indexers : JobSound(job[o])
      /\ j \in JobRecord /\ JobSound(j) /\ j.n \in Nat /\ j.n <= l /\ j.n <= taken + 1
  <2>1. l \in Nat
    BY <1>4, VersionsTyped
  <2>2. /\ taken \in Nat /\ taken <= l /\ job \in [Indexers -> JobRecord] /\ \A o \in Indexers : JobSound(job[o])
        /\ j \in JobRecord
    BY <1>3, <1>4 DEF IndexInv
  <2>3. JobSound(j) /\ j.n \in Nat
    BY <1>3, <2>2 DEF JobRecord
  <2>4. j.n <= l /\ j.n <= taken + 1
    BY <1>4, <2>3 DEF JobSound
  <2>5. QED
    BY <2>1, <2>2, <2>3, <2>4
<1>6. Taker(x)
  BY <1>3, <1>4, <1>5 DEF IndexInv, Taker, DocSound, JobRecord, DocRecord
<1>7. SameEvents
  BY <1>1 DEF SameEvents
<1>8. ASSUME NEW new \in JobRecord, job' = [job EXCEPT ![x] = new], JobSound(new), Passes(j.n),
             doc' \in DocRecord /\ DocSound'
      PROVE  IndexInv'
  <2>1. job' \in [Indexers -> JobRecord] /\ \A o \in Indexers : JobSound(job'[o])
    BY <1>5, <1>8
  <2>2. taken' \in Nat /\ taken <= taken' /\ taken' <= l
    BY <1>5, <1>8 DEF Passes
  <2>3. \A o \in Indexers : JobSound(job[o])'
    <3> SUFFICES ASSUME NEW o \in Indexers PROVE JobSound(job[o])'
      OBVIOUS
    <3>1. PICK k : k = job'[o]
      OBVIOUS
    <3>2. k.n \in Nat /\ JobSound(k)
      BY <2>1, <3>1 DEF JobRecord
    <3>3. k.n <= taken' + 1
      BY <1>5, <2>2, <3>2 DEF JobSound
    <3>4. QED
      BY <1>1, <3>1, <3>2, <3>3 DEF JobSound
  <2>4. QED
    BY <1>1, <1>4, <1>8, <2>1, <2>2, <2>3 DEF IndexInv
<1>9. CASE Deliver(x)
  <2>1. PICK new : new = [j EXCEPT !.n = taken + 1]
    OBVIOUS
  <2>2. /\ job' = [job EXCEPT ![x] = new] /\ doc' = doc /\ taken' = taken /\ late' = late /\ deadEvents' = deadEvents
        /\ j = NoJob /\ taken < l
    BY <1>3, <1>4, <1>9, <2>1 DEF Deliver
  <2>3. new \in JobRecord /\ new.n = taken + 1 /\ new.content = j.content
    BY <1>5, <2>1 DEF JobRecord
  <2>4. j.content.exists = FALSE
    BY <2>2, IndexFields
  <2>5. JobSound(new)
    BY <1>4, <1>5, <2>2, <2>3, <2>4 DEF JobSound
  <2>6. doc' \in DocRecord /\ DocSound'
    BY <1>6, <1>7, <2>2, DocStays
  <2>7. QED
    BY <1>2, <1>8, <2>2, <2>3, <2>5, <2>6 DEF Passes
<1>10. CASE ReadPlaylist(x)
  <2>1. PICK c : c = IF playlistEvents[j.n].type = "deleted" THEN Absent ELSE PlaylistDoc
    OBVIOUS
  <2>2. PICK new : new = [j EXCEPT !.read = TRUE, !.content = c]
    OBVIOUS
  <2>3. /\ job' = [job EXCEPT ![x] = new] /\ doc' = doc /\ taken' = taken /\ late' = late /\ deadEvents' = deadEvents
        /\ j.n # 0
    BY <1>3, <1>10, <2>1, <2>2 DEF ReadPlaylist
  <2>4. c \in Contents /\ (c.exists => playlistEvents[j.n].type # "deleted")
    BY <2>1, IndexFields
  <2>5. TRUE \in Flags
    BY DEF Flags
  <2>6. new \in JobRecord /\ new.n = j.n /\ new.content = c
    BY <1>5, <2>2, <2>4, <2>5 DEF JobRecord
  <2>7. JobSound(new)
    BY <1>4, <1>5, <2>3, <2>4, <2>6 DEF JobSound
  <2>8. doc' \in DocRecord /\ DocSound'
    BY <1>6, <1>7, <2>3, DocStays
  <2>9. QED
    BY <1>2, <1>8, <2>3, <2>6, <2>7, <2>8 DEF Passes
<1>11. JobSound(NoJob)
  BY <1>4, <1>5, IndexFields DEF JobSound
<1>12. ASSUME CommitEvent(x) PROVE job' = [job EXCEPT ![x] = NoJob] /\ Passes(j.n)
  BY <1>3, <1>12 DEF CommitEvent, Passes
<1>13. CASE WriteDoc(x)
  <2>1. job[x].read /\ Applied(x) /\ CommitEvent(x) /\ deadEvents' = deadEvents
    BY <1>13 DEF WriteDoc
  <2>2. doc' \in DocRecord /\ DocSound'
    BY <1>3, <1>6, <1>7, <1>12, <2>1, AppliedKeeps
  <2>3. QED
    BY <1>2, <1>8, <1>11, <1>12, <2>1, <2>2, IndexFields
<1>14. CASE WriteFails(x)
  <2>1. PICK new : new = [NoJob EXCEPT !.n = j.n]
    OBVIOUS
  <2>2. /\ job' = [job EXCEPT ![x] = new] /\ taken' = taken /\ deadEvents' = deadEvents /\ job[x].read
        /\ Applied(x) \/ (doc' = doc /\ late' = late)
    BY <1>3, <1>14, <2>1 DEF WriteFails
  <2>3. new \in JobRecord /\ new.n = j.n /\ new.content = Absent /\ new.read = FALSE
    BY <1>5, <2>1, IndexFields DEF JobRecord
  <2>4. JobSound(new)
    BY <1>4, <1>5, <2>3, IndexFields DEF JobSound
  <2>5. Passes(j.n) /\ Passes(job[x].n)
    BY <1>3, <2>2 DEF Passes
  <2>6. doc' \in DocRecord /\ DocSound'
    BY <1>6, <1>7, <2>2, <2>5, AppliedKeeps, DocStays
  <2>7. QED
    BY <1>2, <1>8, <2>2, <2>3, <2>4, <2>5, <2>6
<1>15. CASE DeadLetterEvent(x)
  <2>1. /\ CommitEvent(x) /\ doc' = doc /\ late' = late
        /\ deadEvents' = IF j.n = taken + 1 THEN deadEvents \cup {j.n} ELSE deadEvents
        /\ taken' = IF j.n = taken + 1 THEN j.n ELSE taken
    BY <1>3, <1>15 DEF DeadLetterEvent, CommitEvent
  <2>2. \/ taken' = taken /\ deadEvents' = deadEvents
        \/ taken' = taken + 1 /\ deadEvents' = deadEvents \cup {taken + 1}
    BY <2>1
  <2>3. doc' \in DocRecord /\ DocSound'
    BY <1>6, <1>7, <2>1, <2>2, DocStays
  <2>4. QED
    BY <1>2, <1>8, <1>11, <1>12, <2>1, <2>3, IndexFields
<1>16. QED
  BY <1>9, <1>10, <1>13, <1>14, <1>15 DEF IndexerStep

\* The invariants of the playlist and of its search index, together.
THEOREM PlaylistInvariance == PlaylistIndexSpec => [](PlaylistInv /\ IndexInv)
<1>1. PlaylistInit /\ IndexInit => PlaylistInv /\ IndexInv
  <2> SUFFICES ASSUME PlaylistInit, IndexInit PROVE PlaylistInv /\ IndexInv
    OBVIOUS
  <2>1. /\ playlist = Missing /\ playlistEvents = <<>> /\ stamp = 1
        /\ playlistReq \in [PlaylistReqs -> PlaylistReqRecord] /\ \A r \in PlaylistReqs : playlistReq[r] = Quiet
    BY NewPlaylistFields DEF PlaylistInit
  <2>2. ReqFits(Quiet) /\ ReqHolds(Quiet) /\ ~Locks(Quiet)
    BY <2>1, NewPlaylistFields DEF ReqFits, ReqHolds, Open, Locks
  <2>3. Len(playlistEvents) = 0 /\ playlistEvents \in Seq(PlaylistEventRecord) /\ stamp \in Stamps
    BY <2>1, PlaylistAssumption DEF Stamps
  <2>4. PlaylistInv
    BY <2>1, <2>2, <2>3, NewPlaylistFields DEF PlaylistInv, PlaylistTypes, OneLock, DeletedIsLast
  <2>5. taken = 0 /\ job \in [Indexers -> JobRecord] /\ \A x \in Indexers : job[x] = NoJob
    BY IndexFields DEF IndexInit
  <2>6. JobSound(NoJob)
    BY <2>3, <2>5, IndexFields DEF JobSound
  <2>7. doc \in DocRecord /\ doc.content.exists = FALSE
    <3>1. doc = [version |-> 0, content |-> Absent]
      BY DEF IndexInit
    <3>2. QED
      BY <3>1, IndexFields DEF DocRecord
  <2>8. IndexInv
    BY <2>3, <2>5, <2>6, <2>7 DEF IndexInv, DocSound, Covers, WrittenFor
  <2>9. QED
    BY <2>4, <2>8
<1>2. PlaylistInv /\ IndexInv /\ [PlaylistIndexNext]_playlistIndexVars => (PlaylistInv /\ IndexInv)'
  <2> SUFFICES ASSUME PlaylistInv, IndexInv, [PlaylistIndexNext]_playlistIndexVars
               PROVE  PlaylistInv' /\ IndexInv'
    OBVIOUS
  <2>1. CASE PlaylistNext /\ UNCHANGED indexVars
    BY <2>1, PlaylistKeeps, IndexSurvives
  <2>2. CASE \E x \in Indexers : IndexerStep(x)
    BY <2>2, IndexKeeps
  <2>3. CASE UNCHANGED playlistIndexVars
    BY <2>3 DEF playlistIndexVars, playlistVars, indexVars, PlaylistInv, PlaylistTypes, ReqFits, ReqHolds, Open, Locks,
                OneLock, Distinct, DeletedIsLast, IndexInv, JobSound, DocSound, Covers, WrittenFor, DeletionWritten, Version
  <2>4. QED
    BY <2>1, <2>2, <2>3 DEF PlaylistIndexNext, IndexerStep
<1>3. QED
  BY <1>1, <1>2, PTL DEF PlaylistIndexSpec

\* The row without the time of its last change, which the events do not carry.
Content(p) == [p EXCEPT !.updated = 0]

\* What a request is about to commit is what its statement made of the row as
\* it still is.
MadeFrom(p, q) ==
  \/ q.op = "delete" /\ q.new = Missing
  \/ q.op = "rename" /\ q.new = UpdateTitle(p, q)
  \/ q.op = "add" /\ q.arg \in Songs /\ q.new = AppendTrack(p, q)
  \/ q.op = "remove" /\ q.arg \in Songs /\ q.new = DropTrack(p, q)
  \/ q.op = "reorder" /\ q.new = SetPositions(p, q)

CommitsMade == \A r \in PlaylistReqs : playlistReq[r].pc = "commit" => MadeFrom(playlist, playlistReq[r])

\* R are the playlists a consumer of the events goes through, up to the row.
GoesThrough(R) ==
  /\ R[0] = Missing
  /\ \A i \in 1..Len(playlistEvents) : R[i] = Replay(R[i - 1], playlistEvents[i])
  /\ R[Len(playlistEvents)] = Content(playlist)

ReplayInv == CommitsMade /\ \E R : GoesThrough(R)

\* A playlist that is missing has never changed.
LEMMA MissingContent == Content(Missing) = Missing
<1>1. Missing.updated = 0
  BY DEF Missing
<1>2. QED
  BY <1>1, NewPlaylistFields DEF Content, RowRecord

\* The event a request writes makes of the row before what it commits.
LEMMA EventTells ==
  ASSUME NEW p \in RowRecord, NEW q, q.new \in RowRecord, MadeFrom(p, q)
  PROVE  Replay(Content(p), Announce(q)) = Content(q.new)
<1>1. p.pos \in Positions /\ p.pos \in [Songs -> Nat] /\ 0 \in Stamps
  BY PlaylistAssumption DEF RowRecord, Positions, Stamps
<1>2. Content(p) = [exists |-> p.exists, title |-> p.title, pos |-> p.pos, updated |-> 0]
  BY DEF Content, RowRecord
<1>3. Content(q.new) = [exists |-> q.new.exists, title |-> q.new.title, pos |-> q.new.pos, updated |-> 0]
  BY DEF Content, RowRecord
<1>4. CASE q.op = "delete" /\ q.new = Missing
  <2>1. Announce(q).type = "deleted"
    BY <1>4 DEF Announce, Event
  <2>2. Content(Missing) = Missing
    BY MissingContent
  <2>3. QED
    BY <1>4, <2>1, <2>2 DEF Replay
<1>5. CASE q.op = "rename" /\ q.new = UpdateTitle(p, q)
  <2>1. Announce(q).type = "updated" /\ Announce(q).arg = q.arg
    BY <1>5 DEF Announce, Event
  <2>2. q.new.exists = p.exists /\ q.new.title = q.arg /\ q.new.pos = p.pos
    BY <1>5 DEF UpdateTitle, RowRecord
  <2>3. Replay(Content(p), Announce(q)) = [Content(p) EXCEPT !.title = q.arg]
    BY <2>1 DEF Replay
  <2>4. QED
    BY <1>2, <1>3, <2>2, <2>3
<1>6. CASE q.op = "add" /\ q.arg \in Songs /\ q.new = AppendTrack(p, q)
  <2> DEFINE n == NextPosition(p)
             f == [p.pos EXCEPT ![q.arg] = n]
  <2>1. q.new = [p EXCEPT !.pos = f, !.updated = q.at]
    BY <1>6 DEF AppendTrack, RowRecord
  <2>2. f[q.arg] = n
    BY <1>1, <1>6
  <2> HIDE DEF n
  <2>3. q.new.exists = p.exists /\ q.new.title = p.title /\ q.new.pos = f
    BY <2>1 DEF RowRecord
  <2>4. Announce(q).type = "track_added" /\ Announce(q).arg = <<q.arg, q.new.pos[q.arg]>>
    BY <1>6 DEF Announce, Event
  <2>5. Announce(q).arg[1] = q.arg /\ Announce(q).arg[2] = n
    BY <2>2, <2>3, <2>4
  <2>6. Replay(Content(p), Announce(q)) = [Content(p) EXCEPT !.pos[q.arg] = n]
    BY <2>4, <2>5 DEF Replay
  <2>7. [Content(p) EXCEPT !.pos[q.arg] = n] = [exists |-> p.exists, title |-> p.title, pos |-> f, updated |-> 0]
    BY <1>2
  <2>8. QED
    BY <1>3, <2>3, <2>6, <2>7
<1>7. CASE q.op = "remove" /\ q.arg \in Songs /\ q.new = DropTrack(p, q)
  <2> DEFINE f == [p.pos EXCEPT ![q.arg] = 0]
  <2>1. q.new = [p EXCEPT !.pos = f, !.updated = q.at]
    BY <1>7 DEF DropTrack, RowRecord
  <2>2. q.new.exists = p.exists /\ q.new.title = p.title /\ q.new.pos = f
    BY <2>1 DEF RowRecord
  <2>3. Announce(q).type = "track_removed" /\ Announce(q).arg = q.arg
    BY <1>7 DEF Announce, Event
  <2>4. Replay(Content(p), Announce(q)) = [Content(p) EXCEPT !.pos[q.arg] = 0]
    BY <2>3 DEF Replay
  <2>5. [Content(p) EXCEPT !.pos[q.arg] = 0] = [exists |-> p.exists, title |-> p.title, pos |-> f, updated |-> 0]
    BY <1>2
  <2>6. QED
    BY <1>3, <2>2, <2>4, <2>5
<1>8. CASE q.op = "reorder" /\ q.new = SetPositions(p, q)
  <2> DEFINE f == [t \in Songs |-> IF \E i \in 1..Len(q.arg) : q.arg[i] = t
                                   THEN CHOOSE i \in 1..Len(q.arg) : q.arg[i] = t ELSE p.pos[t]]
  <2>1. Announce(q).type = "tracks_reordered" /\ Announce(q).arg = q.arg
    BY <1>8 DEF Announce, Event
  <2>2. Replay(Content(p), Announce(q)) = SetPositions(Content(p), [arg |-> q.arg, at |-> 0])
    BY <2>1 DEF Replay
  <2>3. SetPositions(Content(p), [arg |-> q.arg, at |-> 0]) = [Content(p) EXCEPT !.updated = 0, !.pos = f]
    BY <1>2 DEF SetPositions
  <2>4. q.new = [p EXCEPT !.updated = q.at, !.pos = f]
    BY <1>8 DEF SetPositions, RowRecord
  <2>5. PICK g : g = f
    OBVIOUS
  <2>6. /\ q.new = [p EXCEPT !.updated = q.at, !.pos = g]
        /\ Replay(Content(p), Announce(q)) = [Content(p) EXCEPT !.updated = 0, !.pos = g]
    BY <2>2, <2>3, <2>4, <2>5
  <2> HIDE DEF f
  <2>7. q.new.exists = p.exists /\ q.new.title = p.title /\ q.new.pos = g
    BY <2>6 DEF RowRecord
  <2>8. [Content(p) EXCEPT !.updated = 0, !.pos = g] = [exists |-> p.exists, title |-> p.title, pos |-> g, updated |-> 0]
    <3>1. Content(p) \in RowRecord /\ g \in Positions
      BY <1>1, <1>2, <2>7 DEF RowRecord
    <3>2. PICK x : x = [Content(p) EXCEPT !.updated = 0, !.pos = g]
      OBVIOUS
    <3>3. /\ x \in RowRecord /\ x.exists = Content(p).exists /\ x.title = Content(p).title
          /\ x.pos = g /\ x.updated = 0
      BY <1>1, <3>1, <3>2 DEF RowRecord
    <3>4. x = [exists |-> x.exists, title |-> x.title, pos |-> x.pos, updated |-> x.updated]
      BY <3>3 DEF RowRecord
    <3>5. Content(p).exists = p.exists /\ Content(p).title = p.title
      BY <1>2
    <3>6. QED
      BY <3>2, <3>3, <3>4, <3>5
  <2>9. QED
    BY <1>3, <2>6, <2>7, <2>8
<1>9. QED
  BY <1>4, <1>5, <1>6, <1>7, <1>8 DEF MadeFrom

\* One more event, and the consumer has the new row.
LEMMA GoesFurther ==
  ASSUME PlaylistInv, ReplayInv, NEW e, playlistEvents' = Append(playlistEvents, e),
         Replay(Content(playlist), e) = Content(playlist')
  PROVE  \E R : GoesThrough(R)'
<1> DEFINE n == Len(playlistEvents)
<1>1. PICK R : GoesThrough(R)
  BY DEF ReplayInv
<1>2. PICK S : S = [i \in 0..(n + 1) |-> IF i = n + 1 THEN Content(playlist') ELSE R[i]]
  OBVIOUS
<1>3. playlistEvents \in Seq(PlaylistEventRecord) /\ n \in Nat
  BY DEF PlaylistInv, PlaylistTypes
<1>4. /\ Len(playlistEvents') = n + 1 /\ playlistEvents'[n + 1] = e
      /\ \A i \in 1..n : playlistEvents'[i] = playlistEvents[i]
  BY <1>3
<1> HIDE DEF n
<1>5. S[n + 1] = Content(playlist') /\ \A i \in 0..n : S[i] = R[i]
  BY <1>2, <1>3
<1>6. /\ R[0] = Missing /\ R[n] = Content(playlist)
      /\ \A i \in 1..n : R[i] = Replay(R[i - 1], playlistEvents[i])
  BY <1>1 DEF GoesThrough, n
<1>7. S[0] = Missing
  BY <1>3, <1>5, <1>6
<1>8. ASSUME NEW i \in 1..(n + 1) PROVE S[i] = Replay(S[i - 1], playlistEvents'[i])
  <2>1. CASE i = n + 1
    <3>1. S[i - 1] = Content(playlist)
      BY <1>3, <1>5, <1>6, <2>1
    <3>2. QED
      BY <1>4, <1>5, <2>1, <3>1
  <2>2. CASE i # n + 1
    <3>1. i \in 1..n /\ i - 1 \in 0..n /\ i \in 0..n
      BY <1>3, <2>2
    <3>2. QED
      BY <1>4, <1>5, <1>6, <3>1
  <2>3. QED
    BY <2>1, <2>2
<1>9. /\ S[0] = Missing
      /\ \A i \in 1..Len(playlistEvents') : S[i] = Replay(S[i - 1], playlistEvents'[i])
      /\ S[Len(playlistEvents')] = Content(playlist')
  BY <1>4, <1>5, <1>7, <1>8
<1>10. GoesThrough(S)'
  BY <1>9 DEF GoesThrough, Replay, Content
<1>11. QED
  BY <1>10

\* Every step of a request keeps it: between its statement and its commit the
\* row is locked.
LEMMA ReplayKeeps ==
  ASSUME PlaylistInv, ReplayInv, PlaylistNext
  PROVE  ReplayInv'
<1>1. PICK r \in PlaylistReqs : PlaylistRequest(r)
  BY DEF PlaylistNext
<1>2. playlistReq \in [PlaylistReqs -> PlaylistReqRecord]
  BY DEF PlaylistInv, PlaylistTypes
<1>3. ASSUME RowsUnchanged, NEW q, playlistReq' = [playlistReq EXCEPT ![r] = q],
             q.pc = "commit" => MadeFrom(playlist, q)
      PROVE  ReplayInv'
  <2>1. playlist' = playlist /\ playlistEvents' = playlistEvents
    BY <1>3 DEF RowsUnchanged
  <2>2. ASSUME NEW o \in PlaylistReqs, playlistReq'[o].pc = "commit" PROVE MadeFrom(playlist, playlistReq'[o])
    <3>1. playlistReq'[o] = IF o = r THEN q ELSE playlistReq[o]
      BY <1>2, <1>3
    <3>2. QED
      BY <1>3, <2>2, <3>1 DEF ReplayInv, CommitsMade
  <2>3. CommitsMade'
    BY <2>1, <2>2 DEF CommitsMade
  <2>4. PICK R : GoesThrough(R)
    BY DEF ReplayInv
  <2>5. GoesThrough(R)'
    BY <2>1, <2>4 DEF GoesThrough
  <2>6. QED
    BY <2>3, <2>5 DEF ReplayInv
<1>4. ASSUME NEW st, RowsUnchanged, playlistReq' = [playlistReq EXCEPT ![r] = Reply(st)] PROVE ReplayInv'
  <2>1. Reply(st).pc = "answer"
    BY DEF Reply, Quiet
  <2>2. QED
    BY <1>3, <1>4, <2>1
<1>5. ASSUME NEW op, RowsUnchanged, playlistReq' = [playlistReq EXCEPT ![r] = Done(op)] PROVE ReplayInv'
  BY <1>4, <1>5 DEF Done
<1>6. ASSUME \A o \in PlaylistReqs : playlistReq'[o].pc # "commit" PROVE CommitsMade'
  BY <1>6 DEF CommitsMade
<1>7. ASSUME NEW title \in Titles, Create(r, title) PROVE ReplayInv'
  <2> DEFINE e == Event("created", title, stamp)
  <2>1. /\ playlist = Missing /\ playlistEvents = <<>> /\ playlistEvents' = <<e>>
        /\ playlist' = [Missing EXCEPT !.exists = TRUE, !.title = title, !.updated = stamp]
        /\ playlistReq' = [playlistReq EXCEPT ![r] = Done("create")]
    BY <1>7 DEF Create, Go
  <2>2. playlistEvents' = Append(playlistEvents, e)
    BY <2>1
  <2>3. Replay(Content(playlist), e) = Content(playlist')
    <3>1. e.type = "created" /\ e.arg = title
      BY DEF Event
    <3>2. Replay(Content(Missing), e) = [Content(Missing) EXCEPT !.exists = TRUE, !.title = title]
      BY <3>1 DEF Replay
    <3>3. QED
      BY <2>1, <3>2 DEF Content, Missing
  <2>4. \A o \in PlaylistReqs : playlistReq'[o].pc # "commit"
    <3>1. \A o \in PlaylistReqs : playlistReq[o].pc # "commit"
      BY <2>1, NewPlaylistFields DEF PlaylistInv, ReqHolds, Locks
    <3>2. Done("create").pc = "answer"
      BY DEF Done, Reply, Quiet
    <3>3. QED
      BY <1>2, <2>1, <3>1, <3>2
  <2> HIDE DEF e
  <2>5. QED
    BY <1>6, <2>2, <2>3, <2>4, GoesFurther DEF ReplayInv
<1>8. CASE CommitPlaylist(r)
  <2> DEFINE q == playlistReq[r]
  <2>1. /\ q.pc = "commit" /\ playlist' = q.new /\ playlistEvents' = Append(playlistEvents, Announce(q))
        /\ playlistReq' = [playlistReq EXCEPT ![r] = Done(q.op)]
    BY <1>8 DEF CommitPlaylist, Go
  <2>2. q \in PlaylistReqRecord /\ q.new \in RowRecord /\ playlist \in RowRecord
    BY <1>2 DEF PlaylistReqRecord, PlaylistInv, PlaylistTypes
  <2>3. MadeFrom(playlist, q)
    BY <2>1 DEF ReplayInv, CommitsMade
  <2>4. Replay(Content(playlist), Announce(q)) = Content(playlist')
    BY <2>1, <2>2, <2>3, EventTells
  <2>5. \A o \in PlaylistReqs : playlistReq'[o].pc # "commit"
    <3>1. \A o \in PlaylistReqs \ {r} : playlistReq[o].pc # "commit"
      BY <2>1 DEF PlaylistInv, OneLock, Locks
    <3>2. Done(q.op).pc = "answer"
      BY DEF Done, Reply, Quiet
    <3>3. QED
      BY <1>2, <2>1, <3>1, <3>2
  <2>6. QED
    BY <1>6, <2>1, <2>4, <2>5, GoesFurther DEF ReplayInv
<1>9. CASE Execute(r)
  <2> DEFINE q == playlistReq[r]
  <2>1. RowsUnchanged /\ q.pc = "locked" /\ q \in PlaylistReqRecord /\ ReqFits(q)
    BY <1>2, <1>9 DEF Execute, PlaylistInv
  <2>2. (q.op \in {"add", "remove"} => q.arg \in Songs) /\ q.new = Missing
    BY <2>1 DEF ReqFits, Open
  <2>3. ASSUME NEW row, playlistReq' = [playlistReq EXCEPT ![r] = [q EXCEPT !.pc = "commit", !.new = row]],
               \/ q.op = "rename" /\ row = UpdateTitle(playlist, q)
               \/ q.op = "add" /\ row = AppendTrack(playlist, q)
               \/ q.op = "remove" /\ row = DropTrack(playlist, q)
               \/ q.op = "reorder" /\ row = SetPositions(playlist, q)
        PROVE  ReplayInv'
    <3>1. PICK new : new = [q EXCEPT !.pc = "commit", !.new = row]
      OBVIOUS
    <3>2. new.op = q.op /\ new.arg = q.arg /\ new.at = q.at /\ new.new = row
      BY <2>1, <3>1 DEF PlaylistReqRecord
    <3>3. MadeFrom(playlist, new)
      BY <2>2, <2>3, <3>2 DEF MadeFrom, UpdateTitle, AppendTrack, DropTrack, SetPositions
    <3>4. QED
      BY <1>3, <2>1, <2>3, <3>1, <3>3
  <2>4. ASSUME q.op = "delete", playlistReq' = [playlistReq EXCEPT ![r] = [q EXCEPT !.pc = "commit", !.at = stamp]]
        PROVE  ReplayInv'
    <3>1. PICK new : new = [q EXCEPT !.pc = "commit", !.at = stamp]
      OBVIOUS
    <3>2. new.op = q.op /\ new.new = q.new
      BY <2>1, <3>1 DEF PlaylistReqRecord
    <3>3. QED
      BY <1>3, <2>1, <2>2, <2>4, <3>1, <3>2 DEF MadeFrom
  <2>5. CASE q.op = "rename"
    BY <1>9, <2>3, <2>5 DEF Execute, Go
  <2>6. CASE q.op = "add"
    BY <1>5, <1>9, <2>1, <2>3, <2>6 DEF Execute, Go
  <2>7. CASE q.op = "remove"
    BY <1>5, <1>9, <2>1, <2>3, <2>7 DEF Execute, Go
  <2>8. CASE q.op = "reorder"
    BY <1>4, <1>9, <2>1, <2>3, <2>8 DEF Execute, Go
  <2>9. CASE q.op = "delete"
    BY <1>9, <2>4, <2>9 DEF Execute, Go
  <2>10. QED
    BY <1>9, <2>5, <2>6, <2>7, <2>8, <2>9 DEF Execute
<1>10. ASSUME NEW from, NEW q, RowsUnchanged, Go(r, from, q), q.pc # "commit" PROVE ReplayInv'
  BY <1>3, <1>10 DEF Go
<1>11. ASSUME NEW caller, NEW next, Owned(r, caller, next), RowsUnchanged, next.pc # "commit" PROVE ReplayInv'
  <2>1. \A err : Reply(FailStatus(err)).pc = "answer"
    BY DEF Reply, Quiet
  <2>2. QED
    BY <1>10, <1>11, <2>1 DEF Owned
<1>12. \A op, arg, at : Change(op, arg, at).pc = "begin" /\ Done(op).pc = "answer"
  BY DEF Change, Done, Reply, Quiet
<1>13. CASE RefuseTitle(r)
  BY <1>4, <1>13 DEF RefuseTitle, Go
<1>14. ASSUME NEW caller, NEW title, Rename(r, caller, title) PROVE ReplayInv'
  BY <1>11, <1>12, <1>14 DEF Rename
<1>15. ASSUME NEW caller, Delete(r, caller) PROVE ReplayInv'
  BY <1>11, <1>12, <1>15 DEF Delete
<1>16. ASSUME NEW caller, NEW t, AddTrack(r, caller, t) PROVE ReplayInv'
  <2>1. [Change("add", t, 0) EXCEPT !.pc = "catalog"].pc = "catalog"
    BY DEF Change, Quiet
  <2>2. QED
    BY <1>11, <1>16, <2>1 DEF AddTrack
<1>17. ASSUME NEW caller, NEW t, RemoveTrack(r, caller, t) PROVE ReplayInv'
  BY <1>11, <1>12, <1>17 DEF RemoveTrack
<1>18. ASSUME NEW caller, NEW order, Reorder(r, caller, order) PROVE ReplayInv'
  BY <1>11, <1>12, <1>18 DEF Reorder
<1>19. ASSUME NEW err, TrackExists(r, err) PROVE ReplayInv'
  <2>1. CASE err = "nil"
    <3>1. [playlistReq[r] EXCEPT !.pc = "begin", !.at = stamp].pc = "begin"
      BY <1>2 DEF PlaylistReqRecord
    <3>2. QED
      BY <1>10, <1>19, <2>1, <3>1 DEF TrackExists
  <2>2. CASE err # "nil"
    BY <1>4, <1>19, <2>2 DEF TrackExists, Go
  <2>3. QED
    BY <2>1, <2>2
<1>20. CASE LockPlaylist(r)
  <2>1. [playlistReq[r] EXCEPT !.pc = "locked"].pc = "locked"
    BY <1>2 DEF PlaylistReqRecord
  <2>2. /\ RowsUnchanged
        /\ \/ playlistReq' = [playlistReq EXCEPT ![r] = [playlistReq[r] EXCEPT !.pc = "locked"]]
           \/ \E st : playlistReq' = [playlistReq EXCEPT ![r] = Reply(st)]
           \/ playlistReq' = [playlistReq EXCEPT ![r] = Done("delete")]
    BY <1>20 DEF LockPlaylist, Go
  <2>3. CASE playlistReq' = [playlistReq EXCEPT ![r] = [playlistReq[r] EXCEPT !.pc = "locked"]]
    BY <1>3, <2>1, <2>2, <2>3
  <2>4. QED
    BY <1>4, <1>5, <2>2, <2>3
<1>21. CASE PlaylistTxFails(r)
  BY <1>4, <1>21 DEF PlaylistTxFails, Go
<1>22. CASE PlaylistAnswered(r)
  <2>1. Quiet.pc = "idle"
    BY DEF Quiet
  <2>2. QED
    BY <1>10, <1>22, <2>1 DEF PlaylistAnswered
<1>23. QED
  BY <1>1, <1>7, <1>8, <1>9, <1>13, <1>14, <1>15, <1>16, <1>17, <1>18, <1>19, <1>20, <1>21, <1>22 DEF PlaylistRequest

\* A consumer goes through one sequence of playlists only.
LEMMA ReplayedIsRow == PlaylistInv /\ ReplayInv => EventsReplayPlaylist
<1> SUFFICES ASSUME PlaylistInv, ReplayInv PROVE EventsReplayPlaylist
  OBVIOUS
<1> DEFINE n == Len(playlistEvents)
           next(F, i) == IF i = 0 THEN Missing ELSE Replay(F[i - 1], playlistEvents[i])
<1>1. n \in Nat /\ playlist \in RowRecord
  BY DEF PlaylistInv, PlaylistTypes
<1>2. PICK R : GoesThrough(R)
  BY DEF ReplayInv
<1>3. PICK F : F = [i \in 0..n |-> R[i]]
  OBVIOUS
<1>4. \A i \in 0..n : R[i] = next(R, i)
  BY <1>1, <1>2 DEF GoesThrough
<1>5. F = [i \in 0..n |-> next(F, i)]
  <2>1. ASSUME NEW i \in 0..n PROVE next(F, i) = R[i]
    <3>1. CASE i = 0
      BY <1>4, <3>1
    <3>2. CASE i # 0
      <4>1. i - 1 \in 0..n
        BY <1>1, <3>2
      <4>2. F[i - 1] = R[i - 1]
        BY <1>3, <4>1
      <4>3. QED
        BY <1>4, <3>2, <4>2
    <3>3. QED
      BY <3>1, <3>2
  <2> HIDE DEF next
  <2>2. QED
    BY <1>3, <2>1
<1>6. Replayed = [i \in 0..n |-> next(Replayed, i)]
  BY <1>5 DEF Replayed
<1>7. \A i \in 0..n : Replayed[i] = R[i]
  <2> DEFINE T == {i \in 0..n : Replayed[i] # R[i]}
  <2> SUFFICES ASSUME T # {} PROVE FALSE
    OBVIOUS
  <2>1. T \subseteq Nat
    BY <1>1
  <2>2. PICK i \in T : \A j \in T : ~ (<<j, i>> \in NatLess)
    <3> HIDE DEF T
    <3>1. QED
      BY <2>1, NatLessWellFounded, WFMin, Zenon
  <2>3. i # 0
    BY <1>4, <1>6
  <2>4. i - 1 \in 0..n /\ i - 1 \in Nat /\ i \in Nat
    BY <1>1, <2>3
  <2>5. <<i - 1, i>> \in NatLess
    BY <2>4 DEF NatLess
  <2>6. Replayed[i - 1] = R[i - 1]
    BY <2>2, <2>4, <2>5
  <2>7. Replayed[i] = R[i]
    BY <1>4, <1>6, <2>3, <2>6
  <2>8. QED
    BY <2>7
<1>8. Replayed[n] = Content(playlist)
  BY <1>1, <1>2, <1>7 DEF GoesThrough
<1>9. [Content(playlist) EXCEPT !.updated = playlist.updated] = playlist
  BY <1>1 DEF Content, RowRecord
<1>10. QED
  BY <1>8, <1>9 DEF EventsReplayPlaylist

\* Whatever requests overlap, whoever replays playlist.events has the playlist,
\* and no two of its tracks share a position; and a deleted playlist is not
\* found by search once its events are consumed, however late a consumer that
\* lost the partition writes and however writes fail, unless the deletion was
\* dead-lettered or an edit of its millisecond was written late.
THEOREM SearchFollowsPlaylist == PlaylistIndexSpec => []PlaylistFollowed
<1>1. PlaylistInv /\ IndexInv => PositionsDistinct /\ NoGhostPlaylist
  <2> SUFFICES ASSUME PlaylistInv, IndexInv PROVE PositionsDistinct /\ NoGhostPlaylist
    OBVIOUS
  <2>1. PositionsDistinct
    BY DEF PlaylistInv, Distinct, PositionsDistinct
  <2>2. ASSUME NEW n, n = Len(playlistEvents), taken = n, n # 0, ~playlist.exists, doc.content.exists, n \notin deadEvents
        PROVE  \E i \in late : Version(i) = Version(n)
    <3>1. n \in Nat /\ \A i \in 1..n : playlistEvents[i].at \in Stamps /\ Version(i) \in Nat
      BY <2>2, VersionsTyped
    <3>2. playlistEvents[n].type = "deleted" /\ \A i \in 1..n : i # n => playlistEvents[i].at < playlistEvents[n].at
      BY <2>2 DEF PlaylistInv, DeletedIsLast
    <3>3. Covers /\ WrittenFor
      BY DEF IndexInv, DocSound
    <3>4. PICK i \in 1..n :
            playlistEvents[i].type # "deleted" /\ doc.version = Version(i) /\ (i \in late \/ ~DeletionWritten(doc.version))
      BY <2>2, <3>3 DEF WrittenFor
    <3>5. n \in 1..n
      BY <2>2, <3>1
    <3>6. Version(n) <= Version(i)
      BY <2>2, <3>3, <3>4, <3>5 DEF Covers
    <3>7. Version(i) <= Version(n)
      <4>1. playlistEvents[i].at < playlistEvents[n].at
        BY <3>2, <3>4
      <4>2. playlistEvents[i].at \in Stamps /\ playlistEvents[n].at \in Stamps
        BY <3>1, <3>5
      <4>3. QED
        BY <4>1, <4>2, MillisAssumption DEF Version, Stamps
    <3>8. Version(i) = Version(n)
      BY <3>1, <3>5, <3>6, <3>7
    <3>9. DeletionWritten(doc.version)
      BY <2>2, <3>2, <3>4, <3>8 DEF DeletionWritten
    <3>10. QED
      BY <3>4, <3>8, <3>9
  <2>3. QED
    BY <2>1, <2>2 DEF NoGhostPlaylist, CaughtUp
<1>2. PlaylistInit /\ IndexInit => ReplayInv
  <2> SUFFICES ASSUME PlaylistInit, IndexInit PROVE ReplayInv
    OBVIOUS
  <2>1. /\ playlist = Missing /\ playlistEvents = <<>>
        /\ \A r \in PlaylistReqs : playlistReq[r].pc = "idle"
    BY NewPlaylistFields DEF PlaylistInit
  <2>2. PICK R : R = [i \in {0} |-> Missing]
    OBVIOUS
  <2>3. GoesThrough(R)
    BY <2>1, <2>2, MissingContent DEF GoesThrough
  <2>4. QED
    BY <2>1, <2>3 DEF ReplayInv, CommitsMade
<1>3. PlaylistInv /\ ReplayInv /\ [PlaylistIndexNext]_playlistIndexVars => ReplayInv'
  <2> SUFFICES ASSUME PlaylistInv, ReplayInv, [PlaylistIndexNext]_playlistIndexVars PROVE ReplayInv'
    OBVIOUS
  <2>1. CASE PlaylistNext
    BY <2>1, ReplayKeeps
  <2>2. CASE UNCHANGED playlistVars
    <3>1. playlist' = playlist /\ playlistEvents' = playlistEvents /\ playlistReq' = playlistReq
      BY <2>2 DEF playlistVars
    <3>2. PICK R : GoesThrough(R)
      BY DEF ReplayInv
    <3>3. GoesThrough(R)'
      BY <3>1, <3>2 DEF GoesThrough
    <3>4. QED
      BY <3>1, <3>3 DEF ReplayInv, CommitsMade
  <2>3. QED
    BY <2>1, <2>2 DEF PlaylistIndexNext, Deliver, ReadPlaylist, WriteDoc, WriteFails, DeadLetterEvent, playlistIndexVars
<1>4. PlaylistIndexSpec => []ReplayInv
  BY <1>2, <1>3, PlaylistInvariance, PTL DEF PlaylistIndexSpec
<1>5. PlaylistInv /\ IndexInv /\ ReplayInv => PlaylistFollowed
  BY <1>1, ReplayedIsRow DEF PlaylistFollowed
<1>6. QED
  BY <1>4, <1>5, PlaylistInvariance, PTL

-----------------------------------------------------------------------------
(* Rebuilding the search indices (SearchRebuild)                            *)

Versions == Nat
Documents == [v : Versions, on : Flags]
Generations == Nat
Indices == SearchAliases \X Generations
CommandPcs == {"idle", "create", "read", "flush", "swap", "drop"}
Turns == {1, 2}
IndexSets == SUBSET Indices
Targets == [SearchAliases -> SUBSET Generations]
Befores == Targets \cup {<<>>}
CommandRecord == [pc : CommandPcs, n : Turns, made : IndexSets, pending : Documents, before : Befores, alone : Flags]
FollowerRecord == [at : Nat, runs : Flags]

RebuildTyped ==
  /\ track \in Documents
  /\ feed \in Seq(Documents)
  /\ aliasOf \in Targets
  /\ DOMAIN indexDocs \in IndexSets
  /\ indexDocs \in [DOMAIN indexDocs -> Documents]
  /\ consumer \in FollowerRecord
  /\ reindexer \in CommandRecord
  /\ missed \in Flags

\* catalog.events hold the versions of the track in order.
FeedSound ==
  /\ Len(feed) = track.v
  /\ \A i \in 1..Len(feed) : feed[i].v = i
  /\ Len(feed) # 0 => feed[Len(feed)] = track
  /\ Len(feed) = 0 => ~track.on
  /\ consumer.at <= Len(feed)

AliasesRead ==
  \A a \in SearchAliases : aliasOf[a] # {} => \E g \in Generations : aliasOf[a] = {g} /\ <<a, g>> \in DOMAIN indexDocs

\* A document that the events still to be consumed make exact: a version that
\* was not overtaken by what is consumed, or none of a track that is not
\* searchable now or whose newest event is still to come.
DocFits(d, at, events, row) ==
  \/ d.v \in 1..Len(events) /\ d = events[d.v] /\ at <= d.v
  \/ d = NoDoc /\ (at < Len(events) \/ ~row.on)

\* A document that was written for an event or for the row.
DocWritten(d, events) == d = NoDoc \/ (d.v \in 1..Len(events) /\ d = events[d.v])
DocAsFar(d, at, events, row, lost) == DocWritten(d, events) /\ (lost \/ DocFits(d, at, events, row))

NewIndex(o, a) == <<a, o[a] + 1>>
Gens == [SearchAliases -> Generations]
Filling == reindexer.pc \in {"create", "read", "flush"}

\* The command at work, when the aliases pointed to the generations o: the
\* new indices exist, the aliases move to them one by one, and nobody else
\* writes to the new index before its alias points to it.
CommandAt(o) ==
  /\ \A a \in SearchAliases : reindexer.before[a] = {o[a]}
  /\ reindexer.pc = "create" => reindexer.made = IF reindexer.n = 1 THEN {} ELSE {NewIndex(o, "tracks")}
  /\ reindexer.pc # "create" => reindexer.made = {NewIndex(o, "tracks"), NewIndex(o, "albums")}
  /\ Filling => \A a \in SearchAliases : aliasOf[a] = {o[a]}
  /\ reindexer.pc \in {"read", "flush"} => reindexer.n = 1
  /\ reindexer.pc = "swap" => /\ aliasOf["tracks"] = {o["tracks"]}
                              /\ aliasOf["albums"] = IF reindexer.n = 1 THEN {o["albums"]} ELSE {o["albums"] + 1}
  /\ reindexer.pc = "drop" => \A a \in SearchAliases : aliasOf[a] = {o[a] + 1}
  /\ reindexer.made \subseteq DOMAIN indexDocs
  /\ Filling /\ reindexer.made # {} => indexDocs[NewIndex(o, "tracks")] = NoDoc
  /\ reindexer.pc = "flush" /\ reindexer.alone => DocFits(reindexer.pending, consumer.at, feed, track)
  /\ reindexer.pc \in {"swap", "drop"} /\ reindexer.alone =>
       DocFits(indexDocs[NewIndex(o, "tracks")], consumer.at, feed, track)

Command == reindexer.pc # "idle" => \E o \in Gens : CommandAt(o)

Alone ==
  /\ consumer.runs \/ reindexer.alone => \A a \in SearchAliases : aliasOf[a] # {}
  /\ reindexer.alone /\ reindexer.pc # "idle" => ~consumer.runs
  /\ reindexer.alone /\ reindexer.pc = "idle" =>
       \E g \in Generations : aliasOf["tracks"] = {g} /\ DocAsFar(indexDocs[<<"tracks", g>>], consumer.at, feed, track, missed)

RebuildInv == RebuildTyped /\ FeedSound /\ AliasesRead /\ Command /\ Alone

\* The parts of a command's record have the types of their fields.
LEMMA CommandFields ==
  ASSUME RebuildTyped
  PROVE  /\ reindexer.pc \in CommandPcs /\ reindexer.n \in Turns /\ reindexer.made \in IndexSets
         /\ reindexer.pending \in Documents /\ reindexer.before \in Befores /\ reindexer.alone \in Flags
         /\ consumer.at \in Nat /\ consumer.runs \in Flags
         /\ track.v \in Nat /\ track.on \in Flags
BY DEF RebuildTyped, CommandRecord, FollowerRecord, Documents, Versions

\* No document is a document.
LEMMA NoDocTyped == NoDoc \in Documents /\ NoDoc.v = 0 /\ NoDoc.on = FALSE
BY DEF NoDoc, Documents, Versions, Flags

LEMMA IdleTyped ==
  /\ NotRunning \in CommandRecord
  /\ NotRunning.pc = "idle" /\ NotRunning.n = 1 /\ NotRunning.made = {} /\ NotRunning.alone = FALSE
<1>1. {} \in IndexSets /\ <<>> \in Befores /\ 1 \in Turns /\ "idle" \in CommandPcs /\ FALSE \in Flags
  BY DEF IndexSets, Befores, Turns, CommandPcs, Flags
<1>2. QED
  BY <1>1, NoDocTyped DEF NotRunning, CommandRecord

\* A generation follows the only one an alias points to.
LEMMA NextOfOne ==
  ASSUME NEW a, NEW g \in Generations, aliasOf[a] = {g}
  PROVE  NextGeneration(a) = g + 1
<1> DEFINE S == {0} \cup {g}
<1>1. \A x \in S : x \in Nat
  BY DEF Generations
<1>2. g \in S /\ \A y \in S : g >= y
  BY DEF Generations
<1>3. Max(S) \in S /\ \A y \in S : Max(S) >= y
  BY <1>2 DEF Max
<1>4. Max(S) = g
  BY <1>1, <1>2, <1>3
<1>5. QED
  BY <1>4 DEF NextGeneration

-----------------------------------------------------------------------------
\* A document that fits, fits when the track changes again ...
LEMMA FitsAppended ==
  ASSUME RebuildTyped, FeedSound, NEW d, NEW on \in Flags, TrackUpdate(on), DocFits(d, consumer.at, feed, track)
  PROVE  DocFits(d, consumer'.at, feed', track')
<1>1. feed' = Append(feed, track') /\ consumer' = consumer /\ feed \in Seq(Documents)
  BY DEF TrackUpdate, RebuildTyped
<1>2. Len(feed') = Len(feed) + 1 /\ \A i \in 1..Len(feed) : feed'[i] = feed[i]
  <2> DEFINE t == track'
  <2> HIDE DEF t
  <2>1. feed' = Append(feed, t)
    BY <1>1 DEF t
  <2>2. QED
    BY <1>1, <2>1
<1>3. Len(feed) \in Nat /\ consumer.at \in Nat /\ consumer.at <= Len(feed)
  BY <1>1, CommandFields DEF FeedSound
<1>4. CASE d.v \in 1..Len(feed) /\ d = feed[d.v] /\ consumer.at <= d.v
  <2>1. d.v \in 1..Len(feed')
    BY <1>2, <1>3, <1>4
  <2>2. d = feed'[d.v]
    BY <1>2, <1>4
  <2>3. QED
    BY <1>1, <1>4, <2>1, <2>2 DEF DocFits
<1>5. CASE d = NoDoc
  BY <1>1, <1>2, <1>3, <1>5 DEF DocFits
<1>6. QED
  BY <1>4, <1>5 DEF DocFits

\* ... and what was written stays a document of the events ...
LEMMA WrittenAppended ==
  ASSUME RebuildTyped, NEW d, NEW on \in Flags, TrackUpdate(on), DocWritten(d, feed)
  PROVE  DocWritten(d, feed')
<1>1. PICK e : e = track'
  OBVIOUS
<1>2. feed' = Append(feed, e) /\ feed \in Seq(Documents)
  BY <1>1 DEF TrackUpdate, RebuildTyped
<1>3. \A i \in 1..Len(feed) : i \in 1..Len(feed') /\ feed'[i] = feed[i]
  BY <1>2
<1>4. QED
  BY <1>3 DEF DocWritten

\* ... when the consumer goes back ...
LEMMA FitsEarlier ==
  ASSUME NEW d, NEW events \in Seq(Documents), NEW row, NEW at \in Nat, NEW at2 \in Nat, at2 <= at, DocFits(d, at, events, row)
  PROVE  DocFits(d, at2, events, row)
<1>1. Len(events) \in Nat
  OBVIOUS
<1>2. QED
  BY <1>1 DEF DocFits

\* ... and any that was written fits once the next event is written over it.
LEMMA FitsConsumed ==
  ASSUME RebuildTyped, FeedSound, NEW d, DocWritten(d, feed), consumer.at < Len(feed)
  PROVE  LET w == BulkWrite(d, NextEvent) IN DocFits(w, consumer.at + 1, feed, track) /\ DocWritten(w, feed)
<1>1. PICK n : n = consumer.at + 1
  OBVIOUS
<1>2. PICK e : e = feed[n]
  OBVIOUS
<1>3. Len(feed) \in Nat /\ consumer.at \in Nat
  BY CommandFields DEF RebuildTyped
<1>4. n \in Nat /\ n \in 1..Len(feed) /\ e.v = n /\ e = NextEvent
  BY <1>1, <1>2, <1>3 DEF FeedSound, NextEvent
<1>5. CASE BulkWrite(d, e) = e
  <2>1. e.v \in 1..Len(feed) /\ e = feed[e.v] /\ n <= e.v
    BY <1>2, <1>4
  <2>2. DocFits(e, n, feed, track) /\ DocWritten(e, feed)
    BY <2>1 DEF DocFits, DocWritten
  <2>3. QED
    BY <1>1, <1>4, <1>5, <2>2
<1>6. CASE BulkWrite(d, e) = d /\ ~(e.v >= d.v)
  <2>1. d # NoDoc
    BY <1>4, <1>6, NoDocTyped
  <2>2. d.v \in 1..Len(feed) /\ d = feed[d.v]
    BY <2>1 DEF DocWritten
  <2>3. n <= d.v
    BY <1>3, <1>4, <1>6, <2>2
  <2>4. QED
    BY <1>1, <1>4, <1>6, <2>2, <2>3 DEF DocFits, DocWritten
<1>7. QED
  BY <1>5, <1>6 DEF BulkWrite

\* A document that fits was written.
LEMMA FitsWritten ==
  ASSUME NEW d, NEW at, NEW events, NEW row, DocFits(d, at, events, row)
  PROVE  DocWritten(d, events)
BY DEF DocFits, DocWritten

\* What Rebuild reads of Catalog fits.
LEMMA FitsRead ==
  ASSUME RebuildTyped, FeedSound
  PROVE  DocFits(IF track.on THEN RebuildDoc(track) ELSE NoDoc, consumer.at, feed, track)
<1>1. Len(feed) \in Nat /\ consumer.at \in Nat /\ consumer.at <= Len(feed)
  BY CommandFields DEF RebuildTyped, FeedSound
<1>2. CASE track.on
  BY <1>1, <1>2 DEF DocFits, FeedSound, RebuildDoc
<1>3. CASE ~track.on
  BY <1>3 DEF DocFits
<1>4. QED
  BY <1>2, <1>3

\* A document that fits when everything is consumed is the row's.
LEMMA FitsExact ==
  ASSUME RebuildTyped, FeedSound, NEW d, DocFits(d, consumer.at, feed, track), consumer.at = Len(feed)
  PROVE  d.on = track.on /\ (d.on => d.v = track.v)
<1>1. Len(feed) \in Nat /\ track.on \in Flags
  BY CommandFields DEF RebuildTyped
<1>2. CASE d.v \in 1..Len(feed) /\ d = feed[d.v] /\ consumer.at <= d.v
  <2>1. d.v = Len(feed) /\ Len(feed) # 0
    BY <1>1, <1>2
  <2>2. d = track
    BY <1>2, <2>1 DEF FeedSound
  <2>3. QED
    BY <2>2
<1>3. CASE d = NoDoc /\ ~track.on
  <2>1. d.on = FALSE /\ track.on = FALSE
    BY <1>1, <1>3, NoDocTyped DEF Flags
  <2>2. QED
    BY <2>1
<1>4. QED
  BY <1>1, <1>2, <1>3 DEF DocFits

-----------------------------------------------------------------------------
\* The documents of a step that leaves the command alone: no index goes, and
\* only the one the alias names is written.
OthersKept ==
  /\ DOMAIN indexDocs' = DOMAIN indexDocs
  /\ \A i \in DOMAIN indexDocs : (\A g \in aliasOf["tracks"] : i # <<"tracks", g>>) => indexDocs'[i] = indexDocs[i]

\* A step that leaves the command and the aliases alone keeps what is known of
\* the command, if documents go on to fit while nobody else runs.
LEMMA CommandKept ==
  ASSUME RebuildTyped, Command, OthersKept, aliasOf' = aliasOf,
         reindexer'.pc = reindexer.pc, reindexer'.n = reindexer.n, reindexer'.made = reindexer.made,
         reindexer'.before = reindexer.before, reindexer'.pending = reindexer.pending,
         reindexer'.alone /\ reindexer.pc # "idle" =>
           /\ reindexer.alone /\ indexDocs' = indexDocs
           /\ \A d : DocFits(d, consumer.at, feed, track) => DocFits(d, consumer'.at, feed', track')
  PROVE  Command'
<1>1. CASE reindexer.pc = "idle"
  BY <1>1 DEF Command
<1>2. CASE reindexer.pc # "idle"
  <2>1. PICK o \in Gens : CommandAt(o)
    BY <1>2 DEF Command
  <2>2. o["tracks"] \in Nat /\ o["albums"] \in Nat
    BY DEF Gens, Generations, SearchAliases
  <2>3. /\ \A a \in SearchAliases : reindexer'.before[a] = {o[a]}
        /\ reindexer'.pc = "create" => reindexer'.made = IF reindexer'.n = 1 THEN {} ELSE {NewIndex(o, "tracks")}
        /\ reindexer'.pc # "create" => reindexer'.made = {NewIndex(o, "tracks"), NewIndex(o, "albums")}
        /\ reindexer'.pc \in {"create", "read", "flush"} => \A a \in SearchAliases : aliasOf'[a] = {o[a]}
        /\ reindexer'.pc \in {"read", "flush"} => reindexer'.n = 1
        /\ reindexer'.pc = "swap" => /\ aliasOf'["tracks"] = {o["tracks"]}
                                     /\ aliasOf'["albums"] = IF reindexer'.n = 1 THEN {o["albums"]} ELSE {o["albums"] + 1}
        /\ reindexer'.pc = "drop" => \A a \in SearchAliases : aliasOf'[a] = {o[a] + 1}
        /\ reindexer'.made \subseteq DOMAIN indexDocs'
    BY <2>1 DEF CommandAt, Filling, OthersKept
  <2>4. ASSUME reindexer.pc \in {"create", "read", "flush"}, reindexer.made # {}
        PROVE  indexDocs'[NewIndex(o, "tracks")] = NoDoc
    <3>1. aliasOf["tracks"] = {o["tracks"]} /\ NewIndex(o, "tracks") \in reindexer.made
      BY <2>1, <2>4 DEF CommandAt, Filling, SearchAliases
    <3>2. \A g \in aliasOf["tracks"] : NewIndex(o, "tracks") # <<"tracks", g>>
      BY <2>2, <3>1 DEF NewIndex
    <3>3. NewIndex(o, "tracks") \in DOMAIN indexDocs
      BY <2>1, <3>1 DEF CommandAt
    <3>4. indexDocs[NewIndex(o, "tracks")] = NoDoc
      BY <2>1, <2>4 DEF CommandAt, Filling
    <3>5. QED
      BY <3>2, <3>3, <3>4 DEF OthersKept
  <2>5. ASSUME reindexer'.pc = "flush", reindexer'.alone
        PROVE  DocFits(reindexer'.pending, consumer'.at, feed', track')
    <3>1. DocFits(reindexer.pending, consumer.at, feed, track)
      BY <1>2, <2>1, <2>5 DEF CommandAt
    <3>2. QED
      BY <1>2, <2>5, <3>1
  <2>6. ASSUME reindexer'.pc \in {"swap", "drop"}, reindexer'.alone
        PROVE  DocFits(indexDocs'[NewIndex(o, "tracks")], consumer'.at, feed', track')
    <3>1. DocFits(indexDocs[NewIndex(o, "tracks")], consumer.at, feed, track) /\ indexDocs' = indexDocs
      BY <1>2, <2>1, <2>6 DEF CommandAt
    <3>2. QED
      BY <1>2, <2>6, <3>1
  <2>7. CommandAt(o)'
    BY <2>3, <2>4, <2>5, <2>6 DEF CommandAt, Filling, NewIndex, DocFits
  <2>8. QED
    BY <2>7 DEF Command
<1>3. QED
  BY <1>1, <1>2

LEMMA StepTrackUpdate ==
  ASSUME RebuildInv, NEW on \in BOOLEAN, TrackUpdate(on)
  PROVE  RebuildInv'
<1> USE DEF RebuildInv
<1>1. /\ track' = [v |-> track.v + 1, on |-> on] /\ feed' = Append(feed, track')
      /\ UNCHANGED <<aliasOf, indexDocs, consumer, reindexer, missed>>
  BY DEF TrackUpdate
<1>2. track' \in Documents /\ track'.v = track.v + 1
  BY <1>1, CommandFields DEF Documents, Versions, Flags
<1>3. feed \in Seq(Documents) /\ Len(feed) \in Nat
  BY DEF RebuildTyped
<1>4. /\ feed' \in Seq(Documents) /\ Len(feed') = Len(feed) + 1 /\ feed'[Len(feed) + 1] = track'
      /\ \A i \in 1..Len(feed) : feed'[i] = feed[i]
  <2> DEFINE t == track'
  <2>1. t \in Documents /\ feed' = Append(feed, t)
    BY <1>1, <1>2
  <2> HIDE DEF t
  <2>2. /\ feed' \in Seq(Documents) /\ Len(feed') = Len(feed) + 1 /\ feed'[Len(feed) + 1] = t
        /\ \A i \in 1..Len(feed) : feed'[i] = feed[i]
    BY <1>3, <2>1
  <2>3. QED
    BY <2>2 DEF t
<1>5. RebuildTyped'
  BY <1>1, <1>2, <1>4 DEF RebuildTyped
<1>6. FeedSound'
  <2>1. track.v = Len(feed) /\ consumer.at \in Nat /\ consumer.at <= Len(feed)
    BY CommandFields DEF FeedSound
  <2>2. \A i \in 1..Len(feed') : feed'[i].v = i
    <3>1. TAKE i \in 1..Len(feed')
    <3>2. CASE i = Len(feed) + 1
      BY <1>2, <1>4, <2>1, <3>2
    <3>3. CASE i # Len(feed) + 1
      <4>1. i \in 1..Len(feed)
        BY <1>3, <1>4, <3>3
      <4>2. QED
        BY <1>4, <4>1 DEF FeedSound
    <3>4. QED
      BY <3>2, <3>3
  <2>3. QED
    BY <1>1, <1>2, <1>3, <1>4, <2>1, <2>2 DEF FeedSound
<1>7. \A d : DocFits(d, consumer.at, feed, track) => DocFits(d, consumer'.at, feed', track')
  BY FitsAppended DEF Flags
<1>8. Command'
  <2>1. OthersKept
    BY <1>1 DEF OthersKept
  <2>2. QED
    BY <1>1, <1>7, <2>1, CommandKept
<1>9. AliasesRead'
  BY <1>1 DEF AliasesRead
<1>10. Alone'
  <2>1. ASSUME reindexer.alone, reindexer.pc = "idle"
        PROVE  \E g \in Generations : aliasOf'["tracks"] = {g} /\ DocAsFar(indexDocs'[<<"tracks", g>>], consumer'.at, feed', track', missed')
    BY <1>1, <1>7, <2>1, WrittenAppended DEF Alone, DocAsFar, Flags
  <2>2. QED
    BY <1>1, <2>1 DEF Alone, DocAsFar, DocWritten, DocFits
<1>11. QED
  BY <1>5, <1>6, <1>8, <1>9, <1>10

LEMMA StepStartConsumer ==
  ASSUME RebuildInv, NEW at, StartConsumer(at)
  PROVE  RebuildInv'
<1> USE DEF RebuildInv
<1>1. /\ Ready /\ at \in 0..consumer.at /\ consumer' = [at |-> at, runs |-> TRUE]
      /\ reindexer' = [reindexer EXCEPT !.alone = @ /\ reindexer.pc = "idle"]
      /\ UNCHANGED <<track, feed, aliasOf, indexDocs, missed>>
  BY DEF StartConsumer
<1>2. at \in Nat /\ at <= consumer.at /\ consumer.at \in Nat /\ feed \in Seq(Documents) /\ Len(feed) \in Nat
  BY <1>1, CommandFields DEF RebuildTyped
<1>3. /\ reindexer' \in CommandRecord /\ reindexer'.pc = reindexer.pc /\ reindexer'.n = reindexer.n
      /\ reindexer'.made = reindexer.made /\ reindexer'.before = reindexer.before
      /\ reindexer'.pending = reindexer.pending
      /\ reindexer'.alone = (reindexer.alone /\ reindexer.pc = "idle")
  <2> DEFINE b == reindexer.alone /\ reindexer.pc = "idle"
  <2>1. b \in Flags
    BY DEF Flags
  <2>2. reindexer' = [reindexer EXCEPT !.alone = b] /\ reindexer \in CommandRecord
    BY <1>1 DEF RebuildTyped
  <2> HIDE DEF b
  <2>3. /\ reindexer' \in CommandRecord /\ reindexer'.pc = reindexer.pc /\ reindexer'.n = reindexer.n
        /\ reindexer'.made = reindexer.made /\ reindexer'.before = reindexer.before
        /\ reindexer'.pending = reindexer.pending /\ reindexer'.alone = b
    BY <2>1, <2>2 DEF CommandRecord
  <2>4. QED
    BY <2>3 DEF b
<1>4. RebuildTyped'
  BY <1>1, <1>2, <1>3 DEF RebuildTyped, FollowerRecord, Flags
<1>5. FeedSound'
  BY <1>1, <1>2 DEF FeedSound
<1>6. \A d : DocFits(d, consumer.at, feed, track) => DocFits(d, consumer'.at, feed', track')
  BY <1>1, <1>2, FitsEarlier
<1>7. Command'
  <2>1. OthersKept
    BY <1>1 DEF OthersKept
  <2>2. QED
    BY <1>1, <1>3, <1>6, <2>1, CommandKept
<1>8. AliasesRead'
  BY <1>1 DEF AliasesRead
<1>9. Alone'
  <2>1. ASSUME reindexer'.alone, reindexer'.pc = "idle"
        PROVE  \E g \in Generations : aliasOf'["tracks"] = {g} /\ DocAsFar(indexDocs'[<<"tracks", g>>], consumer'.at, feed', track', missed')
    <3>1. PICK g \in Generations : aliasOf["tracks"] = {g} /\ DocAsFar(indexDocs[<<"tracks", g>>], consumer.at, feed, track, missed)
      BY <1>3, <2>1 DEF Alone
    <3>2. QED
      BY <1>1, <1>6, <3>1 DEF DocAsFar
  <2>2. QED
    BY <1>1, <1>3, <2>1 DEF Alone, DocAsFar, DocWritten, DocFits, Ready
<1>10. QED
  BY <1>4, <1>5, <1>7, <1>8, <1>9

LEMMA StepStopConsumer ==
  ASSUME RebuildInv, StopConsumer
  PROVE  RebuildInv'
<1> USE DEF RebuildInv
<1>1. consumer' = [consumer EXCEPT !.runs = FALSE] /\ UNCHANGED <<track, feed, aliasOf, indexDocs, reindexer, missed>>
  BY DEF StopConsumer
<1>2. consumer' \in FollowerRecord /\ consumer'.at = consumer.at /\ consumer'.runs = FALSE
  BY <1>1 DEF RebuildTyped, FollowerRecord, Flags
<1>3. RebuildTyped' /\ FeedSound' /\ AliasesRead'
  BY <1>1, <1>2 DEF RebuildTyped, FeedSound, AliasesRead
<1>4. Command'
  <2>1. OthersKept
    BY <1>1 DEF OthersKept
  <2>2. QED
    BY <1>1, <1>2, <2>1, CommandKept
<1>5. Alone'
  BY <1>1, <1>2 DEF Alone, DocAsFar, DocWritten, DocFits
<1>6. QED
  BY <1>3, <1>4, <1>5

\* A commit moves the consumer by one event.
LEMMA CommitMoves ==
  ASSUME RebuildInv, CommitTrackEvent
  PROVE  consumer' \in FollowerRecord /\ consumer'.at = consumer.at + 1 /\ consumer'.runs = consumer.runs
<1>1. PICK n : n = consumer.at + 1
  OBVIOUS
<1>2. n \in Nat /\ consumer' = [consumer EXCEPT !.at = n]
  BY <1>1, CommandFields DEF RebuildInv, CommitTrackEvent
<1>3. consumer' \in FollowerRecord /\ consumer'.at = n /\ consumer'.runs = consumer.runs
  BY <1>2 DEF RebuildInv, RebuildTyped, FollowerRecord
<1>4. QED
  BY <1>1, <1>3

\* The consumer writes the index its alias names, never the one that a rebuild
\* fills, whether it commits the event or handles it again.
LEMMA StepTrackWritten ==
  ASSUME RebuildInv, HasEvent, WriteAlias(NextEvent), UNCHANGED <<track, feed, aliasOf, reindexer>>,
         \/ CommitTrackEvent /\ missed' = FALSE
         \/ consumer' = consumer /\ missed' = missed
  PROVE  RebuildInv'
<1> USE DEF RebuildInv
<1>1. PICK e : e = NextEvent
  OBVIOUS
<1>2. consumer.at \in Nat /\ Len(feed) \in Nat /\ feed \in Seq(Documents) /\ consumer.runs /\ consumer.at < Len(feed)
  <2>1. consumer.at \in Nat
    BY CommandFields
  <2>2. feed \in Seq(Documents) /\ Len(feed) \in Nat
    BY DEF RebuildTyped
  <2>3. QED
    BY <2>1, <2>2 DEF HasEvent
<1>3. /\ consumer' \in FollowerRecord /\ consumer'.runs = consumer.runs
      /\ consumer'.at \in Nat /\ consumer'.at <= consumer.at + 1
      /\ ~missed' => consumer'.at = consumer.at + 1 \/ (~missed /\ consumer'.at = consumer.at)
  <2>1. CASE CommitTrackEvent /\ missed' = FALSE
    <3>1. consumer' \in FollowerRecord /\ consumer'.at = consumer.at + 1 /\ consumer'.runs = consumer.runs
      BY <2>1, CommitMoves
    <3>2. QED
      BY <1>2, <3>1
  <2>2. CASE consumer' = consumer /\ missed' = missed
    <3>1. consumer' \in FollowerRecord /\ consumer'.runs = consumer.runs /\ consumer'.at = consumer.at
      BY <2>2 DEF RebuildTyped
    <3>2. ~missed' => ~missed
      BY <2>2
    <3>3. QED
      BY <1>2, <3>1, <3>2
  <2>3. QED
    BY <2>1, <2>2
<1>4. e \in Documents
  <2>1. consumer.at + 1 \in 1..Len(feed)
    BY <1>2
  <2>2. QED
    BY <1>1, <1>2, <2>1 DEF NextEvent
<1>5. PICK h \in Generations : aliasOf["tracks"] = {h} /\ <<"tracks", h>> \in DOMAIN indexDocs
  BY <1>2 DEF Alone, AliasesRead, SearchAliases
<1>6. indexDocs' = [indexDocs EXCEPT ![<<"tracks", h>>] = BulkWrite(@, e)]
  <2>1. (CHOOSE g \in aliasOf["tracks"] : TRUE) = h
    BY <1>5
  <2>2. QED
    BY <1>1, <2>1 DEF WriteAlias
<1>7. DOMAIN indexDocs' = DOMAIN indexDocs /\ indexDocs' \in [DOMAIN indexDocs -> Documents]
  <2>1. indexDocs \in [DOMAIN indexDocs -> Documents]
    BY DEF RebuildTyped
  <2>2. BulkWrite(indexDocs[<<"tracks", h>>], e) \in Documents
    BY <1>4, <1>5, <2>1 DEF BulkWrite
  <2>3. QED
    BY <1>6, <2>1, <2>2
<1>8. OthersKept
  BY <1>5, <1>6, <1>7 DEF OthersKept
<1>9. missed' \in Flags
  BY DEF RebuildTyped, Flags
<1>10. RebuildTyped'
  BY <1>3, <1>7, <1>9 DEF RebuildTyped
<1>11. FeedSound'
  BY <1>2, <1>3 DEF FeedSound
<1>12. AliasesRead'
  BY <1>7 DEF AliasesRead
<1>13. ~ (reindexer.alone /\ reindexer.pc # "idle")
  BY <1>2 DEF Alone
<1>14. Command'
  BY <1>8, <1>13, CommandKept
<1>15. Alone'
  <2>1. ASSUME reindexer.alone, reindexer.pc = "idle"
        PROVE  \E g \in Generations : aliasOf'["tracks"] = {g} /\ DocAsFar(indexDocs'[<<"tracks", g>>], consumer'.at, feed', track', missed')
    <3>1. PICK g \in Generations : aliasOf["tracks"] = {g} /\ DocAsFar(indexDocs[<<"tracks", g>>], consumer.at, feed, track, missed)
      BY <2>1 DEF Alone
    <3>2. g = h
      BY <1>5, <3>1
    <3>3. PICK w : w = BulkWrite(indexDocs[<<"tracks", h>>], e)
      OBVIOUS
    <3>4. DocFits(w, consumer.at + 1, feed, track) /\ DocWritten(w, feed)
      BY <1>1, <1>2, <3>1, <3>2, <3>3, FitsConsumed DEF DocAsFar
    <3>5. indexDocs'[<<"tracks", h>>] = w
      BY <1>5, <1>6, <3>3
    <3>6. DocFits(w, consumer'.at, feed, track)
      BY <1>2, <1>3, <3>4, FitsEarlier
    <3>7. QED
      BY <1>5, <3>4, <3>5, <3>6 DEF DocAsFar
  <2>2. QED
    BY <1>3, <1>13, <2>1 DEF Alone, DocAsFar, DocWritten, DocFits
<1>16. QED
  BY <1>10, <1>11, <1>12, <1>14, <1>15

LEMMA StepTrackChanged ==
  ASSUME RebuildInv, TrackChanged \/ TrackChangeFails
  PROVE  RebuildInv'
BY StepTrackWritten DEF TrackChanged, TrackChangeFails

\* A dead letter leaves every document, which may now lag behind.
LEMMA StepTrackDeadLettered ==
  ASSUME RebuildInv, TrackDeadLettered
  PROVE  RebuildInv'
<1> USE DEF RebuildInv
<1>1. /\ consumer.runs /\ consumer.at < Len(feed) /\ missed' = TRUE
      /\ UNCHANGED <<track, feed, aliasOf, indexDocs, reindexer>>
  BY DEF TrackDeadLettered, HasEvent
<1>2. consumer' \in FollowerRecord /\ consumer'.at = consumer.at + 1 /\ consumer'.runs = consumer.runs
  BY CommitMoves DEF TrackDeadLettered
<1>3. consumer.at \in Nat /\ Len(feed) \in Nat
  BY CommandFields DEF RebuildTyped
<1>4. missed' \in Flags
  BY <1>1 DEF Flags
<1>5. RebuildTyped' /\ AliasesRead'
  BY <1>1, <1>2, <1>4 DEF RebuildTyped, AliasesRead
<1>6. FeedSound'
  BY <1>1, <1>2, <1>3 DEF FeedSound
<1>7. ~ (reindexer.alone /\ reindexer.pc # "idle")
  BY <1>1 DEF Alone
<1>8. Command'
  <2>1. OthersKept
    BY <1>1 DEF OthersKept
  <2>2. QED
    BY <1>1, <1>7, <2>1, CommandKept
<1>9. Alone'
  <2>1. ASSUME reindexer.alone, reindexer.pc = "idle"
        PROVE  \E g \in Generations : aliasOf'["tracks"] = {g} /\ DocAsFar(indexDocs'[<<"tracks", g>>], consumer'.at, feed', track', missed')
    BY <1>1, <2>1 DEF Alone, DocAsFar
  <2>2. QED
    BY <1>1, <1>2, <1>7, <2>1 DEF Alone, DocAsFar, DocWritten, DocFits
<1>10. QED
  BY <1>5, <1>6, <1>8, <1>9

-----------------------------------------------------------------------------
\* While nobody alone has rebuilt yet, nothing is promised of an idle command.
LEMMA EnsureAlone ==
  ASSUME RebuildInv, NEW a \in SearchAliases, aliasOf[a] = {}
  PROVE  ~consumer.runs /\ ~reindexer.alone
BY DEF RebuildInv, Alone

LEMMA StepEnsureIndex ==
  ASSUME RebuildInv, NEW a \in SearchAliases, EnsureIndex(a)
  PROVE  RebuildInv'
<1> USE DEF RebuildInv
<1>1. /\ aliasOf[a] = {} /\ reindexer.pc = "idle" /\ CreateIndex(a, 1)
      /\ aliasOf' \in {aliasOf, [aliasOf EXCEPT ![a] = {1}]}
      /\ UNCHANGED <<track, feed, consumer, reindexer, missed>>
  BY DEF EnsureIndex
<1>2. ~consumer.runs /\ ~reindexer.alone
  BY <1>1, EnsureAlone
<1>3. /\ DOMAIN indexDocs' = DOMAIN indexDocs \cup {<<a, 1>>}
      /\ indexDocs' \in [DOMAIN indexDocs' -> Documents]
  BY <1>1, NoDocTyped DEF CreateIndex, RebuildTyped
<1>4. aliasOf' \in Targets
  <2>1. {1} \in SUBSET Generations
    BY DEF Generations
  <2>2. QED
    BY <1>1, <2>1 DEF Targets, RebuildTyped
<1>5. DOMAIN indexDocs' \in IndexSets
  BY <1>3 DEF IndexSets, Indices, Generations, RebuildTyped
<1>6. RebuildTyped'
  BY <1>1, <1>3, <1>4, <1>5 DEF RebuildTyped
<1>7. FeedSound' /\ Command' /\ Alone'
  BY <1>1, <1>2 DEF FeedSound, Command, Alone
<1>8. AliasesRead'
  <2>1. SUFFICES ASSUME NEW b \in SearchAliases, aliasOf'[b] # {}
                 PROVE  \E g \in Generations : aliasOf'[b] = {g} /\ <<b, g>> \in DOMAIN indexDocs'
    BY DEF AliasesRead
  <2>2. CASE aliasOf'[b] = aliasOf[b]
    BY <1>3, <2>1, <2>2 DEF AliasesRead
  <2>3. CASE aliasOf'[b] # aliasOf[b]
    <3>1. b = a /\ aliasOf'[b] = {1}
      BY <1>1, <2>3 DEF RebuildTyped, Targets
    <3>2. QED
      BY <1>3, <3>1 DEF Generations
  <2>4. QED
    BY <2>2, <2>3
<1>9. QED
  BY <1>6, <1>7, <1>8

LEMMA StepStartReindex ==
  ASSUME RebuildInv, StartReindex
  PROVE  RebuildInv'
<1> USE DEF RebuildInv
<1>1. /\ Ready /\ reindexer.pc = "idle"
      /\ reindexer' = [NotRunning EXCEPT !.pc = "create", !.before = aliasOf, !.alone = ~consumer.runs]
      /\ UNCHANGED <<track, feed, aliasOf, indexDocs, consumer>> /\ missed' = FALSE
  BY DEF StartReindex, CommandStep
<1>2. /\ reindexer' \in CommandRecord /\ reindexer'.pc = "create" /\ reindexer'.n = 1 /\ reindexer'.made = {}
      /\ reindexer'.before = aliasOf /\ reindexer'.alone = ~consumer.runs
  <2>1. aliasOf \in Befores /\ "create" \in CommandPcs /\ (~consumer.runs) \in Flags
    BY DEF RebuildTyped, Befores, CommandPcs, Flags
  <2>2. QED
    BY <1>1, <2>1, IdleTyped DEF CommandRecord
<1>3. RebuildTyped' /\ FeedSound' /\ AliasesRead'
  BY <1>1, <1>2 DEF RebuildTyped, FeedSound, AliasesRead, Flags
<1>4. Alone'
  BY <1>1, <1>2 DEF Alone, Ready
<1>5. Command'
  <2>1. \E o \in Gens : \A a \in SearchAliases : aliasOf[a] = {o[a]}
    <3> DEFINE p == [a \in SearchAliases |-> CHOOSE g \in Generations : aliasOf[a] = {g}]
    <3>1. \A a \in SearchAliases : p[a] \in Generations /\ aliasOf[a] = {p[a]}
      BY <1>1 DEF Ready, AliasesRead
    <3>2. QED
      BY <3>1 DEF Gens
  <2>2. PICK o \in Gens : \A a \in SearchAliases : aliasOf[a] = {o[a]}
    BY <2>1
  <2>3. CommandAt(o)'
    BY <1>1, <1>2, <2>2 DEF CommandAt, Filling
  <2>4. QED
    BY <2>2, <2>3 DEF Command
<1>6. QED
  BY <1>3, <1>4, <1>5

\* The generations an alias can name while the command works.
LEMMA OldOrNew ==
  ASSUME NEW o \in Gens
  PROVE  /\ o["tracks"] \in Nat /\ o["albums"] \in Nat
         /\ \A a \in SearchAliases : o[a] \in Nat /\ o[a] + 1 \in Generations /\ <<a, o[a] + 1>> # <<a, o[a]>>
         /\ NewIndex(o, "tracks") # NewIndex(o, "albums")
         /\ \A a \in SearchAliases, b \in SearchAliases : NewIndex(o, a) # <<b, o[b]>>
         /\ \A a \in SearchAliases : NewIndex(o, a) \in Indices
BY DEF Gens, Generations, SearchAliases, NewIndex, Indices

LEMMA StepNewGeneration ==
  ASSUME RebuildInv, NewGeneration
  PROVE  RebuildInv'
<1> USE DEF RebuildInv
<1>1. reindexer.pc = "create" /\ UNCHANGED <<track, feed, aliasOf, consumer, missed>>
  BY DEF NewGeneration
<1>2. PICK o \in Gens : CommandAt(o)
  BY <1>1 DEF Command
<1>3. \A a \in SearchAliases : aliasOf[a] = {o[a]} /\ NextGeneration(a) = o[a] + 1
  <2>1. \A a \in SearchAliases : aliasOf[a] = {o[a]} /\ o[a] \in Generations
    BY <1>1, <1>2 DEF CommandAt, Filling, Gens
  <2>2. QED
    BY <2>1, NextOfOne
<1> DEFINE a == CreateOrder[reindexer.n]
           i == NewIndex(o, a)
<1>4. a \in SearchAliases /\ (reindexer.n = 1 => a = "tracks") /\ (reindexer.n = 2 => a = "albums") /\ reindexer.n \in {1, 2}
  BY CommandFields DEF CreateOrder, SearchAliases, Turns
<1>5. /\ i \notin DOMAIN indexDocs
      /\ indexDocs' = [j \in DOMAIN indexDocs \cup {i} |-> IF j = i THEN NoDoc ELSE indexDocs[j]]
      /\ reindexer' = [reindexer EXCEPT !.made = @ \cup {i}, !.n = IF @ = 2 THEN 1 ELSE 2,
                                        !.pc = IF reindexer.n = 2 THEN "read" ELSE @]
  BY <1>3, <1>4 DEF NewGeneration, CreateIndex, NewIndex
<1>6. i \in Indices
  BY <1>4, OldOrNew
<1> HIDE DEF a, i
<1>7. /\ DOMAIN indexDocs' = DOMAIN indexDocs \cup {i} /\ indexDocs'[i] = NoDoc
      /\ \A j \in DOMAIN indexDocs : indexDocs'[j] = indexDocs[j]
      /\ indexDocs' \in [DOMAIN indexDocs' -> Documents] /\ DOMAIN indexDocs' \in IndexSets
  BY <1>5, <1>6, NoDocTyped DEF RebuildTyped, IndexSets
<1>8. /\ reindexer' \in CommandRecord /\ reindexer'.made = reindexer.made \cup {i}
      /\ reindexer'.n = (IF reindexer.n = 2 THEN 1 ELSE 2)
      /\ reindexer'.pc = (IF reindexer.n = 2 THEN "read" ELSE "create")
      /\ reindexer'.before = reindexer.before /\ reindexer'.alone = reindexer.alone
  <2> DEFINE m == reindexer.made \cup {i}
             n == IF reindexer.n = 2 THEN 1 ELSE 2
             p == IF reindexer.n = 2 THEN "read" ELSE "create"
  <2>1. m \in IndexSets /\ n \in Turns /\ p \in CommandPcs
    BY <1>6, CommandFields DEF IndexSets, Turns, CommandPcs
  <2>2. reindexer' = [reindexer EXCEPT !.made = m, !.n = n, !.pc = p] /\ reindexer \in CommandRecord
    BY <1>1, <1>5 DEF RebuildTyped
  <2> HIDE DEF m, n, p
  <2>3. /\ reindexer' \in CommandRecord /\ reindexer'.made = m /\ reindexer'.n = n /\ reindexer'.pc = p
        /\ reindexer'.before = reindexer.before /\ reindexer'.alone = reindexer.alone
    BY <2>1, <2>2 DEF CommandRecord
  <2>4. QED
    BY <2>3 DEF m, n, p
<1>9. RebuildTyped' /\ FeedSound'
  BY <1>1, <1>7, <1>8 DEF RebuildTyped, FeedSound
<1>10. AliasesRead'
  BY <1>1, <1>7 DEF AliasesRead
<1>11. Alone'
  BY <1>1, <1>8 DEF Alone
<1>12. Command'
  <2>1. CASE reindexer.n = 1
    <3>1. reindexer.made = {} /\ i = NewIndex(o, "tracks")
      BY <1>1, <1>2, <1>4, <2>1 DEF CommandAt, i
    <3>2. CommandAt(o)'
      BY <1>1, <1>2, <1>7, <1>8, <2>1, <3>1 DEF CommandAt, Filling, NewIndex
    <3>3. QED
      BY <3>2 DEF Command
  <2>2. CASE reindexer.n = 2
    <3>1. reindexer.made = {NewIndex(o, "tracks")} /\ i = NewIndex(o, "albums")
      BY <1>1, <1>2, <1>4, <2>2 DEF CommandAt, i
    <3>2. indexDocs'[NewIndex(o, "tracks")] = NoDoc /\ reindexer.made \subseteq DOMAIN indexDocs
      BY <1>1, <1>2, <1>7, <3>1 DEF CommandAt, Filling
    <3>3. CommandAt(o)'
      BY <1>1, <1>2, <1>7, <1>8, <2>2, <3>1, <3>2 DEF CommandAt, Filling, NewIndex
    <3>4. QED
      BY <3>3 DEF Command
  <2>3. QED
    BY <1>4, <2>1, <2>2
<1>13. QED
  BY <1>9, <1>10, <1>11, <1>12

LEMMA StepRebuildRead ==
  ASSUME RebuildInv, RebuildRead
  PROVE  RebuildInv'
<1> USE DEF RebuildInv
<1> DEFINE d == IF track.on THEN RebuildDoc(track) ELSE NoDoc
<1>1. /\ reindexer.pc = "read" /\ reindexer' = [reindexer EXCEPT !.pc = "flush", !.pending = d]
      /\ UNCHANGED <<track, feed, aliasOf, indexDocs, consumer, missed>>
  BY DEF RebuildRead, CommandStep
<1>2. d \in Documents /\ DocFits(d, consumer.at, feed, track)
  BY NoDocTyped, FitsRead DEF RebuildDoc, RebuildTyped
<1> HIDE DEF d
<1>3. /\ reindexer' \in CommandRecord /\ reindexer'.pc = "flush" /\ reindexer'.pending = d
      /\ reindexer'.n = reindexer.n /\ reindexer'.made = reindexer.made
      /\ reindexer'.before = reindexer.before /\ reindexer'.alone = reindexer.alone
  <2>1. "flush" \in CommandPcs
    BY DEF CommandPcs
  <2>2. QED
    BY <1>1, <1>2, <2>1 DEF CommandRecord, RebuildTyped
<1>4. RebuildTyped' /\ FeedSound' /\ AliasesRead'
  BY <1>1, <1>3 DEF RebuildTyped, FeedSound, AliasesRead
<1>5. Alone'
  BY <1>1, <1>3 DEF Alone
<1>6. PICK o \in Gens : CommandAt(o)
  BY <1>1 DEF Command
<1>7. CommandAt(o)'
  BY <1>1, <1>2, <1>3, <1>6 DEF CommandAt, Filling, NewIndex, DocFits
<1>8. QED
  BY <1>4, <1>5, <1>7 DEF Command

LEMMA StepRebuildFlush ==
  ASSUME RebuildInv, RebuildFlush
  PROVE  RebuildInv'
<1> USE DEF RebuildInv
<1>1. /\ reindexer.pc = "flush" /\ reindexer' = [reindexer EXCEPT !.pc = "swap"]
      /\ UNCHANGED <<track, feed, aliasOf, consumer, missed>>
  BY DEF RebuildFlush, CommandStep
<1>2. PICK o \in Gens : CommandAt(o)
  BY <1>1 DEF Command
<1> DEFINE i == NewIndex(o, "tracks")
<1>3. reindexer.made = {i, NewIndex(o, "albums")} /\ i[1] = "tracks" /\ NewIndex(o, "albums")[1] = "albums"
  BY <1>1, <1>2 DEF CommandAt, NewIndex
<1>4. i \in DOMAIN indexDocs /\ indexDocs[i] = NoDoc
  BY <1>1, <1>2, <1>3 DEF CommandAt, Filling
<1>5. (CHOOSE j \in reindexer.made : j[1] = "tracks") = i
  <2> HIDE DEF i
  <2>1. QED
    BY <1>3
<1>6. indexDocs' = [indexDocs EXCEPT ![i] = BulkWrite(@, reindexer.pending)]
  BY <1>5 DEF RebuildFlush
<1> HIDE DEF i
<1>7. BulkWrite(NoDoc, reindexer.pending) = reindexer.pending
  BY CommandFields, NoDocTyped DEF BulkWrite, Documents, Versions
<1>8. /\ DOMAIN indexDocs' = DOMAIN indexDocs /\ indexDocs'[i] = reindexer.pending
      /\ indexDocs' \in [DOMAIN indexDocs -> Documents]
  <2>1. indexDocs' = [indexDocs EXCEPT ![i] = reindexer.pending]
    BY <1>4, <1>6, <1>7
  <2>2. QED
    BY <1>4, <2>1, CommandFields DEF RebuildTyped
<1>9. /\ reindexer' \in CommandRecord /\ reindexer'.pc = "swap" /\ reindexer'.n = reindexer.n
      /\ reindexer'.made = reindexer.made /\ reindexer'.before = reindexer.before /\ reindexer'.alone = reindexer.alone
  <2>1. "swap" \in CommandPcs
    BY DEF CommandPcs
  <2>2. QED
    BY <1>1, <2>1 DEF CommandRecord, RebuildTyped
<1>10. RebuildTyped' /\ FeedSound' /\ AliasesRead'
  BY <1>1, <1>8, <1>9 DEF RebuildTyped, FeedSound, AliasesRead
<1>11. Alone'
  BY <1>1, <1>9 DEF Alone
<1>12. ASSUME reindexer.alone PROVE DocFits(indexDocs'[i], consumer'.at, feed', track')
  BY <1>1, <1>2, <1>8, <1>12 DEF CommandAt
<1>13. reindexer.n = 1 /\ \A a \in SearchAliases : aliasOf[a] = {o[a]}
  BY <1>1, <1>2 DEF CommandAt, Filling
<1>14. CommandAt(o)'
  <2>1. /\ \A a \in SearchAliases : reindexer'.before[a] = {o[a]}
        /\ reindexer'.made = {NewIndex(o, "tracks"), NewIndex(o, "albums")}
        /\ reindexer'.made \subseteq DOMAIN indexDocs'
    BY <1>1, <1>2, <1>8, <1>9 DEF CommandAt
  <2>2. aliasOf'["tracks"] = {o["tracks"]} /\ aliasOf'["albums"] = {o["albums"]}
    BY <1>1, <1>13 DEF SearchAliases
  <2>3. QED
    BY <1>9, <1>12, <1>13, <2>1, <2>2 DEF CommandAt, Filling, NewIndex, DocFits, i
<1>15. QED
  BY <1>10, <1>11, <1>14 DEF Command

\* A turn ends with the second alias.
LEMMA NextTurn ==
  ASSUME RebuildTyped
  PROVE  (IF reindexer.n = 2 THEN 1 ELSE 2) \in Turns /\ reindexer.n \in {1, 2}
BY CommandFields DEF Turns

LEMMA StepPromote ==
  ASSUME RebuildInv, Promote
  PROVE  RebuildInv'
<1> USE DEF RebuildInv
<1>1. reindexer.pc = "swap" /\ UNCHANGED <<track, feed, indexDocs, consumer, missed>>
  BY DEF Promote
<1>2. PICK o \in Gens : CommandAt(o)
  BY <1>1 DEF Command
<1> DEFINE a == SwapOrder[reindexer.n]
<1>3. a \in SearchAliases /\ (reindexer.n = 1 => a = "albums") /\ (reindexer.n = 2 => a = "tracks")
  BY NextTurn DEF SwapOrder, SearchAliases
<1>4. reindexer.made = {NewIndex(o, "tracks"), NewIndex(o, "albums")} /\ reindexer.made \subseteq DOMAIN indexDocs
  BY <1>1, <1>2 DEF CommandAt
<1>5. {j[2] : j \in {i \in reindexer.made : i[1] = a}} = {o[a] + 1}
  <2> HIDE DEF a
  <2>1. {i \in reindexer.made : i[1] = a} = {NewIndex(o, a)}
    BY <1>3, <1>4 DEF NewIndex, SearchAliases
  <2>2. {j[2] : j \in {NewIndex(o, a)}} = {NewIndex(o, a)[2]}
    OBVIOUS
  <2>3. NewIndex(o, a)[2] = o[a] + 1
    BY DEF NewIndex
  <2>4. QED
    BY <2>1, <2>2, <2>3
<1>6. aliasOf' = [aliasOf EXCEPT ![a] = {o[a] + 1}]
  BY <1>5 DEF Promote
<1>7. /\ reindexer' \in CommandRecord /\ reindexer'.n = (IF reindexer.n = 2 THEN 1 ELSE 2)
      /\ reindexer'.pc = (IF reindexer.n = 2 THEN "drop" ELSE "swap") /\ reindexer'.made = reindexer.made
      /\ reindexer'.before = reindexer.before /\ reindexer'.alone = reindexer.alone
  <2> DEFINE n == IF reindexer.n = 2 THEN 1 ELSE 2
             p == IF reindexer.n = 2 THEN "drop" ELSE "swap"
  <2>1. n \in Turns /\ p \in CommandPcs
    BY NextTurn DEF CommandPcs
  <2>2. reindexer' = [reindexer EXCEPT !.n = n, !.pc = p] /\ reindexer \in CommandRecord
    BY <1>1 DEF Promote, RebuildTyped
  <2> HIDE DEF n, p
  <2>3. /\ reindexer' \in CommandRecord /\ reindexer'.n = n /\ reindexer'.pc = p /\ reindexer'.made = reindexer.made
        /\ reindexer'.before = reindexer.before /\ reindexer'.alone = reindexer.alone
    BY <2>1, <2>2 DEF CommandRecord
  <2>4. QED
    BY <2>3 DEF n, p
<1> HIDE DEF a
<1>8. aliasOf' \in Targets
  <2>1. {o[a] + 1} \in SUBSET Generations
    BY <1>3, OldOrNew
  <2>2. QED
    BY <1>6, <2>1 DEF Targets, RebuildTyped
<1>9. RebuildTyped' /\ FeedSound'
  BY <1>1, <1>7, <1>8 DEF RebuildTyped, FeedSound
<1>10. aliasOf'[a] = {o[a] + 1} /\ \A b \in SearchAliases : b # a => aliasOf'[b] = aliasOf[b]
  BY <1>3, <1>6 DEF RebuildTyped, Targets
<1>11. \A b \in SearchAliases : aliasOf'[b] \in {{o[b]}, {o[b] + 1}}
  BY <1>1, <1>2, <1>10 DEF CommandAt, SearchAliases
<1>12. AliasesRead'
  <2>1. SUFFICES ASSUME NEW b \in SearchAliases, aliasOf'[b] # {}
                 PROVE  \E g \in Generations : aliasOf'[b] = {g} /\ <<b, g>> \in DOMAIN indexDocs'
    BY DEF AliasesRead
  <2>2. CASE b = a
    <3>1. <<b, o[b] + 1>> \in DOMAIN indexDocs'
      BY <1>1, <1>4 DEF NewIndex, SearchAliases
    <3>2. QED
      BY <1>10, <2>2, <3>1, OldOrNew
  <2>3. CASE b # a
    BY <1>1, <1>10, <2>1, <2>3 DEF AliasesRead
  <2>4. QED
    BY <2>2, <2>3
<1>13. Alone'
  <2>1. \A b \in SearchAliases : aliasOf'[b] # {}
    BY <1>11
  <2>2. reindexer'.pc # "idle"
    BY <1>7
  <2>3. QED
    BY <1>1, <1>7, <2>1, <2>2 DEF Alone
<1>14. Command'
  <2>1. /\ \A b \in SearchAliases : reindexer'.before[b] = {o[b]}
        /\ reindexer'.made \subseteq DOMAIN indexDocs'
        /\ reindexer.alone => DocFits(indexDocs'[NewIndex(o, "tracks")], consumer'.at, feed', track')
    BY <1>1, <1>2, <1>7 DEF CommandAt
  <2>2. CASE reindexer.n = 1
    <3>1. aliasOf'["albums"] = {o["albums"] + 1} /\ aliasOf'["tracks"] = {o["tracks"]}
      BY <1>1, <1>2, <1>3, <1>10, <2>2 DEF CommandAt, SearchAliases
    <3>2. CommandAt(o)'
      BY <1>4, <1>7, <2>1, <2>2, <3>1 DEF CommandAt, Filling, NewIndex, DocFits
    <3>3. QED
      BY <3>2 DEF Command
  <2>3. CASE reindexer.n = 2
    <3>1. \A b \in SearchAliases : aliasOf'[b] = {o[b] + 1}
      BY <1>1, <1>2, <1>3, <1>10, <2>3 DEF CommandAt, SearchAliases
    <3>2. CommandAt(o)'
      BY <1>4, <1>7, <2>1, <2>3, <3>1 DEF CommandAt, Filling, NewIndex, DocFits
    <3>3. QED
      BY <3>2 DEF Command
  <2>4. QED
    BY <2>2, <2>3, NextTurn
<1>15. QED
  BY <1>9, <1>12, <1>13, <1>14

\* What DeleteIndex leaves.
LEMMA Deleted ==
  ASSUME RebuildTyped, NEW is, DeleteIndex(is)
  PROVE  /\ DOMAIN indexDocs' = DOMAIN indexDocs \ is /\ \A i \in DOMAIN indexDocs' : indexDocs'[i] = indexDocs[i]
         /\ indexDocs' \in [DOMAIN indexDocs' -> Documents] /\ DOMAIN indexDocs' \in IndexSets
BY DEF DeleteIndex, RebuildTyped, IndexSets

LEMMA StepPromoteDrop ==
  ASSUME RebuildInv, PromoteDrop
  PROVE  RebuildInv'
<1> USE DEF RebuildInv
<1>1. /\ reindexer.pc = "drop" /\ UNCHANGED <<track, feed, aliasOf, consumer, missed>>
      /\ reindexer' = IF reindexer.n = 2 THEN [NotRunning EXCEPT !.alone = reindexer.alone] ELSE [reindexer EXCEPT !.n = 2]
  BY DEF PromoteDrop
<1>2. PICK o \in Gens : CommandAt(o)
  BY <1>1 DEF Command
<1> DEFINE a == SwapOrder[reindexer.n]
<1>3. a \in SearchAliases /\ reindexer.before[a] = {o[a]}
  BY <1>2, NextTurn DEF SwapOrder, SearchAliases, CommandAt
<1>4. /\ DOMAIN indexDocs' = DOMAIN indexDocs \ {<<a, o[a]>>} /\ \A i \in DOMAIN indexDocs' : indexDocs'[i] = indexDocs[i]
      /\ indexDocs' \in [DOMAIN indexDocs' -> Documents] /\ DOMAIN indexDocs' \in IndexSets
  <2>1. {<<a, g>> : g \in reindexer.before[a]} = {<<a, o[a]>>}
    <3> HIDE DEF a
    <3>1. QED
      BY <1>3
  <2>2. DeleteIndex({<<a, o[a]>>})
    BY <2>1 DEF PromoteDrop
  <2> HIDE DEF a
  <2>3. QED
    BY <2>2, Deleted
<1> HIDE DEF a
<1>5. \A b \in SearchAliases : NewIndex(o, b) \in DOMAIN indexDocs' /\ aliasOf[b] = {o[b] + 1}
  BY <1>1, <1>2, <1>3, <1>4, OldOrNew DEF CommandAt, SearchAliases
<1>6. /\ reindexer' \in CommandRecord /\ reindexer'.alone = reindexer.alone
      /\ reindexer'.pc = IF reindexer.n = 2 THEN "idle" ELSE "drop"
      /\ reindexer.n # 2 => /\ reindexer'.n = 2 /\ reindexer'.made = reindexer.made /\ reindexer'.before = reindexer.before
  <2>1. 2 \in Turns /\ reindexer.alone \in Flags /\ reindexer \in CommandRecord
    BY CommandFields DEF Turns, RebuildTyped
  <2>2. CASE reindexer.n = 2
    BY <1>1, <2>1, <2>2, IdleTyped DEF CommandRecord
  <2>3. CASE reindexer.n # 2
    BY <1>1, <2>1, <2>3 DEF CommandRecord
  <2>4. QED
    BY <2>2, <2>3
<1>7. RebuildTyped' /\ FeedSound'
  BY <1>1, <1>4, <1>6 DEF RebuildTyped, FeedSound
<1>8. AliasesRead'
  BY <1>1, <1>5, OldOrNew DEF AliasesRead, NewIndex
<1>9. ASSUME reindexer.alone PROVE DocFits(indexDocs'[NewIndex(o, "tracks")], consumer'.at, feed', track')
  <2>1. DocFits(indexDocs[NewIndex(o, "tracks")], consumer.at, feed, track)
    BY <1>1, <1>2, <1>9 DEF CommandAt
  <2>2. indexDocs'[NewIndex(o, "tracks")] = indexDocs[NewIndex(o, "tracks")]
    BY <1>4, <1>5 DEF SearchAliases
  <2>3. QED
    BY <1>1, <2>1, <2>2
<1>10. Alone'
  <2>1. ASSUME reindexer.alone, reindexer.n = 2
        PROVE  \E g \in Generations : aliasOf'["tracks"] = {g} /\ DocAsFar(indexDocs'[<<"tracks", g>>], consumer'.at, feed', track', missed')
    <3>1. o["tracks"] + 1 \in Generations /\ aliasOf'["tracks"] = {o["tracks"] + 1}
      BY <1>1, <1>5, OldOrNew DEF SearchAliases
    <3>2. DocFits(indexDocs'[<<"tracks", o["tracks"] + 1>>], consumer'.at, feed', track')
      BY <1>9, <2>1 DEF NewIndex
    <3>3. QED
      BY <3>1, <3>2, FitsWritten DEF DocAsFar
  <2>2. QED
    BY <1>1, <1>5, <1>6, <2>1 DEF Alone, DocAsFar, DocWritten, DocFits
<1>11. Command'
  <2>1. CASE reindexer.n = 2
    BY <1>6, <2>1 DEF Command
  <2>2. CASE reindexer.n # 2
    <3>1. /\ \A b \in SearchAliases : reindexer'.before[b] = {o[b]}
          /\ reindexer'.made = {NewIndex(o, "tracks"), NewIndex(o, "albums")}
      BY <1>1, <1>2, <1>6, <2>2 DEF CommandAt
    <3>2. reindexer'.made \subseteq DOMAIN indexDocs'
      BY <1>5, <3>1 DEF SearchAliases
    <3>3. CommandAt(o)'
      BY <1>1, <1>5, <1>6, <1>9, <2>2, <3>1, <3>2 DEF CommandAt, Filling, NewIndex, DocFits
    <3>4. QED
      BY <3>3 DEF Command
  <2>3. QED
    BY <2>1, <2>2
<1>12. QED
  BY <1>7, <1>8, <1>10, <1>11

\* A command that fails takes back at most what no alias names.
LEMMA StepReindexEnds ==
  ASSUME RebuildInv, ReindexFails \/ ReindexKilled
  PROVE  RebuildInv'
<1> USE DEF RebuildInv
<1>1. reindexer.pc # "idle" /\ reindexer' = NotRunning /\ UNCHANGED <<track, feed, aliasOf, consumer, missed>>
  BY DEF ReindexFails, ReindexKilled
<1>2. PICK o \in Gens : CommandAt(o)
  BY <1>1 DEF Command
<1>3. \/ indexDocs' = indexDocs
      \/ reindexer.pc \in {"read", "flush"} /\ DeleteIndex(reindexer.made)
  BY DEF ReindexFails, ReindexKilled
<1>4. /\ indexDocs' \in [DOMAIN indexDocs' -> Documents] /\ DOMAIN indexDocs' \in IndexSets
      /\ \A b \in SearchAliases, g \in Generations : aliasOf[b] = {g} /\ <<b, g>> \in DOMAIN indexDocs => <<b, g>> \in DOMAIN indexDocs'
  <2>1. CASE indexDocs' = indexDocs
    BY <2>1 DEF RebuildTyped
  <2>2. CASE reindexer.pc \in {"read", "flush"} /\ DeleteIndex(reindexer.made)
    <3>1. DOMAIN indexDocs' = DOMAIN indexDocs \ reindexer.made
      BY <2>2, Deleted
    <3>2. \A b \in SearchAliases : aliasOf[b] = {o[b]} /\ <<b, o[b]>> \notin reindexer.made
      BY <1>2, <2>2, OldOrNew DEF CommandAt, Filling, SearchAliases
    <3>3. QED
      BY <2>2, <3>1, <3>2, Deleted
  <2>3. QED
    BY <1>3, <2>1, <2>2
<1>5. RebuildTyped' /\ FeedSound' /\ Command'
  BY <1>1, <1>4, IdleTyped DEF RebuildTyped, FeedSound, Command
<1>6. AliasesRead'
  BY <1>1, <1>4 DEF AliasesRead
<1>7. Alone'
  BY <1>1, IdleTyped DEF Alone
<1>8. QED
  BY <1>5, <1>6, <1>7

LEMMA RebuildStarts == RebuildInit => RebuildInv
<1> SUFFICES ASSUME RebuildInit PROVE RebuildInv
  OBVIOUS
<1>1. RebuildTyped
  <2>1. aliasOf \in Targets
    BY DEF RebuildInit, Targets, Generations
  <2>2. indexDocs = <<>> /\ feed = <<>>
    BY DEF RebuildInit
  <2>3. DOMAIN indexDocs = {} /\ feed \in Seq(Documents)
    BY <2>2
  <2>4. indexDocs \in [DOMAIN indexDocs -> Documents] /\ DOMAIN indexDocs \in IndexSets
    BY <2>2, <2>3 DEF IndexSets
  <2>5. QED
    BY <2>1, <2>3, <2>4, NoDocTyped, IdleTyped DEF RebuildInit, RebuildTyped, FollowerRecord, Flags
<1>2. QED
  BY <1>1, NoDocTyped, IdleTyped DEF RebuildInit, RebuildInv, FeedSound, AliasesRead, Command, Alone

LEMMA RebuildInductive == RebuildInv /\ [RebuildNext]_rebuildVars => RebuildInv'
<1> SUFFICES ASSUME RebuildInv, [RebuildNext]_rebuildVars PROVE RebuildInv'
  OBVIOUS
<1>1. CASE UNCHANGED rebuildVars
  <2>1. UNCHANGED <<track, feed, aliasOf, indexDocs, consumer, reindexer, missed>>
    BY <1>1 DEF rebuildVars
  <2>2. RebuildTyped' /\ FeedSound' /\ AliasesRead'
    BY <2>1 DEF RebuildInv, RebuildTyped, FeedSound, AliasesRead
  <2>3. Command'
    BY <2>1, CommandKept DEF RebuildInv, OthersKept
  <2>4. Alone'
    BY <2>1 DEF RebuildInv, Alone, DocFits
  <2>5. QED
    BY <2>2, <2>3, <2>4 DEF RebuildInv
<1>2. CASE RebuildNext
  BY <1>2, StepTrackUpdate, StepStartConsumer, StepStopConsumer, StepTrackChanged, StepTrackDeadLettered, StepEnsureIndex, StepStartReindex,
     StepNewGeneration, StepRebuildRead, StepRebuildFlush, StepPromote, StepPromoteDrop, StepReindexEnds
     DEF RebuildNext
<1>3. QED
  BY <1>1, <1>2

\* The invariant says what a rebuild promises.
LEMMA RebuildPromises == RebuildInv => AliasAlwaysReads /\ ExactAfterReindex
<1> SUFFICES ASSUME RebuildInv PROVE AliasAlwaysReads /\ ExactAfterReindex
  OBVIOUS
<1> USE DEF RebuildInv
<1>1. AliasAlwaysReads
  <2>1. SUFFICES ASSUME NEW a \in SearchAliases, aliasOf[a] # {}
                 PROVE  Cardinality(aliasOf[a]) = 1 /\ \A g \in aliasOf[a] : <<a, g>> \in DOMAIN indexDocs
    BY DEF AliasAlwaysReads
  <2>2. PICK g \in Generations : aliasOf[a] = {g} /\ <<a, g>> \in DOMAIN indexDocs
    BY <2>1 DEF AliasesRead
  <2>3. Cardinality({g}) = 1
    BY FS_Singleton
  <2>4. QED
    BY <2>2, <2>3
<1>2. ExactAfterReindex
  <2>1. SUFFICES ASSUME reindexer.pc = "idle", reindexer.alone, ~missed, consumer.at = Len(feed)
                 PROVE  LET found == indexDocs[<<"tracks", CHOOSE g \in aliasOf["tracks"] : TRUE>>]
                        IN found.on = track.on /\ (found.on => found.v = track.v)
    BY DEF ExactAfterReindex
  <2>2. PICK g \in Generations : aliasOf["tracks"] = {g} /\ DocAsFar(indexDocs[<<"tracks", g>>], consumer.at, feed, track, missed)
    BY <2>1 DEF Alone
  <2>3. (CHOOSE h \in aliasOf["tracks"] : TRUE) = g
    BY <2>2
  <2>4. QED
    BY <2>1, <2>2, <2>3, FitsExact DEF DocAsFar
<1>3. QED
  BY <1>1, <1>2

\* Only EnsureIndex and Promote move an alias, and neither leaves it nowhere.
LEMMA AliasStays ==
  ASSUME RebuildInv, [RebuildNext]_rebuildVars, NEW a \in SearchAliases, aliasOf[a] # {}
  PROVE  aliasOf'[a] # {}
<1>1. CASE aliasOf' = aliasOf
  BY <1>1
<1>2. ASSUME NEW b \in SearchAliases, EnsureIndex(b) PROVE aliasOf'[a] # {}
  BY <1>2 DEF EnsureIndex, RebuildInv, RebuildTyped, Targets
<1>3. CASE Promote
  <2>1. PICK o \in Gens : CommandAt(o)
    BY <1>3 DEF Promote, RebuildInv, Command
  <2> DEFINE b == SwapOrder[reindexer.n]
             new == {j[2] : j \in {i \in reindexer.made : i[1] = b}}
  <2>2. aliasOf' = [aliasOf EXCEPT ![b] = new]
    BY <1>3 DEF Promote
  <2>3. b \in SearchAliases /\ NewIndex(o, b) \in reindexer.made /\ NewIndex(o, b)[1] = b
    BY <1>3, <2>1, NextTurn DEF Promote, SwapOrder, SearchAliases, CommandAt, NewIndex, RebuildInv
  <2>4. new # {}
    <3> HIDE DEF b
    <3>1. NewIndex(o, b)[2] \in new
      BY <2>3
    <3>2. QED
      BY <3>1
  <2> HIDE DEF b, new
  <2>5. QED
    BY <2>2, <2>3, <2>4 DEF RebuildInv, RebuildTyped, Targets
<1>4. QED
  BY <1>1, <1>2, <1>3 DEF RebuildNext, rebuildVars, TrackUpdate, StartConsumer, StopConsumer, TrackChanged,
     TrackChangeFails, TrackDeadLettered, StartReindex,
     NewGeneration, RebuildRead, RebuildFlush, PromoteDrop, ReindexFails, ReindexKilled

\* The `reindex` command: whatever updates, restarts of the consumer, failures
\* and kills come in between, every alias once there names one index that
\* exists, and a rebuild the consumer did not disturb, with the events consumed
\* since, gives the document of Catalog's row, unless the last of those events
\* was dead-lettered.
THEOREM RebuildIsSafe == RebuildSpec => RebuildSafe
<1>1. RebuildInv /\ [RebuildNext]_rebuildVars => [\A a \in SearchAliases : aliasOf[a] # {} => aliasOf'[a] # {}]_rebuildVars
  BY AliasStays
<1>2. RebuildSpec => []RebuildInv
  BY RebuildStarts, RebuildInductive, PTL DEF RebuildSpec
<1>3. QED
  BY <1>1, <1>2, RebuildPromises, PTL DEF RebuildSpec, RebuildSafe, AliasNeverLost

-----------------------------------------------------------------------------
(* The run of MCProjections, and types                                      *)

\* What MCProjections checks of one projection at a time are behaviours of the
\* specifications that the theorems are about.
THEOREM RunsAreBehaviours == MCSpec => PlaylistIndexSpec /\ SignalsSpec /\ RebuildSpec
<1> DEFINE OneStep == [Playlists \/ Likes \/ Search \/ Score]_mcVars
<1>1. MCInit => PlaylistInit /\ IndexInit /\ LibraryInit /\ SignalsInit /\ RebuildInit
  BY Zenon DEF MCInit
<1>2. OneStep => [PlaylistIndexNext]_playlistIndexVars
  BY Zenon DEF Playlists, Likes, Search, Score, mcVars, PlaylistIndexNext
<1>3. OneStep => [LikesNext \/ OthersNext]_<<libraryVars, signalVars>>
  BY Zenon DEF Playlists, Likes, Search, Score, mcVars
<1>4. OneStep => [RebuildNext]_rebuildVars
  BY Zenon DEF Playlists, Likes, Search, Score, mcVars
<1>5. QED
  BY <1>1, <1>2, <1>3, <1>4, PTL DEF MCSpec, PlaylistIndexSpec, SignalsSpec, RebuildSpec

\* A request that has its transaction has read the clock, a deletion once the
\* row is gone.
HasTime(q) ==
  /\ q.pc \in {"begin", "locked", "commit"} /\ q.op # "delete" => q.at # 0
  /\ q.pc = "commit" => q.at # 0

TimesRead ==
  /\ stamp # 0
  /\ \A r \in PlaylistReqs : HasTime(playlistReq[r])
  /\ \A i \in 1..Len(playlistEvents) : playlistEvents[i].at # 0

\* What requests begin and end with.
LEMMA TimelyRecords ==
  /\ HasTime(Quiet)
  /\ \A st : HasTime(Reply(st))
  /\ \A op : HasTime(Done(op))
  /\ \A op, arg, n : op = "delete" \/ n # 0 => HasTime(Change(op, arg, n))
  /\ \A op, arg, n : HasTime([Change(op, arg, n) EXCEPT !.pc = "catalog"])
<1>1. HasTime(Quiet) /\ \A st : HasTime(Reply(st))
  BY DEF HasTime, Quiet, Reply
<1>2. \A op : HasTime(Done(op))
  BY <1>1 DEF Done
<1>3. ASSUME NEW op, NEW arg, NEW n
      PROVE  /\ op = "delete" \/ n # 0 => HasTime(Change(op, arg, n))
             /\ HasTime([Change(op, arg, n) EXCEPT !.pc = "catalog"])
  <2>1. PICK c : c = [Quiet EXCEPT !.pc = "begin", !.op = op, !.arg = arg, !.at = n]
    OBVIOUS
  <2>2. PICK d : d = [c EXCEPT !.pc = "catalog"]
    OBVIOUS
  <2>3. c.pc = "begin" /\ c.op = op /\ c.at = n /\ d.pc = "catalog"
    BY <2>1, <2>2 DEF Quiet
  <2>4. op = "delete" \/ n # 0 => HasTime(c)
    BY <2>3 DEF HasTime
  <2>5. HasTime(d)
    BY <2>3 DEF HasTime
  <2>6. QED
    BY <2>1, <2>2, <2>4, <2>5 DEF Change
<1>4. QED
  BY <1>1, <1>2, <1>3

\* Every event carries a time that was read.
LEMMA TimesStay ==
  ASSUME PlaylistInv, TimesRead, NEW r \in PlaylistReqs, PlaylistRequest(r)
  PROVE  TimesRead'
<1> DEFINE q == playlistReq[r]
<1>1. /\ q \in PlaylistReqRecord /\ HasTime(q) /\ stamp \in Nat /\ stamp # 0
      /\ playlistReq \in [PlaylistReqs -> PlaylistReqRecord] /\ playlistEvents \in Seq(PlaylistEventRecord)
  BY PlaylistAssumption DEF PlaylistInv, PlaylistTypes, Stamps, TimesRead
<1>2. ASSUME NEW new, HasTime(new), playlistReq' = [playlistReq EXCEPT ![r] = new], stamp' = stamp \/ Stamped, RowsUnchanged
      PROVE  TimesRead'
  <2>1. stamp' # 0
    BY <1>1, <1>2 DEF Stamped
  <2>2. ASSUME NEW o \in PlaylistReqs PROVE HasTime(playlistReq'[o])
    <3>1. playlistReq'[o] = new \/ playlistReq'[o] = playlistReq[o]
      BY <1>1, <1>2
    <3>2. QED
      BY <1>2, <3>1 DEF TimesRead
  <2>3. QED
    BY <1>2, <2>1, <2>2 DEF TimesRead, RowsUnchanged, HasTime
<1>3. ASSUME NEW caller, NEW next, HasTime(next), Owned(r, caller, next), stamp' = stamp \/ Stamped, RowsUnchanged
      PROVE  TimesRead'
  <2>1. PICK new : /\ new = next \/ \E st : new = Reply(st)
                   /\ playlistReq' = [playlistReq EXCEPT ![r] = new]
    BY <1>3 DEF Owned, Go
  <2>2. HasTime(new)
    BY <1>3, <2>1, TimelyRecords
  <2>3. QED
    BY <1>2, <1>3, <2>1, <2>2
<1>4. ASSUME NEW title, Create(r, title) PROVE TimesRead'
  <2>1. /\ playlistReq' = [playlistReq EXCEPT ![r] = Done("create")] /\ Stamped
        /\ playlistEvents' = <<Event("created", title, stamp)>>
    BY <1>4 DEF Create, Go
  <2>2. ASSUME NEW o \in PlaylistReqs PROVE HasTime(playlistReq'[o])
    <3>1. playlistReq'[o] = Done("create") \/ playlistReq'[o] = playlistReq[o]
      BY <1>1, <2>1
    <3>2. QED
      BY <3>1, TimelyRecords DEF TimesRead
  <2>3. stamp' # 0
    BY <1>1, <2>1 DEF Stamped
  <2>4. \A i \in 1..Len(playlistEvents') : playlistEvents'[i].at # 0
    BY <1>1, <2>1 DEF Event
  <2>5. QED
    BY <2>2, <2>3, <2>4 DEF TimesRead, HasTime
<1>5. CASE RefuseTitle(r) \/ PlaylistTxFails(r) \/ PlaylistAnswered(r)
  <2>1. PICK new : /\ new = Quiet \/ \E st : new = Reply(st)
                   /\ playlistReq' = [playlistReq EXCEPT ![r] = new]
    BY <1>5 DEF RefuseTitle, PlaylistTxFails, PlaylistAnswered, Go
  <2>2. stamp' = stamp /\ RowsUnchanged
    BY <1>5 DEF RefuseTitle, PlaylistTxFails, PlaylistAnswered
  <2>3. QED
    BY <1>2, <2>1, <2>2, TimelyRecords
<1>6. ASSUME NEW caller, NEW title, Rename(r, caller, title) PROVE TimesRead'
  <2>1. PICK next : /\ next = Done("rename") \/ next = Change("rename", title, stamp)
                    /\ Owned(r, caller, next)
    BY <1>6 DEF Rename
  <2>2. HasTime(next)
    BY <1>1, <2>1, TimelyRecords
  <2>3. QED
    BY <1>3, <1>6, <2>1, <2>2 DEF Rename
<1>7. ASSUME NEW caller, Delete(r, caller) PROVE TimesRead'
  BY <1>3, <1>7, TimelyRecords DEF Delete
<1>8. ASSUME NEW caller, NEW t, AddTrack(r, caller, t) PROVE TimesRead'
  BY <1>3, <1>8, TimelyRecords DEF AddTrack
<1>9. ASSUME NEW caller, NEW t, RemoveTrack(r, caller, t) PROVE TimesRead'
  BY <1>1, <1>3, <1>9, TimelyRecords DEF RemoveTrack
<1>10. ASSUME NEW caller, NEW order, Reorder(r, caller, order) PROVE TimesRead'
  BY <1>1, <1>3, <1>10, TimelyRecords DEF Reorder
<1>11. ASSUME NEW err, TrackExists(r, err) PROVE TimesRead'
  <2>1. CASE err = "nil"
    <3>1. PICK new : new = [q EXCEPT !.pc = "begin", !.at = stamp]
      OBVIOUS
    <3>2. HasTime(new)
      BY <1>1, <3>1 DEF HasTime, PlaylistReqRecord
    <3>3. QED
      BY <1>2, <1>11, <2>1, <3>1, <3>2 DEF TrackExists, Go
  <2>2. CASE err # "nil"
    BY <1>2, <1>11, <2>2, TimelyRecords DEF TrackExists, Go
  <2>3. QED
    BY <2>1, <2>2
<1>12. CASE LockPlaylist(r)
  <2>1. PICK new : /\ \/ new = [q EXCEPT !.pc = "locked"] /\ q.pc = "begin"
                      \/ new = Done("delete")
                      \/ \E st : new = Reply(st)
                   /\ playlistReq' = [playlistReq EXCEPT ![r] = new]
    BY <1>12 DEF LockPlaylist, Go
  <2>2. HasTime(new)
    <3>1. CASE new = [q EXCEPT !.pc = "locked"] /\ q.pc = "begin"
      BY <1>1, <3>1 DEF HasTime, PlaylistReqRecord
    <3>2. QED
      BY <2>1, <3>1, TimelyRecords
  <2>3. QED
    BY <1>2, <1>12, <2>1, <2>2 DEF LockPlaylist
<1>13. CASE Execute(r)
  <2>1. q.pc = "locked" /\ (stamp' = stamp \/ Stamped) /\ RowsUnchanged
    BY <1>13 DEF Execute
  <2>2. PICK new : /\ \/ q.op # "delete" /\ \E p : new = [q EXCEPT !.pc = "commit", !.new = p]
                      \/ new = [q EXCEPT !.pc = "commit", !.at = stamp]
                      \/ \E op : new = Done(op)
                      \/ \E st : new = Reply(st)
                   /\ playlistReq' = [playlistReq EXCEPT ![r] = new]
    BY <1>13 DEF Execute, Go
  <2>3. HasTime(new)
    <3>1. ASSUME NEW p, q.op # "delete", new = [q EXCEPT !.pc = "commit", !.new = p] PROVE HasTime(new)
      <4>1. q.at # 0
        BY <1>1, <2>1, <3>1 DEF HasTime
      <4>2. new.at = q.at
        BY <1>1, <3>1 DEF PlaylistReqRecord
      <4>3. QED
        BY <4>1, <4>2 DEF HasTime
    <3>2. CASE new = [q EXCEPT !.pc = "commit", !.at = stamp]
      BY <1>1, <3>2 DEF HasTime, PlaylistReqRecord
    <3>3. QED
      BY <2>2, <3>1, <3>2, TimelyRecords
  <2>4. QED
    BY <1>2, <2>1, <2>2, <2>3
<1>14. CASE CommitPlaylist(r)
  <2>1. /\ q.pc = "commit" /\ playlistReq' = [playlistReq EXCEPT ![r] = Done(q.op)] /\ stamp' = stamp
        /\ playlistEvents' = Append(playlistEvents, Announce(q))
    BY <1>14 DEF CommitPlaylist, Go
  <2>2. Announce(q).at # 0
    <3>1. Announce(q).at = q.at
      BY DEF Announce, Event
    <3>2. QED
      BY <1>1, <2>1, <3>1 DEF HasTime
  <2>3. \A i \in 1..Len(playlistEvents') : playlistEvents'[i].at # 0
    <3>1. PICK e : e = Announce(q)
      OBVIOUS
    <3>2. playlistEvents' = Append(playlistEvents, e) /\ e.at # 0
      BY <2>1, <2>2, <3>1
    <3>3. QED
      BY <1>1, <3>2 DEF TimesRead
  <2>4. ASSUME NEW o \in PlaylistReqs PROVE HasTime(playlistReq'[o])
    <3>1. playlistReq'[o] = Done(q.op) \/ playlistReq'[o] = playlistReq[o]
      BY <1>1, <2>1
    <3>2. QED
      BY <3>1, TimelyRecords DEF TimesRead
  <2>5. QED
    BY <1>1, <2>1, <2>3, <2>4 DEF TimesRead, HasTime
<1>15. QED
  BY <1>4, <1>5, <1>6, <1>7, <1>8, <1>9, <1>10, <1>11, <1>12, <1>13, <1>14, Zenon DEF PlaylistRequest

LEMMA PlaylistTypesHold == PlaylistInv /\ TimesRead => PlaylistTypeOK
<1> SUFFICES ASSUME PlaylistInv, TimesRead PROVE PlaylistTypeOK
  OBVIOUS
<1>1. PlaylistTypes
  BY DEF PlaylistInv
<1>2. playlist.exists \in BOOLEAN /\ playlist.pos \in [Songs -> Nat] /\ playlist.updated \in 0..LastStamp
  BY <1>1 DEF PlaylistTypes, RowRecord, Flags, Positions, Stamps
<1>3. ASSUME NEW r \in PlaylistReqs
      PROVE  /\ playlistReq[r].pc \in {"idle", "catalog", "begin", "locked", "commit", "answer"}
             /\ playlistReq[r].status \in {0, 200, 201, 204, 403, 404, 409, 422, 503}
  <2>1. playlistReq[r].pc \in PlaylistPcs /\ playlistReq[r].status \in PlaylistStatuses
    BY <1>1 DEF PlaylistTypes, PlaylistReqRecord
  <2>2. QED
    BY <2>1 DEF PlaylistPcs, PlaylistStatuses
<1>4. ASSUME NEW i \in 1..Len(playlistEvents) PROVE playlistEvents[i].at \in 1..LastStamp
  <2>1. playlistEvents \in Seq(PlaylistEventRecord)
    BY <1>1 DEF PlaylistTypes
  <2>2. playlistEvents[i] \in PlaylistEventRecord
    BY <2>1
  <2>3. playlistEvents[i].at \in Stamps /\ playlistEvents[i].at # 0
    BY <2>2 DEF PlaylistEventRecord, TimesRead
  <2>4. QED
    BY <2>3 DEF Stamps
<1>5. QED
  BY <1>2, <1>3, <1>4 DEF PlaylistTypeOK

LEMMA LibraryTypesHold == LibraryTypes => LibraryTypeOK
<1> SUFFICES ASSUME LibraryTypes PROVE LibraryTypeOK
  OBVIOUS
<1>1. saved \in [LikedItems -> 0..LastSave]
  BY DEF LibraryTypes, SaveTimes
<1>2. ASSUME NEW r \in LibraryReqs
      PROVE  /\ libraryReq[r].pc \in {"idle", "catalog", "statement", "existing", "commit", "answer"}
             /\ libraryReq[r].status \in {0, 204, 404, 503}
  <2>1. libraryReq[r].pc \in LibraryPcs /\ libraryReq[r].status \in LibraryStatuses
    BY DEF LibraryTypes, LibraryRecord
  <2>2. QED
    BY <2>1 DEF LibraryPcs, LibraryStatuses
<1>3. ASSUME NEW i \in 1..Len(libraryEvents) PROVE libraryEvents[i] \in [on : BOOLEAN, item : LikedItems, at : 1..LastSave]
  <2>1. libraryEvents \in Seq(LibraryEventRecord)
    BY DEF LibraryTypes
  <2>2. libraryEvents[i] \in LibraryEventRecord
    BY <2>1
  <2>3. SaveTimes \ {0} = 1..LastSave
    BY DEF SaveTimes
  <2>4. QED
    BY <2>2, <2>3 DEF LibraryEventRecord
<1>4. QED
  BY <1>1, <1>2, <1>3 DEF LibraryTypeOK

\* The playlist's and the library's variables keep their types, in every
\* behaviour of MCProjections: no event is written without a time, wherever
\* the code reads the clock.
THEOREM ProjectionsTypesHold == MCSpec => []ProjectionsTypeOK
<1>1. PlaylistInit => TimesRead
  <2> SUFFICES ASSUME PlaylistInit PROVE TimesRead
    OBVIOUS
  <2>1. playlistEvents = <<>> /\ stamp = 1 /\ \A r \in PlaylistReqs : playlistReq[r] = Quiet
    BY DEF PlaylistInit
  <2>2. QED
    BY <2>1, TimelyRecords DEF TimesRead
<1>2. PlaylistInv /\ TimesRead /\ [PlaylistIndexNext]_playlistIndexVars => TimesRead'
  <2>1. CASE UNCHANGED playlistVars
    BY <2>1 DEF playlistVars, TimesRead, HasTime
  <2>2. PlaylistIndexNext => (\E r \in PlaylistReqs : PlaylistRequest(r)) \/ UNCHANGED playlistVars
    BY Zenon DEF PlaylistIndexNext, PlaylistNext, Deliver, ReadPlaylist, WriteDoc, WriteFails, DeadLetterEvent
  <2>3. UNCHANGED playlistIndexVars => UNCHANGED playlistVars
    BY DEF playlistIndexVars
  <2>4. QED
    BY <2>1, <2>2, <2>3, TimesStay
<1>3. PlaylistIndexSpec => []PlaylistTypeOK
  BY PlaylistInvariance, <1>1, <1>2, PlaylistTypesHold, PTL DEF PlaylistIndexSpec
<1>4. SignalsInv => LibraryTypeOK
  BY LibraryTypesHold DEF SignalsInv, LibraryInv
<1>5. SignalsSpec => []LibraryTypeOK
  BY SignalsInvInit, SignalsInvNext, <1>4, PTL DEF SignalsSpec
<1>6. QED
  BY RunsAreBehaviours, <1>3, <1>5, PTL DEF ProjectionsTypeOK
=============================================================================
