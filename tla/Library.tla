------------------------------- MODULE Library -------------------------------
(***************************************************************************)
(* Library Service: the saved tracks and albums of one listener, changed   *)
(* by overlapping idempotent PUTs and DELETEs, with library.events written *)
(* in the transaction of the change.  savedAt and removedAt are read from  *)
(* the clock before the statement that may have to wait.                   *)
(***************************************************************************)
EXTENDS Integers, FiniteSets, Sequences, SequencesExt, Ordering

CONSTANTS LikedItems,    \* <<kind, id>>, kind "track" or "album", id a natural
          LibraryReqs,   \* requests in flight
          LastSave,      \* bound: readings of the clock
          MaxLibraryEvents

ASSUME LibraryAssumption ==
  /\ LikedItems \subseteq {"track", "album"} \X Nat
  /\ IsFiniteSet(LikedItems)
  /\ LastSave \in Nat \ {0}

VARIABLES saved,           \* library.items: savedAt, 0 when absent
          libraryEvents,   \* rows written to library.outbox, in commit order
          libraryReq,
          saveClock

libraryVars == <<saved, libraryEvents, libraryReq, saveClock>>

NoLibraryReq == [pc |-> "idle", op |-> "none", item |-> <<>>, at |-> 0, status |-> 0]

LibraryTypeOK ==
  /\ saved \in [LikedItems -> 0..LastSave]
  /\ \A r \in LibraryReqs : /\ libraryReq[r].pc \in {"idle", "catalog", "statement", "existing", "commit", "answer"}
                            /\ libraryReq[r].status \in {0, 204, 404, 503}
  /\ \A i \in 1..Len(libraryEvents) : libraryEvents[i] \in [on : BOOLEAN, item : LikedItems, at : 1..LastSave]

LibraryInit ==
  /\ saved = [x \in LikedItems |-> 0]
  /\ libraryEvents = <<>>
  /\ libraryReq = [r \in LibraryReqs |-> NoLibraryReq]
  /\ saveClock = 1

LibraryStep(r, from, rec) == libraryReq[r].pc = from /\ libraryReq' = [libraryReq EXCEPT ![r] = rec]
ItemsUnchanged == UNCHANGED <<saved, libraryEvents>>
\* The clock may read the same microsecond again.
ReadClock == saveClock' \in {saveClock, saveClock + 1} /\ saveClock' <= LastSave

\* The save and remove handlers' answers.
SaveStatus(err) == CASE err = "nil" -> 204 [] err = "ErrNotFound" -> 404 [] OTHER -> 503
RemoveStatus(err) == IF err = "nil" THEN 204 ELSE 503
LibraryReply(op, err) ==
  [NoLibraryReq EXCEPT !.pc = "answer", !.status = IF op = "save" THEN SaveStatus(err) ELSE RemoveStatus(err)]

\* PUT: Catalog is asked first.
Save(r, x) ==
  /\ LibraryStep(r, "idle", [NoLibraryReq EXCEPT !.pc = "catalog", !.op = "save", !.item = x])
  /\ ItemsUnchanged /\ UNCHANGED saveClock

\* Client.Exists: found, not found or deleted, or no answer.
CatalogExists(r, err) ==
  /\ IF err = "nil"
     THEN ReadClock /\ LibraryStep(r, "catalog", [libraryReq[r] EXCEPT !.pc = "statement", !.at = saveClock'])
     ELSE UNCHANGED saveClock /\ LibraryStep(r, "catalog", LibraryReply("save", err))
  /\ ItemsUnchanged

\* DELETE.
Unsave(r, x) ==
  /\ ReadClock
  /\ LibraryStep(r, "idle", [NoLibraryReq EXCEPT !.pc = "statement", !.op = "remove", !.item = x, !.at = saveClock'])
  /\ ItemsUnchanged

\* No other open transaction has written the item.
ItemFree(r) == \A o \in LibraryReqs \ {r} : libraryReq[o].pc = "commit" => libraryReq[o].item # libraryReq[r].item

\* INSERT ... ON CONFLICT DO NOTHING; of an item already there the time is read.
SaveItem(r) ==
  LET q == libraryReq[r] IN
  /\ q.op = "save" /\ ItemFree(r)
  /\ LibraryStep(r, "statement", [q EXCEPT !.pc = IF saved[q.item] = 0 THEN "commit" ELSE "existing"])
  /\ ItemsUnchanged /\ UNCHANGED saveClock

\* The item may have been removed since: the request fails.
SaveReadExisting(r) ==
  /\ LibraryStep(r, "existing", LibraryReply("save", IF saved[libraryReq[r].item] # 0 THEN "nil" ELSE "no rows"))
  /\ ItemsUnchanged /\ UNCHANGED saveClock

\* Mutant of RemoveItem: rows affected is not looked at.
RemoveAnyItem(r) ==
  LET q == libraryReq[r] IN
  /\ q.op = "remove" /\ ItemFree(r) /\ LibraryStep(r, "statement", [q EXCEPT !.pc = "commit"])
  /\ ItemsUnchanged /\ UNCHANGED saveClock

\* DELETE waits for a transaction that has the row; a row that is not there
\* yet is not waited for.
RemoveItem(r) ==
  LET q == libraryReq[r] IN
  /\ q.op = "remove"
  /\ IF saved[q.item] = 0 THEN LibraryStep(r, "statement", LibraryReply("remove", "nil"))
     ELSE ItemFree(r) /\ LibraryStep(r, "statement", [q EXCEPT !.pc = "commit"])
  /\ ItemsUnchanged /\ UNCHANGED saveClock

\* Publisher.Saved and Removed: the event has the time read by the request.
LibraryEvent(q) == [on |-> q.op = "save", item |-> q.item, at |-> q.at]

\* The event is in the outbox and the transaction commits.
CommitLibrary(r) ==
  LET q == libraryReq[r] IN
  /\ Len(libraryEvents) < MaxLibraryEvents
  /\ LibraryStep(r, "commit", LibraryReply(q.op, "nil"))
  /\ saved' = [saved EXCEPT ![q.item] = IF q.op = "save" THEN q.at ELSE 0]
  /\ libraryEvents' = Append(libraryEvents, LibraryEvent(q))
  /\ UNCHANGED saveClock

LibraryTxFails(r) ==
  /\ libraryReq[r].pc \in {"statement", "existing", "commit"}
  /\ LibraryStep(r, libraryReq[r].pc, LibraryReply(libraryReq[r].op, "failed"))
  /\ ItemsUnchanged /\ UNCHANGED saveClock

LibraryAnswered(r) ==
  /\ LibraryStep(r, "answer", NoLibraryReq)
  /\ ItemsUnchanged /\ UNCHANGED saveClock

LibraryNext ==
  \E r \in LibraryReqs :
    \/ \E x \in LikedItems : Save(r, x) \/ Unsave(r, x)
    \/ \E err \in {"nil", "ErrNotFound", "failed"} : CatalogExists(r, err)
    \/ SaveItem(r) \/ SaveReadExisting(r) \/ RemoveItem(r) \/ CommitLibrary(r)
    \/ LibraryTxFails(r) \/ LibraryAnswered(r)

-----------------------------------------------------------------------------
(* Lists, newest first, by (savedAt, entity).                                *)

ItemsOf(kind) == {x \in LikedItems : x[1] = kind /\ saved[x] # 0}
SavedRows(kind) == {<<saved[x], x[2]>> : x \in ItemsOf(kind)}
Before(a, b) == a[1] > b[1] \/ (a[1] = b[1] /\ a[2] > b[2])

\* SELECT ... WHERE (saved_at, entity_id) < cursor ORDER BY both LIMIT.
ListItems(kind, after, limit) ==
  LET rows == {x \in SavedRows(kind) : after = <<>> \/ Before(after, x)}
  IN FirstRows(rows, {p \in rows \X rows : Before(p[1], p[2])}, limit)

\* List: one row beyond the page says there is a next one.
ListPage(kind, after, limit) == NextPage(ListItems(kind, after, limit + 1), limit)

SavedAmong(kind, ids) == {x[2] : x \in ItemsOf(kind)} \cap ids
LibraryCounts == [tracks |-> Cardinality(ItemsOf("track")), albums |-> Cardinality(ItemsOf("album"))]

-----------------------------------------------------------------------------
ItemEvents(x) == {i \in 1..Len(libraryEvents) : libraryEvents[i].item = x}
Adjacent(of, i, j) == i < j /\ \A k \in of : k <= i \/ j <= k

\* A listener's library is what library.events say, replayed: of an item the
\* events alternate from a save on, and the last one says whether it is there.
EventsReplayLibrary ==
  \A x \in LikedItems :
    LET of == ItemEvents(x) IN
    /\ \A i \in of : (\A j \in of : i <= j) => libraryEvents[i].on
    /\ \A i, j \in of : Adjacent(of, i, j) => libraryEvents[i].on # libraryEvents[j].on
    /\ of = {} => saved[x] = 0
    /\ \A i \in of : (\A j \in of : j <= i)
                       => saved[x] = IF libraryEvents[i].on THEN libraryEvents[i].at ELSE 0

\* The pages of a list, one row each, after each cursor.
ListPages(kind) == [after \in SavedRows(kind) \cup {<<>>} |-> ListPage(kind, after, 1)]

\* Following the cursors to the end gives every saved item once, items saved
\* in the same microsecond too, as many as the sidebar counts and exactly
\* those that are marked as liked.
PagesEnumerate ==
  \A kind \in {"track", "album"} :
    LET rows == Walk(ListPages(kind), Cardinality(LikedItems)) IN
    /\ {row[2] : row \in Range(rows)} = SavedAmong(kind, {x[2] : x \in LikedItems})
    /\ Len(rows) = IF kind = "track" THEN LibraryCounts.tracks ELSE LibraryCounts.albums

\* The library, its events and its pages tell of the same items.
LibraryFollowed == EventsReplayLibrary /\ PagesEnumerate
=============================================================================
