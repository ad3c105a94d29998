------------------------------ MODULE Playlist ------------------------------
(***************************************************************************)
(* Playlist Service: requests that change one playlist.  Each reads the    *)
(* playlist for its owner, may ask Catalog about a track, and then runs a  *)
(* transaction that takes the playlist's row, changes it and writes the    *)
(* event.  updatedAt and the event's occurredAt are read from the clock    *)
(* where the code reads it, which is mostly before the row is locked.      *)
(***************************************************************************)
EXTENDS Integers, FiniteSets, Sequences, SequencesExt

CONSTANTS Titles,           \* titles that NormalizeTitle accepts
          Songs,            \* catalog tracks
          PlaylistReqs,     \* requests in flight
          LastStamp         \* bound: readings of the clock

ASSUME PlaylistAssumption == IsFiniteSet(Songs) /\ LastStamp \in Nat \ {0}

VARIABLES playlist,         \* the row of playlist.playlists and its playlist_tracks
          playlistEvents,   \* rows written to playlist.outbox, in commit order
          playlistReq,      \* what each request is doing
          stamp             \* the clock: a reading is later than those before it

playlistVars == <<playlist, playlistEvents, playlistReq, stamp>>

NoTracks == [t \in Songs |-> 0]
Missing == [exists |-> FALSE, title |-> "", pos |-> NoTracks, updated |-> 0]
Quiet == [pc |-> "idle", op |-> "none", arg |-> <<>>, at |-> 0, new |-> Missing, status |-> 0]

\* What a client may send as the new order: also orders that repeat, miss or add a track.
Orders == UNION {[1..n -> Songs] : n \in 0..Cardinality(Songs)}

PlaylistTypeOK ==
  /\ playlist.exists \in BOOLEAN
  /\ playlist.pos \in [Songs -> Nat]
  /\ playlist.updated \in 0..LastStamp
  /\ \A r \in PlaylistReqs : /\ playlistReq[r].pc \in {"idle", "catalog", "begin", "locked", "commit", "answer"}
                             /\ playlistReq[r].status \in {0, 200, 201, 204, 403, 404, 409, 422, 503}
  /\ \A i \in 1..Len(playlistEvents) : playlistEvents[i].at \in 1..LastStamp

PlaylistInit ==
  /\ playlist = Missing
  /\ playlistEvents = <<>>
  /\ playlistReq = [r \in PlaylistReqs |-> Quiet]
  /\ stamp = 1

\* Handler.fail, and what the handlers answer otherwise.
FailStatus(err) ==
  CASE err = "ErrInvalidTitle" -> 422 [] err \in {"ErrNotFound", "ErrTrackNotFound"} -> 404
    [] err = "ErrOrderMismatch" -> 409 [] err = "ErrForbidden" -> 403 [] OTHER -> 503
Reply(status) == [Quiet EXCEPT !.pc = "answer", !.status = status]
Done(op) == Reply(CASE op = "create" -> 201 [] op = "rename" -> 200 [] OTHER -> 204)

Go(r, from, rec) == playlistReq[r].pc = from /\ playlistReq' = [playlistReq EXCEPT ![r] = rec]
Stamped == stamp < LastStamp /\ stamp' = stamp + 1
RowsUnchanged == UNCHANGED <<playlist, playlistEvents>>
Event(type, arg, at) == [type |-> type, arg |-> arg, at |-> at]

\* POST /playlists: a new ID, so nothing to wait for.
Create(r, title) ==
  /\ playlist = Missing /\ playlistEvents = <<>>
  /\ Stamped
  /\ playlist' = [Missing EXCEPT !.exists = TRUE, !.title = title, !.updated = stamp]
  /\ playlistEvents' = <<Event("created", title, stamp)>>
  /\ Go(r, "idle", Done("create"))

\* A title NormalizeTitle refuses, of a creation or a rename: nothing is read.
RefuseTitle(r) ==
  /\ Go(r, "idle", Reply(FailStatus("ErrInvalidTitle")))
  /\ RowsUnchanged /\ UNCHANGED stamp

\* owned: Get, then the owner check.
Owned(r, caller, next) ==
  Go(r, "idle", IF ~playlist.exists THEN Reply(FailStatus("ErrNotFound"))
                ELSE IF caller # "owner" THEN Reply(FailStatus("ErrForbidden"))
                ELSE next)
Change(op, arg, at) == [Quiet EXCEPT !.pc = "begin", !.op = op, !.arg = arg, !.at = at]

\* Rename: the title it already has is a no-op.
Rename(r, caller, title) ==
  /\ Owned(r, caller, IF playlist.title = title THEN Done("rename") ELSE Change("rename", title, stamp))
  /\ Stamped /\ RowsUnchanged

\* Delete reads the clock only once the row is gone.
Delete(r, caller) ==
  /\ Owned(r, caller, Change("delete", <<>>, 0))
  /\ RowsUnchanged /\ UNCHANGED stamp

\* AddTrack: Catalog is asked before the transaction.
AddTrack(r, caller, t) ==
  /\ Owned(r, caller, [Change("add", t, 0) EXCEPT !.pc = "catalog"])
  /\ RowsUnchanged /\ UNCHANGED stamp

\* Mutant of TrackExists: addedAt is never set.
TrackExistsUnstamped(r, err) ==
  /\ RowsUnchanged /\ UNCHANGED stamp
  /\ Go(r, "catalog", IF err = "nil" THEN [playlistReq[r] EXCEPT !.pc = "begin"] ELSE Reply(FailStatus(err)))

\* TrackExists answers; addedAt is read as the transaction begins.
TrackExists(r, err) ==
  /\ RowsUnchanged
  /\ IF err = "nil" THEN Stamped /\ Go(r, "catalog", [playlistReq[r] EXCEPT !.pc = "begin", !.at = stamp])
                    ELSE UNCHANGED stamp /\ Go(r, "catalog", Reply(FailStatus(err)))

RemoveTrack(r, caller, t) ==
  /\ Owned(r, caller, Change("remove", t, stamp))
  /\ Stamped /\ RowsUnchanged

Reorder(r, caller, order) ==
  /\ Owned(r, caller, Change("reorder", order, stamp))
  /\ Stamped /\ RowsUnchanged

\* Mutant of LockPlaylist: the row is read, not locked.
LockNothing(r) ==
  /\ Go(r, "begin", IF playlist.exists THEN [playlistReq[r] EXCEPT !.pc = "locked"] ELSE Reply(404))
  /\ RowsUnchanged /\ UNCHANGED stamp

\* lock (SELECT ... FOR UPDATE), and the row lock of UPDATE and DELETE: wait
\* for the transaction that has the row.  A playlist that is gone is not
\* found, which only Delete does not mind.
LockPlaylist(r) ==
  /\ \A o \in PlaylistReqs : playlistReq[o].pc \notin {"locked", "commit"}
  /\ Go(r, "begin", IF playlist.exists THEN [playlistReq[r] EXCEPT !.pc = "locked"]
                    ELSE IF playlistReq[r].op = "delete" THEN Done("delete")
                    ELSE Reply(FailStatus("ErrNotFound")))
  /\ RowsUnchanged /\ UNCHANGED stamp

Listed(p) == {t \in Songs : p.pos[t] # 0}

\* coalesce(max(position), 0) + 1.
NextPosition(p) == Max({p.pos[t] : t \in Songs} \cup {0}) + 1

\* CheckOrder: every track of the playlist once.
CheckOrder(p, order) == Len(order) = Cardinality(Listed(p)) /\ IsInjective(order) /\ Range(order) \subseteq Listed(p)

\* UpdateTitle, AppendTrack, RemoveTrack and Reorder: what the statements make of the row.
UpdateTitle(p, q) == [p EXCEPT !.title = q.arg, !.updated = q.at]
AppendTrack(p, q) == [p EXCEPT !.pos[q.arg] = NextPosition(p), !.updated = q.at]
DropTrack(p, q) == [p EXCEPT !.pos[q.arg] = 0, !.updated = q.at]
SetPositions(p, q) == [p EXCEPT !.updated = q.at,
                               !.pos = [t \in Songs |-> IF \E i \in 1..Len(q.arg) : q.arg[i] = t
                                                        THEN CHOOSE i \in 1..Len(q.arg) : q.arg[i] = t ELSE @[t]]]

\* The statements of the transaction, on what is committed now.
Execute(r) ==
  LET q == playlistReq[r]
      keep(new) == Go(r, "locked", [q EXCEPT !.pc = "commit", !.new = new])
  IN /\ q.pc = "locked"
     /\ \/ q.op = "rename" /\ keep(UpdateTitle(playlist, q)) /\ UNCHANGED stamp
        \/ /\ q.op = "add" /\ UNCHANGED stamp
           /\ IF playlist.pos[q.arg] = 0 THEN keep(AppendTrack(playlist, q)) ELSE Go(r, "locked", Done("add"))
        \/ /\ q.op = "remove" /\ UNCHANGED stamp
           /\ IF playlist.pos[q.arg] # 0 THEN keep(DropTrack(playlist, q)) ELSE Go(r, "locked", Done("remove"))
        \/ /\ q.op = "reorder" /\ UNCHANGED stamp
           /\ IF CheckOrder(playlist, q.arg) THEN keep(SetPositions(playlist, q))
                                             ELSE Go(r, "locked", Reply(FailStatus("ErrOrderMismatch")))
        \/ /\ q.op = "delete" /\ Stamped
           /\ Go(r, "locked", [q EXCEPT !.pc = "commit", !.at = stamp])
     /\ RowsUnchanged

\* Publisher: TrackAdded carries the position, TracksReordered the order.
Announce(q) ==
  Event(CASE q.op = "rename" -> "updated" [] q.op = "delete" -> "deleted" [] q.op = "add" -> "track_added"
          [] q.op = "remove" -> "track_removed" [] q.op = "reorder" -> "tracks_reordered",
        IF q.op = "add" THEN <<q.arg, q.new.pos[q.arg]>> ELSE q.arg, q.at)

\* The event is in the outbox and the transaction commits.
CommitPlaylist(r) ==
  LET q == playlistReq[r] IN
  /\ Go(r, "commit", Done(q.op))
  /\ playlist' = q.new
  /\ playlistEvents' = Append(playlistEvents, Announce(q))
  /\ UNCHANGED stamp

\* The database fails anywhere in the transaction.
PlaylistTxFails(r) ==
  /\ playlistReq[r].pc \in {"begin", "locked", "commit"}
  /\ Go(r, playlistReq[r].pc, Reply(FailStatus("failed")))
  /\ RowsUnchanged /\ UNCHANGED stamp

PlaylistAnswered(r) == Go(r, "answer", Quiet) /\ RowsUnchanged /\ UNCHANGED stamp

PlaylistRequest(r) ==
  \/ \E title \in Titles : Create(r, title)
  \/ RefuseTitle(r)
  \/ \E caller \in {"owner", "other"} :
       \/ \E title \in Titles : Rename(r, caller, title)
       \/ Delete(r, caller)
       \/ \E t \in Songs : AddTrack(r, caller, t) \/ RemoveTrack(r, caller, t)
       \/ \E order \in Orders : Reorder(r, caller, order)
  \/ \E err \in {"nil", "ErrTrackNotFound", "failed"} : TrackExists(r, err)
  \/ LockPlaylist(r) \/ Execute(r) \/ CommitPlaylist(r) \/ PlaylistTxFails(r) \/ PlaylistAnswered(r)

PlaylistNext == \E r \in PlaylistReqs : PlaylistRequest(r)

-----------------------------------------------------------------------------
\* What a consumer makes of one event.
Replay(p, e) ==
  CASE e.type = "created" -> [p EXCEPT !.exists = TRUE, !.title = e.arg]
    [] e.type = "updated" -> [p EXCEPT !.title = e.arg]
    [] e.type = "deleted" -> Missing
    [] e.type = "track_added" -> [p EXCEPT !.pos[e.arg[1]] = e.arg[2]]
    [] e.type = "track_removed" -> [p EXCEPT !.pos[e.arg] = 0]
    [] e.type = "tracks_reordered" -> SetPositions(p, [arg |-> e.arg, at |-> 0])

\* The playlist a consumer has after the first i events.
Replayed[i \in 0..Len(playlistEvents)] ==
  IF i = 0 THEN Missing ELSE Replay(Replayed[i - 1], playlistEvents[i])

\* Whoever replays playlist.events has the playlist: title, tracks and their
\* positions, whatever renames, appends, removals, reorders and deletes overlap.
EventsReplayPlaylist ==
  [Replayed[Len(playlistEvents)] EXCEPT !.updated = playlist.updated] = playlist

\* No two tracks of a playlist have one position: appends after removals and
\* reorders, which leave gaps and fill them, never run into the unique
\* constraint that is checked at commit.
PositionsDistinct ==
  \A s, t \in Songs : s # t /\ playlist.pos[s] # 0 => playlist.pos[s] # playlist.pos[t]
=============================================================================
