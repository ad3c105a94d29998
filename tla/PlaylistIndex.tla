---------------------------- MODULE PlaylistIndex ----------------------------
(***************************************************************************)
(* The search indexer's playlists index behind playlist.events: an event   *)
(* makes the consumer read the playlist from Playlist Service and write    *)
(* the document, with the event's occurredAt, in milliseconds, as its      *)
(* external version.  An event that keeps failing is dead-lettered.  After *)
(* a rebalance events are delivered again, and the consumer that lost the  *)
(* partition may still be in the middle of a write.                        *)
(***************************************************************************)
EXTENDS Playlist

CONSTANTS Indexers,  \* consumers: the one with the partition, and one that lost it
          Millis     \* the millisecond of each reading of the clock

ASSUME MillisAssumption ==
  /\ Millis \in [0..LastStamp -> Nat]
  /\ \A s, t \in 0..LastStamp : s <= t => Millis[s] <= Millis[t]

VARIABLES doc,       \* the document in the index the alias points to, with its version
          taken,     \* events committed to the consumer group
          job,       \* what each consumer is writing
          deadEvents,   \* history: events that were committed by dead-lettering them
          late       \* history: events written after the group had committed them

indexVars == <<doc, taken, job, deadEvents, late>>
playlistIndexVars == <<playlistVars, indexVars>>

Absent == [exists |-> FALSE, title |-> "", count |-> 0]
NoJob == [n |-> 0, read |-> FALSE, content |-> Absent]

IndexInit ==
  /\ doc = [version |-> 0, content |-> Absent]
  /\ taken = 0
  /\ job = [x \in Indexers |-> NoJob]
  /\ deadEvents = {} /\ late = {}

\* playlistDoc of what GET /playlists/{id} answers; Absent for 404.
PlaylistDoc == [exists |-> playlist.exists, title |-> playlist.title, count |-> Cardinality(Listed(playlist))]

\* The next event is delivered.
Deliver(x) ==
  /\ job[x] = NoJob /\ taken < Len(playlistEvents)
  /\ job' = [job EXCEPT ![x].n = taken + 1]
  /\ UNCHANGED <<playlistVars, doc, taken, deadEvents, late>>

\* PlaylistChanged reads the playlist; PlaylistDeleted reads nothing.
ReadPlaylist(x) ==
  /\ job[x].n # 0 /\ ~job[x].read
  /\ job' = [job EXCEPT ![x].read = TRUE,
                        ![x].content = IF playlistEvents[job[x].n].type = "deleted" THEN Absent ELSE PlaylistDoc]
  /\ UNCHANGED <<playlistVars, doc, taken, deadEvents, late>>

\* version: events of one millisecond have one version.
Version(n) == Millis[playlistEvents[n].at]

\* Apply: a write or delete of an older version than the document's (or the
\* tombstone's) is a conflict, which is not an error.
Apply(version, content) ==
  doc' = IF version >= doc.version THEN [version |-> version, content |-> content] ELSE doc
Applied(x) ==
  /\ Apply(Version(job[x].n), job[x].content)
  /\ late' = IF job[x].n <= taken THEN late \cup {job[x].n} ELSE late

\* The offset commit, which a consumer that lost the partition no longer makes.
CommitEvent(x) ==
  /\ taken' = IF job[x].n = taken + 1 THEN job[x].n ELSE taken
  /\ job' = [job EXCEPT ![x] = NoJob]

\* The bulk write, then the commit.
WriteDoc(x) ==
  /\ job[x].read
  /\ Applied(x) /\ CommitEvent(x)
  /\ UNCHANGED <<playlistVars, deadEvents>>

\* The bulk write fails, or its answer is lost: the handler runs again.  A read
\* that fails is one that comes later.
WriteFails(x) ==
  /\ job[x].read
  /\ Applied(x) \/ UNCHANGED <<doc, late>>
  /\ job' = [job EXCEPT ![x] = [NoJob EXCEPT !.n = job[x].n]]
  /\ UNCHANGED <<playlistVars, taken, deadEvents>>

\* No retry is left: the event goes to the dead-letter topic and is committed.
DeadLetterEvent(x) ==
  /\ job[x].n # 0 /\ ~job[x].read
  /\ CommitEvent(x)
  /\ deadEvents' = IF job[x].n = taken + 1 THEN deadEvents \cup {job[x].n} ELSE deadEvents
  /\ UNCHANGED <<playlistVars, doc, late>>

PlaylistIndexNext ==
  \/ PlaylistNext /\ UNCHANGED indexVars
  \/ \E x \in Indexers : Deliver(x) \/ ReadPlaylist(x) \/ WriteDoc(x) \/ WriteFails(x) \/ DeadLetterEvent(x)

PlaylistIndexSpec ==
  /\ PlaylistInit /\ IndexInit
  /\ [][PlaylistIndexNext]_playlistIndexVars

CaughtUp == taken = Len(playlistEvents) /\ \A x \in Indexers : job[x] = NoJob

\* A playlist that was deleted is not found by search once its events are
\* consumed: the delete reads the clock under the row lock, so no version is
\* newer, and what is written late has an older one.  Unless the deletion was
\* dead-lettered, or an edit of the same millisecond was written late.
NoGhostPlaylist ==
  LET n == Len(playlistEvents) IN
  CaughtUp /\ n # 0 /\ ~playlist.exists /\ doc.content.exists =>
    n \in deadEvents \/ \E i \in late : Version(i) = Version(n)

\* A playlist, its events and its search document agree as far as the code
\* makes them: whatever requests and indexers overlap.
PlaylistFollowed == EventsReplayPlaylist /\ PositionsDistinct /\ NoGhostPlaylist
=============================================================================
