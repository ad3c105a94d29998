----------------------------- MODULE MediaEvents -----------------------------
(***************************************************************************)
(* What the media services share for one track: the master objects in      *)
(* storage, the media.events topic (keyed by track id, so one partition),  *)
(* and what a consumer group of libs/platform/kafka promises about reading *)
(* it.                                                                     *)
(*                                                                         *)
(* A group is [owner, committed, pos, next, last]: the member that owns    *)
(* the partition, the committed offset, the owner's fetch position, and    *)
(* for each member the records next..last it has fetched and not handled   *)
(* yet.  A member that loses the partition still works off its records,    *)
(* and its commit may be refused or not (module ConsumerGroup).            *)
(***************************************************************************)
EXTENDS Integers, Sequences

CONSTANTS Uploads,  \* upload sessions of the track
          Digest,   \* Digest[u]: the SHA-256 declared for u
          Content,  \* Content[u]: what kind of bytes have that digest
          None

ASSUME MediaAssumption ==
  /\ Content \in [Uploads -> {"audio", "undecodable", "rejected"}]
  /\ DOMAIN Digest = Uploads
  /\ \A u, v \in Uploads : Digest[u] = Digest[v] => Content[u] = Content[v]

VARIABLES topic,   \* media.events
          object   \* the master under each upload's key

Types == {"track.uploaded", "media.ingest.failed", "track.transcoded", "media.transcode.failed"}

\* `at' is uploadedAt; nothing reads the time of an outcome, which carries its job's.
Event == [type : Types, upload : Uploads, at : Nat]

MediaTypeOK ==
  /\ topic \in Seq(Event)
  /\ object \in [Uploads -> {"none", "sending", "stored"}]

Publish(e) == topic' = Append(topic, e)

-----------------------------------------------------------------------------
(* Consumer groups *)

Group(members) ==
  [owner : members \cup {None}, committed : Nat, pos : Nat,
   next : [members -> Nat], last : [members -> Nat]]

NewGroup(members) ==
  [owner |-> None, committed |-> 0, pos |-> 0,
   next |-> [m \in members |-> 1], last |-> [m \in members |-> 0]]

Working(g, m) == g.next[m] <= g.last[m]

\* Run: PollFetches returns records pos + 1..n.
Fetches(g, m) ==
  IF g.owner = m /\ ~Working(g, m)
  THEN {[g EXCEPT !.pos = n, !.next[m] = g.pos + 1, !.last[m] = n] : n \in (g.pos + 1)..Len(topic)}
  ELSE {}

\* Run: the record is settled; when it was the last one, they are committed.
Settles(g, m) ==
  LET done == [g EXCEPT !.next[m] = @ + 1]
      saved == [done EXCEPT !.committed = g.last[m]] IN
  IF g.next[m] < g.last[m] THEN {done}
  ELSE IF g.owner = m THEN {saved} ELSE {done, saved}

\* A rebalance gives the partition to m, who fetches from the committed offset.
Rebalanced(g, m) == [g EXCEPT !.owner = m, !.pos = g.committed]

\* The process of m dies with its records.
Killed(g, m) == [g EXCEPT !.next[m] = 1, !.last[m] = 0,
                          !.owner = IF @ = m THEN None ELSE @]
=============================================================================
