------------------------------- MODULE Social -------------------------------
(***************************************************************************)
(* Social Service: follow and unfollow requests over PostgreSQL, the       *)
(* counters kept beside the edges, social.events written in the same       *)
(* transaction, and a client that pages through a list meanwhile.          *)
(*                                                                         *)
(* A transaction's writes become visible when it commits; until then it    *)
(* holds the edge's key and the counter rows it changed.                   *)
(***************************************************************************)
EXTENDS Integers, FiniteSets, Sequences, SequencesExt, Ordering

CONSTANTS Listeners, Artists,   \* naturals: IDs are ordered
          SocialReqs,           \* requests in flight
          LastInstant,          \* bound: followedAt is 1..LastInstant
          MaxSocialEvents,      \* bound: events written
          PageLimit             \* the limit of the paging client

ASSUME SocialAssumption ==
  /\ IsFiniteSet(Listeners) /\ IsFiniteSet(Artists)
  /\ Listeners \cup Artists \subseteq Nat
  /\ LastInstant \in Nat
  /\ PageLimit \in Nat \ {0}

VARIABLES follows,       \* social.follows: followedAt of each edge, 0 when absent
          counters,      \* social.counters
          socialEvents,  \* rows written to social.outbox, in commit order
          socialReq,     \* what each request is doing
          reader         \* the paging client

socialVars == <<follows, counters, socialEvents, socialReq, reader>>

Subjects == Listeners \cup Artists
Edges == Listeners \X Subjects
IsUser(s) == s \in Listeners
NoRequest == [pc |-> "idle", op |-> "none", edge |-> <<>>, at |-> 0, held |-> {}, status |-> 0]
NoReader == [on |-> FALSE, list |-> "followers", of |-> 0, users |-> TRUE, after |-> <<>>, seen |-> <<>>, stayed |-> {}]

SocialTypeOK ==
  /\ follows \in [Edges -> 0..LastInstant]
  /\ \A s \in Subjects : counters[s] \in [followers : Nat, users : Nat, artists : Nat]
  /\ \A i \in 1..Len(socialEvents) : socialEvents[i] \in [type : {"followed", "unfollowed"}, edge : Edges]
  /\ \A r \in SocialReqs : /\ socialReq[r].pc \in {"idle", "directory", "statement", "existing", "rows", "answer"}
                           /\ socialReq[r].status \in {0, 204, 404, 422, 503}
                           /\ socialReq[r].held \subseteq Edges \cup {<<s>> : s \in Subjects}

SocialInit ==
  /\ follows = [e \in Edges |-> 0]
  /\ counters = [s \in Subjects |-> [followers |-> 0, users |-> 0, artists |-> 0]]
  /\ socialEvents = <<>>
  /\ socialReq = [r \in SocialReqs |-> NoRequest]
  /\ reader = NoReader

\* The handlers' answer to what the use case returned.
FollowStatus(err) == CASE err = "nil" -> 204 [] err = "ErrNotFound" -> 404
                       [] err = "ErrSelfFollow" -> 422 [] OTHER -> 503
UnfollowStatus(err) == IF err = "nil" THEN 204 ELSE 503
Answered(r, err) ==
  [NoRequest EXCEPT !.pc = "answer",
                    !.status = IF socialReq[r].op = "unfollow" THEN UnfollowStatus(err) ELSE FollowStatus(err)]

Step(r, from, rec) == socialReq[r].pc = from /\ socialReq' = [socialReq EXCEPT ![r] = rec]
GraphUnchanged == UNCHANGED <<follows, counters, socialEvents, reader>>

\* No other transaction holds the row or the key.
Free(x, r) == \A o \in SocialReqs \ {r} : x \notin socialReq[o].held

\* The answer is written; the client may send the next request.
Respond(r) == Step(r, "answer", NoRequest) /\ GraphUnchanged

\* PUT .../follow.  Yourself is refused; the directory is asked before the transaction.
Follow(r, u, t) ==
  /\ Step(r, "idle", IF t = u
                     THEN Answered(r, "ErrSelfFollow")
                     ELSE [NoRequest EXCEPT !.op = "follow", !.edge = <<u, t>>, !.pc = "directory"])
  /\ GraphUnchanged

\* Directory.Exists: User Profile or Catalog answers, or does not.
Exists(r, err) ==
  /\ IF err = "nil"
     THEN \E at \in 1..LastInstant :
            Step(r, "directory", [socialReq[r] EXCEPT !.pc = "statement", !.at = at])
     ELSE Step(r, "directory", Answered(r, err))
  /\ GraphUnchanged

\* DELETE .../follow.
Unfollow(r, u, t) ==
  /\ Step(r, "idle", [NoRequest EXCEPT !.op = "unfollow", !.edge = <<u, t>>, !.pc = "statement"])
  /\ GraphUnchanged

\* INSERT ... ON CONFLICT DO NOTHING waits for another transaction on the key.
InsertEdge(r) ==
  LET e == socialReq[r].edge IN
  /\ socialReq[r].op = "follow"
  /\ Free(e, r)
  /\ Step(r, "statement", IF follows[e] = 0
                          THEN [socialReq[r] EXCEPT !.pc = "rows", !.held = {e}]
                          ELSE [socialReq[r] EXCEPT !.pc = "existing"])
  /\ GraphUnchanged

\* No row was inserted: read the original time.  An unfollow may have removed
\* the edge since, and the request fails.
ReadExisting(r) ==
  /\ Step(r, "existing", Answered(r, IF follows[socialReq[r].edge] # 0 THEN "nil" ELSE "read existing"))
  /\ GraphUnchanged

\* Mutant of DeleteEdge: rows affected is not looked at.
DeleteAnyEdge(r) ==
  LET e == socialReq[r].edge IN
  /\ socialReq[r].op = "unfollow"
  /\ Free(e, r) /\ Step(r, "statement", [socialReq[r] EXCEPT !.pc = "rows", !.held = {e}])
  /\ GraphUnchanged

\* DELETE waits for a transaction that changes the row, and does not see one
\* that another transaction has yet to commit.
DeleteEdge(r) ==
  LET e == socialReq[r].edge IN
  /\ socialReq[r].op = "unfollow"
  /\ IF follows[e] = 0
     THEN Step(r, "statement", Answered(r, "nil"))
     ELSE Free(e, r) /\ Step(r, "statement", [socialReq[r] EXCEPT !.pc = "rows", !.held = {e}])
  /\ GraphUnchanged

CounterRows(r) == {<<s>> : s \in Range(socialReq[r].edge)}

\* A counter row that the statement can have now.
RowReady(r, row) ==
  /\ socialReq[r].pc = "rows"
  /\ row \in CounterRows(r) \ socialReq[r].held
  /\ Free(row, r)

\* The same statement changes the target's and the follower's counter row; SQL
\* does not say in which order.
CounterRow(r, row) ==
  /\ RowReady(r, row)
  /\ Step(r, "rows", [socialReq[r] EXCEPT !.held = @ \cup {row}])
  /\ GraphUnchanged

Bump(c, e, n) ==
  [c EXCEPT ![e[2]].followers = @ + n,
            ![e[1]].users = IF IsUser(e[2]) THEN @ + n ELSE @,
            ![e[1]].artists = IF IsUser(e[2]) THEN @ ELSE @ + n]

\* Mutant of BumpFollow: the follower's side is left to somebody else.
BumpTargetOnly(c, e) == [c EXCEPT ![e[2]].followers = @ + 1]
\* The two counter upserts of Follow.
BumpFollow(c, e) == Bump(c, e, 1)
\* The two counter updates of Unfollow.
BumpUnfollow(c, e) == Bump(c, e, -1)

\* Publisher.Followed and Unfollowed: an outbox row in the same transaction.
Published(type, e) == Append(socialEvents, [type |-> type, edge |-> e])

\* Both counters are changed.
CommitReady(r) ==
  /\ socialReq[r].pc = "rows"
  /\ CounterRows(r) \subseteq socialReq[r].held
  /\ Len(socialEvents) < MaxSocialEvents

\* The event is written and the transaction commits.
CommitChange(r) ==
  LET q == socialReq[r]
      f == q.op = "follow" IN
  /\ CommitReady(r)
  /\ follows' = [follows EXCEPT ![q.edge] = IF f THEN q.at ELSE 0]
  /\ counters' = IF f THEN BumpFollow(counters, q.edge) ELSE BumpUnfollow(counters, q.edge)
  /\ socialEvents' = Published(IF f THEN "followed" ELSE "unfollowed", q.edge)
  /\ Step(r, "rows", Answered(r, "nil"))
  /\ UNCHANGED reader

\* The transaction fails: nothing of it stays.
SocialTxFails(r) ==
  /\ socialReq[r].pc \in {"statement", "existing", "rows"}
  /\ Step(r, socialReq[r].pc, Answered(r, "failed"))
  /\ GraphUnchanged

WaitsFor(a, b) ==
  /\ socialReq[a].pc = "rows"
  /\ CounterRows(a) \cap socialReq[b].held # {}
  /\ \A row \in CounterRows(a) \ socialReq[a].held : ~Free(row, a)

\* Some transactions, this one among them, all wait for one another.
Deadlocked(r) ==
  \E c \in SUBSET SocialReqs : r \in c /\ \A a \in c : \E b \in c \ {a} : WaitsFor(a, b)

\* PostgreSQL aborts one of the transactions that wait for each other.
DeadlockVictim(r) == Deadlocked(r) /\ SocialTxFails(r)

-----------------------------------------------------------------------------
(* Lists, newest first, by (followedAt, the other end of the edge).          *)

Later(a, b) == a[1] > b[1] \/ (a[1] = b[1] /\ a[2] > b[2])
After(rows, after) == {x \in rows : after = <<>> \/ Later(after, x)}
Newest(rows, n) == FirstRows(rows, {p \in rows \X rows : Later(p[1], p[2])}, n)

FollowerRows(t) == {<<follows[<<u, t>>], u>> : u \in {v \in Listeners : follows[<<v, t>>] # 0}}
FollowingRows(u, users) ==
  {<<follows[<<u, t>>], t>> : t \in {s \in Subjects : IsUser(s) = users /\ follows[<<u, s>>] # 0}}
Followers(t, after, limit) == Newest(After(FollowerRows(t), after), limit)
Following(u, users, after, limit) == Newest(After(FollowingRows(u, users), after), limit)

AllRows(q) == IF q.list = "followers" THEN FollowerRows(q.of) ELSE FollowingRows(q.of, q.users)

OpenList(list, s, users) ==
  /\ ~reader.on
  /\ IF list = "following" THEN IsUser(s) ELSE users
  /\ reader' = [NoReader EXCEPT !.on = TRUE, !.list = list, !.of = s, !.users = users]
  /\ UNCHANGED <<follows, counters, socialEvents, socialReq>>

\* GET .../followers and GET .../following: one page.
FetchPage ==
  /\ reader.on
  /\ LET rows == IF reader.list = "followers" THEN Followers(reader.of, reader.after, PageLimit + 1)
                 ELSE Following(reader.of, reader.users, reader.after, PageLimit + 1)
         p == NextPage(rows, PageLimit)
         first == reader.seen = <<>>
     IN reader' = [reader EXCEPT !.after = p.next, !.seen = @ \o p.rows, !.on = p.next # <<>>,
                                 !.stayed = IF first THEN AllRows(reader) ELSE @ \cap AllRows(reader)]
  /\ UNCHANGED <<follows, counters, socialEvents, socialReq>>

CloseList == ~reader.on /\ reader # NoReader /\ reader' = NoReader
             /\ UNCHANGED <<follows, counters, socialEvents, socialReq>>

SocialRequest(r) ==
  \/ \E u \in Listeners, t \in Subjects : Follow(r, u, t) \/ Unfollow(r, u, t)
  \/ \E err \in {"nil", "ErrNotFound", "lookup failed"} : Exists(r, err)
  \/ InsertEdge(r) \/ ReadExisting(r) \/ DeleteEdge(r) \/ CommitChange(r) \/ Respond(r)
  \/ \E s \in Subjects : CounterRow(r, <<s>>)
  \/ SocialTxFails(r) \/ DeadlockVictim(r)

SocialRead ==
  \/ \E list \in {"followers", "following"}, s \in Subjects, users \in BOOLEAN : OpenList(list, s, users)
  \/ FetchPage \/ CloseList

SocialNext == (\E r \in SocialReqs : SocialRequest(r)) \/ SocialRead

SocialSpec == SocialInit /\ [][SocialNext]_socialVars

-----------------------------------------------------------------------------
(* Counts of a subject without a row are zero, as in Counts. *)
Counts(s) == counters[s]

\* The counters shown on a profile are the edges that exist, whatever follows,
\* unfollows, repeats and failures overlap.
CountersMatchEdges ==
  \A s \in Subjects :
    /\ Counts(s).followers = Cardinality({u \in Listeners : follows[<<u, s>>] # 0})
    /\ IsUser(s) => /\ Counts(s).users = Cardinality(FollowingRows(s, TRUE))
                    /\ Counts(s).artists = Cardinality(FollowingRows(s, FALSE))

EventsOf(e) == {i \in 1..Len(socialEvents) : socialEvents[i].edge = e}
IsFollow(i) == socialEvents[i].type = "followed"
Consecutive(of, i, j) == i < j /\ \A k \in of : k <= i \/ j <= k

\* A consumer that replays social.events has the graph: of every edge the
\* events alternate, from a follow, and the last one says whether it exists.
EventsReplayGraph ==
  \A e \in Edges :
    LET of == EventsOf(e) IN
    /\ \A i \in of : (\A j \in of : i <= j) => IsFollow(i)
    /\ \A i, j \in of : Consecutive(of, i, j) => IsFollow(i) # IsFollow(j)
    /\ (follows[e] # 0) = (\E i \in of : IsFollow(i) /\ \A j \in of : j <= i)

\* A client that has read the last page saw no edge twice and missed none that
\* was there, unchanged, at every page.
PagesComplete ==
  ~reader.on => /\ IsInjective(reader.seen)
                /\ reader.stayed \subseteq Range(reader.seen)

\* Requests that wait for each other's counter rows do not wait for ever: of
\* those in a transaction one can always go on, or PostgreSQL sees a circle of
\* waiting transactions and gives one of them up.  (The three guards of
\* CommitChange, CounterRow and DeadlockVictim.)
NobodyWaitsForEver ==
  (\E r \in SocialReqs : socialReq[r].pc = "rows" /\ Len(socialEvents) < MaxSocialEvents)
    => \E r \in SocialReqs : \/ CommitReady(r)
                             \/ \E s \in Subjects : RowReady(r, <<s>>)
                             \/ Deadlocked(r)

\* The social graph is consistent: counters, events and pages all tell of the
\* same edges, and requests that cross do not block each other.
GraphConsistent == CountersMatchEdges /\ EventsReplayGraph /\ PagesComplete /\ NobodyWaitsForEver
=============================================================================
