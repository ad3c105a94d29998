--------------------------- MODULE Recommendations ---------------------------
(***************************************************************************)
(* The recommendation worker's build and the service that serves its sets. *)
(* A build reads the catalog, then the signals, each in a query of its     *)
(* own, ranks, and writes the sets to Redis in pipelines that may fail in  *)
(* between; the ticker and the build command may run two at once.  A set   *)
(* is its tracks: what ranking does is Scoring's.                          *)
(***************************************************************************)
EXTENDS Integers, FiniteSets

CONSTANTS RecUsers, RecTracks,
          Builders,      \* the worker's ticker and a build command
          SetTTL,
          BuildTime      \* bound: how long a build takes

ASSUME RecAssumption ==
  /\ SetTTL \in Nat
  /\ BuildTime \in Nat
  /\ {"popular", "guest"} \cap RecUsers = {}
  /\ "taste" \notin RecTracks

VARIABLES playable,      \* Catalog: READY tracks
          likes,         \* the worker's tables: tracks each user likes, with the time since
          others,        \* what else is known of each user's taste
          rset,          \* Redis: the sets, with the time left
          build,         \* what each builder has read
          sinceBuild     \* time since a build last succeeded, as Run observes it

recVars == <<playable, likes, others, rset, build, sinceBuild>>

RecKeys == RecUsers \cup {"popular"}
Guest == "guest"
NoSet == [tracks |-> {}, ttl |-> 0]
NotLiked == 0    \* otherwise 1 + the time since the like
Long == SetTTL + BuildTime + 1
\* A play in the history window, a follow or a liked album may exclude nothing;
\* skips exclude their track, and a liked album those of its tracks it has.
Taste == "taste"
OtherSignals == RecTracks \cup {Taste}
NoBuild == [pc |-> "idle", age |-> 0, tracks |-> {}, known |-> {}, excluded |-> {}, left |-> {}]

RecommendationsInit ==
  /\ playable = RecTracks
  /\ likes = [u \in RecUsers |-> [t \in RecTracks |-> NotLiked]]
  /\ others = [u \in RecUsers |-> {}]
  /\ rset = [k \in RecKeys |-> NoSet]
  /\ build = [b \in Builders |-> NoBuild]
  /\ sinceBuild = SetTTL

BuildStep(b, from, rec) == build[b].pc = from /\ build' = [build EXCEPT ![b] = rec]

\* Time passes: sets expire, builds grow old and end by BuildTime.
RecTick ==
  /\ \A b \in Builders : build[b].age < BuildTime
  /\ rset' = [k \in RecKeys |-> IF rset[k].ttl > 1 THEN [rset[k] EXCEPT !.ttl = @ - 1] ELSE NoSet]
  /\ likes' = [u \in RecUsers |-> [t \in RecTracks |-> IF likes[u][t] \in 1..(Long - 1) THEN likes[u][t] + 1 ELSE likes[u][t]]]
  /\ build' = [b \in Builders |-> IF build[b].pc = "idle" THEN build[b] ELSE [build[b] EXCEPT !.age = @ + 1]]
  /\ sinceBuild' = IF sinceBuild < SetTTL THEN sinceBuild + 1 ELSE sinceBuild
  /\ UNCHANGED <<playable, others>>

\* library.events change what is liked; tracks come and go in Catalog.
Like(u, t) ==
  /\ likes' = [likes EXCEPT ![u][t] = IF @ = NotLiked THEN 1 ELSE NotLiked]
  /\ UNCHANGED <<sinceBuild, playable, others, rset, build>>
\* Plays enter and leave the history window; artists are followed, albums liked.
OtherSignal(u, x) ==
  /\ others' = [others EXCEPT ![u] = IF x \in @ THEN @ \ {x} ELSE @ \cup {x}]
  /\ UNCHANGED <<sinceBuild, playable, likes, rset, build>>
CatalogChange(t) ==
  /\ playable' = IF t \in playable THEN playable \ {t} ELSE playable \cup {t}
  /\ UNCHANGED <<sinceBuild, likes, others, rset, build>>

\* Build: Client.Tracks walks the albums and keeps what is READY; Plays and
\* Sounds only rank.
ReadCatalog(b) ==
  /\ BuildStep(b, "idle", [NoBuild EXCEPT !.pc = "signals", !.tracks = playable])
  /\ UNCHANGED <<sinceBuild, playable, likes, others, rset>>

\* Mutant of Excluded: likes weigh, and exclude nothing.
ExcludedByOthers(u) == others[u] \ {Taste}
\* History, Likes and Follows: who has signals now, and what they exclude.
Excluded(u) == {t \in RecTracks : likes[u][t] # NotLiked} \cup (others[u] \ {Taste})
ReadSignals(b) ==
  /\ BuildStep(b, "signals", [build[b] EXCEPT !.pc = "publish", !.left = RecKeys,
                                 !.known = {u \in RecUsers : others[u] # {} \/ Excluded(u) # {}},
                                 !.excluded = {ut \in RecUsers \X RecTracks : ut[2] \in Excluded(ut[1])}])
  /\ UNCHANGED <<sinceBuild, playable, likes, others, rset>>

\* Popular has every track; a user's set what the user's signals do not exclude.
SetFor(b, k) ==
  IF k = "popular" THEN build[b].tracks ELSE {t \in build[b].tracks : <<k, t>> \notin build[b].excluded}

\* No signals, or nothing left to recommend (then no artists either): no set is
\* written, and one written earlier stays until it expires.
Skipped(b, k) == k # "popular" /\ (k \notin build[b].known \/ SetFor(b, k) = {})

\* Publish: in the order of a Go map.
PublishSet(b, k) ==
  /\ build[b].pc = "publish" /\ k \in build[b].left
  /\ rset' = IF Skipped(b, k) THEN rset ELSE [rset EXCEPT ![k] = [tracks |-> SetFor(b, k), ttl |-> SetTTL]]
  /\ build' = [build EXCEPT ![b].left = @ \ {k}]
  /\ UNCHANGED <<sinceBuild, playable, likes, others>>

\* Mutant of FinishBuild: a pipeline that fails is not noticed.
FinishAnyBuild(b) ==
  /\ BuildStep(b, "publish", NoBuild)
  /\ sinceBuild' = 0
  /\ UNCHANGED <<playable, likes, others, rset>>
\* Every pipeline was written; Run observes a successful build.
FinishBuild(b) ==
  /\ build[b].left = {}
  /\ BuildStep(b, "publish", NoBuild)
  /\ sinceBuild' = 0
  /\ UNCHANGED <<playable, likes, others, rset>>

\* A query or a pipeline fails, or the worker stops: the next tick starts anew.
BuildFails(b) ==
  /\ build[b].pc # "idle"
  /\ build' = [build EXCEPT ![b] = NoBuild]
  /\ UNCHANGED <<sinceBuild, playable, likes, others, rset>>

\* Store.Get: a set until it expires.
Stored(k) == rset[k].ttl > 0

\* For: the personal set, else the popular one, else nothing; Redis may also
\* be unavailable, which is an error to the caller.
Answer(u) ==
  IF u # Guest /\ Stored(u) THEN [to |-> u, source |-> "personal", tracks |-> rset[u].tracks]
  ELSE IF Stored("popular") THEN [to |-> u, source |-> "popular", tracks |-> rset["popular"].tracks]
  ELSE [to |-> u, source |-> "none", tracks |-> {}]
RecommendationsNext ==
  \/ RecTick
  \/ \E u \in RecUsers, t \in RecTracks : Like(u, t)
  \/ \E u \in RecUsers, x \in OtherSignals : OtherSignal(u, x)
  \/ \E t \in RecTracks : CatalogChange(t)
  \/ \E b \in Builders : ReadCatalog(b) \/ ReadSignals(b) \/ FinishBuild(b) \/ BuildFails(b) \/ \E k \in RecKeys : PublishSet(b, k)

RecommendationsSpec == RecommendationsInit /\ [][RecommendationsNext]_recVars

-----------------------------------------------------------------------------
\* A listener is not offered, as personal, a track liked for longer than a set
\* lives and a build takes, though no build removes the set of somebody whose
\* signals are gone or exclude the whole catalog, and an old build may publish
\* over a new one.
LikedLeaves ==
  \A u \in RecUsers : Answer(u).source = "personal" =>
    \A t \in Answer(u).tracks : likes[u][t] # NotLiked => likes[u][t] <= SetTTL + BuildTime

\* Guests, new users and users whose set has expired get the popular set for
\* as long as a set lives after a build that succeeded, however many fail
\* half-way since.
FallsBackToPopular ==
  sinceBuild < SetTTL - BuildTime => \A u \in RecUsers \cup {Guest} : Answer(u).source # "none"

\* What is recommended is there and current, although builds overlap, fail
\* half-way and publish over each other.
RecommendationsCurrent == LikedLeaves /\ FallsBackToPopular
=============================================================================
