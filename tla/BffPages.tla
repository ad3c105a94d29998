------------------------------- MODULE BffPages -------------------------------
(***************************************************************************)
(* The BFF: one HTTP request for a page fans out into calls to the other   *)
(* services, stage by stage, within the page's budget.  A section is named *)
(* as in the answer's "unavailable" list; of what the services answer the  *)
(* model keeps what decides which calls follow, and for the genre list,    *)
(* which is cached, its version.                                           *)
(***************************************************************************)
EXTENDS Integers, Sequences, FiniteSets, FiniteSetsExt

CONSTANTS Requests,        \* page requests
          Personals,       \* configurations: the optional upstreams that are set
          PageBudget, GenreCacheTTL,
          Fan,             \* bound: albums or recent items of a page
          MaxGenreChanges, \* bound: changes of Catalog's genre list
          LastPageTime     \* bound: the clock

ASSUME PagesAssumption == PageBudget \in Nat \ {0} /\ GenreCacheTTL \in Nat /\ Fan \in Nat

VARIABLES personal,   \* the configuration
          page,       \* each request
          genres,     \* the cached list: its version (0: none) and expiry
          replaced,   \* when each older genre list of Catalog was replaced
          pageClock

pageVars == <<personal, page, genres, replaced, pageClock>>

Required == {"album", "playlist", "tracks"}
\* Calls for one of several things; that it does not exist is no failure.
PerItem == {"albums", "owners", "recent"}
\* The sections of Home that have no service behind them.
NoSource == <<"albumOfTheWeek", "recommended", "trending", "madeForYou", "followedArtists">>

Unasked == [kind |-> "none", user |-> FALSE, opened |-> 0, stage |-> 0, calls |-> {}, got |-> {},
            owned |-> 0, lost |-> {}, err |-> "none", unavailable |-> <<>>, tags |-> <<0, 0>>, answer |-> "none"]

PagesInit ==
  /\ personal \in Personals /\ page = [r \in Requests |-> Unasked]
  /\ genres = [version |-> 0, expire |-> 0] /\ replaced = <<>> /\ pageClock = 0

-----------------------------------------------------------------------------
\* The sections asked for together in each stage of a page, given what the page
\* has got: artists to name, tracks to mark, playlists whose owner to name.
Plan(q) ==
  LET on(cond, section) == IF cond THEN {section} ELSE {}
      names == on("artists" \in q.got, "artistNames")
      owners == on("profiles" \in personal, "owners")
      liked == on("library" \in personal /\ q.user /\ "tracks" \in q.got, "liked")
  IN CASE q.kind = "album" ->
            <<{"album"}, {"tracks", "tags"} \cup on("artists" \in q.got, "moreByArtist"), names, liked>>
       [] q.kind = "playlist" ->
            <<{"playlist"}, owners \cup on("listed" \in q.got, "tracks"),
              on("tracks" \in q.got, "albums"), names, liked>>
       [] OTHER ->
            <<{"newReleases"} \cup on("history" \in personal /\ q.user, "recentlyPlayed"),
              names, IF q.owned > 0 THEN owners ELSE {}>>

\* What a call may bring to the page (a recently played playlist is counted).
Brings(section) ==
  CASE section = "album" -> {{}, {"artists"}}
    [] section = "playlist" -> {{}, {"listed"}}
    [] section = "tracks" -> {{}, {"tracks"}, {"tracks", "artists"}}
    [] section = "newReleases" -> {{}, {"artists"}}
    [] section = "recent" -> {{}, {"artists"}} \cup (IF "playlists" \in personal THEN {{"playlist"}} ELSE {})
    [] OTHER -> {{}}

\* The calls of a section; seen: the genre list read (-1: the cache not looked at).
CallsOf(section, n) ==
  {[section |-> section, item |-> i, seen |-> -1] : i \in IF section \in PerItem THEN 1..n ELSE {1}}

\* The most items the next stage may ask for: albums of the tracks, owners of the
\* recently played playlists, or the one owner of a playlist.
Distinct(q) == IF q.kind = "playlist" /\ q.stage > 1 THEN Fan ELSE Max({1, q.owned})

Expired(q) == pageClock >= q.opened + PageBudget

-----------------------------------------------------------------------------
\* Home, Album, Playlist: the request arrives.
OpenPage(r, kind, user) ==
  LET q == [Unasked EXCEPT !.kind = kind, !.user = user, !.opened = pageClock,
              !.unavailable = IF kind # "home" THEN <<>>
                              ELSE NoSource \o IF "history" \in personal THEN <<>> ELSE <<"recentlyPlayed">>]
  IN /\ page[r].kind = "none" /\ pageClock + PageBudget <= LastPageTime
     /\ page' = [page EXCEPT ![r] =
                   IF kind = "playlist" /\ "playlists" \notin personal THEN [q EXCEPT !.answer = "upstream"]
                   ELSE [q EXCEPT !.stage = 1, !.calls = UNION {CallsOf(s, 1) : s \in Plan(q)[1]}]]
     /\ UNCHANGED <<personal, genres, replaced, pageClock>>

\* A call has ended: a required one that failed ends the page, an optional
\* section is noted as unavailable, once, when the last of its calls has ended.
\* (newReleases is noted when the page is put together.)
CallOutcome(q, c, outcome) ==
  LET rest == q.calls \ {c}
      bad == outcome = "failed" \/ (outcome = "missing" /\ c.section \notin PerItem)
      lost == IF bad THEN q.lost \cup {c.section} ELSE q.lost
      last == \A d \in rest : d.section # c.section
      noted == last /\ c.section \in lost /\ c.section \notin Required \cup {"recent"}
  IN [q EXCEPT !.calls = rest, !.lost = lost,
               !.unavailable = IF noted THEN Append(@, c.section) ELSE @,
               !.err = IF bad /\ c.section \in Required /\ @ = "none"
                       THEN IF outcome = "missing" THEN "not_found" ELSE "upstream"
                       ELSE @]

\* Mutant of CallEnds: every failed call of a section notes it.
CallEndsNotesEach(q, c, outcome) ==
  LET e == CallOutcome(q, c, outcome)
  IN IF outcome = "failed" /\ c.section \notin Required \cup {"recent"}
     THEN [e EXCEPT !.unavailable = Append(q.unavailable, c.section)] ELSE e

CallEnds(q, c, outcome) == CallOutcome(q, c, outcome)

\* The service answers in time.  History's sources are then looked up at once.
CallAnswers(r, c) ==
  /\ c \in page[r].calls /\ c.section # "tags" /\ ~Expired(page[r])
  /\ \/ \E got \in Brings(c.section), n \in 0..Fan :
          LET more == IF c.section = "recentlyPlayed" THEN CallsOf("recent", n) ELSE {}
              q == CallEnds(page[r], c, "ok")
          IN page' = [page EXCEPT ![r] = [q EXCEPT !.got = @ \cup (got \ {"playlist"}), !.calls = @ \cup more,
                                                   !.owned = IF "playlist" \in got THEN @ + 1 ELSE @]]
     \/ page' = [page EXCEPT ![r] = CallEnds(page[r], c, "missing")]
  /\ UNCHANGED <<personal, genres, replaced, pageClock>>

\* The service fails, or the context ends the call: the budget is spent, or a
\* required call of the same stage failed.
PageCallFails(r, c) ==
  /\ c \in page[r].calls
  /\ page' = [page EXCEPT ![r] = CallEnds(page[r], c, "failed")]
  /\ UNCHANGED <<personal, genres, replaced, pageClock>>

\* The context ends a call of the page that is out of budget.
BudgetEnds(r) == Expired(page[r]) /\ \E c \in page[r].calls : PageCallFails(r, c)

\* genreIndex: the cache; then Catalog without the lock; then the cache again.
GenreIndexHit(r, c) ==
  /\ c \in page[r].calls /\ c.section = "tags" /\ c.seen = -1
  /\ genres.version # 0 /\ pageClock < genres.expire
  /\ page' = [page EXCEPT ![r] = [CallEnds(@, c, "ok") EXCEPT !.tags = <<genres.version, pageClock>>]]
  /\ UNCHANGED <<personal, genres, replaced, pageClock>>
GenreIndexMiss(r, c) ==
  /\ c \in page[r].calls /\ c.section = "tags" /\ c.seen = -1
  /\ genres.version = 0 \/ pageClock >= genres.expire
  /\ page' = [page EXCEPT ![r].calls = (@ \ {c}) \cup {[c EXCEPT !.seen = 0]}]
  /\ UNCHANGED <<personal, genres, replaced, pageClock>>
GenresRead(r, c) ==
  /\ c \in page[r].calls /\ c.section = "tags" /\ c.seen = 0 /\ ~Expired(page[r])
  /\ page' = [page EXCEPT ![r].calls = (@ \ {c}) \cup {[c EXCEPT !.seen = Len(replaced) + 1]}]
  /\ UNCHANGED <<personal, genres, replaced, pageClock>>
GenresKept(r, c) ==
  /\ c \in page[r].calls /\ c.section = "tags" /\ c.seen > 0 /\ ~Expired(page[r])
  /\ page' = [page EXCEPT ![r] = [CallEnds(@, c, "ok") EXCEPT !.tags = <<c.seen, pageClock>>]]
  /\ genres' = [version |-> c.seen, expire |-> pageClock + GenreCacheTTL]
  /\ UNCHANGED <<personal, replaced, pageClock>>

\* The group has been waited for: the page is refused, or the next stage that
\* has anything to ask begins, or the page is answered.
JoinCalls(r) ==
  LET q == page[r]
      later == {s \in (q.stage + 1)..Len(Plan(q)) : Plan(q)[s] # {}}
  IN /\ q.stage # 0 /\ q.answer = "none" /\ q.calls = {}
     /\ \E n \in 1..Distinct(q) :
          page' = [page EXCEPT ![r] =
            IF q.err # "none" THEN [q EXCEPT !.answer = q.err]
            ELSE IF later = {} THEN [q EXCEPT !.answer = "page"]
            ELSE [q EXCEPT !.stage = Min(later), !.calls = UNION {CallsOf(s, n) : s \in Plan(q)[Min(later)]}]]
     /\ UNCHANGED <<personal, genres, replaced, pageClock>>

\* Catalog's genres change; time passes.
GenresChange ==
  /\ Len(replaced) < MaxGenreChanges /\ replaced' = Append(replaced, pageClock)
  /\ UNCHANGED <<personal, page, genres, pageClock>>
PageTick ==
  /\ pageClock < LastPageTime /\ pageClock' = pageClock + 1
  /\ UNCHANGED <<personal, page, genres, replaced>>

PagesNext ==
  \/ \E r \in Requests :
       \/ \E kind \in {"album", "playlist", "home"}, user \in BOOLEAN : OpenPage(r, kind, user)
       \/ \E c \in page[r].calls :
            \/ CallAnswers(r, c) \/ PageCallFails(r, c)
            \/ GenreIndexHit(r, c) \/ GenreIndexMiss(r, c) \/ GenresRead(r, c) \/ GenresKept(r, c)
       \/ JoinCalls(r)
  \/ GenresChange \/ PageTick

PagesSpec == PagesInit /\ [][PagesNext]_pageVars

-----------------------------------------------------------------------------
\* An answered page lists the sections left empty by a failed call, each once
\* although their calls end in any order, and no other; (A recently
\* played item that could not be had is dropped without a word.)
UnavailableIsExact ==
  \A r \in Requests :
    LET q == page[r]
        listed == {q.unavailable[i] : i \in 1..Len(q.unavailable)}
        unsourced == IF q.kind # "home" THEN {}
                     ELSE {NoSource[i] : i \in 1..Len(NoSource)}
                            \cup (IF "history" \in personal THEN {} ELSE {"recentlyPlayed"})
    IN q.answer = "page" =>
         /\ listed = unsourced \cup (q.lost \ {"recent"})
         /\ Cardinality(listed) = Len(q.unavailable)

\* A page is refused only because its own resource or its tracks could not be
\* had, however many optional calls fail or run out of budget beside them.
OnlyRequiredRefuses ==
  \A r \in Requests : page[r].answer \in {"not_found", "upstream"} =>
    page[r].lost \cap Required # {} \/ (page[r].kind = "playlist" /\ "playlists" \notin personal)

\* The tags shown come from a genre list that Catalog had at most the cache's
\* TTL and one page budget ago, although a page may store the list it read
\* after another page stored a newer one.
TagsFresh ==
  \A r \in Requests :
    LET v == page[r].tags[1]
    IN v \in 1..Len(replaced) => page[r].tags[2] < replaced[v] + GenreCacheTTL + PageBudget

\* Every page request is answered, although the services may never answer: the
\* budget ends the calls.
PagesAnswered == \A r \in Requests : page[r].kind # "none" ~> page[r].answer # "none"

\* A page is answered within its budget and says truly what it lacks.
PagesHonest == [](UnavailableIsExact /\ OnlyRequiredRefuses /\ TagsFresh) /\ PagesAnswered
=============================================================================
