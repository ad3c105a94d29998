---------------------------- MODULE MCProjections ----------------------------
(***************************************************************************)
(* What the workers make of the services' events, each behaviour being     *)
(* about one projection while the others stay in their initial state.      *)
(***************************************************************************)
EXTENDS PlaylistIndex, Signals, SearchRebuild, Scoring, TLC

CONSTANTS a1, a2, b1, b2, c1, c2, d1, d2

\* Requests, songs, indexers and titles are interchangeable.
MCSymmetry == UNION {Permutations({a1, a2}), Permutations({b1, b2}), Permutations({c1, c2}), Permutations({d1, d2})}

MCItems == {<<"track", 1>>, <<"track", 2>>}
\* A follow taken back and given again, and features measured anew.
MCOtherSignals ==
  {[kind |-> "follow", on |-> o, at |-> n] : o \in BOOLEAN, n \in 1..3}
    \cup {[kind |-> "features", on |-> TRUE, at |-> n] : n \in 1..2}
    \cup {[kind |-> "user_follow", on |-> TRUE, at |-> 1]}

\* A popular track, one by two artists that sounds different, and one that was
\* not analysed.
MCTrackInfo == <<
  [artists |-> {11}, album |-> 21, genres |-> {31}, plays |-> 2, age |-> 0,
   sound |-> [version |-> "v1", v |-> 20]],
  [artists |-> {11, 12}, album |-> 22, genres |-> {31, 32}, plays |-> 1, age |-> 3,
   sound |-> [version |-> "v1", v |-> 90]],
  [artists |-> {12}, album |-> 22, genres |-> {32}, plays |-> 0, age |-> 1, sound |-> NoSound]>>
MCInteractions == {[plays |-> 1, completions |-> 0, skips |-> 0],
                   [plays |-> 2, completions |-> 0, skips |-> 2],
                   [plays |-> 2, completions |-> 1, skips |-> 1]}

-----------------------------------------------------------------------------
VARIABLE subject
mcVars == <<subject, playlistIndexVars, libraryVars, signalVars, rebuildVars, taste>>

MCInit ==
  /\ subject \in {"playlists", "playlist index", "likes", "follows", "search", "scoring"}
  /\ PlaylistInit /\ IndexInit /\ LibraryInit /\ SignalsInit /\ RebuildInit /\ ScoringInit

About(s) == subject = s /\ UNCHANGED subject

\* Two readings of the clock to a millisecond.
MCMillis == [s \in 0..LastStamp |-> s \div 2]

\* Bounds where the index follows the playlist: readings of the clock, and the
\* requests; those about tracks change it as a new title does.
IndexedStamps == 4
IndexedOps == {"none", "create", "rename", "delete"}

\* The requests alone, over a longer history, and the index that follows them.
Playlists ==
  /\ \/ About("playlists") /\ PlaylistNext /\ UNCHANGED indexVars
     \/ /\ About("playlist index") /\ PlaylistIndexNext /\ stamp' <= IndexedStamps
        /\ \A r \in PlaylistReqs : playlistReq'[r].op \in IndexedOps
  /\ UNCHANGED <<libraryVars, signalVars, rebuildVars, taste>>

Likes ==
  /\ \/ About("likes") /\ LikesNext
     \/ About("follows") /\ OthersNext
  /\ UNCHANGED <<playlistIndexVars, rebuildVars, taste>>

Search ==
  /\ About("search") /\ RebuildNext
  /\ UNCHANGED <<playlistIndexVars, libraryVars, signalVars, taste>>

Score ==
  /\ About("scoring") /\ ScoringNext
  /\ UNCHANGED <<playlistIndexVars, libraryVars, signalVars, rebuildVars>>

MCSpec == MCInit /\ [][Playlists \/ Likes \/ Search \/ Score]_mcVars

\* The playlist's and the library's variables keep their types.
ProjectionsTypeOK == PlaylistTypeOK /\ LibraryTypeOK
=============================================================================
