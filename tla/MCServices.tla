----------------------------- MODULE MCServices -----------------------------
(***************************************************************************)
(* The services that answer listeners, and what becomes of the plays they  *)
(* report, checked together: each behaviour is about one of them, the      *)
(* others stay in their initial state.                                     *)
(***************************************************************************)
EXTENDS Social, CatalogReads, UserProfile, Listening, Recommendations, TLC

\* Requests are interchangeable, and so are builders.
MCSymmetry == Permutations(SocialReqs) \cup Permutations(Builders)

MCPlays == {[id |-> 1, user |-> "u", track |-> 1, source |-> "album"],
            [id |-> 2, user |-> "u", track |-> 2, source |-> ""],
            [id |-> 3, user |-> "v", track |-> 2, source |-> ""]}
ReportOf(kinds, plays, lengths) ==
  {[kind |-> k, play |-> p, listened |-> n, duration |-> 60] : k \in kinds, p \in plays, n \in lengths}
\* The history of one listener; for Analytics two listeners and less variety.
MCHistoryReports ==
  LET mine == {p \in MCPlays : p.user = "u"}
      first == {p \in mine : p.id = 1} IN
  ReportOf({"started", "skipped"}, first, {30}) \cup ReportOf({"finished"}, mine, {30, 90})
    \cup ReportOf({"finished"}, mine \ first, {10})
MCAnalyticsReports ==
  ReportOf({"started", "finished"}, {p \in MCPlays : p.id = 1}, {10}) \cup ReportOf({"started"}, {p \in MCPlays : p.id = 3}, {10})
MCTrackArtists == (1 :> {11}) @@ (2 :> {11, 12})

\* One track is liked, or leaves the Catalog; the other is skipped at times.
MCRecTracks == {"s1", "s2"}

VARIABLE subject
mcVars == <<subject, socialVars, catalogReadVars, profileVars, listeningVars, recVars>>

MCInit ==
  /\ subject \in {"social", "paging", "catalog", "profiles", "history", "ingest", "aggregate", "recommendations"}
  /\ SocialInit /\ CatalogReadsInit /\ ProfileInit /\ ListeningInit /\ RecommendationsInit
  /\ catalogued = IF subject = "aggregate" THEN TrackIds ELSE {}

About(s) == subject = s /\ UNCHANGED subject

\* A listener's lists and an artist's.
PagedSubjects == {1, 3}

\* One request at a time changes the lists that are being paged through.
Graph ==
  /\ \/ About("social") /\ \E r \in SocialReqs : SocialRequest(r)
     \/ About("paging") /\ SocialRead /\ reader'.of \in PagedSubjects \cup {NoReader.of}
     \/ /\ About("paging") /\ \E r \in SocialReqs : SocialRequest(r)
        /\ \A r, o \in SocialReqs : r # o => NoRequest \in {socialReq'[r], socialReq'[o]}
  /\ UNCHANGED <<catalogReadVars, profileVars, listeningVars, recVars>>

Catalogue ==
  /\ About("catalog") /\ CatalogReadsNext
  /\ UNCHANGED <<socialVars, profileVars, listeningVars, recVars>>

Profiles ==
  /\ About("profiles") /\ ProfileNext
  /\ UNCHANGED <<socialVars, catalogReadVars, listeningVars, recVars>>

Listened ==
  /\ \/ About("history") /\ HistoryNext
     \/ About("ingest") /\ IngestNext /\ Len(playLog') <= 2
     \/ About("aggregate") /\ AggregateNext /\ Len(playLog') <= 2
  /\ UNCHANGED <<socialVars, catalogReadVars, profileVars, recVars>>

Recommended ==
  /\ About("recommendations") /\ RecommendationsNext
  /\ "s2" \in playable' /\ playable' \subseteq playable
  /\ \A u \in RecUsers : /\ likes'[u]["s2"] = NotLiked /\ others'[u] \in {{}, {Taste}, {"s2"}}
                         /\ "s1" \in playable' \/ (likes'[u]["s1"] = NotLiked /\ others'[u] = {})
  /\ UNCHANGED <<socialVars, catalogReadVars, profileVars, listeningVars>>

MCSpec == MCInit /\ [][Graph \/ Catalogue \/ Profiles \/ Listened \/ Recommended]_mcVars

\* The services' variables keep their types.
ServicesTypeOK == SocialTypeOK /\ CatalogReadsTypeOK /\ ProfileTypeOK
=============================================================================
