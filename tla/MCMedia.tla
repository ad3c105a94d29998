------------------------------- MODULE MCMedia -------------------------------
(* Each service of the media pipeline alone, on inputs harder than the ones the *)
(* pipeline feeds it within its bounds: Complete calls over a good and a        *)
(* rejected master; a transcoder backlog of two masters and one that cannot be  *)
(* decoded, late, out of order or twice; for Catalog, the events of a failing   *)
(* and a succeeding upload in the orders they can be logged; the metadata and   *)
(* audio analysis workers over a good, a broken and a missing master; Stream    *)
(* Authorization while variants appear and the status changes; and the player   *)
(* over a queue with an unavailable track in the middle.                        *)
EXTENDS MediaPipeline, MediaFacts, StreamAuth, WebPlayer, TLC

CONSTANTS u1, u2, u3, u4

\* Workers are interchangeable.
MCSymmetry == Permutations(Workers)

MCUploads == {u1, u2, u3, u4}
MCContent == [u \in MCUploads |->
                CASE u = u3 -> "undecodable" [] u = u4 -> "rejected" [] OTHER -> "audio"]
MCDigest == [u \in MCUploads |-> u]

MCMasters == {u2, u3, u4}
MCMasterKind == [u \in MCMasters |->
                   CASE u = u2 -> "audio" [] u = u3 -> "broken" [] OTHER -> "missing"]

MCQueue == <<TRUE, FALSE, TRUE>>

Ev(type, u) == [type |-> type, upload |-> u, at |-> IF u = u1 THEN 1 ELSE 2]
JobOf(u) == Ev("track.uploaded", u)

Backlogs == {
  <<JobOf(u2), JobOf(u3), JobOf(u1)>>,
  <<JobOf(u1), JobOf(u2), JobOf(u1)>>,
  <<JobOf(u1), Ev("media.ingest.failed", u4), JobOf(u2)>>}

Logs == {
  <<JobOf(u3), Ev("media.transcode.failed", u3), JobOf(u2), Ev("track.transcoded", u2)>>,
  <<JobOf(u3), JobOf(u2), Ev("media.transcode.failed", u3), Ev("track.transcoded", u2)>>,
  <<JobOf(u2), Ev("track.transcoded", u2), JobOf(u3), Ev("media.transcode.failed", u3)>>,
  <<Ev("media.ingest.failed", u4), JobOf(u2), Ev("track.transcoded", u2),
    Ev("track.transcoded", u2)>>}

\* The transcoder after any of Logs: u2 is stored.
TranscoderDone ==
  /\ jobs = [NewGroup(Workers) EXCEPT !.committed = 4, !.pos = 4]
  /\ job = [w \in Workers |-> NewJob]
  /\ variant = [q \in 1..Qualities |-> [upload |-> u2, at |-> 2]]
  /\ dlq = {} /\ jobFaults = 0 /\ rebalances = 0

VARIABLE subject  \* the service this behaviour is about
mcVars == <<vars, factsVars, streamVars, app, subject>>

MCInit ==
  /\ IngestInit /\ CatalogInit /\ FactsInit /\ StreamInit /\ PlayerInit
  /\ \/ /\ subject \in {"ingest", "facts", "streams", "player"}
        /\ topic = <<>> /\ object = [u \in Uploads |-> "none"] /\ TranscoderInit
     \/ /\ subject = "transcoder"
        /\ topic \in Backlogs /\ object = [u \in Uploads |-> "stored"] /\ TranscoderInit
     \/ /\ subject = "catalog"
        /\ topic \in Logs /\ object = [u \in Uploads |-> "stored"] /\ TranscoderDone

IngestAlone ==
  /\ subject = "ingest"
  /\ IngestNext
  /\ \A u \in {u2, u3} : upload'[u] = upload[u]
  /\ UNCHANGED <<transcoderVars, catalogVars, factsVars, streamVars, app, subject>>

TranscoderAlone ==
  /\ subject = "transcoder" /\ TranscoderNext
  /\ UNCHANGED <<ingestVars, catalogVars, factsVars, streamVars, app, subject>>

CatalogAlone ==
  /\ subject = "catalog" /\ CatalogNext
  /\ UNCHANGED <<ingestVars, transcoderVars, factsVars, streamVars, app, subject>>

FactsAlone == subject = "facts" /\ FactsNext /\ UNCHANGED <<vars, streamVars, app, subject>>

StreamsAlone == subject = "streams" /\ StreamNext /\ UNCHANGED <<vars, factsVars, app, subject>>

PlayerAlone == subject = "player" /\ PlayerNext /\ UNCHANGED <<vars, factsVars, streamVars, subject>>

MCSpec ==
  MCInit /\ [][IngestAlone \/ TranscoderAlone \/ CatalogAlone \/ FactsAlone \/ StreamsAlone
               \/ PlayerAlone]_mcVars
=============================================================================
