---------------------------- MODULE MediaPipeline ----------------------------
(***************************************************************************)
(* A track from upload to playback: Media Ingest, the transcoder and       *)
(* Catalog around media.events and object storage.                         *)
(***************************************************************************)
EXTENDS MediaIngest, Transcoder, CatalogTrack

vars == <<topic, object, ingestVars, transcoderVars, catalogVars>>

TypeOK == MediaTypeOK /\ IngestTypeOK /\ TranscoderTypeOK /\ CatalogTypeOK

Init ==
  /\ topic = <<>>
  /\ object = [u \in Uploads |-> "none"]
  /\ IngestInit
  /\ TranscoderInit
  /\ CatalogInit

\* Ingest.Create asks Catalog whether the track exists.
IngestStep ==
  /\ IngestNext
  /\ upload' # upload => status # "none"
  /\ UNCHANGED <<transcoderVars, catalogVars>>

TranscoderStep == TranscoderNext /\ UNCHANGED <<ingestVars, catalogVars>>

CatalogStep == CatalogNext /\ UNCHANGED <<ingestVars, transcoderVars>>

Next == IngestStep \/ TranscoderStep \/ CatalogStep

Relay == \E e \in outbox : RelayEvent(e)

Safety == Init /\ [][Next]_vars

Spec ==
  /\ Safety
  /\ WF_vars(Relay /\ UNCHANGED <<transcoderVars, catalogVars>>)
  /\ TranscoderFairness
  /\ CatalogFairness

-----------------------------------------------------------------------------
(* Properties *)

\* A track the pipeline has made READY has every variant in storage, whatever
\* was redelivered, reordered, retried, given up or edited before.
ReadyHasAudio == status = "READY" => \A q \in 1..Qualities : variant[q] # None

\* Some record was moved to media.events.dlq: an operator has to step in.
GivenUp == dlq # {} \/ missed # {}

\* A track does not stay PROCESSING: the transcoder's outcome reaches Catalog,
\* unless the job or the outcome ends in a dead-letter queue.
ProcessingEnds == status = "PROCESSING" ~> status # "PROCESSING" \/ GivenUp

\* Once a decodable master is accepted, the track becomes playable, in whatever
\* order the events of several uploads arrive, unless an editor takes it away.
AcceptedBecomesPlayable ==
  \A u \in Uploads :
    upload[u].status = "COMPLETED" /\ Content[u] = "audio"
      ~> status \in {"READY", "BLOCKED", "DELETED"} \/ GivenUp

\* Uploads take effect: a track does not stay PROCESSING, and a decodable
\* master that was accepted makes it playable.
UploadsTakeEffect == ProcessingEnds /\ AcceptedBecomesPlayable
=============================================================================
