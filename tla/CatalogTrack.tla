---------------------------- MODULE CatalogTrack ----------------------------
(***************************************************************************)
(* Catalog's side of the media pipeline for one track: the status machine, *)
(* the media.events consumer that drives it, and the edits of UpdateTrack. *)
(* modifyTrack runs under the track's row lock, so each change is one step. *)
(***************************************************************************)
EXTENDS MediaEvents

CONSTANTS Replicas,         \* catalog replicas, members of the group
          EditStatuses,     \* statuses editors ask for with PATCH /tracks/{id}
          MaxEdits,         \* bound: edits
          MaxCatalogFaults  \* bound: deaths and lost partitions

Statuses == {"DRAFT", "PROCESSING", "READY", "BLOCKED", "DELETED"}

ASSUME CatalogAssumption ==
  /\ EditStatuses \subseteq Statuses
  /\ MaxEdits \in Nat
  /\ MaxCatalogFaults \in Nat
  /\ None \notin Replicas

VARIABLES status,   \* the track's row; "none" before CreateTrack
          updates,  \* history: statuses carried by track.created and track.updated
          signals,  \* the consumer group `catalog'
          missed,   \* records Catalog gave up: they are in media.events.dlq
          edits, catalogFaults

catalogVars == <<status, updates, signals, missed, edits, catalogFaults>>

CatalogTypeOK ==
  /\ status \in Statuses \cup {"none"}
  /\ updates \in Seq(Statuses)
  /\ signals \in Group(Replicas)
  /\ missed \in SUBSET Nat
  /\ edits \in 0..MaxEdits
  /\ catalogFaults \in 0..MaxCatalogFaults

CatalogInit ==
  /\ status = "none"
  /\ updates = <<>>
  /\ signals = NewGroup(Replicas)
  /\ missed = {}
  /\ edits = 0
  /\ catalogFaults = 0

allowedTransitions ==
  [s \in Statuses |->
     CASE s = "DRAFT"      -> {"PROCESSING", "DELETED"}
       [] s = "PROCESSING" -> {"READY", "DRAFT", "DELETED"}
       [] s = "READY"      -> {"BLOCKED", "DELETED"}
       [] s = "BLOCKED"    -> {"READY", "DELETED"}
       [] s = "DELETED"    -> {}]

\* Mutant of Store: the event carries the track as it was read.
StoreOldEvent(next) ==
  IF next = status THEN UNCHANGED <<status, updates>>
  ELSE status' = next /\ updates' = Append(updates, status)

\* A change is stored with its event; no change stores and publishes nothing.
Store(next) ==
  IF next = status THEN UNCHANGED <<status, updates>>
  ELSE status' = next /\ updates' = Append(updates, next)

CreateTrack ==
  /\ status = "none"
  /\ Store("DRAFT")
  /\ UNCHANGED <<signals, missed, edits, catalogFaults, topic, object>>

\* UpdateTrack: Apply refuses a deleted track and a transition not allowed; edits
\* of title and explicit alone do not touch what is modelled.
UpdateTrack(next) ==
  /\ status # "none"
  /\ edits < MaxEdits
  /\ edits' = edits + 1
  /\ next \in allowedTransitions[status]
  /\ Store(next)
  /\ UNCHANGED <<signals, missed, catalogFaults, topic, object>>

\* Mutants of AdvanceMedia: a failure sends any track back to DRAFT; only a
\* PROCESSING track becomes READY.
FailureAlwaysDrafts(type) ==
  CASE type = "track.uploaded" /\ status = "DRAFT"                        -> "PROCESSING"
    [] type = "track.transcoded" /\ status \in {"DRAFT", "PROCESSING"}    -> "READY"
    [] type = "media.transcode.failed"                                    -> "DRAFT"
    [] OTHER                                                              -> status

OnlyProcessingFinishes(type) ==
  CASE type = "track.uploaded" /\ status = "DRAFT"                        -> "PROCESSING"
    [] type = "track.transcoded" /\ status = "PROCESSING"                 -> "READY"
    [] type = "media.transcode.failed" /\ status = "PROCESSING"           -> "DRAFT"
    [] OTHER                                                              -> status

\* AdvanceMedia: the status after a media event.
AdvanceMedia(type) ==
  CASE type = "track.uploaded" /\ status = "DRAFT"                        -> "PROCESSING"
    [] type = "track.transcoded" /\ status \in {"DRAFT", "PROCESSING"}    -> "READY"
    [] type = "media.transcode.failed" /\ status = "PROCESSING"           -> "DRAFT"
    [] OTHER                                                              -> status

FetchSignals(r) ==
  /\ signals' \in Fetches(signals, r)
  /\ UNCHANGED <<status, updates, missed, edits, catalogFaults, topic, object>>

\* MediaEventsHandler: an unknown track and other event types are acknowledged.
HandleSignal(r) ==
  /\ Working(signals, r)
  /\ Store(AdvanceMedia(topic[signals.next[r]].type))
  /\ signals' \in Settles(signals, r)
  /\ UNCHANGED <<missed, edits, catalogFaults, topic, object>>

\* The database failed on every retry: the record goes to the DLQ.
GiveUpSignal(r) ==
  /\ Working(signals, r)
  /\ catalogFaults < MaxCatalogFaults
  /\ catalogFaults' = catalogFaults + 1
  /\ missed' = missed \cup {signals.next[r]}
  /\ signals' \in Settles(signals, r)
  /\ UNCHANGED <<status, updates, edits, topic, object>>

KillReplica(r) ==
  /\ Working(signals, r)
  /\ catalogFaults < MaxCatalogFaults
  /\ catalogFaults' = catalogFaults + 1
  /\ signals' = Killed(signals, r)
  /\ UNCHANGED <<status, updates, missed, edits, topic, object>>

AssignSignals(r) ==
  /\ signals.owner # r
  /\ \/ signals.owner = None /\ UNCHANGED catalogFaults
     \/ /\ signals.owner # None
        /\ catalogFaults < MaxCatalogFaults
        /\ catalogFaults' = catalogFaults + 1
  /\ signals' = Rebalanced(signals, r)
  /\ UNCHANGED <<status, updates, missed, edits, topic, object>>

CatalogNext ==
  \/ CreateTrack
  \/ \E s \in EditStatuses : UpdateTrack(s)
  \/ \E r \in Replicas : \/ FetchSignals(r) \/ HandleSignal(r) \/ GiveUpSignal(r)
                        \/ KillReplica(r) \/ AssignSignals(r)

\* A replica keeps polling and handling, and a free partition is assigned.
CatalogFairness ==
  \A r \in Replicas :
    /\ WF_<<catalogVars, topic>>(FetchSignals(r) \/ HandleSignal(r))
    /\ WF_<<catalogVars, topic>>(signals.owner = None /\ AssignSignals(r))

-----------------------------------------------------------------------------
\* AdvanceMedia: "a READY track stays playable while a re-upload is processed,
\* BLOCKED and DELETED tracks never come back".  Whatever media events are
\* redelivered, late or handled by a replica that lost the partition, only an
\* edit moves a track out of these statuses.
StaysUntilEdited ==
  [][(status \in {"READY", "BLOCKED", "DELETED"} /\ status' # status)
       => edits' # edits]_catalogVars
=============================================================================
