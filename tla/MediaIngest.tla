----------------------------- MODULE MediaIngest -----------------------------
(***************************************************************************)
(* Media Ingest: upload sessions of one track.  The client PUTs the master *)
(* to object storage with a presigned URL and calls Complete, perhaps more *)
(* than once and concurrently; Complete verifies the object outside the    *)
(* transaction that settles the session and records the event.            *)
(***************************************************************************)
EXTENDS MediaEvents, FiniteSets

CONSTANTS Calls,      \* Complete requests
          URLTTL,
          MaxTime,    \* bound: last instant of the clock
          MaxIngestFaults  \* bound: failed calls, and rows relayed twice

ASSUME IngestAssumption ==
  /\ Uploads # {}
  /\ URLTTL \in Nat
  /\ MaxTime \in Nat
  /\ MaxIngestFaults \in Nat

VARIABLES clock,
          upload,   \* media.uploads
          call,     \* where each Complete call is
          outbox,   \* events committed with their session, not yet relayed
          recorded, \* history: every event committed, with the call that did
          ingestFaults

ingestVars == <<clock, upload, call, outbox, recorded, ingestFaults>>

Reasons == {"", "EXPIRED", "REJECTED"}

IngestTypeOK ==
  /\ clock \in 0..MaxTime
  /\ upload \in [Uploads -> [status : {"none", "PENDING", "COMPLETED", "FAILED"},
                             expires : Nat, at : Nat]]
  /\ call \in [Calls -> [pc : {"idle", "verify", "settle", "reread", "remove", "done", "error"},
                         upload : Uploads, reason : Reasons, at : Nat,
                         answer : {"none", "COMPLETED", "FAILED", "NOT_UPLOADED"}]]
  /\ outbox \in SUBSET Event
  /\ recorded \in SUBSET [call : Calls, event : Event]
  /\ ingestFaults \in 0..MaxIngestFaults

IngestInit ==
  /\ clock = 0
  /\ upload = [u \in Uploads |-> [status |-> "none", expires |-> 0, at |-> 0]]
  /\ call = [c \in Calls |-> [pc |-> "idle", upload |-> CHOOSE u \in Uploads : TRUE,
                              reason |-> "", at |-> 0, answer |-> "none"]]
  /\ outbox = {}
  /\ recorded = {}
  /\ ingestFaults = 0

Tick ==
  /\ clock < MaxTime
  /\ clock' = clock + 1
  /\ UNCHANGED <<upload, object, call, outbox, recorded, ingestFaults, topic>>

-----------------------------------------------------------------------------
(* The session and its object *)

\* Create: a pending session and the presigned URL.
Create(u) ==
  /\ upload[u].status = "none"
  /\ upload' = [upload EXCEPT ![u].status = "PENDING", ![u].expires = clock + URLTTL]
  /\ UNCHANGED <<clock, object, call, outbox, recorded, ingestFaults, topic>>

\* The client starts a PUT while the URL is valid, again if it likes ...
StartPut(u) ==
  /\ upload[u].status # "none"
  /\ object[u] = "none"
  /\ clock <= upload[u].expires
  /\ object' = [object EXCEPT ![u] = "sending"]
  /\ UNCHANGED <<clock, upload, call, outbox, recorded, ingestFaults, topic>>

\* ... and the body arrives some time after.  The store checks its digest.
PutArrives(u) ==
  /\ object[u] = "sending"
  /\ object' = [object EXCEPT ![u] = "stored"]
  /\ UNCHANGED <<clock, upload, call, outbox, recorded, ingestFaults, topic>>

-----------------------------------------------------------------------------
(* Complete *)

Finish(c, answer) == call' = [call EXCEPT ![c].pc = "done", ![c].answer = answer]

\* Get; a settled session repeats its outcome.
Complete(c, u) ==
  LET s == upload[u].status IN
  /\ call[c].pc = "idle"
  /\ s # "none"
  /\ call' = [call EXCEPT ![c] = [@ EXCEPT !.upload = u,
                !.pc = IF s = "PENDING" THEN "verify" ELSE "done",
                !.answer = IF s = "PENDING" THEN "none" ELSE s]]
  /\ UNCHANGED <<clock, upload, object, outbox, recorded, ingestFaults, topic>>

\* verify, and the time u.Settle stamps on the session.
Verify(c) ==
  LET u == call[c].upload
      judge(r) == call' = [call EXCEPT ![c].pc = "settle", ![c].reason = r, ![c].at = clock] IN
  /\ call[c].pc = "verify"
  /\ \/ object[u] = "stored" /\ judge(IF Content[u] = "rejected" THEN "REJECTED" ELSE "")
     \/ object[u] # "stored" /\ clock > upload[u].expires /\ judge("EXPIRED")
     \/ object[u] # "stored" /\ clock <= upload[u].expires /\ Finish(c, "NOT_UPLOADED")
  /\ UNCHANGED <<clock, upload, object, outbox, recorded, ingestFaults, topic>>

\* Mutant of SettleUpload: the UPDATE without AND status = 'PENDING'.
SettleAnyUpload(c) ==
  LET u == call[c].upload
      status == IF call[c].reason = "" THEN "COMPLETED" ELSE "FAILED"
      event == [upload |-> u, at |-> call[c].at,
                type |-> IF call[c].reason = "" THEN "track.uploaded" ELSE "media.ingest.failed"] IN
  /\ call[c].pc = "settle"
  /\ upload' = [upload EXCEPT ![u].status = status, ![u].at = call[c].at]
  /\ outbox' = outbox \cup {event}
  /\ recorded' = recorded \cup {[call |-> c, event |-> event]}
  /\ Finish(c, status)
  /\ UNCHANGED <<clock, object, ingestFaults, topic>>

\* The transaction: repo.Settle changes only a pending session, and the event
\* is recorded with it.
SettleUpload(c) ==
  LET u == call[c].upload
      status == IF call[c].reason = "" THEN "COMPLETED" ELSE "FAILED"
      event == [upload |-> u, at |-> call[c].at,
                type |-> IF call[c].reason = "" THEN "track.uploaded" ELSE "media.ingest.failed"] IN
  /\ call[c].pc = "settle"
  /\ upload[u].status = "PENDING"
  /\ upload' = [upload EXCEPT ![u].status = status, ![u].at = call[c].at]
  /\ outbox' = outbox \cup {event}
  /\ recorded' = recorded \cup {[call |-> c, event |-> event]}
  /\ IF call[c].reason = "REJECTED"
     THEN call' = [call EXCEPT ![c].pc = "remove"]
     ELSE Finish(c, status)
  /\ UNCHANGED <<clock, object, ingestFaults, topic>>

\* A concurrent Complete won: no event, and its outcome is read back.
LostSettle(c) ==
  /\ call[c].pc = "settle"
  /\ upload[call[c].upload].status # "PENDING"
  /\ call' = [call EXCEPT ![c].pc = "reread"]
  /\ UNCHANGED <<clock, upload, object, outbox, recorded, ingestFaults, topic>>

Reread(c) ==
  /\ call[c].pc = "reread"
  /\ Finish(c, upload[call[c].upload].status)
  /\ UNCHANGED <<clock, upload, object, outbox, recorded, ingestFaults, topic>>

\* store.Remove of rejected bytes.
RemoveRejected(c) ==
  /\ call[c].pc = "remove"
  /\ object' = [object EXCEPT ![call[c].upload] = "none"]
  /\ Finish(c, "FAILED")
  /\ UNCHANGED <<clock, upload, outbox, recorded, ingestFaults, topic>>

\* store.Remove failed: logged only.
RemoveFails(c) ==
  /\ call[c].pc = "remove"
  /\ ingestFaults < MaxIngestFaults
  /\ ingestFaults' = ingestFaults + 1
  /\ Finish(c, "FAILED")
  /\ UNCHANGED <<clock, upload, object, outbox, recorded, topic>>

\* A read, the verification or the transaction failed, or the process died.
CompleteFails(c) ==
  /\ call[c].pc \in {"verify", "settle", "reread", "remove"}
  /\ ingestFaults < MaxIngestFaults
  /\ ingestFaults' = ingestFaults + 1
  /\ call' = [call EXCEPT ![c].pc = "error"]
  /\ UNCHANGED <<clock, upload, object, outbox, recorded, topic>>

-----------------------------------------------------------------------------
(* The outbox relay, as module EventStream promises it for a key no row lock   *)
(* orders: every committed event, in any order, at least once.                 *)

RelayEvent(e) ==
  /\ e \in outbox
  /\ Publish(e)
  /\ outbox' = outbox \ {e}
  /\ UNCHANGED <<clock, upload, object, call, recorded, ingestFaults>>

RelayAgain(e) ==
  /\ e \in outbox
  /\ ingestFaults < MaxIngestFaults
  /\ ingestFaults' = ingestFaults + 1
  /\ Publish(e)
  /\ UNCHANGED <<clock, upload, object, call, outbox, recorded>>

CompleteStep(c) ==
  \/ (\E u \in Uploads : Complete(c, u))
  \/ Verify(c) \/ SettleUpload(c) \/ LostSettle(c) \/ Reread(c)
  \/ RemoveRejected(c) \/ RemoveFails(c) \/ CompleteFails(c)

IngestNext ==
  \/ Tick
  \/ \E u \in Uploads : Create(u) \/ StartPut(u) \/ PutArrives(u)
  \/ \E c \in Calls : CompleteStep(c)
  \/ \E e \in outbox : RelayEvent(e) \/ RelayAgain(e)

-----------------------------------------------------------------------------
(* Properties *)

Answered(c) == call[c].pc = "done" /\ call[c].answer \in {"COMPLETED", "FAILED"}

\* Complete "repeats its outcome without new events": however Complete calls
\* overlap, a settled session has exactly one event, the one of its status, and
\* a session that is not settled has none.
EventMatchesStatus ==
  \A u \in Uploads :
    LET types == {x.event.type : x \in {y \in recorded : y.event.upload = u}} IN
    /\ Cardinality({x \in recorded : x.event.upload = u}) <= 1
    /\ upload[u].status = "COMPLETED" <=> "track.uploaded" \in types
    /\ upload[u].status = "FAILED" <=> "media.ingest.failed" \in types

\* Every Complete call that answers for a session gives the outcome the session
\* keeps, also the calls that verified another state of the object and lost.
AnswersAgree ==
  \A c \in Calls : Answered(c) => call[c].answer = upload[call[c].upload].status

\* What the transcoder is told to read is there: a master announced by
\* track.uploaded is never removed, whatever other Complete calls judged.
MasterKept ==
  \A i \in DOMAIN topic : topic[i].type = "track.uploaded" => object[topic[i].upload] = "stored"

\* An upload is settled once, for everybody: its event, the answers to all its
\* Complete calls and the object in storage agree.
SettledOnce == EventMatchesStatus /\ AnswersAgree /\ MasterKept
=============================================================================
