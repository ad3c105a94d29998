----------------------------- MODULE MediaProofs -----------------------------
(***************************************************************************)
(* Proofs about the media pipeline, for any number of uploads, Complete    *)
(* calls, workers, replicas and failures: a session is settled once, the   *)
(* variants of a track are sound, a READY track has its audio, and only an *)
(* edit takes a track out of the statuses a listener sees.                 *)
(***************************************************************************)
EXTENDS MediaPipeline, MediaFacts, FiniteSetTheorems, TLAPS

(* Media Ingest *)

OutcomeOf(s) == IF s = "COMPLETED" THEN "track.uploaded" ELSE "media.ingest.failed"
Settled(u) == upload[u].status \in {"COMPLETED", "FAILED"}

\* Nothing is relayed that was not committed with its session.
RelayedRecorded ==
  /\ \A e \in outbox : \E x \in recorded : x.event = e
  /\ \A i \in DOMAIN topic :
       topic[i].type \in {"track.uploaded", "media.ingest.failed"} =>
         \E x \in recorded : x.event = topic[i]

\* The one event of each settled session.
SessionEvents ==
  /\ \A x, y \in recorded : x.event.upload = y.event.upload => x = y
  /\ \A x \in recorded : /\ Settled(x.event.upload)
                         /\ x.event.type = OutcomeOf(upload[x.event.upload].status)
  /\ \A u \in Uploads : Settled(u) => \E x \in recorded : x.event.upload = u

\* What a Complete call knows: its session exists, a master it found stays while
\* the session is pending, it reads an outcome back when there is one, and it
\* removes a master only when the session has failed.
CallKnows(c) ==
  LET u == call[c].upload IN
  /\ call[c].pc \in {"verify", "settle"} => upload[u].status # "none"
  /\ call[c].pc = "reread" => Settled(u)
  /\ call[c].pc = "settle" /\ call[c].reason = "" /\ upload[u].status = "PENDING" =>
       object[u] = "stored"
  /\ call[c].pc = "remove" => upload[u].status = "FAILED"

IngestInv ==
  /\ RelayedRecorded
  /\ SessionEvents
  /\ \A u \in Uploads : upload[u].status = "COMPLETED" => object[u] = "stored"
  /\ \A c \in Calls : CallKnows(c)
  /\ AnswersAgree

(* Consumer groups *)

\* A group's offsets stay within a log of n records.
Within(g, members, n) ==
  /\ g \in Group(members)
  /\ g.committed <= n /\ g.pos <= n
  /\ \A m \in members : 1 <= g.next[m] /\ g.last[m] <= n

(* The transcoder *)

Announced(i) ==
  topic[i].type = "track.uploaded" /\ i \notin dlq =>
    \E k \in DOMAIN topic :
      \/ /\ topic[k].upload = topic[i].upload
         /\ topic[k].type \in {"track.transcoded", "media.transcode.failed"}
      \/ topic[k].type = "track.uploaded" /\ topic[k].at > topic[i].at
Upto(n) == \A i \in 1..n : Announced(i)

\* Every record before the one a worker is at, and every record before what
\* the owner fetches next, is announced or among those the owner has.
JobsInOrder ==
  /\ Upto(jobs.committed)
  /\ \A w \in Workers :
       /\ Working(jobs, w) => Upto(jobs.next[w] - 1)
       /\ jobs.owner = w => Upto(jobs.pos) \/ (Working(jobs, w) /\ jobs.pos <= jobs.last[w])

Stored(q) == variant[q] # None

\* Where a worker is in Handle, and what it has stored by then.
JobKnows(w) ==
  /\ job[w].pc # "start" => Working(jobs, w) /\ IsJob(w)
  /\ job[w].pc \in {"start", "encode"} => job[w].q = 1
  /\ job[w].pc = "put" => /\ Content[Job(w).upload] = "audio"
                          /\ \A p \in 1..(job[w].q - 1) : Stored(p)
  /\ job[w].pc = "announce" => \A q \in 1..Qualities : Stored(q)
  /\ job[w].pc = "fail" => Content[Job(w).upload] # "audio"

\* Every variant was made from a master on the topic.
VariantsUploaded ==
  \A q \in 1..Qualities : Stored(q) =>
    \E k \in DOMAIN topic : /\ topic[k].type = "track.uploaded"
                            /\ topic[k].upload = variant[q].upload /\ topic[k].at = variant[q].at

\* While no partition is taken from a live worker, the owner alone works, on
\* records that are not committed.
Sole ==
  \A w \in Workers :
    /\ Working(jobs, w) => /\ jobs.owner = w /\ jobs.pos = jobs.last[w]
                           /\ jobs.committed < jobs.next[w]
    /\ jobs.owner = w => jobs.committed <= jobs.pos

NotNewer(e) == \A q \in 1..Qualities : Stored(q) => variant[q].at <= e.at
Uniform == \A p, q \in 1..Qualities : MasterOf(p) = MasterOf(q)

\* What the only worker knows about the variants.
SoleKnows(w) ==
  /\ job[w].pc \in {"encode", "put"} => NotNewer(Job(w))
  /\ job[w].pc = "put" => \A p \in 1..(job[w].q - 1) : MasterOf(p) = Digest[Job(w).upload]
  /\ job[w].pc = "announce" => Uniform

\* The group has yet to settle record i.
Pending(i) ==
  /\ i > jobs.committed
  /\ \A w \in Workers : jobs.owner = w => IF Working(jobs, w) THEN i >= jobs.next[w] ELSE i > jobs.pos

\* A mixture is left only while a job is pending that will replace all of it.
Repairs(i) ==
  /\ topic[i].type = "track.uploaded" /\ Content[topic[i].upload] = "audio"
  /\ Pending(i)
  /\ NotNewer(topic[i])

TranscoderInv ==
  /\ Within(jobs, Workers, Len(topic))
  /\ JobsInOrder
  /\ \A w \in Workers : JobKnows(w)
  /\ TranscodedIsStored
  /\ VariantsUploaded

\* Without a lost partition.
SoleInv ==
  rebalances = 0 =>
    /\ Sole
    /\ \A w \in Workers : SoleKnows(w)
    /\ dlq = {} => Uniform \/ \E i \in DOMAIN topic : Repairs(i)

(* Catalog *)

CatalogInv == Within(signals, Replicas, Len(topic))

IInv == TypeOK /\ IngestInv /\ TranscoderInv /\ SoleInv /\ CatalogInv

\* When editors do not set READY themselves.
AudioInv == status \in {"READY", "BLOCKED"} => \A q \in 1..Qualities : Stored(q)

-----------------------------------------------------------------------------
(* The log and the groups that read it *)

\* What every step does to the topic: nothing, or one more event.
LogStep == topic' = topic \/ \E e \in Event : topic' = Append(topic, e)

\* The log grows and what is on it stays.
LEMMA LogGrows ==
  ASSUME topic \in Seq(Event), LogStep
  PROVE  /\ topic' \in Seq(Event)
         /\ Len(topic) \in Nat /\ Len(topic') \in Nat
         /\ Len(topic) <= Len(topic')
         /\ DOMAIN topic = 1..Len(topic) /\ DOMAIN topic' = 1..Len(topic')
         /\ \A i \in 1..Len(topic) : topic'[i] = topic[i] /\ topic[i] \in Event
         /\ \A i \in 1..Len(topic') : topic'[i] \in Event
BY DEF LogStep

\* A published event is the last of the log.
LEMMA LastPublished ==
  ASSUME topic \in Seq(Event), NEW e \in Event, Publish(e)
  PROVE  /\ LogStep
         /\ Len(topic') = Len(topic) + 1
         /\ topic'[Len(topic')] = e
         /\ Len(topic') \in DOMAIN topic'
         /\ \A i \in DOMAIN topic' : i \in DOMAIN topic \/ i = Len(topic')
BY DEF LogStep, Publish

\* The types of a group's fields.
LEMMA GroupFields ==
  ASSUME NEW ms, NEW g \in Group(ms)
  PROVE  /\ g.owner \in ms \cup {None} /\ g.committed \in Nat /\ g.pos \in Nat
         /\ g.next \in [ms -> Nat] /\ g.last \in [ms -> Nat]
BY DEF Group

\* A log that grows keeps the offsets within it.
LEMMA WithinLonger ==
  ASSUME NEW ms, NEW g, NEW n \in Nat, NEW k \in Nat, n <= k, Within(g, ms, n)
  PROVE  Within(g, ms, k)
BY GroupFields DEF Within

\* A fetch takes the records after the owner's position, and nothing else moves.
LEMMA FetchesGroup ==
  ASSUME NEW ms, NEW m \in ms, NEW g, Within(g, ms, Len(topic)), Len(topic) \in Nat,
         NEW h \in Fetches(g, m)
  PROVE  /\ Within(h, ms, Len(topic))
         /\ g.owner = m /\ ~ Working(g, m)
         /\ h.owner = g.owner /\ h.committed = g.committed
         /\ h.next = [g.next EXCEPT ![m] = g.pos + 1]
         /\ h.last = [g.last EXCEPT ![m] = h.pos]
         /\ h.pos > g.pos
<1>1. g \in Group(ms)
  BY DEF Within
<1>2. PICK n \in (g.pos + 1)..Len(topic) :
         h = [g EXCEPT !.pos = n, !.next[m] = g.pos + 1, !.last[m] = n]
  BY DEF Fetches
<1>3. g.owner = m /\ ~ Working(g, m)
  BY DEF Fetches
<1>4. n \in Nat /\ g.pos \in Nat /\ n > g.pos /\ n <= Len(topic)
  BY <1>1, GroupFields
<1>5. /\ h.owner = g.owner /\ h.committed = g.committed /\ h.pos = n
      /\ h.next = [g.next EXCEPT ![m] = g.pos + 1]
      /\ h.last = [g.last EXCEPT ![m] = n]
  BY <1>1, <1>2 DEF Group
<1>6. h.next \in [ms -> Nat] /\ h.last \in [ms -> Nat]
  BY <1>1, <1>4, <1>5, GroupFields
<1>7. h \in Group(ms)
  BY <1>1, <1>2, <1>4, <1>6 DEF Group
<1>8. \A w \in ms : 1 <= h.next[w] /\ h.last[w] <= Len(topic)
  BY <1>1, <1>4, <1>5, GroupFields DEF Within
<1>9. QED
  BY <1>3, <1>4, <1>5, <1>7, <1>8 DEF Within

\* A settled record moves its worker on, and is committed with the last one.
LEMMA SettlesGroup ==
  ASSUME NEW ms, NEW m \in ms, NEW g, NEW n \in Nat, Within(g, ms, n), Working(g, m),
         NEW h \in Settles(g, m)
  PROVE  /\ Within(h, ms, n)
         /\ h.owner = g.owner /\ h.pos = g.pos /\ h.last = g.last
         /\ h.next = [g.next EXCEPT ![m] = g.next[m] + 1]
         /\ \/ h.committed = g.committed /\ (g.owner = m => g.next[m] < g.last[m])
            \/ h.committed = g.last[m] /\ g.next[m] = g.last[m]
<1>1. g \in Group(ms) /\ g.next[m] \in Nat /\ g.last[m] \in Nat /\ g.next[m] <= g.last[m]
  BY GroupFields DEF Within, Working
<1> DEFINE done == [g EXCEPT !.next[m] = @ + 1]
           saved == [done EXCEPT !.committed = g.last[m]]
<1>2. /\ done.owner = g.owner /\ done.pos = g.pos /\ done.last = g.last
      /\ done.committed = g.committed
      /\ done.next = [g.next EXCEPT ![m] = g.next[m] + 1]
      /\ done \in Group(ms)
  <2>1. [g.next EXCEPT ![m] = g.next[m] + 1] \in [ms -> Nat]
    BY <1>1, GroupFields
  <2>2. QED
    BY <1>1, <2>1 DEF Group
<1>3. /\ saved.owner = g.owner /\ saved.pos = g.pos /\ saved.last = g.last
      /\ saved.committed = g.last[m]
      /\ saved.next = done.next
      /\ saved \in Group(ms)
  <2> HIDE DEF done
  <2>1. QED
    BY <1>1, <1>2 DEF Group
<1>4. \/ h = done /\ (g.owner = m => g.next[m] < g.last[m])
      \/ h = saved /\ g.next[m] = g.last[m]
  BY <1>1 DEF Settles
<1>5. h.next = [g.next EXCEPT ![m] = g.next[m] + 1] /\ h.last = g.last /\ h \in Group(ms)
  <2> HIDE DEF done, saved
  <2>1. QED
    BY <1>2, <1>3, <1>4
<1>6. \A w \in ms : 1 <= h.next[w] /\ h.last[w] <= n
  BY <1>1, <1>5, GroupFields DEF Within
<1>7. h.committed <= n /\ h.pos <= n
  <2> HIDE DEF done, saved
  <2>1. QED
    BY <1>1, <1>2, <1>3, <1>4 DEF Within
<1>8. QED
  <2> HIDE DEF done, saved
  <2>1. QED
    BY <1>2, <1>3, <1>4, <1>5, <1>6, <1>7 DEF Within

\* A new owner fetches from the committed offset.
LEMMA RebalancedGroup ==
  ASSUME NEW ms, NEW m \in ms, NEW g, NEW n \in Nat, Within(g, ms, n),
         NEW h, h = Rebalanced(g, m)
  PROVE  /\ Within(h, ms, n)
         /\ h.owner = m /\ h.pos = g.committed /\ h.committed = g.committed
         /\ h.next = g.next /\ h.last = g.last
<1>1. g \in Group(ms)
  BY DEF Within
<1>2. /\ h.owner = m /\ h.pos = g.committed /\ h.committed = g.committed
      /\ h.next = g.next /\ h.last = g.last
      /\ h \in Group(ms)
  BY <1>1 DEF Rebalanced, Group
<1>3. Within(h, ms, n)
  BY <1>2 DEF Within
<1>4. QED
  BY <1>2, <1>3

\* A member that dies keeps no record, and leaves the partition.
LEMMA KilledGroup ==
  ASSUME NEW ms, NEW m \in ms, NEW g, NEW n \in Nat, Within(g, ms, n),
         NEW h, h = Killed(g, m)
  PROVE  /\ Within(h, ms, n)
         /\ h.owner = IF g.owner = m THEN None ELSE g.owner
         /\ h.pos = g.pos /\ h.committed = g.committed
         /\ h.next = [g.next EXCEPT ![m] = 1] /\ h.last = [g.last EXCEPT ![m] = 0]
<1>1. g \in Group(ms)
  BY DEF Within
<1>2. [g.next EXCEPT ![m] = 1] \in [ms -> Nat] /\ [g.last EXCEPT ![m] = 0] \in [ms -> Nat]
  BY <1>1, GroupFields
<1>3. /\ h.owner = IF g.owner = m THEN None ELSE g.owner
      /\ h.pos = g.pos /\ h.committed = g.committed
      /\ h.next = [g.next EXCEPT ![m] = 1] /\ h.last = [g.last EXCEPT ![m] = 0]
      /\ h \in Group(ms)
  BY <1>1, <1>2 DEF Killed, Group
<1>4. \A w \in ms : 1 <= h.next[w] /\ h.last[w] <= n
  BY <1>1, <1>3, GroupFields DEF Within
<1>5. Within(h, ms, n)
  BY <1>3, <1>4 DEF Within
<1>6. QED
  BY <1>3, <1>5

\* A new group has read nothing.
LEMMA NewGroupWithin ==
  ASSUME NEW ms, NEW n \in Nat
  PROVE  Within(NewGroup(ms), ms, n)
BY DEF Within, NewGroup, Group

-----------------------------------------------------------------------------
(* Media Ingest *)

\* A Complete call moves on: it keeps its session and what it has judged, or
\* sets them to values of their types.
LEMMA CallTyped ==
  ASSUME IngestTypeOK, NEW c \in Calls,
         NEW rec, rec \in [pc : {"idle", "verify", "settle", "reread", "remove", "done", "error"},
                           upload : Uploads, reason : Reasons, at : Nat,
                           answer : {"none", "COMPLETED", "FAILED", "NOT_UPLOADED"}],
         call' = [call EXCEPT ![c] = rec]
  PROVE  /\ call' \in [Calls -> [pc : {"idle", "verify", "settle", "reread", "remove", "done", "error"},
                           upload : Uploads, reason : Reasons, at : Nat,
                           answer : {"none", "COMPLETED", "FAILED", "NOT_UPLOADED"}]]
         /\ call'[c] = rec
         /\ \A d \in Calls \ {c} : call'[d] = call[d]
BY DEF IngestTypeOK

\* The steps of a Complete call that change nothing but the call (and count a
\* failure).
CallOnly(c) ==
  \/ \E u \in Uploads : Complete(c, u)
  \/ Verify(c) \/ LostSettle(c) \/ Reread(c) \/ RemoveFails(c) \/ CompleteFails(c)

\* What each of them makes of the call.
LEMMA CallOnlyStep ==
  ASSUME TypeOK, NEW c \in Calls, CallKnows(c), CallOnly(c)
  PROVE  /\ UNCHANGED <<clock, upload, object, outbox, recorded, topic>>
         /\ IngestTypeOK'
         /\ \A d \in Calls \ {c} : call'[d] = call[d]
         /\ CallKnows(c)'
         /\ Answered(c)' => call'[c].answer = upload[call'[c].upload].status
<1> USE IngestAssumption
<1>1. ingestFaults' \in 0..MaxIngestFaults
  <2>1. \/ ingestFaults' = ingestFaults
        \/ ingestFaults < MaxIngestFaults /\ ingestFaults' = ingestFaults + 1
    BY DEF CallOnly, Complete, Verify, LostSettle, Reread, RemoveFails, CompleteFails
  <2>2. QED
    BY <2>1 DEF TypeOK, IngestTypeOK
<1>2. UNCHANGED <<clock, upload, object, outbox, recorded, topic>>
  BY DEF CallOnly, Complete, Verify, LostSettle, Reread, RemoveFails, CompleteFails
<1> DEFINE PCs == {"idle", "verify", "settle", "reread", "remove", "done", "error"}
           Rec == [pc : PCs, upload : Uploads, reason : Reasons, at : Nat,
                   answer : {"none", "COMPLETED", "FAILED", "NOT_UPLOADED"}]
<1>3. call \in [Calls -> Rec] /\ call[c] \in Rec /\ call[c].upload \in Uploads
      /\ clock \in Nat
  BY DEF TypeOK, IngestTypeOK
<1> DEFINE Good(rec) ==
             /\ rec.pc \in {"verify", "settle"} => upload[rec.upload].status # "none"
             /\ rec.pc = "settle" /\ rec.reason = "" => object[rec.upload] = "stored"
             /\ rec.pc = "reread" => Settled(rec.upload)
             /\ rec.pc # "remove"
             /\ rec.pc = "done" /\ rec.answer \in {"COMPLETED", "FAILED"} =>
                  rec.answer = upload[rec.upload].status
<1>4. SUFFICES \E rec \in Rec : call' = [call EXCEPT ![c] = rec] /\ Good(rec)
  <2>1. PICK rec \in Rec : call' = [call EXCEPT ![c] = rec] /\ Good(rec)
    BY <1>4
  <2>2. call' \in [Calls -> Rec] /\ call'[c] = rec /\ \A d \in Calls \ {c} : call'[d] = call[d]
    BY <2>1, CallTyped DEF TypeOK
  <2>3. IngestTypeOK'
    BY <1>1, <1>2, <2>2 DEF TypeOK, IngestTypeOK
  <2>4. CallKnows(c)'
    BY <1>2, <2>1, <2>2, ZenonT(30) DEF CallKnows, Settled
  <2>5. QED
    BY <1>2, <2>1, <2>2, <2>3, <2>4 DEF Answered
<1>5. CASE \E u \in Uploads : Complete(c, u)
  <2>1. PICK u \in Uploads : Complete(c, u)
    BY <1>5
  <2> DEFINE s == upload[u].status
             rec == [call[c] EXCEPT !.upload = u, !.pc = IF s = "PENDING" THEN "verify" ELSE "done",
                                    !.answer = IF s = "PENDING" THEN "none" ELSE s]
  <2>2. s \in {"none", "PENDING", "COMPLETED", "FAILED"} /\ s # "none"
    BY <2>1 DEF Complete, TypeOK, IngestTypeOK
  <2>3. rec \in Rec
    BY <1>3, <2>2
  <2>4. call' = [call EXCEPT ![c] = rec]
    BY <2>1 DEF Complete
  <2>5. /\ rec.pc = (IF s = "PENDING" THEN "verify" ELSE "done") /\ rec.upload = u
        /\ rec.answer = IF s = "PENDING" THEN "none" ELSE s
    BY <1>3
  <2>6. QED
    BY <2>3, <2>4, <2>5
<1>6. CASE Verify(c)
  <2>1. CASE \E r \in Reasons : /\ call' = [call EXCEPT ![c].pc = "settle", ![c].reason = r, ![c].at = clock]
                                /\ call[c].pc = "verify"
                                /\ r = "" => object[call[c].upload] = "stored"
    <3>1. PICK r \in Reasons : /\ call' = [call EXCEPT ![c].pc = "settle", ![c].reason = r, ![c].at = clock]
                               /\ call[c].pc = "verify"
                               /\ r = "" => object[call[c].upload] = "stored"
      BY <2>1
    <3> DEFINE rec == [call[c] EXCEPT !.pc = "settle", !.reason = r, !.at = clock]
    <3>2. rec \in Rec /\ rec.pc = "settle" /\ rec.reason = r /\ rec.upload = call[c].upload
      BY <1>3
    <3>3. call' = [call EXCEPT ![c] = rec]
      BY <1>3, <3>1
    <3>4. Good(rec)
      BY <3>1, <3>2 DEF CallKnows
    <3>5. QED
      BY <3>2, <3>3, <3>4
  <2>2. CASE Finish(c, "NOT_UPLOADED")
    <3> DEFINE rec == [call[c] EXCEPT !.pc = "done", !.answer = "NOT_UPLOADED"]
    <3>1. rec \in Rec /\ rec.pc = "done" /\ rec.answer = "NOT_UPLOADED"
      BY <1>3
    <3>2. call' = [call EXCEPT ![c] = rec]
      BY <1>3, <2>2 DEF Finish
    <3>3. QED
      BY <3>1, <3>2
  <2>3. QED
    BY <1>6, <2>1, <2>2 DEF Verify, Reasons
<1>7. CASE LostSettle(c) \/ CompleteFails(c)
  <2>1. PICK p \in {"reread", "error"} :
          call' = [call EXCEPT ![c].pc = p] /\ (p = "reread" => LostSettle(c))
    BY <1>7 DEF LostSettle, CompleteFails
  <2>2. p = "reread" => Settled(call[c].upload)
    BY <1>3, <2>1 DEF LostSettle, CallKnows, Settled, TypeOK, IngestTypeOK
  <2> DEFINE rec == [call[c] EXCEPT !.pc = p]
  <2>3. rec \in Rec /\ rec.pc = p /\ rec.upload = call[c].upload
    BY <1>3
  <2>4. call' = [call EXCEPT ![c] = rec]
    BY <1>3, <2>1
  <2>5. QED
    BY <2>2, <2>3, <2>4
<1>8. CASE Reread(c)
  <2> DEFINE s == upload[call[c].upload].status
             rec == [call[c] EXCEPT !.pc = "done", !.answer = s]
  <2>1. s \in {"COMPLETED", "FAILED"}
    BY <1>8 DEF Reread, CallKnows, Settled
  <2>2. rec \in Rec /\ rec.pc = "done" /\ rec.answer = s /\ rec.upload = call[c].upload
    BY <1>3, <2>1
  <2>3. call' = [call EXCEPT ![c] = rec]
    BY <1>3, <1>8 DEF Reread, Finish
  <2>4. QED
    BY <2>2, <2>3
<1>9. CASE RemoveFails(c)
  <2> DEFINE rec == [call[c] EXCEPT !.pc = "done", !.answer = "FAILED"]
  <2>1. upload[call[c].upload].status = "FAILED"
    BY <1>9 DEF RemoveFails, CallKnows
  <2>2. rec \in Rec /\ rec.pc = "done" /\ rec.answer = "FAILED" /\ rec.upload = call[c].upload
    BY <1>3
  <2>3. call' = [call EXCEPT ![c] = rec]
    BY <1>3, <1>9 DEF RemoveFails, Finish
  <2>4. QED
    BY <2>1, <2>2, <2>3
<1>10. QED
  BY <1>5, <1>6, <1>7, <1>8, <1>9 DEF CallOnly

\* What every step of Media Ingest keeps.
IngestKept == MediaTypeOK' /\ IngestTypeOK' /\ IngestInv' /\ LogStep

\* Time passing keeps Ingest's invariant.
LEMMA TickKept ==
  ASSUME TypeOK, IngestInv, Tick
  PROVE  IngestKept
<1>1. clock' \in 0..MaxTime
  BY IngestAssumption DEF Tick, TypeOK, IngestTypeOK
<1>2. UNCHANGED <<upload, object, call, outbox, recorded, ingestFaults, topic>>
  BY DEF Tick
<1>3. MediaTypeOK' /\ IngestTypeOK'
  BY <1>1, <1>2 DEF TypeOK, MediaTypeOK, IngestTypeOK
<1>4. IngestInv'
  BY <1>2 DEF IngestInv, RelayedRecorded, SessionEvents, Settled, CallKnows, AnswersAgree, Answered
<1>5. QED
  BY <1>2, <1>3, <1>4 DEF IngestKept, LogStep

\* So does a new session, which has no event and no master yet.
LEMMA CreateKept ==
  ASSUME TypeOK, IngestInv, NEW u \in Uploads, Create(u)
  PROVE  IngestKept
<1>1. UNCHANGED <<clock, object, call, outbox, recorded, ingestFaults, topic>>
  BY DEF Create
<1>2. upload \in [Uploads -> [status : {"none", "PENDING", "COMPLETED", "FAILED"},
                              expires : Nat, at : Nat]]
  BY DEF TypeOK, IngestTypeOK
<1>3. clock + URLTTL \in Nat
  BY IngestAssumption DEF TypeOK, IngestTypeOK
<1>4. /\ upload' \in [Uploads -> [status : {"none", "PENDING", "COMPLETED", "FAILED"},
                              expires : Nat, at : Nat]]
      /\ upload'[u].status = "PENDING" /\ upload[u].status = "none"
      /\ \A v \in Uploads \ {u} : upload'[v] = upload[v]
  BY <1>2, <1>3 DEF Create
<1>5. MediaTypeOK' /\ IngestTypeOK'
  BY <1>1, <1>4 DEF TypeOK, MediaTypeOK, IngestTypeOK
<1>6. \A v \in Uploads : Settled(v)' = Settled(v)
  BY <1>4 DEF Settled
<1>7. \A x \in recorded : x.event.upload \in Uploads /\ x.event.upload # u
  BY <1>4 DEF TypeOK, IngestTypeOK, Event, IngestInv, SessionEvents, Settled
<1>8. SessionEvents'
  BY <1>1, <1>4, <1>6, <1>7 DEF IngestInv, SessionEvents
<1>9. RelayedRecorded'
  BY <1>1 DEF IngestInv, RelayedRecorded
<1>10. \A c \in Calls : call[c].upload \in Uploads
  BY DEF TypeOK, IngestTypeOK
<1>11. \A c \in Calls : CallKnows(c)'
  BY <1>1, <1>4, <1>10 DEF IngestInv, CallKnows, Settled
<1>12. AnswersAgree'
  BY <1>1, <1>4, <1>10 DEF IngestInv, AnswersAgree, Answered
<1>13. \A v \in Uploads : upload'[v].status = "COMPLETED" => object'[v] = "stored"
  BY <1>1, <1>4 DEF IngestInv
<1>14. QED
  BY <1>1, <1>5, <1>8, <1>9, <1>11, <1>12, <1>13 DEF IngestKept, IngestInv, LogStep

\* A master that is stored stays so.
LEMMA PutKept ==
  ASSUME TypeOK, IngestInv, NEW u \in Uploads, StartPut(u) \/ PutArrives(u)
  PROVE  IngestKept
<1>1. UNCHANGED <<clock, upload, call, outbox, recorded, ingestFaults, topic>>
  BY DEF StartPut, PutArrives
<1>2. /\ object' \in [Uploads -> {"none", "sending", "stored"}]
      /\ \A v \in Uploads : object[v] = "stored" => object'[v] = "stored"
  BY DEF StartPut, PutArrives, TypeOK, MediaTypeOK
<1>3. MediaTypeOK' /\ IngestTypeOK'
  BY <1>1, <1>2 DEF TypeOK, MediaTypeOK, IngestTypeOK
<1>4. \A c \in Calls : call[c].upload \in Uploads
  BY DEF TypeOK, IngestTypeOK
<1>5. \A c \in Calls : CallKnows(c)'
  BY <1>1, <1>2, <1>4 DEF IngestInv, CallKnows, Settled
<1>6. RelayedRecorded' /\ SessionEvents' /\ AnswersAgree'
  BY <1>1 DEF IngestInv, RelayedRecorded, SessionEvents, Settled, AnswersAgree, Answered
<1>7. QED
  BY <1>1, <1>2, <1>3, <1>5, <1>6 DEF IngestKept, IngestInv, LogStep

\* So do the steps that change only a call.
LEMMA CallOnlyKept ==
  ASSUME TypeOK, IngestInv, NEW c \in Calls, CallOnly(c)
  PROVE  IngestKept
<1>1. CallKnows(c)
  BY DEF IngestInv
<1>2. /\ UNCHANGED <<clock, upload, object, outbox, recorded, topic>>
      /\ IngestTypeOK'
      /\ \A d \in Calls \ {c} : call'[d] = call[d]
      /\ CallKnows(c)'
      /\ Answered(c)' => call'[c].answer = upload[call'[c].upload].status
  BY <1>1, CallOnlyStep
<1>3. \A d \in Calls : CallKnows(d)'
  BY <1>2, ZenonT(30) DEF IngestInv, CallKnows, Settled
<1>4. AnswersAgree'
  BY <1>2 DEF IngestInv, AnswersAgree, Answered
<1>5. RelayedRecorded' /\ SessionEvents'
  BY <1>2 DEF IngestInv, RelayedRecorded, SessionEvents, Settled
<1>6. QED
  BY <1>2, <1>3, <1>4, <1>5 DEF IngestKept, IngestInv, LogStep, TypeOK, MediaTypeOK

\* The transaction that settles a pending session records its only event.
LEMMA SettleUploadKept ==
  ASSUME TypeOK, IngestInv, NEW c \in Calls, SettleUpload(c)
  PROVE  IngestKept
<1> DEFINE u == call[c].upload
           st == IF call[c].reason = "" THEN "COMPLETED" ELSE "FAILED"
           event == [upload |-> u, at |-> call[c].at,
                     type |-> IF call[c].reason = "" THEN "track.uploaded" ELSE "media.ingest.failed"]
           new == [call |-> c, event |-> event]
           rec == IF call[c].reason = "REJECTED" THEN [call[c] EXCEPT !.pc = "remove"]
                  ELSE [call[c] EXCEPT !.pc = "done", !.answer = st]
<1>1. /\ call[c].pc = "settle" /\ upload[u].status = "PENDING"
      /\ upload' = [upload EXCEPT ![u].status = st, ![u].at = call[c].at]
      /\ outbox' = outbox \cup {event}
      /\ recorded' = recorded \cup {new}
      /\ UNCHANGED <<clock, object, ingestFaults, topic>>
  BY DEF SettleUpload
<1>2. /\ u \in Uploads /\ call[c].at \in Nat /\ st \in {"COMPLETED", "FAILED"}
      /\ call[c].reason \in Reasons
  BY DEF TypeOK, IngestTypeOK
<1>3. event \in Event /\ event.upload = u /\ event.type = OutcomeOf(st)
  BY <1>2 DEF Event, Types, OutcomeOf
<1>4. new \in [call : Calls, event : Event] /\ new.event = event
  BY <1>3
<1>5. /\ upload' \in [Uploads -> [status : {"none", "PENDING", "COMPLETED", "FAILED"},
                                  expires : Nat, at : Nat]]
      /\ upload'[u].status = st
      /\ \A v \in Uploads \ {u} : upload'[v] = upload[v]
  <2> DEFINE row == [upload[u] EXCEPT !.status = st, !.at = call[c].at]
  <2>1. upload \in [Uploads -> [status : {"none", "PENDING", "COMPLETED", "FAILED"},
                                expires : Nat, at : Nat]]
    BY DEF TypeOK, IngestTypeOK
  <2> HIDE DEF u, st
  <2>2. upload[u] \in [status : {"none", "PENDING", "COMPLETED", "FAILED"}, expires : Nat, at : Nat]
    BY <1>2, <2>1
  <2>3. /\ row \in [status : {"none", "PENDING", "COMPLETED", "FAILED"}, expires : Nat, at : Nat]
        /\ row.status = st
    BY <1>2, <2>2
  <2>4. upload' = [upload EXCEPT ![u] = row]
    BY <1>1, <1>2, <2>1
  <2> HIDE DEF row
  <2>5. QED
    BY <1>2, <2>1, <2>3, <2>4
<1>6. /\ IngestTypeOK'
      /\ \A d \in Calls \ {c} : call'[d] = call[d]
      /\ call'[c].upload = u
      /\ call'[c].pc = "remove" => st = "FAILED"
      /\ call'[c].pc \in {"remove", "done"}
      /\ call'[c].pc = "done" => call'[c].answer = st
  <2>1. /\ rec \in [pc : {"idle", "verify", "settle", "reread", "remove", "done", "error"},
                    upload : Uploads, reason : Reasons, at : Nat,
                    answer : {"none", "COMPLETED", "FAILED", "NOT_UPLOADED"}]
        /\ rec.upload = u
        /\ rec.pc = "remove" => st = "FAILED"
        /\ rec.pc \in {"remove", "done"}
        /\ rec.pc = "done" => rec.answer = st
    BY DEF TypeOK, IngestTypeOK
  <2>2. call' = [call EXCEPT ![c] = rec]
    BY DEF SettleUpload, Finish, TypeOK, IngestTypeOK
  <2> HIDE DEF rec, new, event, st, u
  <2>3. /\ call' \in [Calls -> [pc : {"idle", "verify", "settle", "reread", "remove", "done", "error"},
                           upload : Uploads, reason : Reasons, at : Nat,
                           answer : {"none", "COMPLETED", "FAILED", "NOT_UPLOADED"}]]
        /\ call'[c] = rec
        /\ \A d \in Calls \ {c} : call'[d] = call[d]
    BY <2>1, <2>2, CallTyped DEF TypeOK
  <2>4. IngestTypeOK'
    BY <1>1, <1>3, <1>4, <1>5, <2>3 DEF TypeOK, IngestTypeOK
  <2>5. QED
    BY <2>1, <2>3, <2>4
<1>7. st = "COMPLETED" => object[u] = "stored"
  BY <1>1 DEF IngestInv, CallKnows
<1> HIDE DEF rec, new, event, st, u
<1>8. \A x \in recorded : x.event.upload \in Uploads /\ x.event.upload # u
  BY <1>1 DEF TypeOK, IngestTypeOK, Event, IngestInv, SessionEvents, Settled
<1>9. SessionEvents'
  <2>1. \A x, y \in recorded' : x.event.upload = y.event.upload => x = y
    BY <1>1, <1>3, <1>4, <1>8 DEF IngestInv, SessionEvents
  <2>2. ASSUME NEW x \in recorded'
        PROVE  Settled(x.event.upload)' /\ x.event.type = OutcomeOf(upload'[x.event.upload].status)
    <3>1. CASE x = new
      BY <3>1, <1>2, <1>3, <1>4, <1>5 DEF Settled
    <3>2. CASE x \in recorded
      BY <3>2, <1>5, <1>8 DEF IngestInv, SessionEvents, Settled
    <3>3. QED
      BY <3>1, <3>2, <1>1
  <2>3. ASSUME NEW v \in Uploads, Settled(v)'
        PROVE  \E x \in recorded' : x.event.upload = v
    BY <1>1, <1>3, <1>4, <1>5, <2>3 DEF IngestInv, SessionEvents, Settled
  <2>4. QED
    BY <2>1, <2>2, <2>3 DEF SessionEvents
<1>10. RelayedRecorded'
  BY <1>1, <1>4 DEF IngestInv, RelayedRecorded
<1>11. \A v \in Uploads : upload'[v].status = "COMPLETED" => object'[v] = "stored"
  BY <1>1, <1>2, <1>5, <1>7 DEF IngestInv
<1>12. \A d \in Calls : call[d].upload \in Uploads
  BY DEF TypeOK, IngestTypeOK
<1>13. \A d \in Calls : CallKnows(d)'
  <2>1. CallKnows(c)'
    BY <1>5, <1>6 DEF CallKnows
  <2>2. ASSUME NEW d \in Calls \ {c} PROVE CallKnows(d)'
    <3>1. CallKnows(d) /\ call'[d] = call[d] /\ call[d].upload \in Uploads
      BY <1>6, <1>12 DEF IngestInv
    <3>2. CASE call[d].upload = u
      BY <1>1, <1>2, <1>5, <3>1, <3>2 DEF CallKnows, Settled
    <3>3. CASE call[d].upload # u
      BY <1>1, <1>5, <3>1, <3>3 DEF CallKnows, Settled
    <3>4. QED
      BY <3>2, <3>3
  <2>3. QED
    BY <2>1, <2>2
<1>14. AnswersAgree'
  <2>1. ASSUME NEW d \in Calls, Answered(d)' PROVE call'[d].answer = upload'[call'[d].upload].status
    BY <1>1, <1>2, <1>5, <1>6, <1>12, <2>1 DEF IngestInv, AnswersAgree, Answered
  <2>2. QED
    BY <2>1 DEF AnswersAgree
<1>15. QED
  BY <1>1, <1>6, <1>9, <1>10, <1>11, <1>13, <1>14
  DEF IngestKept, IngestInv, LogStep, TypeOK, MediaTypeOK

\* Only the master of a failed session is removed.
LEMMA RemoveRejectedKept ==
  ASSUME TypeOK, IngestInv, NEW c \in Calls, RemoveRejected(c)
  PROVE  IngestKept
<1> DEFINE u == call[c].upload
           rec == [call[c] EXCEPT !.pc = "done", !.answer = "FAILED"]
<1>1. /\ object' = [object EXCEPT ![u] = "none"]
      /\ UNCHANGED <<clock, upload, outbox, recorded, ingestFaults, topic>>
  BY DEF RemoveRejected
<1>2. u \in Uploads /\ upload[u].status = "FAILED"
  BY DEF RemoveRejected, IngestInv, CallKnows, TypeOK, IngestTypeOK
<1>3. /\ IngestTypeOK'
      /\ \A d \in Calls \ {c} : call'[d] = call[d]
      /\ call'[c].pc = "done" /\ call'[c].answer = "FAILED" /\ call'[c].upload = u
  <2>1. /\ rec \in [pc : {"idle", "verify", "settle", "reread", "remove", "done", "error"},
                    upload : Uploads, reason : Reasons, at : Nat,
                    answer : {"none", "COMPLETED", "FAILED", "NOT_UPLOADED"}]
        /\ rec.pc = "done" /\ rec.answer = "FAILED" /\ rec.upload = u
    BY DEF TypeOK, IngestTypeOK
  <2>2. call' = [call EXCEPT ![c] = rec]
    BY DEF RemoveRejected, Finish, TypeOK, IngestTypeOK
  <2> HIDE DEF rec, u
  <2>3. /\ call' \in [Calls -> [pc : {"idle", "verify", "settle", "reread", "remove", "done", "error"},
                           upload : Uploads, reason : Reasons, at : Nat,
                           answer : {"none", "COMPLETED", "FAILED", "NOT_UPLOADED"}]]
        /\ call'[c] = rec
        /\ \A d \in Calls \ {c} : call'[d] = call[d]
    BY <2>1, <2>2, CallTyped DEF TypeOK
  <2>4. QED
    BY <1>1, <2>1, <2>3 DEF TypeOK, IngestTypeOK
<1>4. MediaTypeOK'
  BY <1>1 DEF TypeOK, MediaTypeOK
<1>5. \A v \in Uploads \ {u} : object'[v] = object[v]
  BY <1>1 DEF TypeOK, MediaTypeOK
<1> HIDE DEF rec, u
<1>6. \A d \in Calls : call[d].upload \in Uploads
  BY DEF TypeOK, IngestTypeOK
<1>7. \A d \in Calls : CallKnows(d)'
  <2>1. CallKnows(c)'
    BY <1>3 DEF CallKnows
  <2>2. ASSUME NEW d \in Calls \ {c} PROVE CallKnows(d)'
    <3>1. CallKnows(d) /\ call'[d] = call[d] /\ call[d].upload \in Uploads
      BY <1>3, <1>6 DEF IngestInv
    <3>2. CASE call[d].upload = u
      BY <1>1, <1>2, <3>1, <3>2 DEF CallKnows, Settled
    <3>3. CASE call[d].upload # u
      BY <1>1, <1>5, <3>1, <3>3 DEF CallKnows, Settled
    <3>4. QED
      BY <3>2, <3>3
  <2>3. QED
    BY <2>1, <2>2
<1>8. AnswersAgree'
  BY <1>1, <1>2, <1>3 DEF IngestInv, AnswersAgree, Answered
<1>9. RelayedRecorded' /\ SessionEvents'
  BY <1>1 DEF IngestInv, RelayedRecorded, SessionEvents, Settled
<1>10. \A v \in Uploads : upload'[v].status = "COMPLETED" => object'[v] = "stored"
  BY <1>1, <1>2, <1>5 DEF IngestInv
<1>11. QED
  BY <1>1, <1>3, <1>4, <1>7, <1>8, <1>9, <1>10 DEF IngestKept, IngestInv, LogStep

\* The relay publishes what is recorded.
LEMMA RelayKept ==
  ASSUME TypeOK, IngestInv, NEW e \in outbox, RelayEvent(e) \/ RelayAgain(e)
  PROVE  IngestKept
<1>1. /\ UNCHANGED <<clock, upload, object, call, recorded>>
      /\ Publish(e) /\ outbox' \subseteq outbox
      /\ \/ ingestFaults' = ingestFaults
         \/ ingestFaults < MaxIngestFaults /\ ingestFaults' = ingestFaults + 1
  BY DEF RelayEvent, RelayAgain
<1>2. e \in Event /\ topic \in Seq(Event)
  BY DEF TypeOK, IngestTypeOK, MediaTypeOK
<1>3. /\ LogStep
      /\ topic'[Len(topic')] = e
      /\ \A i \in DOMAIN topic' : i \in DOMAIN topic \/ i = Len(topic')
  BY <1>1, <1>2, LastPublished
<1>4. topic' \in Seq(Event) /\ \A i \in DOMAIN topic : topic'[i] = topic[i]
  BY <1>2, <1>3, LogGrows
<1>5. MediaTypeOK' /\ IngestTypeOK'
  BY <1>1, <1>4, IngestAssumption, SMTT(30) DEF TypeOK, MediaTypeOK, IngestTypeOK
<1>6. RelayedRecorded'
  <2>1. \A x \in outbox' : \E y \in recorded' : y.event = x
    BY <1>1 DEF IngestInv, RelayedRecorded
  <2>2. ASSUME NEW i \in DOMAIN topic', topic'[i].type \in {"track.uploaded", "media.ingest.failed"}
        PROVE  \E x \in recorded' : x.event = topic'[i]
    <3>1. CASE i \in DOMAIN topic
      BY <1>1, <1>4, <2>2, <3>1 DEF IngestInv, RelayedRecorded
    <3>2. CASE i = Len(topic')
      BY <1>1, <1>3, <3>2 DEF IngestInv, RelayedRecorded
    <3>3. QED
      BY <1>3, <3>1, <3>2
  <2>3. QED
    BY <2>1, <2>2 DEF RelayedRecorded
<1>7. /\ SessionEvents' /\ AnswersAgree' /\ \A c \in Calls : CallKnows(c)'
      /\ \A v \in Uploads : upload'[v].status = "COMPLETED" => object'[v] = "stored"
  BY <1>1 DEF IngestInv, SessionEvents, Settled, CallKnows, AnswersAgree, Answered
<1>8. QED
  BY <1>3, <1>5, <1>6, <1>7 DEF IngestKept, IngestInv

\* Every step of Media Ingest keeps its invariant.
LEMMA IngestNextKept ==
  ASSUME TypeOK, IngestInv, IngestNext
  PROVE  IngestKept
BY TickKept, CreateKept, PutKept, CallOnlyKept, SettleUploadKept, RemoveRejectedKept, RelayKept
DEF IngestNext, CompleteStep, CallOnly

\* The other services publish outcomes of jobs, which are no session's events.
LEMMA IngestUndisturbed ==
  ASSUME TypeOK, IngestInv, UNCHANGED <<ingestVars, object>>,
         \/ topic' = topic
         \/ \E e \in Event : e.type \in {"track.transcoded", "media.transcode.failed"} /\ Publish(e)
  PROVE  IngestKept
<1>1. topic \in Seq(Event)
  BY DEF TypeOK, MediaTypeOK
<1>2. LogStep /\ RelayedRecorded'
  <2>1. CASE topic' = topic
    BY <2>1 DEF LogStep, IngestInv, RelayedRecorded, ingestVars
  <2>2. CASE \E e \in Event : e.type \in {"track.transcoded", "media.transcode.failed"} /\ Publish(e)
    <3>1. PICK e \in Event : e.type \in {"track.transcoded", "media.transcode.failed"} /\ Publish(e)
      BY <2>2
    <3>2. /\ LogStep
          /\ topic'[Len(topic')] = e
          /\ \A i \in DOMAIN topic' : i \in DOMAIN topic \/ i = Len(topic')
      BY <1>1, <3>1, LastPublished
    <3>3. \A i \in DOMAIN topic : topic'[i] = topic[i]
      BY <1>1, <3>2, LogGrows
    <3>4. RelayedRecorded'
      BY <3>1, <3>2, <3>3 DEF IngestInv, RelayedRecorded, ingestVars
    <3>5. QED
      BY <3>2, <3>4
  <2>3. QED
    BY <2>1, <2>2
<1>3. MediaTypeOK' /\ IngestTypeOK'
  <2>1. topic' \in Seq(Event)
    BY <1>1, <1>2, LogGrows
  <2>2. QED
    BY <2>1 DEF TypeOK, MediaTypeOK, IngestTypeOK, ingestVars
<1>4. /\ SessionEvents' /\ AnswersAgree' /\ \A c \in Calls : CallKnows(c)'
      /\ \A v \in Uploads : upload'[v].status = "COMPLETED" => object'[v] = "stored"
  BY DEF IngestInv, SessionEvents, Settled, CallKnows, AnswersAgree, Answered, ingestVars
<1>5. QED
  BY <1>2, <1>3, <1>4 DEF IngestKept, IngestInv

\* The parts of "settled once" follow from the inductive invariant.
LEMMA IngestSettledOnce ==
  ASSUME TypeOK, IngestInv
  PROVE  SettledOnce
<1>1. ASSUME NEW u \in Uploads
      PROVE  LET types == {x.event.type : x \in {y \in recorded : y.event.upload = u}} IN
             /\ Cardinality({x \in recorded : x.event.upload = u}) <= 1
             /\ upload[u].status = "COMPLETED" <=> "track.uploaded" \in types
             /\ upload[u].status = "FAILED" <=> "media.ingest.failed" \in types
  <2> DEFINE S == {x \in recorded : x.event.upload = u}
             types == {x.event.type : x \in S}
  <2>1. CASE S = {}
    <3>1. ~ Settled(u)
      BY <2>1 DEF IngestInv, SessionEvents
    <3>2. QED
      BY <2>1, <3>1, FS_EmptySet DEF Settled
  <2>2. CASE S # {}
    <3>1. PICK x \in S : TRUE
      BY <2>2
    <3>2. S = {x}
      BY <3>1 DEF IngestInv, SessionEvents
    <3>3. Cardinality(S) = 1
      BY <3>2, FS_Singleton
    <3>4. Settled(u) /\ x.event.type = OutcomeOf(upload[u].status)
      BY <3>1 DEF IngestInv, SessionEvents
    <3>5. types = {x.event.type}
      BY <3>2
    <3>6. QED
      BY <3>3, <3>4, <3>5 DEF Settled, OutcomeOf
  <2>3. QED
    BY <2>1, <2>2
<1>2. EventMatchesStatus
  BY <1>1 DEF EventMatchesStatus
<1>3. MasterKept
  <2>1. ASSUME NEW i \in DOMAIN topic, topic[i].type = "track.uploaded"
        PROVE  object[topic[i].upload] = "stored"
    <3>1. PICK x \in recorded : x.event = topic[i]
      BY <2>1 DEF IngestInv, RelayedRecorded
    <3>2. x.event.upload \in Uploads
      BY DEF TypeOK, IngestTypeOK, Event
    <3>3. upload[x.event.upload].status = "COMPLETED"
      BY <2>1, <3>1 DEF IngestInv, SessionEvents, Settled, OutcomeOf
    <3>4. QED
      BY <3>1, <3>2, <3>3 DEF IngestInv
  <2>2. QED
    BY <2>1 DEF MasterKept
<1>4. QED
  BY <1>2, <1>3 DEF IngestInv, SettledOnce

-----------------------------------------------------------------------------
(* The transcoder's group *)

\* What one step makes of the group: nothing, or one operation of worker w.
JobsStep(w) ==
  \/ jobs' = jobs
  \/ /\ w \in Workers
     /\ \/ jobs' \in Fetches(jobs, w)
        \/ /\ Working(jobs, w)
           /\ jobs' \in Settles(jobs, w)
           /\ \E i \in {jobs.next[w]} : Announced(i)'
        \/ Working(jobs, w) /\ jobs' = Killed(jobs, w)
        \/ jobs' = Rebalanced(jobs, w) /\ (jobs.owner = None \/ rebalances' = rebalances + 1)

\* What has been announced, or given up, stays so.
LEMMA AnnouncedStays ==
  ASSUME topic \in Seq(Event), LogStep, dlq \subseteq dlq', NEW n \in Nat, n <= Len(topic), Upto(n)
  PROVE  Upto(n)'
<1>1. ASSUME NEW i \in 1..n PROVE Announced(i)'
  <2>1. i \in DOMAIN topic /\ topic'[i] = topic[i] /\ Announced(i)
    BY LogGrows DEF Upto
  <2>2. \A k \in DOMAIN topic : k \in DOMAIN topic' /\ topic'[k] = topic[k]
    BY LogGrows
  <2>3. QED
    BY <2>1, <2>2 DEF Announced
<1>2. QED
  BY <1>1 DEF Upto

\* The group's offsets stay within the log, and settled records in order.
LEMMA JobsStepKept ==
  ASSUME TypeOK, TranscoderInv, LogStep, dlq \subseteq dlq', NEW w, JobsStep(w)
  PROVE  Within(jobs', Workers, Len(topic')) /\ JobsInOrder'
<1> DEFINE n == Len(topic)
<1>1. /\ topic \in Seq(Event) /\ n \in Nat /\ Len(topic') \in Nat /\ n <= Len(topic')
      /\ Within(jobs, Workers, n) /\ JobsInOrder
  BY LogGrows DEF TypeOK, MediaTypeOK, TranscoderInv
<1>2. /\ jobs \in Group(Workers) /\ jobs.committed \in Nat /\ jobs.pos \in Nat
      /\ jobs.committed <= n /\ jobs.pos <= n
      /\ \A v \in Workers : /\ jobs.next[v] \in Nat /\ jobs.last[v] \in Nat
                            /\ 1 <= jobs.next[v] /\ jobs.last[v] <= n
  BY <1>1, GroupFields DEF Within
<1> DEFINE Kept(k) == \A i \in 1..k : Announced(i)'
           Order(g) ==
             /\ Kept(g.committed)
             /\ \A v \in Workers :
                  /\ Working(g, v) => Kept(g.next[v] - 1)
                  /\ g.owner = v => Kept(g.pos) \/ (Working(g, v) /\ g.pos <= g.last[v])
<1>3. Order(jobs)
  <2>1. \A k \in Nat : k <= n /\ Upto(k) => Kept(k)
    BY <1>1, AnnouncedStays DEF Upto
  <2>2. ASSUME NEW v \in Workers, Working(jobs, v) PROVE Kept(jobs.next[v] - 1)
    <3>1. jobs.next[v] - 1 \in Nat /\ jobs.next[v] - 1 <= n /\ Upto(jobs.next[v] - 1)
      BY <1>1, <1>2, <2>2 DEF JobsInOrder, Working
    <3> HIDE DEF Kept
    <3>2. QED
      BY <2>1, <3>1
  <2> HIDE DEF Kept
  <2>3. QED
    BY <1>1, <1>2, <2>1, <2>2 DEF JobsInOrder
<1>4. SUFFICES Within(jobs', Workers, n) /\ Order(jobs')
  <2>1. Within(jobs', Workers, Len(topic'))
    BY <1>1, <1>4, WithinLonger
  <2>2. JobsInOrder'
    BY <1>4 DEF JobsInOrder, Upto
  <2>3. QED
    BY <2>1, <2>2
<1>5. CASE jobs' = jobs
  BY <1>1, <1>3, <1>5
<1>6. CASE w \in Workers /\ jobs' \in Fetches(jobs, w)
  <2>1. /\ Within(jobs', Workers, n)
        /\ jobs.owner = w /\ ~ Working(jobs, w)
        /\ jobs'.owner = jobs.owner /\ jobs'.committed = jobs.committed
        /\ jobs'.next = [jobs.next EXCEPT ![w] = jobs.pos + 1]
        /\ jobs'.last = [jobs.last EXCEPT ![w] = jobs'.pos]
        /\ jobs'.pos > jobs.pos
    BY <1>1, <1>6, FetchesGroup
  <2>2. jobs'.pos \in Nat /\ jobs.next \in [Workers -> Nat] /\ jobs.last \in [Workers -> Nat]
    BY <1>2, <2>1, GroupFields DEF Within
  <2>3. /\ jobs'.next[w] = jobs.pos + 1 /\ jobs'.last[w] = jobs'.pos
        /\ \A v \in Workers \ {w} : jobs'.next[v] = jobs.next[v] /\ jobs'.last[v] = jobs.last[v]
    BY <1>6, <2>1, <2>2
  <2>4. Kept(jobs.pos)
    <3> HIDE DEF Kept
    <3>1. QED
      BY <1>3, <1>6, <2>1
  <2>5. Working(jobs', w) /\ jobs'.next[w] - 1 = jobs.pos /\ jobs'.pos <= jobs'.last[w]
    BY <1>2, <2>1, <2>2, <2>3 DEF Working
  <2> HIDE DEF Kept
  <2>6. QED
    BY <1>3, <2>1, <2>3, <2>4, <2>5 DEF Working
<1>7. CASE w \in Workers /\ Working(jobs, w) /\ jobs' \in Settles(jobs, w) /\ \E i \in {jobs.next[w]} : Announced(i)'
  <2>1. /\ Within(jobs', Workers, n)
        /\ jobs'.owner = jobs.owner /\ jobs'.pos = jobs.pos /\ jobs'.last = jobs.last
        /\ jobs'.next = [jobs.next EXCEPT ![w] = jobs.next[w] + 1]
        /\ \/ jobs'.committed = jobs.committed
           \/ jobs'.committed = jobs.last[w] /\ jobs.next[w] = jobs.last[w]
    BY <1>1, <1>7, SettlesGroup
  <2>2. /\ jobs'.next[w] = jobs.next[w] + 1
        /\ \A v \in Workers \ {w} : jobs'.next[v] = jobs.next[v]
    BY <1>2, <1>7, <2>1, GroupFields
  <2>3. Kept(jobs.next[w])
    <3>1. Kept(jobs.next[w] - 1)
      BY <1>3, <1>7
    <3>2. \A i \in 1..jobs.next[w] : i \in 1..(jobs.next[w] - 1) \/ i = jobs.next[w]
      BY <1>2, <1>7
    <3>3. QED
      BY <1>7, <3>1, <3>2
  <2>4. Kept(jobs'.committed)
    <3> HIDE DEF Kept
    <3>1. QED
      BY <1>3, <2>1, <2>3
  <2>5. ASSUME NEW v \in Workers, Working(jobs', v) PROVE Kept(jobs'.next[v] - 1)
    <3>1. CASE v = w
      <4>1. jobs'.next[v] - 1 = jobs.next[w]
        BY <1>2, <1>7, <2>2, <3>1
      <4> HIDE DEF Kept
      <4>2. QED
        BY <2>3, <4>1
    <3>2. CASE v # w
      <4> HIDE DEF Kept
      <4>1. QED
        BY <1>3, <2>1, <2>2, <2>5, <3>2 DEF Working
    <3>3. QED
      BY <3>1, <3>2
  <2>6. ASSUME NEW v \in Workers, jobs'.owner = v
        PROVE  Kept(jobs'.pos) \/ (Working(jobs', v) /\ jobs'.pos <= jobs'.last[v])
    <3>1. CASE v = w
      <4>1. CASE jobs.next[w] < jobs.last[w]
        <5>1. Working(jobs', w)
          BY <1>2, <1>7, <2>1, <2>2, <4>1 DEF Working
        <5> HIDE DEF Kept
        <5>2. QED
          BY <1>3, <2>1, <2>6, <3>1, <5>1
      <4>2. CASE ~ (jobs.next[w] < jobs.last[w])
        <5>1. jobs.next[w] = jobs.last[w]
          BY <1>2, <1>7, <4>2 DEF Working
        <5>2. CASE jobs.pos <= jobs.last[w]
          BY <1>2, <1>7, <2>1, <2>3, <5>1, <5>2
        <5>3. CASE ~ (jobs.pos <= jobs.last[w])
          <6> HIDE DEF Kept
          <6>1. QED
            BY <1>3, <2>1, <2>6, <3>1, <5>3
        <5>4. QED
          BY <5>2, <5>3
      <4>3. QED
        BY <4>1, <4>2
    <3>2. CASE v # w
      <4> HIDE DEF Kept
      <4>1. QED
        BY <1>3, <2>1, <2>2, <2>6, <3>2 DEF Working
    <3>3. QED
      BY <3>1, <3>2
  <2> HIDE DEF Kept
  <2>7. QED
    BY <2>1, <2>4, <2>5, <2>6
<1>8. CASE w \in Workers /\ Working(jobs, w) /\ jobs' = Killed(jobs, w)
  <2>1. /\ Within(jobs', Workers, n)
        /\ jobs'.owner = IF jobs.owner = w THEN None ELSE jobs.owner
        /\ jobs'.pos = jobs.pos /\ jobs'.committed = jobs.committed
        /\ jobs'.next = [jobs.next EXCEPT ![w] = 1] /\ jobs'.last = [jobs.last EXCEPT ![w] = 0]
    BY <1>1, <1>8, KilledGroup
  <2>2. /\ jobs'.next[w] = 1 /\ jobs'.last[w] = 0
        /\ \A v \in Workers \ {w} : jobs'.next[v] = jobs.next[v] /\ jobs'.last[v] = jobs.last[v]
    BY <1>2, <1>8, <2>1, GroupFields
  <2>3. ~ Working(jobs', w) /\ jobs'.owner # w
    BY <1>8, <2>1, <2>2, TranscoderAssumption DEF Working
  <2> HIDE DEF Kept
  <2>4. QED
    BY <1>3, <2>1, <2>2, <2>3, TranscoderAssumption DEF Working
<1>9. CASE w \in Workers /\ jobs' = Rebalanced(jobs, w)
  <2>1. /\ Within(jobs', Workers, n)
        /\ jobs'.owner = w /\ jobs'.pos = jobs.committed /\ jobs'.committed = jobs.committed
        /\ jobs'.next = jobs.next /\ jobs'.last = jobs.last
    BY <1>1, <1>9, RebalancedGroup
  <2> HIDE DEF Kept
  <2>2. QED
    BY <1>3, <1>9, <2>1 DEF Working
<1>10. QED
  BY <1>5, <1>6, <1>7, <1>8, <1>9 DEF JobsStep

\* A step of worker w leaves the records of the others alone.
LEMMA JobsStepOthers ==
  ASSUME TypeOK, TranscoderInv, NEW w, JobsStep(w), NEW v \in Workers \ {w}
  PROVE  jobs'.next[v] = jobs.next[v] /\ jobs'.last[v] = jobs.last[v]
<1>1. Len(topic) \in Nat /\ Within(jobs, Workers, Len(topic))
  BY LogGrows DEF TypeOK, MediaTypeOK, TranscoderInv
<1>2. jobs.next \in [Workers -> Nat] /\ jobs.last \in [Workers -> Nat]
  BY <1>1, GroupFields DEF Within
<1>3. CASE w \in Workers /\ jobs' \in Fetches(jobs, w)
  <2>1. jobs'.next = [jobs.next EXCEPT ![w] = jobs.pos + 1] /\ jobs'.last = [jobs.last EXCEPT ![w] = jobs'.pos]
    BY <1>1, <1>3, FetchesGroup
  <2>2. QED
    BY <1>2, <2>1
<1>4. CASE w \in Workers /\ Working(jobs, w) /\ jobs' \in Settles(jobs, w)
  <2>1. jobs'.next = [jobs.next EXCEPT ![w] = jobs.next[w] + 1] /\ jobs'.last = jobs.last
    BY <1>1, <1>4, SettlesGroup
  <2>2. QED
    BY <1>2, <2>1
<1>5. CASE w \in Workers /\ jobs' = Killed(jobs, w)
  <2>1. jobs'.next = [jobs.next EXCEPT ![w] = 1] /\ jobs'.last = [jobs.last EXCEPT ![w] = 0]
    BY <1>1, <1>5, KilledGroup
  <2>2. QED
    BY <1>2, <2>1
<1>6. CASE w \in Workers /\ jobs' = Rebalanced(jobs, w)
  <2>1. jobs'.next = jobs.next /\ jobs'.last = jobs.last
    BY <1>1, <1>6, RebalancedGroup
  <2>2. QED
    BY <1>2, <2>1
<1>7. QED
  BY <1>3, <1>4, <1>5, <1>6 DEF JobsStep

\* So the others are where they were, with the same job.
LEMMA OtherWorkers ==
  ASSUME TypeOK, TranscoderInv, LogStep, NEW w, JobsStep(w), NEW v \in Workers \ {w},
         job'[v] = job[v], \A q \in 1..Qualities : Stored(q) => Stored(q)'
  PROVE  /\ JobKnows(v)'
         /\ Working(jobs', v) = Working(jobs, v)
         /\ jobs'.next[v] = jobs.next[v] /\ jobs'.last[v] = jobs.last[v]
         /\ job[v].pc # "start" => topic'[jobs'.next[v]] = Job(v)
<1>1. jobs'.next[v] = jobs.next[v] /\ jobs'.last[v] = jobs.last[v]
  BY JobsStepOthers
<1>2. Working(jobs', v) = Working(jobs, v)
  BY <1>1 DEF Working
<1>3. Working(jobs, v) => topic'[jobs'.next[v]] = Job(v)
  <2>1. jobs.next[v] \in Nat /\ jobs.last[v] \in Nat /\ 1 <= jobs.next[v] /\ jobs.last[v] <= Len(topic)
    BY GroupFields DEF TranscoderInv, Within
  <2>2. Working(jobs, v) => jobs.next[v] \in 1..Len(topic)
    BY <2>1, LogGrows DEF Working, TypeOK, MediaTypeOK
  <2>3. QED
    BY <1>1, <2>2, LogGrows DEF TypeOK, MediaTypeOK, Job
<1>4. job[v].pc # "start" => topic'[jobs'.next[v]] = Job(v)
  BY <1>3 DEF TranscoderInv, JobKnows
<1>5. JobKnows(v)'
  <2>1. JobKnows(v)
    BY DEF TranscoderInv
  <2>2. job[v].q \in 1..Qualities
    BY DEF TypeOK, TranscoderTypeOK
  <2>3. \A p \in 1..(job[v].q - 1) : p \in 1..Qualities
    BY <2>2, TranscoderAssumption
  <2>4. QED
    BY <1>2, <1>4, <2>1, <2>3 DEF JobKnows, IsJob, Job
<1>6. QED
  BY <1>1, <1>2, <1>4, <1>5

\* While no partition is taken from a live worker, the owner alone works, and a
\* record is pending until the owner settles it, whatever dies meanwhile.
LEMMA SoleStep ==
  ASSUME TypeOK, TranscoderInv, Sole, rebalances = 0, rebalances' = 0, NEW w, JobsStep(w)
  PROVE  /\ Sole'
         /\ \A i \in Nat :
              /\ Pending(i)
              /\ w \in Workers /\ Working(jobs, w) /\ jobs' \in Settles(jobs, w) => i # jobs.next[w]
              => Pending(i)'
<1>1. Len(topic) \in Nat /\ Within(jobs, Workers, Len(topic))
  BY DEF TypeOK, MediaTypeOK, TranscoderInv
<1>2. /\ jobs.next \in [Workers -> Nat] /\ jobs.last \in [Workers -> Nat]
      /\ jobs.committed \in Nat /\ jobs.pos \in Nat
  BY <1>1, GroupFields DEF Within
<1>3. \A v \in Workers \ {w} : jobs'.next[v] = jobs.next[v] /\ jobs'.last[v] = jobs.last[v]
  BY JobsStepOthers
<1>4. CASE jobs' = jobs
  BY <1>4 DEF Sole, Pending
<1>5. CASE w \in Workers /\ jobs' \in Fetches(jobs, w)
  <2>1. /\ jobs.owner = w /\ ~ Working(jobs, w)
        /\ jobs'.owner = jobs.owner /\ jobs'.committed = jobs.committed
        /\ jobs'.next = [jobs.next EXCEPT ![w] = jobs.pos + 1]
        /\ jobs'.last = [jobs.last EXCEPT ![w] = jobs'.pos]
        /\ jobs'.pos > jobs.pos /\ jobs' \in Group(Workers)
    BY <1>1, <1>5, FetchesGroup DEF Within
  <2>2. jobs'.next[w] = jobs.pos + 1 /\ jobs'.last[w] = jobs'.pos /\ jobs'.pos \in Nat
    BY <1>2, <1>5, <2>1, GroupFields
  <2>3. Working(jobs', w)
    BY <1>2, <2>1, <2>2 DEF Working
  <2>4. Sole'
    <3>1. jobs.committed <= jobs.pos
      BY <1>5, <2>1 DEF Sole
    <3>2. jobs'.committed < jobs'.next[w] /\ jobs'.committed <= jobs'.pos
      BY <1>2, <2>1, <2>2, <3>1
    <3>3. \A v \in Workers \ {w} : ~ Working(jobs', v) /\ jobs'.owner # v
      BY <1>3, <2>1 DEF Sole, Working
    <3>4. QED
      BY <2>1, <2>2, <3>2, <3>3 DEF Sole
  <2>5. ASSUME NEW i \in Nat, Pending(i) PROVE Pending(i)'
    <3>1. i > jobs.committed /\ i > jobs.pos
      BY <1>5, <2>1, <2>5 DEF Pending
    <3>2. i >= jobs'.next[w]
      BY <1>2, <2>2, <3>1
    <3>3. QED
      BY <2>1, <2>3, <3>1, <3>2 DEF Pending
  <2>6. QED
    BY <2>4, <2>5
<1>6. CASE w \in Workers /\ Working(jobs, w) /\ jobs' \in Settles(jobs, w)
  <2>1. /\ jobs'.owner = jobs.owner /\ jobs'.pos = jobs.pos /\ jobs'.last = jobs.last
        /\ jobs'.next = [jobs.next EXCEPT ![w] = jobs.next[w] + 1]
        /\ \/ jobs'.committed = jobs.committed
           \/ jobs'.committed = jobs.last[w] /\ jobs.next[w] = jobs.last[w]
    BY <1>1, <1>6, SettlesGroup
  <2>2. jobs'.next[w] = jobs.next[w] + 1 /\ jobs.next[w] \in Nat /\ jobs.last[w] \in Nat
    BY <1>2, <1>6, <2>1
  <2>3. jobs.owner = w /\ jobs.pos = jobs.last[w] /\ jobs.next[w] <= jobs.last[w]
    BY <1>6 DEF Sole, Working
  <2>4. Sole'
    <3>1. jobs.committed < jobs.next[w]
      BY <1>6 DEF Sole
    <3>2. Working(jobs', w) => jobs'.committed < jobs'.next[w]
      BY <1>2, <2>1, <2>2, <3>1 DEF Working
    <3>3. jobs'.committed <= jobs'.pos
      BY <1>2, <2>1, <2>2, <2>3, <3>1
    <3>4. \A v \in Workers \ {w} : ~ Working(jobs', v) /\ jobs'.owner # v
      BY <1>3, <2>1, <2>3 DEF Sole, Working
    <3>5. QED
      BY <2>1, <2>3, <3>2, <3>3, <3>4 DEF Sole
  <2>5. ASSUME NEW i \in Nat, Pending(i), i # jobs.next[w] PROVE Pending(i)'
    <3>1. i > jobs.committed /\ i >= jobs.next[w]
      BY <1>6, <2>3, <2>5 DEF Pending
    <3>2. i >= jobs'.next[w] /\ (jobs.next[w] = jobs.last[w] => i > jobs.last[w])
      BY <2>2, <2>5, <3>1
    <3>3. i > jobs'.committed
      BY <2>1, <3>1, <3>2
    <3>4. ~ Working(jobs', w) => i > jobs'.pos
      BY <2>1, <2>2, <2>3, <3>2 DEF Working
    <3>5. QED
      BY <2>1, <2>3, <3>2, <3>3, <3>4 DEF Pending
  <2>6. QED
    BY <1>6, <2>4, <2>5
<1>7. CASE w \in Workers /\ Working(jobs, w) /\ jobs' = Killed(jobs, w)
  <2>1. /\ jobs'.owner = (IF jobs.owner = w THEN None ELSE jobs.owner)
        /\ jobs'.committed = jobs.committed
        /\ jobs'.next = [jobs.next EXCEPT ![w] = 1] /\ jobs'.last = [jobs.last EXCEPT ![w] = 0]
    BY <1>1, <1>7, KilledGroup
  <2>2. jobs.owner = w /\ jobs'.owner = None /\ None \notin Workers
    BY <1>7, <2>1, TranscoderAssumption DEF Sole
  <2>3. \A v \in Workers : ~ Working(jobs', v)
    <3>1. jobs'.next[w] = 1 /\ jobs'.last[w] = 0
      BY <1>2, <1>7, <2>1
    <3>2. QED
      BY <1>3, <2>2, <3>1 DEF Sole, Working
  <2>4. QED
    BY <2>1, <2>2, <2>3 DEF Sole, Pending
<1>8. CASE /\ w \in Workers /\ jobs' = Rebalanced(jobs, w)
           /\ jobs.owner = None \/ rebalances' = rebalances + 1
  <2>1. /\ Within(jobs', Workers, Len(topic))
        /\ jobs'.owner = w /\ jobs'.pos = jobs.committed /\ jobs'.committed = jobs.committed
        /\ jobs'.next = jobs.next /\ jobs'.last = jobs.last
    <3>1. w \in Workers /\ jobs' = Rebalanced(jobs, w)
      BY <1>8
    <3>2. QED
      BY <1>1, <3>1, RebalancedGroup
  <2>2. jobs.owner = None
    BY <1>8
  <2>3. \A v \in Workers : ~ Working(jobs, v) /\ ~ Working(jobs', v)
    BY <2>1, <2>2, TranscoderAssumption DEF Sole, Working
  <2>4. QED
    BY <1>2, <2>1, <2>3 DEF Sole, Pending
<1>9. QED
  BY <1>4, <1>5, <1>6, <1>7, <1>8 DEF JobsStep

\* The steps that write no variant: what the acting worker knows afterwards, and
\* that it settles a repairing job only when the variants are uniform, is enough.
LEMMA TranscoderAssembled ==
  ASSUME TypeOK, TranscoderInv, SoleInv, LogStep, TranscoderTypeOK', UNCHANGED variant,
         NEW w, JobsStep(w), dlq \subseteq dlq',
         rebalances' \in {rebalances, rebalances + 1},
         \A v \in Workers \ {w} : job'[v] = job[v],
         TranscodedIsStored',
         w \in Workers => JobKnows(w)',
         w \in Workers /\ rebalances = 0 => SoleKnows(w)',
         w \in Workers /\ rebalances = 0 /\ dlq' = {} /\ Working(jobs, w) /\ jobs' \in Settles(jobs, w) =>
           Uniform \/ ~ Repairs(jobs.next[w])
  PROVE  TranscoderInv' /\ SoleInv'
<1>1. Within(jobs', Workers, Len(topic')) /\ JobsInOrder'
  BY JobsStepKept
<1>2. \A q : Stored(q)' = Stored(q) /\ MasterOf(q)' = MasterOf(q)
  BY DEF Stored, MasterOf
<1>3. \A v \in Workers : JobKnows(v)'
  BY <1>2, OtherWorkers
<1>4. \A k \in DOMAIN topic : k \in DOMAIN topic' /\ topic'[k] = topic[k]
  BY LogGrows DEF TypeOK, MediaTypeOK
<1>5. VariantsUploaded'
  BY <1>2, <1>4 DEF TranscoderInv, VariantsUploaded
<1>6. ASSUME rebalances' = 0
      PROVE  /\ Sole'
             /\ \A v \in Workers : SoleKnows(v)'
             /\ dlq' = {} => Uniform' \/ \E i \in DOMAIN topic' : Repairs(i)'
  <2>1. rebalances = 0
    BY <1>6, TranscoderAssumption DEF TypeOK, TranscoderTypeOK
  <2>2. Sole /\ \A v \in Workers : SoleKnows(v)
    BY <2>1 DEF SoleInv
  <2>3. /\ Sole'
        /\ \A i \in Nat :
              /\ Pending(i)
              /\ w \in Workers /\ Working(jobs, w) /\ jobs' \in Settles(jobs, w) => i # jobs.next[w]
              => Pending(i)'
    BY <1>6, <2>1, <2>2, SoleStep
  <2>4. ASSUME NEW v \in Workers PROVE SoleKnows(v)'
    <3>1. CASE v = w
      BY <2>1, <3>1
    <3>2. CASE v # w
      <4>1. job'[v] = job[v] /\ (job[v].pc # "start" => topic'[jobs'.next[v]] = Job(v))
        BY <1>2, <3>2, OtherWorkers
      <4>2. QED
        BY <1>2, <2>2, <4>1 DEF SoleKnows, NotNewer, Uniform, Job
    <3>3. QED
      BY <3>1, <3>2
  <2>5. ASSUME dlq' = {} PROVE Uniform' \/ \E i \in DOMAIN topic' : Repairs(i)'
    <3>1. CASE Uniform
      BY <1>2, <3>1 DEF Uniform
    <3>2. CASE ~ Uniform
      <4>1. PICK i \in DOMAIN topic : Repairs(i)
        BY <2>1, <2>5, <3>2 DEF SoleInv
      <4>2. i \in Nat
        BY DEF TypeOK, MediaTypeOK
      <4>3. w \in Workers /\ Working(jobs, w) /\ jobs' \in Settles(jobs, w) => i # jobs.next[w]
        BY <2>1, <2>5, <3>2, <4>1
      <4>4. Pending(i)'
        BY <2>3, <4>1, <4>2, <4>3 DEF Repairs
      <4>5. Repairs(i)'
        BY <1>2, <1>4, <4>1, <4>4 DEF Repairs, NotNewer
      <4>6. QED
        BY <1>4, <4>5
    <3>3. QED
      BY <3>1, <3>2
  <2>6. QED
    BY <2>3, <2>4, <2>5
<1>7. QED
  BY <1>1, <1>3, <1>5, <1>6 DEF TranscoderInv, SoleInv

-----------------------------------------------------------------------------
(* The transcoder's steps *)

\* What every step of the transcoder keeps, and what it publishes.
TranscoderKept ==
  /\ TranscoderTypeOK' /\ TranscoderInv' /\ SoleInv'
  /\ \/ topic' = topic
     \/ \E e \in Event : e.type \in {"track.transcoded", "media.transcode.failed"} /\ Publish(e)

JobRecord == [pc : {"start", "encode", "put", "announce", "fail"}, q : 1..Qualities, tries : 0..JobRetries]

\* A worker's job changes in its type, and nobody else's.
LEMMA JobTyped ==
  ASSUME TypeOK, NEW w \in Workers, NEW rec \in JobRecord, job' = [job EXCEPT ![w] = rec]
  PROVE  /\ job' \in [Workers -> JobRecord]
         /\ job'[w] = rec
         /\ \A v \in Workers \ {w} : job'[v] = job[v]
BY DEF TypeOK, TranscoderTypeOK, JobRecord

\* The job a worker is at.
LEMMA AtRecord ==
  ASSUME TypeOK, TranscoderInv, NEW w \in Workers, Working(jobs, w)
  PROVE  /\ jobs.next[w] \in DOMAIN topic /\ jobs.next[w] \in Nat
         /\ Job(w) \in Event /\ Job(w).upload \in Uploads /\ Job(w).at \in Nat
<1>1. jobs.next[w] \in Nat /\ jobs.last[w] \in Nat /\ 1 <= jobs.next[w] /\ jobs.last[w] <= Len(topic)
  BY GroupFields DEF TranscoderInv, Within
<1>2. topic \in Seq(Event)
  BY DEF TypeOK, MediaTypeOK
<1>3. jobs.next[w] \in 1..Len(topic)
  BY <1>1, <1>2 DEF Working
<1>4. Job(w) \in Event
  BY <1>2, <1>3 DEF Job
<1>5. QED
  BY <1>1, <1>2, <1>3, <1>4 DEF Event

\* A job that was not started.
LEMMA NewJobTyped == NewJob \in JobRecord
BY TranscoderAssumption DEF NewJob, JobRecord

\* A fetch starts where the records before it are announced.
LEMMA FetchJobsKept ==
  ASSUME IInv, NEW w \in Workers, FetchJobs(w)
  PROVE  TranscoderKept
<1> TypeOK /\ TranscoderInv /\ SoleInv /\ JobKnows(w)
  BY DEF IInv, TranscoderInv
<1>1. JobsStep(w) /\ LogStep
  BY DEF FetchJobs, JobsStep, LogStep
<1>2. UNCHANGED <<job, variant, dlq, jobFaults, rebalances, topic, object>>
  BY DEF FetchJobs
<1>3. Within(jobs', Workers, Len(topic'))
  BY <1>1, <1>2, JobsStepKept
<1>4. TranscoderTypeOK'
  BY <1>2, <1>3 DEF TypeOK, TranscoderTypeOK, Within
<1>5. ~ Working(jobs, w) /\ job[w].pc = "start"
  BY DEF FetchJobs, Fetches, JobKnows
<1>6. JobKnows(w)' /\ SoleKnows(w)'
  BY <1>2, <1>5 DEF JobKnows, SoleKnows
<1>7. TranscodedIsStored'
  BY <1>2 DEF TranscoderInv, TranscodedIsStored
<1>8. TranscoderInv' /\ SoleInv'
  BY <1>1, <1>2, <1>4, <1>5, <1>6, <1>7, TranscoderAssembled
<1>9. QED
  BY <1>2, <1>4, <1>8 DEF TranscoderKept

\* A record that is settled leaves its worker with a new job.  Shared by the
\* steps that end a record: skipped, stale, announced or given up.
LEMMA EndJobKept ==
  ASSUME IInv, NEW w \in Workers, Working(jobs, w), EndJob(w), UNCHANGED <<variant, rebalances>>,
         dlq \subseteq dlq', dlq' \subseteq Nat, jobFaults' \in 0..MaxJobFaults,
         LogStep, TranscodedIsStored',
         \E i \in {jobs.next[w]} : Announced(i)',
         rebalances = 0 /\ dlq' = {} => Uniform \/ ~ Repairs(jobs.next[w])
  PROVE  TranscoderTypeOK' /\ TranscoderInv' /\ SoleInv'
<1> TypeOK /\ TranscoderInv /\ SoleInv
  BY DEF IInv
<1>1. JobsStep(w)
  BY DEF EndJob, JobsStep
<1>2. job' \in [Workers -> JobRecord] /\ job'[w] = NewJob /\ \A v \in Workers \ {w} : job'[v] = job[v]
  BY NewJobTyped, JobTyped DEF EndJob
<1>3. Within(jobs', Workers, Len(topic'))
  BY <1>1, JobsStepKept
<1>4. TranscoderTypeOK'
  BY <1>2, <1>3 DEF TypeOK, TranscoderTypeOK, Within, JobRecord
<1>5. JobKnows(w)' /\ SoleKnows(w)'
  BY <1>2 DEF JobKnows, SoleKnows, NewJob
<1>6. QED
  BY <1>1, <1>2, <1>4, <1>5, TranscoderAssembled

\* An event that is not a job is passed over.
LEMMA SkipEventKept ==
  ASSUME IInv, NEW w \in Workers, SkipEvent(w)
  PROVE  TranscoderKept
<1>1. Working(jobs, w) /\ ~ IsJob(w) /\ UNCHANGED <<variant, dlq, jobFaults, rebalances, topic>>
  BY DEF SkipEvent
<1>2. ~ Repairs(jobs.next[w])
  BY <1>1 DEF Repairs, IsJob, Job
<1>3. \E i \in {jobs.next[w]} : Announced(i)'
  BY <1>1 DEF Announced, IsJob, Job
<1>4. dlq' \subseteq Nat /\ jobFaults' \in 0..MaxJobFaults /\ LogStep /\ TranscodedIsStored'
  BY <1>1 DEF IInv, TypeOK, TranscoderTypeOK, LogStep, TranscoderInv, TranscodedIsStored
<1>5. TranscoderTypeOK' /\ TranscoderInv' /\ SoleInv'
  BY <1>1, <1>2, <1>3, <1>4, EndJobKept DEF SkipEvent
<1>6. QED
  BY <1>1, <1>5 DEF TranscoderKept

\* A stale job is superseded by the newer master its variant was made from.
LEMMA DropStaleKept ==
  ASSUME IInv, NEW w \in Workers, DropStale(w)
  PROVE  TranscoderKept
<1>1. Working(jobs, w) /\ Newer(Job(w)) /\ UNCHANGED <<variant, dlq, jobFaults, rebalances, topic>>
  BY DEF DropStale, AtJob
<1>2. PICK q \in 1..Qualities : variant[q] # None /\ variant[q].at > Job(w).at
  BY <1>1 DEF Newer
<1>3. Job(w).at \in Nat /\ variant[q].at \in Nat
  BY <1>1, <1>2, AtRecord DEF IInv, TypeOK, TranscoderTypeOK, Provenance
<1>4. ~ Repairs(jobs.next[w])
  BY <1>2, <1>3 DEF Repairs, NotNewer, Stored, Job
<1>5. \E i \in {jobs.next[w]} : Announced(i)'
  <2>1. PICK k \in DOMAIN topic : topic[k].type = "track.uploaded" /\ topic[k].at = variant[q].at
    BY <1>2 DEF IInv, TranscoderInv, VariantsUploaded, Stored
  <2>2. QED
    BY <1>1, <1>2, <2>1 DEF Announced, Job
<1>6. dlq' \subseteq Nat /\ jobFaults' \in 0..MaxJobFaults /\ LogStep /\ TranscodedIsStored'
  BY <1>1 DEF IInv, TypeOK, TranscoderTypeOK, LogStep, TranscoderInv, TranscodedIsStored
<1>7. TranscoderTypeOK' /\ TranscoderInv' /\ SoleInv'
  BY <1>1, <1>4, <1>5, <1>6, EndJobKept DEF DropStale
<1>8. QED
  BY <1>1, <1>7 DEF TranscoderKept

\* A step that does not move the worker on settles nothing.
LEMMA NotSettled ==
  ASSUME TypeOK, TranscoderInv, NEW w \in Workers, Working(jobs, w), jobs'.next[w] # jobs.next[w] + 1
  PROVE  ~ (jobs' \in Settles(jobs, w))
<1>1. Len(topic) \in Nat /\ Within(jobs, Workers, Len(topic))
  BY DEF TypeOK, MediaTypeOK, TranscoderInv
<1>2. SUFFICES ASSUME jobs' \in Settles(jobs, w) PROVE FALSE
  OBVIOUS
<1>3. jobs'.next = [jobs.next EXCEPT ![w] = jobs.next[w] + 1]
  BY <1>1, <1>2, SettlesGroup
<1>4. jobs.next \in [Workers -> Nat]
  BY <1>1, GroupFields DEF Within
<1>5. QED
  BY <1>3, <1>4

\* A worker goes on within its job: nothing but its job changes.
LEMMA GotoJobKept ==
  ASSUME IInv, NEW w \in Workers, NEW pc \in {"encode", "put", "announce", "fail"},
         Working(jobs, w), IsJob(w), GotoJob(w, pc), job[w].q = 1,
         UNCHANGED <<jobs, variant, dlq, jobFaults, rebalances, topic, object>>,
         pc = "put" => Content[Job(w).upload] = "audio",
         pc = "announce" => (\A q \in 1..Qualities : Stored(q)) /\ Uniform,
         pc = "fail" => Content[Job(w).upload] # "audio",
         rebalances = 0 /\ pc \in {"encode", "put"} => NotNewer(Job(w))
  PROVE  TranscoderKept
<1> TypeOK /\ TranscoderInv /\ SoleInv
  BY DEF IInv
<1> DEFINE rec == [job[w] EXCEPT !.pc = pc]
<1>1. job[w] \in JobRecord /\ rec \in JobRecord /\ rec.pc = pc /\ rec.q = 1
  BY DEF TypeOK, TranscoderTypeOK, JobRecord
<1>2. job' = [job EXCEPT ![w] = rec]
  BY DEF GotoJob, TypeOK, TranscoderTypeOK
<1> HIDE DEF rec
<1>3. job' \in [Workers -> JobRecord] /\ job'[w] = rec /\ \A v \in Workers \ {w} : job'[v] = job[v]
  BY <1>1, <1>2, JobTyped
<1>4. TranscoderTypeOK'
  BY <1>3 DEF TypeOK, TranscoderTypeOK, JobRecord
<1>5. 1..(rec.q - 1) = {}
  BY <1>1
<1>6. JobKnows(w)'
  BY <1>1, <1>3, <1>5 DEF JobKnows, IsJob, Job, Stored
<1>7. rebalances = 0 => SoleKnows(w)'
  BY <1>1, <1>3, <1>5 DEF SoleKnows, Job, NotNewer, Uniform, Stored, MasterOf
<1>8. JobsStep(w) /\ LogStep
  BY DEF JobsStep, LogStep
<1>9. TranscodedIsStored'
  BY DEF TranscoderInv, TranscodedIsStored
<1>10. ~ (jobs' \in Settles(jobs, w))
  <2>1. jobs.next[w] \in Nat
    BY AtRecord
  <2>2. QED
    BY <2>1, NotSettled
<1>11. TranscoderInv' /\ SoleInv'
  BY <1>3, <1>4, <1>6, <1>7, <1>8, <1>9, <1>10, TranscoderAssembled
<1>12. QED
  BY <1>4, <1>11 DEF TranscoderKept

\* A job that finds nothing newer goes on to encode, or to announce what is there.
LEMMA CheckExistingKept ==
  ASSUME IInv, NEW w \in Workers, CheckExisting(w)
  PROVE  TranscoderKept
<1>1. /\ Working(jobs, w) /\ IsJob(w) /\ job[w].pc = "start" /\ ~ Newer(Job(w))
      /\ UNCHANGED <<jobs, variant, dlq, jobFaults, rebalances, topic, object>>
  BY DEF CheckExisting, AtJob
<1>2. job[w].q = 1
  BY <1>1 DEF IInv, TranscoderInv, JobKnows
<1>3. NotNewer(Job(w))
  <2>1. ASSUME NEW q \in 1..Qualities, Stored(q) PROVE variant[q].at <= Job(w).at
    <3>1. variant[q].at \in Nat /\ Job(w).at \in Nat
      BY <1>1, <2>1, AtRecord DEF IInv, TypeOK, TranscoderTypeOK, Provenance, Stored
    <3>2. ~ (variant[q].at > Job(w).at)
      BY <1>1, <2>1 DEF Newer, Stored
    <3>3. QED
      BY <3>1, <3>2
  <2>2. QED
    BY <2>1 DEF NotNewer
<1>4. CASE SameMaster(Job(w))
  <2>1. GotoJob(w, "announce")
    BY <1>4 DEF CheckExisting
  <2>2. (\A q \in 1..Qualities : Stored(q)) /\ Uniform
    BY <1>4 DEF SameMaster, Stored, Uniform, MasterOf
  <2>3. QED
    BY <1>1, <1>2, <2>1, <2>2, GotoJobKept
<1>5. CASE ~ SameMaster(Job(w))
  <2>1. GotoJob(w, "encode")
    BY <1>5 DEF CheckExisting
  <2>2. QED
    BY <1>1, <1>2, <1>3, <2>1, GotoJobKept
<1>6. QED
  BY <1>4, <1>5

\* The master of a job is there: only its content can fail the encoding.
LEMMA EncodeKept ==
  ASSUME IInv, NEW w \in Workers, Encode(w)
  PROVE  TranscoderKept
<1>1. /\ Working(jobs, w) /\ IsJob(w) /\ job[w].pc = "encode"
      /\ UNCHANGED <<jobs, variant, dlq, jobFaults, rebalances, topic, object>>
  BY DEF Encode, AtJob
<1>2. job[w].q = 1
  BY <1>1 DEF IInv, TranscoderInv, JobKnows
<1>3. rebalances = 0 => NotNewer(Job(w))
  BY <1>1 DEF IInv, SoleInv, SoleKnows
<1>4. object[Job(w).upload] = "stored"
  <2>1. jobs.next[w] \in DOMAIN topic
    BY <1>1, AtRecord DEF IInv
  <2>2. MasterKept
    BY IngestSettledOnce DEF IInv, SettledOnce
  <2>3. QED
    BY <1>1, <2>1, <2>2 DEF MasterKept, IsJob, Job
<1>5. CASE Content[Job(w).upload] = "audio"
  <2>1. GotoJob(w, "put")
    BY <1>4, <1>5 DEF Encode
  <2>2. QED
    BY <1>1, <1>2, <1>3, <1>5, <2>1, GotoJobKept
<1>6. CASE Content[Job(w).upload] # "audio"
  <2>1. GotoJob(w, "fail")
    BY <1>6 DEF Encode
  <2>2. QED
    BY <1>1, <1>2, <1>3, <1>6, <2>1, GotoJobKept
<1>7. QED
  BY <1>5, <1>6

\* A variant is written over the previous one.  The last one of a master makes
\* the variants uniform; before, the job at hand will replace the mixture.
LEMMA PutVariantKept ==
  ASSUME IInv, NEW w \in Workers, PutVariant(w)
  PROVE  TranscoderKept
<1> TypeOK /\ TranscoderInv /\ SoleInv /\ JobKnows(w)
  BY DEF IInv, TranscoderInv
<1> DEFINE q == job[w].q
           e == Job(w)
           prov == [upload |-> e.upload, at |-> e.at]
           rec == IF q = Qualities THEN [job[w] EXCEPT !.pc = "announce"] ELSE [job[w] EXCEPT !.q = q + 1]
<1>1. /\ Working(jobs, w) /\ IsJob(w) /\ job[w].pc = "put"
      /\ variant' = [variant EXCEPT ![q] = prov]
      /\ job' = [job EXCEPT ![w] = rec]
      /\ UNCHANGED <<jobs, dlq, jobFaults, rebalances, topic, object>>
  BY SMTT(30) DEF PutVariant, AtJob
<1>2. /\ jobs.next[w] \in DOMAIN topic /\ jobs.next[w] \in Nat
      /\ e \in Event /\ e.upload \in Uploads /\ e.at \in Nat
  BY <1>1, AtRecord
<1>3. q \in 1..Qualities /\ q \in Nat /\ Qualities \in Nat
  BY TranscoderAssumption DEF TypeOK, TranscoderTypeOK
<1>4. prov \in Provenance /\ prov # None /\ prov.upload = e.upload /\ prov.at = e.at
  BY <1>2, TranscoderAssumption DEF Provenance
<1>5. /\ rec \in JobRecord
      /\ rec.pc = (IF q = Qualities THEN "announce" ELSE "put")
      /\ q # Qualities => rec.q = q + 1
  BY <1>1, <1>3 DEF TypeOK, TranscoderTypeOK, JobRecord
<1> HIDE DEF prov, rec, e
<1>6. job' \in [Workers -> JobRecord] /\ job'[w] = rec /\ \A v \in Workers \ {w} : job'[v] = job[v]
  BY <1>1, <1>5, JobTyped
<1>7. /\ variant' \in [1..Qualities -> Provenance \cup {None}]
      /\ variant'[q] = prov
      /\ \A p \in 1..Qualities \ {q} : variant'[p] = variant[p]
  BY <1>1, <1>3, <1>4 DEF TypeOK, TranscoderTypeOK
<1>8. TranscoderTypeOK'
  BY <1>1, <1>6, <1>7 DEF TypeOK, TranscoderTypeOK, JobRecord
<1>9. \A p \in 1..Qualities : (Stored(p) => Stored(p)') /\ (p = q => Stored(p)')
  BY <1>4, <1>7 DEF Stored
<1>10. JobsStep(w) /\ LogStep
  BY <1>1 DEF JobsStep, LogStep
<1>11. Within(jobs', Workers, Len(topic')) /\ JobsInOrder'
  BY <1>1, <1>10, JobsStepKept
<1>12. Content[e.upload] = "audio" /\ \A p \in 1..(q - 1) : Stored(p)
  BY <1>1 DEF JobKnows, e
<1>13. Job(w)' = e /\ IsJob(w)'
  BY <1>1 DEF Job, IsJob, e
<1>14. JobKnows(w)'
  <2>1. \A p \in 1..q : Stored(p)'
    BY <1>3, <1>9, <1>12
  <2>2. CASE q = Qualities
    BY <1>1, <1>5, <1>6, <1>13, <2>1, <2>2 DEF JobKnows
  <2>3. CASE q # Qualities
    <3>1. rec.pc = "put" /\ rec.q - 1 = q
      BY <1>3, <1>5, <2>3
    <3>2. QED
      BY <1>1, <1>6, <1>12, <1>13, <2>1, <3>1 DEF JobKnows
  <2>4. QED
    BY <2>2, <2>3
<1>15. \A v \in Workers : JobKnows(v)'
  BY <1>6, <1>9, <1>10, <1>14, OtherWorkers
<1>16. TranscodedIsStored'
  BY <1>1, <1>9 DEF TranscoderInv, TranscodedIsStored, Stored
<1>17. VariantsUploaded'
  <2>1. ASSUME NEW p \in 1..Qualities, Stored(p)'
        PROVE  \E k \in DOMAIN topic : /\ topic[k].type = "track.uploaded"
                 /\ topic[k].upload = variant'[p].upload /\ topic[k].at = variant'[p].at
    <3>1. CASE p = q
      BY <1>1, <1>2, <1>4, <1>7, <3>1 DEF IsJob, Job, e
    <3>2. CASE p # q
      BY <1>7, <2>1, <3>2 DEF TranscoderInv, VariantsUploaded, Stored
    <3>3. QED
      BY <3>1, <3>2
  <2>2. QED
    BY <1>1, <2>1 DEF VariantsUploaded
<1>18. ASSUME rebalances' = 0
       PROVE  /\ Sole'
              /\ \A v \in Workers : SoleKnows(v)'
              /\ Uniform' \/ \E i \in DOMAIN topic' : Repairs(i)'
  <2>1. Sole /\ (\A v \in Workers : SoleKnows(v)) /\ rebalances = 0
    BY <1>1, <1>18 DEF SoleInv
  <2>2. Sole'
    BY <1>1, <2>1 DEF Sole
  <2>3. jobs.owner = w /\ NotNewer(e)
    BY <1>1, <2>1 DEF Sole, SoleKnows, e
  <2>4. \A p \in 1..Qualities : Stored(p)' => variant'[p].at <= e.at
    BY <1>2, <1>4, <1>7, <2>3 DEF NotNewer, Stored
  <2>5. \A p \in 1..q : MasterOf(p)' = Digest[e.upload]
    <3>1. \A p \in 1..(q - 1) : MasterOf(p) = Digest[e.upload]
      BY <1>1, <2>1 DEF SoleKnows, e
    <3>2. \A p \in 1..Qualities : p = q => MasterOf(p)' = Digest[e.upload]
      BY <1>4, <1>7 DEF MasterOf
    <3>3. \A p \in 1..(q - 1) : MasterOf(p)' = MasterOf(p)
      BY <1>3, <1>7 DEF MasterOf
    <3>4. QED
      BY <1>3, <3>1, <3>2, <3>3
  <2>6. q = Qualities => Uniform'
    BY <2>5 DEF Uniform
  <2>7. SoleKnows(w)'
    <3>1. CASE q = Qualities
      BY <1>5, <1>6, <2>6, <3>1 DEF SoleKnows
    <3>2. CASE q # Qualities
      <4>1. rec.pc = "put" /\ rec.q - 1 = q
        BY <1>3, <1>5, <3>2
      <4>2. QED
        BY <1>6, <1>13, <2>4, <2>5, <4>1 DEF SoleKnows, NotNewer
    <3>3. QED
      BY <3>1, <3>2
  <2>8. ASSUME NEW v \in Workers \ {w} PROVE SoleKnows(v)'
    <3>1. ~ Working(jobs, v)
      BY <2>1, <2>3 DEF Sole
    <3>2. job[v].pc = "start"
      BY <3>1 DEF TranscoderInv, JobKnows
    <3>3. QED
      BY <1>6, <3>2 DEF SoleKnows
  <2>9. Repairs(jobs.next[w])'
    <3>1. jobs.next[w] > jobs.committed
      BY <1>1, <2>1 DEF Sole
    <3>2. Pending(jobs.next[w])
      BY <1>1, <1>2, <2>3, <3>1 DEF Pending
    <3>3. QED
      BY <1>1, <1>12, <2>4, <3>2 DEF Repairs, Pending, NotNewer, IsJob, Job, e
  <2>10. QED
    BY <1>1, <1>2, <2>2, <2>7, <2>8, <2>9
<1>19. QED
  BY <1>1, <1>8, <1>11, <1>15, <1>16, <1>17, <1>18 DEF TranscoderKept, TranscoderInv, SoleInv

\* The outcome of a job says where its record stands, and track.transcoded that
\* every variant is stored.
LEMMA OutcomePublished ==
  ASSUME IInv, NEW w \in Workers, AtJob(w, "announce") \/ AtJob(w, "fail"),
         Publish(Announcement(w)), UNCHANGED variant
  PROVE  /\ LogStep /\ TranscodedIsStored'
         /\ \E i \in {jobs.next[w]} : Announced(i)'
         /\ \E e \in Event : e.type \in {"track.transcoded", "media.transcode.failed"} /\ Publish(e)
         /\ rebalances = 0 => Uniform \/ ~ Repairs(jobs.next[w])
<1> TypeOK /\ TranscoderInv /\ SoleInv /\ JobKnows(w)
  BY DEF IInv, TranscoderInv
<1> DEFINE a == Announcement(w)
<1>1. Working(jobs, w) /\ IsJob(w) /\ job[w].pc \in {"announce", "fail"}
  BY DEF AtJob
<1>2. jobs.next[w] \in DOMAIN topic /\ Job(w).upload \in Uploads /\ Job(w).at \in Nat
  BY <1>1, AtRecord
<1>3. /\ a \in Event /\ a.upload = Job(w).upload
      /\ a.type = IF job[w].pc = "announce" THEN "track.transcoded" ELSE "media.transcode.failed"
  BY <1>2 DEF Announcement, Event, Types
<1> HIDE DEF a
<1>4. topic \in Seq(Event) /\ Publish(a)
  BY DEF TypeOK, MediaTypeOK, a
<1>5. /\ LogStep
      /\ topic'[Len(topic')] = a
      /\ Len(topic') \in DOMAIN topic'
      /\ \A i \in DOMAIN topic' : i \in DOMAIN topic \/ i = Len(topic')
  BY <1>3, <1>4, LastPublished
<1>6. \A i \in DOMAIN topic : topic'[i] = topic[i]
  BY <1>4, <1>5, LogGrows
<1>7. TranscodedIsStored'
  BY <1>3, <1>5, <1>6 DEF TranscoderInv, TranscodedIsStored, JobKnows, Stored
<1>8. \E i \in {jobs.next[w]} : Announced(i)'
  BY <1>2, <1>3, <1>5, <1>6 DEF Announced, Job
<1>9. rebalances = 0 => Uniform \/ ~ Repairs(jobs.next[w])
  BY <1>1 DEF SoleInv, SoleKnows, JobKnows, Repairs, Job
<1>10. QED
  BY <1>3, <1>4, <1>5, <1>7, <1>8, <1>9

\* An outcome is published before its job is settled.
LEMMA AnnounceKept ==
  ASSUME IInv, NEW w \in Workers, Announce(w)
  PROVE  TranscoderKept
<1>1. /\ Working(jobs, w) /\ UNCHANGED <<variant, dlq, jobFaults, rebalances>>
      /\ AtJob(w, "announce") \/ AtJob(w, "fail")
      /\ Publish(Announcement(w)) /\ EndJob(w)
  BY DEF Announce, AtJob
<1>2. /\ LogStep /\ TranscodedIsStored'
      /\ \E i \in {jobs.next[w]} : Announced(i)'
      /\ \E e \in Event : e.type \in {"track.transcoded", "media.transcode.failed"} /\ Publish(e)
      /\ rebalances = 0 => Uniform \/ ~ Repairs(jobs.next[w])
  BY <1>1, OutcomePublished
<1>3. dlq' \subseteq Nat /\ jobFaults' \in 0..MaxJobFaults
  BY <1>1 DEF IInv, TypeOK, TranscoderTypeOK
<1>4. TranscoderTypeOK' /\ TranscoderInv' /\ SoleInv'
  BY <1>1, <1>2, <1>3, EndJobKept
<1>5. QED
  BY <1>2, <1>4 DEF TranscoderKept

\* The handler runs again from the start, the worker dies, or the partition
\* changes hands: nothing is settled and the variants stay as they are.
LEMMA StartAgainKept ==
  ASSUME IInv, NEW w \in Workers, JobsStep(w), jobs'.next[w] # jobs.next[w] + 1,
         UNCHANGED <<variant, dlq>>, jobFaults' \in 0..MaxJobFaults,
         rebalances' \in {rebalances, rebalances + 1}, rebalances' \in 0..MaxRebalances,
         LogStep, TranscodedIsStored',
         \E rec \in JobRecord : rec.pc = "start" /\ rec.q = 1 /\ job' = [job EXCEPT ![w] = rec]
  PROVE  TranscoderTypeOK' /\ TranscoderInv' /\ SoleInv'
<1> TypeOK /\ TranscoderInv /\ SoleInv
  BY DEF IInv
<1>1. PICK rec \in JobRecord : rec.pc = "start" /\ rec.q = 1 /\ job' = [job EXCEPT ![w] = rec]
  OBVIOUS
<1>2. job' \in [Workers -> JobRecord] /\ job'[w] = rec /\ \A v \in Workers \ {w} : job'[v] = job[v]
  BY <1>1, JobTyped
<1>3. Within(jobs', Workers, Len(topic'))
  BY JobsStepKept
<1>4. TranscoderTypeOK'
  BY <1>2, <1>3 DEF TypeOK, TranscoderTypeOK, Within, JobRecord
<1>5. JobKnows(w)' /\ SoleKnows(w)'
  BY <1>1, <1>2 DEF JobKnows, SoleKnows
<1>6. Working(jobs, w) => ~ (jobs' \in Settles(jobs, w))
  BY NotSettled
<1>7. QED
  BY <1>2, <1>4, <1>5, <1>6, TranscoderAssembled

\* After an error the record is tried again or given up.
LEMMA AfterErrorKept ==
  ASSUME IInv, NEW w \in Workers, Working(jobs, w), JobFault, AfterError(w),
         UNCHANGED <<variant, rebalances>>, LogStep, TranscodedIsStored'
  PROVE  TranscoderTypeOK' /\ TranscoderInv' /\ SoleInv'
<1> TypeOK /\ TranscoderInv
  BY DEF IInv
<1>1. jobFaults' \in 0..MaxJobFaults
  BY TranscoderAssumption DEF JobFault, TypeOK, TranscoderTypeOK
<1>2. jobs.next[w] \in Nat /\ jobs.next[w] # jobs.next[w] + 1
  <2>1. jobs.next[w] \in Nat
    BY AtRecord
  <2>2. QED
    BY <2>1
<1>3. rebalances \in 0..MaxRebalances /\ dlq \subseteq Nat
  BY DEF TypeOK, TranscoderTypeOK
<1>4. CASE /\ job[w].tries < JobRetries
           /\ job' = [job EXCEPT ![w] = [NewJob EXCEPT !.tries = job[w].tries + 1]]
           /\ UNCHANGED <<jobs, dlq>>
  <2> DEFINE rec == [NewJob EXCEPT !.tries = job[w].tries + 1]
  <2>1. job[w].tries + 1 \in 0..JobRetries
    BY <1>4, TranscoderAssumption DEF TypeOK, TranscoderTypeOK
  <2>2. rec \in JobRecord /\ rec.pc = "start" /\ rec.q = 1
    BY <2>1, TranscoderAssumption DEF NewJob, JobRecord
  <2> HIDE DEF rec
  <2>3. job' = [job EXCEPT ![w] = rec]
    BY <1>4 DEF rec
  <2>4. JobsStep(w) /\ jobs'.next[w] # jobs.next[w] + 1
    BY <1>2, <1>4 DEF JobsStep
  <2>5. QED
    BY <1>1, <1>3, <1>4, <2>2, <2>3, <2>4, StartAgainKept
<1>5. CASE dlq' = dlq \cup {jobs.next[w]} /\ EndJob(w)
  <2>1. dlq \subseteq dlq' /\ dlq' # {} /\ dlq' \subseteq Nat
    BY <1>2, <1>3, <1>5
  <2>2. \E i \in {jobs.next[w]} : Announced(i)'
    BY <1>5 DEF Announced
  <2>3. QED
    BY <1>1, <1>5, <2>1, <2>2, EndJobKept
<1>6. QED
  BY <1>4, <1>5 DEF AfterError

\* An error starts the job again or gives it up to the DLQ.
LEMMA JobErrorKept ==
  ASSUME IInv, NEW w \in Workers, JobError(w) \/ AnnounceUnsure(w)
  PROVE  TranscoderKept
<1>1. CASE JobError(w)
  <2>1. Working(jobs, w) /\ JobFault /\ AfterError(w) /\ UNCHANGED <<variant, rebalances, topic>>
    BY <1>1 DEF JobError
  <2>2. LogStep /\ TranscodedIsStored'
    BY <2>1 DEF LogStep, IInv, TranscoderInv, TranscodedIsStored
  <2>3. QED
    BY <2>1, <2>2, AfterErrorKept DEF TranscoderKept
<1>2. CASE AnnounceUnsure(w)
  <2>1. /\ Working(jobs, w) /\ JobFault /\ AfterError(w) /\ UNCHANGED <<variant, rebalances>>
        /\ AtJob(w, "announce") \/ AtJob(w, "fail")
        /\ Publish(Announcement(w))
    BY <1>2 DEF AnnounceUnsure, AtJob
  <2>2. /\ LogStep /\ TranscodedIsStored'
        /\ \E e \in Event : e.type \in {"track.transcoded", "media.transcode.failed"} /\ Publish(e)
    BY <2>1, OutcomePublished
  <2>3. QED
    BY <2>1, <2>2, AfterErrorKept DEF TranscoderKept
<1>3. QED
  BY <1>1, <1>2

\* A worker that dies takes with it the records it had not committed.
LEMMA KillWorkerKept ==
  ASSUME IInv, NEW w \in Workers, KillWorker(w)
  PROVE  TranscoderKept
<1> TypeOK /\ TranscoderInv
  BY DEF IInv
<1>1. /\ Working(jobs, w) /\ jobs' = Killed(jobs, w) /\ job' = [job EXCEPT ![w] = NewJob]
      /\ UNCHANGED <<variant, dlq, rebalances, topic>>
  BY DEF KillWorker
<1>2. jobFaults' \in 0..MaxJobFaults /\ rebalances \in 0..MaxRebalances
  BY TranscoderAssumption DEF KillWorker, JobFault, TypeOK, TranscoderTypeOK
<1>3. JobsStep(w) /\ LogStep /\ TranscodedIsStored'
  BY <1>1 DEF JobsStep, LogStep, TranscoderInv, TranscodedIsStored
<1>4. jobs'.next[w] # jobs.next[w] + 1
  <2>1. Len(topic) \in Nat /\ Within(jobs, Workers, Len(topic))
    BY DEF TypeOK, MediaTypeOK, TranscoderInv
  <2>2. jobs'.next = [jobs.next EXCEPT ![w] = 1]
    BY <1>1, <2>1 DEF Killed, Within, Group
  <2>3. jobs.next \in [Workers -> Nat] /\ jobs.next[w] \in Nat /\ 1 <= jobs.next[w]
    BY <2>1, GroupFields DEF Within
  <2>4. QED
    BY <2>2, <2>3
<1>5. NewJob \in JobRecord /\ NewJob.pc = "start" /\ NewJob.q = 1
  BY NewJobTyped DEF NewJob
<1>6. TranscoderTypeOK' /\ TranscoderInv' /\ SoleInv'
  BY <1>1, <1>2, <1>3, <1>4, <1>5, StartAgainKept
<1>7. QED
  BY <1>1, <1>6 DEF TranscoderKept

\* A new owner begins after the committed offset.
LEMMA AssignJobsKept ==
  ASSUME IInv, NEW w \in Workers, AssignJobs(w)
  PROVE  TranscoderKept
<1> TypeOK /\ TranscoderInv /\ SoleInv /\ JobKnows(w)
  BY DEF IInv, TranscoderInv
<1>1. /\ jobs' = Rebalanced(jobs, w)
      /\ UNCHANGED <<job, variant, dlq, jobFaults, topic>>
      /\ \/ jobs.owner = None /\ rebalances' = rebalances
         \/ rebalances < MaxRebalances /\ rebalances' = rebalances + 1
  BY DEF AssignJobs
<1>2. rebalances' \in 0..MaxRebalances /\ rebalances' \in {rebalances, rebalances + 1}
  BY <1>1, TranscoderAssumption DEF TypeOK, TranscoderTypeOK
<1>3. JobsStep(w) /\ LogStep /\ TranscodedIsStored'
  BY <1>1 DEF JobsStep, LogStep, TranscoderInv, TranscodedIsStored
<1>4. /\ Within(jobs', Workers, Len(topic))
      /\ jobs'.next = jobs.next /\ jobs'.last = jobs.last
  <2>1. Len(topic) \in Nat /\ Within(jobs, Workers, Len(topic))
    BY DEF TypeOK, MediaTypeOK, TranscoderInv
  <2>2. QED
    BY <1>1, <2>1, RebalancedGroup
<1>5. TranscoderTypeOK'
  BY <1>1, <1>2, <1>4 DEF TypeOK, TranscoderTypeOK, Within
<1>6. JobKnows(w)' /\ (rebalances = 0 => SoleKnows(w)')
  BY <1>1, <1>4 DEF SoleInv, SoleKnows, JobKnows, Job, IsJob, Working, NotNewer, Uniform, Stored, MasterOf
<1>7. Working(jobs, w) => ~ (jobs' \in Settles(jobs, w))
  <2>1. Working(jobs, w) => jobs'.next[w] # jobs.next[w] + 1
    BY <1>4, AtRecord
  <2>2. QED
    BY <2>1, NotSettled
<1>8. TranscoderInv' /\ SoleInv'
  BY <1>1, <1>2, <1>3, <1>5, <1>6, <1>7, TranscoderAssembled
<1>9. QED
  BY <1>1, <1>5, <1>8 DEF TranscoderKept

\* Every step of the transcoder keeps its invariant.
LEMMA TranscoderNextKept ==
  ASSUME IInv, TranscoderNext
  PROVE  TranscoderKept
BY FetchJobsKept, SkipEventKept, DropStaleKept, CheckExistingKept, EncodeKept, PutVariantKept,
   AnnounceKept, JobErrorKept, KillWorkerKept, AssignJobsKept
DEF TranscoderNext, WorkerStep

\* The other services only lengthen the log.
LEMMA TranscoderUndisturbed ==
  ASSUME TypeOK, TranscoderInv, SoleInv, LogStep, UNCHANGED transcoderVars,
         \A i \in DOMAIN topic' : topic'[i].type = "track.transcoded" => i \in DOMAIN topic
  PROVE  TranscoderTypeOK' /\ TranscoderInv' /\ SoleInv'
<1>1. UNCHANGED <<jobs, job, variant, dlq, jobFaults, rebalances>>
  BY DEF transcoderVars
<1>2. TranscoderTypeOK'
  BY <1>1 DEF TypeOK, TranscoderTypeOK
<1>3. None \notin Workers
  BY TranscoderAssumption
<1>4. JobsStep(None)
  BY <1>1 DEF JobsStep
<1>5. TranscodedIsStored'
  BY <1>1, LogGrows DEF TypeOK, MediaTypeOK, TranscoderInv, TranscodedIsStored
<1>6. QED
  BY <1>1, <1>2, <1>3, <1>4, <1>5, TranscoderAssembled

-----------------------------------------------------------------------------
(* Catalog *)

\* What a change of status may be: an edit, or what a media event says.
StatusStep ==
  \/ UNCHANGED <<status, updates>>
  \/ status = "none" /\ status' = "DRAFT"
  \/ /\ status' \in allowedTransitions[status] /\ status' \in EditStatuses
     /\ status \in Statuses /\ edits' = edits + 1
  \/ /\ status \in {"DRAFT", "PROCESSING"} /\ status' \in {"PROCESSING", "DRAFT"}
  \/ /\ status \in {"DRAFT", "PROCESSING"} /\ status' = "READY"
     /\ \E i \in DOMAIN topic : topic[i].type = "track.transcoded"

CatalogKept ==
  /\ CatalogTypeOK' /\ Within(signals', Replicas, Len(topic))
  /\ UNCHANGED <<topic, object>>
  /\ StatusStep

\* The record a replica is at is on the log.
LEMMA AtSignal ==
  ASSUME IInv, NEW r \in Replicas, Working(signals, r)
  PROVE  signals.next[r] \in DOMAIN topic
<1>1. /\ signals.next[r] \in Nat /\ signals.last[r] \in Nat
      /\ 1 <= signals.next[r] /\ signals.last[r] <= Len(topic)
  BY GroupFields DEF IInv, CatalogInv, Within
<1>2. QED
  BY <1>1 DEF IInv, TypeOK, MediaTypeOK, Working

\* A status stored with its event.
LEMMA StoreTyped ==
  ASSUME CatalogTypeOK, NEW next, next \in Statuses \/ next = status, Store(next)
  PROVE  /\ status' \in Statuses \cup {"none"} /\ updates' \in Seq(Statuses)
         /\ status' = next
         /\ next = status => UNCHANGED <<status, updates>>
BY DEF Store, CatalogTypeOK

\* Every step of Catalog keeps its types and moves the status as StatusStep says.
LEMMA CatalogNextKept ==
  ASSUME IInv, CatalogNext
  PROVE  CatalogKept
<1> TypeOK /\ CatalogTypeOK /\ CatalogInv
  BY DEF IInv, TypeOK
<1>1. /\ Len(topic) \in Nat /\ Within(signals, Replicas, Len(topic))
      /\ signals \in Group(Replicas) /\ missed \in SUBSET Nat
  BY DEF TypeOK, MediaTypeOK, CatalogInv, Within, CatalogTypeOK
<1>2. CASE CreateTrack
  <2>1. "DRAFT" \in Statuses /\ Store("DRAFT")
    BY <1>2 DEF CreateTrack, Statuses
  <2>2. status' \in Statuses \cup {"none"} /\ updates' \in Seq(Statuses) /\ status' = "DRAFT"
    BY <2>1, StoreTyped
  <2>3. QED
    BY <1>1, <1>2, <2>2 DEF CreateTrack, CatalogKept, CatalogTypeOK, StatusStep
<1>3. ASSUME NEW s \in EditStatuses, UpdateTrack(s) PROVE CatalogKept
  <2>1. status \in Statuses /\ s \in Statuses /\ s \in allowedTransitions[status] /\ Store(s)
    BY <1>3, CatalogAssumption DEF UpdateTrack, CatalogTypeOK
  <2>2. status' \in Statuses \cup {"none"} /\ updates' \in Seq(Statuses) /\ status' = s
    BY <2>1, StoreTyped
  <2>3. edits' = edits + 1 /\ edits' \in 0..MaxEdits
    BY <1>3, CatalogAssumption DEF UpdateTrack, CatalogTypeOK
  <2>4. StatusStep
    BY <2>1, <2>2, <2>3 DEF StatusStep
  <2>5. QED
    BY <1>1, <1>3, <2>2, <2>3, <2>4 DEF UpdateTrack, CatalogKept, CatalogTypeOK
<1>4. ASSUME NEW r \in Replicas, FetchSignals(r) PROVE CatalogKept
  <2>1. Within(signals', Replicas, Len(topic))
    BY <1>1, <1>4, FetchesGroup DEF FetchSignals
  <2>2. QED
    BY <1>4, <2>1 DEF FetchSignals, CatalogKept, CatalogTypeOK, StatusStep, Within
<1>5. ASSUME NEW r \in Replicas, HandleSignal(r) PROVE CatalogKept
  <2> DEFINE type == topic[signals.next[r]].type
             next == AdvanceMedia(type)
  <2>1. Working(signals, r) /\ Store(next) /\ signals' \in Settles(signals, r)
    BY <1>5 DEF HandleSignal
  <2>2. Within(signals', Replicas, Len(topic))
    BY <1>1, <2>1, SettlesGroup
  <2>3. signals.next[r] \in DOMAIN topic
    BY <2>1, AtSignal
  <2>4. \/ next = status
        \/ status \in {"DRAFT", "PROCESSING"} /\ next \in {"PROCESSING", "DRAFT"}
        \/ status \in {"DRAFT", "PROCESSING"} /\ next = "READY" /\ type = "track.transcoded"
    BY DEF AdvanceMedia
  <2> HIDE DEF next, type
  <2>5. next \in Statuses \/ next = status
    BY <2>4 DEF Statuses
  <2>6. /\ status' \in Statuses \cup {"none"} /\ updates' \in Seq(Statuses)
        /\ status' = next
        /\ next = status => UNCHANGED <<status, updates>>
    BY <2>1, <2>5, StoreTyped
  <2>7. StatusStep
    BY <2>3, <2>4, <2>6 DEF StatusStep, type
  <2>8. QED
    BY <1>5, <2>2, <2>6, <2>7 DEF HandleSignal, CatalogKept, CatalogTypeOK, Within
<1>6. ASSUME NEW r \in Replicas, GiveUpSignal(r) PROVE CatalogKept
  <2>1. Within(signals', Replicas, Len(topic))
    BY <1>1, <1>6, SettlesGroup DEF GiveUpSignal
  <2>2. signals.next[r] \in Nat
    BY <1>1, GroupFields
  <2>3. catalogFaults' \in 0..MaxCatalogFaults
    BY <1>6, CatalogAssumption DEF GiveUpSignal, CatalogTypeOK
  <2>4. QED
    BY <1>1, <1>6, <2>1, <2>2, <2>3 DEF GiveUpSignal, CatalogKept, CatalogTypeOK, StatusStep, Within
<1>7. ASSUME NEW r \in Replicas, KillReplica(r) PROVE CatalogKept
  <2>1. Within(signals', Replicas, Len(topic))
    BY <1>1, <1>7, KilledGroup DEF KillReplica
  <2>2. catalogFaults' \in 0..MaxCatalogFaults
    BY <1>7, CatalogAssumption DEF KillReplica, CatalogTypeOK
  <2>3. QED
    BY <1>7, <2>1, <2>2 DEF KillReplica, CatalogKept, CatalogTypeOK, StatusStep, Within
<1>8. ASSUME NEW r \in Replicas, AssignSignals(r) PROVE CatalogKept
  <2>1. Within(signals', Replicas, Len(topic))
    BY <1>1, <1>8, RebalancedGroup DEF AssignSignals
  <2>2. catalogFaults' \in 0..MaxCatalogFaults
    BY <1>8, CatalogAssumption DEF AssignSignals, CatalogTypeOK
  <2>3. QED
    BY <1>8, <2>1, <2>2 DEF AssignSignals, CatalogKept, CatalogTypeOK, StatusStep, Within
<1>9. QED
  BY <1>2, <1>3, <1>4, <1>5, <1>6, <1>7, <1>8 DEF CatalogNext

-----------------------------------------------------------------------------
(* The pipeline *)

\* The initial state satisfies the inductive invariant.
LEMMA InitIInv == Init => IInv
<1> SUFFICES ASSUME Init PROVE IInv
  OBVIOUS
<1>1. topic = <<>> /\ topic \in Seq(Event) /\ Len(topic) = 0 /\ DOMAIN topic = {}
  BY DEF Init
<1>2. Within(jobs, Workers, Len(topic)) /\ Within(signals, Replicas, Len(topic))
  <2>1. jobs = NewGroup(Workers) /\ signals = NewGroup(Replicas) /\ Len(topic) \in Nat
    BY <1>1 DEF Init, TranscoderInit, CatalogInit
  <2>2. QED
    BY <2>1, NewGroupWithin
<1>3. TypeOK
  <2>1. MediaTypeOK
    BY <1>1 DEF Init, MediaTypeOK
  <2>2. IngestTypeOK
    <3> DEFINE none == CHOOSE u \in Uploads : TRUE
    <3>1. none \in Uploads
      BY IngestAssumption
    <3>2. call = [c \in Calls |-> [pc |-> "idle", upload |-> none, reason |-> "", at |-> 0, answer |-> "none"]]
      BY DEF Init, IngestInit
    <3> HIDE DEF none
    <3>3. call \in [Calls -> [pc : {"idle", "verify", "settle", "reread", "remove", "done", "error"},
                              upload : Uploads, reason : Reasons, at : Nat,
                              answer : {"none", "COMPLETED", "FAILED", "NOT_UPLOADED"}]]
      BY <3>1, <3>2 DEF Reasons
    <3>4. upload \in [Uploads -> [status : {"none", "PENDING", "COMPLETED", "FAILED"},
                                  expires : Nat, at : Nat]]
      BY DEF Init, IngestInit
    <3>5. clock \in 0..MaxTime /\ ingestFaults \in 0..MaxIngestFaults /\ outbox = {} /\ recorded = {}
      <4>1. clock = 0 /\ ingestFaults = 0 /\ outbox = {} /\ recorded = {}
        BY DEF Init, IngestInit
      <4>2. QED
        BY <4>1, IngestAssumption
    <3>6. QED
      BY <3>3, <3>4, <3>5 DEF IngestTypeOK
  <2>3. TranscoderTypeOK
    <3>1. jobs \in Group(Workers)
      BY <1>2 DEF Within
    <3>2. job \in [Workers -> JobRecord]
      BY NewJobTyped DEF Init, TranscoderInit
    <3>3. /\ variant \in [1..Qualities -> Provenance \cup {None}] /\ dlq = {}
          /\ jobFaults \in 0..MaxJobFaults /\ rebalances \in 0..MaxRebalances
      BY TranscoderAssumption DEF Init, TranscoderInit
    <3>4. QED
      BY <3>1, <3>2, <3>3 DEF TranscoderTypeOK, JobRecord
  <2>4. CatalogTypeOK
    <3>1. signals \in Group(Replicas)
      BY <1>2 DEF Within
    <3>2. /\ status = "none" /\ updates \in Seq(Statuses) /\ missed = {}
          /\ edits \in 0..MaxEdits /\ catalogFaults \in 0..MaxCatalogFaults
      BY CatalogAssumption DEF Init, CatalogInit
    <3>3. QED
      BY <3>1, <3>2 DEF CatalogTypeOK
  <2>5. QED
    BY <2>1, <2>2, <2>3, <2>4 DEF TypeOK
<1>4. IngestInv
  BY <1>1 DEF Init, IngestInit, IngestInv, RelayedRecorded, SessionEvents, Settled, CallKnows,
              AnswersAgree, Answered
<1>5. \A w \in Workers : ~ Working(jobs, w) /\ job[w] = NewJob /\ jobs.owner # w
  <2>1. /\ jobs.owner = None /\ jobs.next = [w \in Workers |-> 1] /\ jobs.last = [w \in Workers |-> 0]
        /\ job = [w \in Workers |-> NewJob]
    BY DEF Init, TranscoderInit, NewGroup
  <2>2. QED
    BY <2>1, TranscoderAssumption DEF Working
<1>6. jobs.committed = 0 /\ variant = [q \in 1..Qualities |-> None]
  BY DEF Init, TranscoderInit, NewGroup
<1>7. TranscoderInv
  <2>1. JobsInOrder
    <3>1. Upto(jobs.committed)
      BY <1>6 DEF Upto
    <3>2. QED
      BY <1>5, <3>1 DEF JobsInOrder
  <2>2. \A w \in Workers : JobKnows(w)
    BY <1>5 DEF JobKnows, NewJob
  <2>3. QED
    BY <1>1, <1>2, <1>6, <2>1, <2>2 DEF TranscoderInv, TranscodedIsStored, VariantsUploaded, Stored
<1>8. SoleInv
  <2>1. Uniform
    BY <1>6 DEF Uniform, MasterOf
  <2>2. Sole
    BY <1>5 DEF Sole
  <2>3. \A w \in Workers : SoleKnows(w)
    BY <1>5 DEF SoleKnows, NewJob
  <2>4. QED
    BY <2>1, <2>2, <2>3 DEF SoleInv
<1>9. QED
  BY <1>2, <1>3, <1>4, <1>7, <1>8 DEF IInv, CatalogInv

\* Each service keeps the invariant of all three.
LEMMA NextIInv == IInv /\ [Next]_vars => IInv'
<1> SUFFICES ASSUME IInv, [Next]_vars PROVE IInv'
  OBVIOUS
<1>1. TypeOK /\ IngestInv /\ TranscoderInv /\ SoleInv /\ CatalogInv
  BY DEF IInv
<1>2. ASSUME LogStep, UNCHANGED catalogVars PROVE CatalogTypeOK' /\ CatalogInv'
  <2>1. CatalogTypeOK'
    BY <1>1, <1>2 DEF TypeOK, CatalogTypeOK, catalogVars
  <2>2. Len(topic) \in Nat /\ Len(topic') \in Nat /\ Len(topic) <= Len(topic')
    BY <1>1, <1>2, LogGrows DEF TypeOK, MediaTypeOK
  <2>3. Within(signals, Replicas, Len(topic'))
    BY <1>1, <2>2, WithinLonger DEF CatalogInv
  <2>4. QED
    BY <1>2, <2>1, <2>3 DEF CatalogInv, catalogVars
<1>3. CASE IngestStep
  <2>1. IngestNext /\ UNCHANGED <<transcoderVars, catalogVars>>
    BY <1>3 DEF IngestStep
  <2>2. MediaTypeOK' /\ IngestTypeOK' /\ IngestInv' /\ LogStep
    BY <1>1, <2>1, IngestNextKept DEF IngestKept
  <2>3. \A i \in DOMAIN topic' : topic'[i].type = "track.transcoded" => i \in DOMAIN topic
    <3>1. CASE topic' = topic
      BY <3>1
    <3>2. CASE \E e \in outbox : Publish(e)
      <4>1. PICK e \in outbox : Publish(e)
        BY <3>2
      <4>2. e \in Event /\ topic \in Seq(Event) /\ e.type # "track.transcoded"
        <5>1. PICK x \in recorded : x.event = e
          BY <1>1 DEF IngestInv, RelayedRecorded
        <5>2. QED
          BY <1>1, <5>1 DEF TypeOK, IngestTypeOK, MediaTypeOK, IngestInv, SessionEvents, OutcomeOf
      <4>3. QED
        BY <4>1, <4>2, LastPublished
    <3>3. topic' = topic \/ \E e \in outbox : Publish(e)
      BY <2>1 DEF IngestNext, CompleteStep, Tick, Create, StartPut, PutArrives, Complete, Verify,
                  SettleUpload, LostSettle, Reread, RemoveRejected, RemoveFails, CompleteFails,
                  RelayEvent, RelayAgain
    <3>4. QED
      BY <3>1, <3>2, <3>3
  <2>4. TranscoderTypeOK' /\ TranscoderInv' /\ SoleInv'
    BY <1>1, <2>1, <2>2, <2>3, TranscoderUndisturbed
  <2>5. CatalogTypeOK' /\ CatalogInv'
    BY <1>2, <2>1, <2>2
  <2>6. QED
    BY <2>2, <2>4, <2>5 DEF IInv, TypeOK
<1>4. CASE TranscoderStep
  <2>1. TranscoderNext /\ UNCHANGED <<ingestVars, catalogVars>>
    BY <1>4 DEF TranscoderStep
  <2>2. TranscoderKept
    BY <2>1, TranscoderNextKept
  <2>3. object' = object
    BY <2>1 DEF TranscoderNext, WorkerStep, FetchJobs, SkipEvent, DropStale, CheckExisting, Encode,
                PutVariant, Announce, JobError, AnnounceUnsure, KillWorker, AssignJobs
  <2>4. MediaTypeOK' /\ IngestTypeOK' /\ IngestInv' /\ LogStep
    BY <1>1, <2>1, <2>2, <2>3, IngestUndisturbed DEF TranscoderKept, IngestKept
  <2>5. CatalogTypeOK' /\ CatalogInv'
    BY <1>2, <2>1, <2>4
  <2>6. QED
    BY <2>2, <2>4, <2>5 DEF IInv, TypeOK, TranscoderKept
<1>5. CASE CatalogStep
  <2>1. CatalogNext /\ UNCHANGED <<ingestVars, transcoderVars>>
    BY <1>5 DEF CatalogStep
  <2>2. CatalogKept
    BY <2>1, CatalogNextKept
  <2>3. UNCHANGED <<topic, object>> /\ LogStep
    BY <2>2 DEF CatalogKept, LogStep
  <2>4. MediaTypeOK' /\ IngestTypeOK' /\ IngestInv'
    BY <1>1, <2>1, <2>3, IngestUndisturbed DEF IngestKept
  <2>5. TranscoderTypeOK' /\ TranscoderInv' /\ SoleInv'
    BY <1>1, <2>1, <2>3, TranscoderUndisturbed
  <2>6. QED
    BY <2>2, <2>3, <2>4, <2>5 DEF IInv, TypeOK, CatalogKept, CatalogInv
<1>6. CASE UNCHANGED vars
  <2>1. UNCHANGED <<topic, object, ingestVars, transcoderVars, catalogVars>>
    BY <1>6 DEF vars
  <2>2. LogStep
    BY <2>1 DEF LogStep
  <2>3. MediaTypeOK' /\ IngestTypeOK' /\ IngestInv'
    BY <1>1, <2>1, IngestUndisturbed DEF IngestKept
  <2>4. TranscoderTypeOK' /\ TranscoderInv' /\ SoleInv'
    BY <1>1, <2>1, <2>2, TranscoderUndisturbed
  <2>5. QED
    BY <1>2, <2>1, <2>2, <2>3, <2>4 DEF IInv, TypeOK
<1>7. QED
  BY <1>3, <1>4, <1>5, <1>6 DEF Next

\* The inductive invariant holds in every reachable state.
THEOREM Invariance == Safety => []IInv
BY InitIInv, NextIInv, PTL DEF Safety

\* The media pipeline keeps its types.
THEOREM TypeCorrect == Spec => []TypeOK
<1>1. IInv => TypeOK
  BY DEF IInv
<1>2. QED
  BY Invariance, <1>1, PTL DEF Spec

\* Upload.Complete: whatever Complete calls overlap, fail or are repeated, a
\* session has one outcome, one event, one answer, and a master that was
\* announced stays in storage.
THEOREM SessionsSettledOnce == Spec => []SettledOnce
<1>1. IInv => SettledOnce
  BY IngestSettledOnce DEF IInv
<1>2. QED
  BY Invariance, <1>1, PTL DEF Spec

(* The variants *)

\* Nothing removes a variant, and without a lost partition nothing puts an
\* older master in its place.
VariantStep ==
  /\ \A q \in 1..Qualities : Stored(q) => Stored(q)'
  /\ Older => rebalances > 0

\* Only PutVariant writes variants, and what it writes is no older than what
\* the only worker found.
LEMMA VariantsStay == IInv /\ [Next]_vars => VariantStep
<1> SUFFICES ASSUME IInv, [Next]_vars PROVE VariantStep
  OBVIOUS
<1>1. variant \in [1..Qualities -> Provenance \cup {None}]
  BY DEF IInv, TypeOK, TranscoderTypeOK
<1>2. Qualities \in Nat /\ \A x \in Provenance : x # None /\ x.at \in Nat
  BY TranscoderAssumption DEF Provenance
<1>3. ASSUME variant' = variant PROVE VariantStep
  <2>1. \A q \in 1..Qualities : Stored(q) => variant[q].at \in Nat
    BY <1>1, <1>2 DEF Stored
  <2>2. QED
    BY <1>3, <2>1 DEF VariantStep, Older, Stored
<1>4. ASSUME NEW w \in Workers, PutVariant(w) PROVE VariantStep
  <2> DEFINE q == job[w].q
             made == [upload |-> Job(w).upload, at |-> Job(w).at]
  <2>1. job[w].pc = "put" /\ variant' = [variant EXCEPT ![q] = made] /\ Working(jobs, w)
    BY <1>4 DEF PutVariant, AtJob
  <2>2. made \in Provenance /\ q \in 1..Qualities
    <3>1. Job(w) \in Event
      BY <2>1, AtRecord DEF IInv, TypeOK, MediaTypeOK, TranscoderInv
    <3>2. job[w] \in JobRecord
      BY DEF IInv, TypeOK, TranscoderTypeOK, JobRecord
    <3>3. QED
      BY <3>1, <3>2 DEF Event, Provenance, JobRecord
  <2>3. rebalances = 0 => \A p \in 1..Qualities : Stored(p) => variant[p].at <= made.at
    BY <2>1 DEF IInv, SoleInv, SoleKnows, NotNewer
  <2> HIDE DEF q, made
  <2>4. \A p \in 1..Qualities : variant'[p] = IF p = q THEN made ELSE variant[p]
    BY <1>1, <2>1
  <2>5. \A p \in 1..Qualities : Stored(p) => variant[p].at \in Nat
    BY <1>1, <1>2 DEF Stored
  <2>6. made # None /\ made.at \in Nat
    BY <1>2, <2>2
  <2>7. \A p \in 1..Qualities : Stored(p) => Stored(p)'
    BY <2>4, <2>6 DEF Stored
  <2>8. rebalances = 0 => ~ Older
    BY <2>3, <2>4, <2>5, <2>6 DEF Older, Stored
  <2>9. rebalances \in Nat
    BY TranscoderAssumption DEF IInv, TypeOK, TranscoderTypeOK
  <2>10. QED
    BY <2>7, <2>8, <2>9 DEF VariantStep
<1>5. variant' = variant \/ \E w \in Workers : PutVariant(w)
  <2>1. CASE TranscoderNext
    BY <2>1 DEF TranscoderNext, WorkerStep, FetchJobs, SkipEvent, DropStale, CheckExisting, Encode,
                Announce, JobError, AnnounceUnsure, KillWorker, AssignJobs
  <2>2. CASE UNCHANGED transcoderVars
    BY <2>2 DEF transcoderVars
  <2>3. QED
    BY <2>1, <2>2 DEF Next, IngestStep, TranscoderStep, CatalogStep, vars
<1>6. QED
  BY <1>3, <1>4, <1>5

\* A committed job is announced, and the variants left by the last of the jobs
\* come from one master.
LEMMA VariantsOfOneMaster == IInv => TranscodedIsStored /\ JobAnnounced /\ OneMaster
<1> SUFFICES ASSUME IInv PROVE TranscodedIsStored /\ JobAnnounced /\ OneMaster
  OBVIOUS
<1>1. /\ Within(jobs, Workers, Len(topic)) /\ Upto(jobs.committed) /\ TranscodedIsStored
      /\ jobs.committed \in Nat /\ DOMAIN topic = 1..Len(topic) /\ Len(topic) \in Nat
  BY GroupFields DEF IInv, TypeOK, MediaTypeOK, TranscoderInv, JobsInOrder, Within
<1>2. JobAnnounced
  BY <1>1 DEF JobAnnounced, Upto, Announced
<1>3. OneMaster
  <2> SUFFICES ASSUME dlq = {}, rebalances = 0,
                      \A i \in DOMAIN topic : i > jobs.committed => topic[i].type # "track.uploaded"
               PROVE  Uniform
    BY DEF OneMaster, Uniform
  <2>1. \A i \in DOMAIN topic : ~ Repairs(i)
    BY DEF Repairs, Pending
  <2>2. QED
    BY <2>1 DEF IInv, SoleInv
<1>4. QED
  BY <1>1, <1>2, <1>3

\* Transcoder.Handle: a track's variants are all stored when track.transcoded
\* is on the topic, a job is committed only after its outcome is announced, the
\* variants left in the end are of one master, and only a worker that lost its
\* partition replaces one by an older master's.
THEOREM TrackVariants == Spec => VariantsSound
<1>1. IInv /\ [Next]_vars => [Older => rebalances > 0]_transcoderVars
  BY VariantsStay DEF VariantStep
<1>2. QED
  BY Invariance, VariantsOfOneMaster, <1>1, PTL DEF Spec, Safety, VariantsSound, OlderOnlyAfterRebalance

(* The track *)

\* Every step moves the track's status as Catalog does, or not at all.
LEMMA StatusMoves == IInv /\ [Next]_vars => StatusStep
<1> SUFFICES ASSUME IInv, [Next]_vars PROVE StatusStep
  OBVIOUS
<1>1. CASE CatalogStep
  BY <1>1, CatalogNextKept DEF CatalogStep, CatalogKept, IInv, TypeOK
<1>2. CASE UNCHANGED catalogVars
  BY <1>2 DEF catalogVars, StatusStep
<1>3. QED
  BY <1>1, <1>2 DEF Next, IngestStep, TranscoderStep, vars

\* Track.AdvanceMedia: no media event, however late or often it is delivered,
\* takes a READY, BLOCKED or DELETED track out of its status; an edit does.
THEOREM TrackStaysUntilEdited == Spec => StaysUntilEdited
<1> DEFINE Moved == status \in {"READY", "BLOCKED", "DELETED"} /\ status' # status
<1>1. IInv /\ [Next]_vars => [Moved => edits' # edits]_catalogVars
  <2> SUFFICES ASSUME IInv, [Next]_vars, Moved PROVE edits' # edits
    OBVIOUS
  <2>1. StatusStep
    BY StatusMoves
  <2>2. edits \in Nat
    BY CatalogAssumption DEF IInv, TypeOK, CatalogTypeOK
  <2>3. QED
    BY <2>1, <2>2 DEF StatusStep
<1>2. QED
  BY Invariance, <1>1, PTL DEF Spec, Safety, StaysUntilEdited

\* While editors leave READY to the pipeline (UpdateTrack lets a PATCH set it on
\* a PROCESSING track), a READY track has every variant in storage.
THEOREM ReadyTrackHasAudio ==
  ASSUME "READY" \notin EditStatuses
  PROVE  Spec => []ReadyHasAudio
<1>1. Init => AudioInv
  BY DEF Init, CatalogInit, AudioInv
<1>2. IInv /\ AudioInv /\ [Next]_vars => AudioInv'
  <2> SUFFICES ASSUME IInv, AudioInv, [Next]_vars, status' \in {"READY", "BLOCKED"}
               PROVE  \A q \in 1..Qualities : Stored(q)'
    BY DEF AudioInv
  <2>1. StatusStep /\ VariantStep
    BY StatusMoves, VariantsStay
  <2>2. \A q \in 1..Qualities : Stored(q)
    <3>1. CASE status \in {"READY", "BLOCKED"}
      BY <3>1 DEF AudioInv
    <3>2. CASE \E i \in DOMAIN topic : topic[i].type = "track.transcoded"
      BY <3>2 DEF IInv, TranscoderInv, TranscodedIsStored, Stored
    <3>3. status' = "BLOCKED" /\ status \in Statuses /\ status' \in allowedTransitions[status]
            => status = "READY"
      BY DEF Statuses, allowedTransitions
    <3>4. QED
      BY <2>1, <3>1, <3>2, <3>3 DEF StatusStep
  <2>3. QED
    BY <2>1, <2>2 DEF VariantStep
<1>3. AudioInv => ReadyHasAudio
  BY DEF AudioInv, ReadyHasAudio, Stored
<1>4. QED
  BY Invariance, <1>1, <1>2, <1>3, PTL DEF Spec, Safety

-----------------------------------------------------------------------------
(* The metadata and audio-analysis workers (MediaFacts)                     *)

DeliveryPcs == {"idle", "exists", "source", "probe", "save"}
DeliveryRecord == [pc : DeliveryPcs, work : Works \cup {<<>>}, probe : Nat]
FactRecord == [work : Works, probe : Nat]

\* A handler at work has a record; one that is about to save has measured.
DeliveryKnows(q) ==
  /\ q.pc # "idle" => q.work \in Works
  /\ q.pc = "save" => q.probe # 0

FactsInv ==
  /\ facts \in [Works -> Nat]
  /\ factEvents \in Seq(FactRecord)
  /\ delivery \in [Deliveries -> DeliveryRecord]
  /\ measured \in Nat
  /\ ended \subseteq Works
  /\ \A d \in Deliveries : DeliveryKnows(delivery[d])
  /\ FactsAnnouncedOnce
  /\ CommittedHasFacts

\* What the steps of a handler assign to it.
LEMMA DeliveryFields ==
  /\ NoDelivery \in DeliveryRecord /\ NoDelivery.pc = "idle"
  /\ "exists" \in DeliveryPcs /\ "source" \in DeliveryPcs /\ "probe" \in DeliveryPcs /\ "save" \in DeliveryPcs
BY DEF NoDelivery, DeliveryRecord, DeliveryPcs

\* A step of one handler that stores nothing; the record it ends has its facts,
\* has none to give, or was given up.
LEMMA DeliveryMoves ==
  ASSUME FactsInv, NEW d \in Deliveries, NEW new \in DeliveryRecord, DeliveryKnows(new),
         delivery' = [delivery EXCEPT ![d] = new], facts' = facts, factEvents' = factEvents, measured' \in Nat,
         \/ ended' = ended
         \/ \E w \in Works : /\ ended' = ended \cup {w}
                             /\ MasterKind[w[2]] = "audio" => facts[w] # 0 \/ w \in cut' \cup deadFacts',
         cut \subseteq cut', deadFacts \subseteq deadFacts'
  PROVE  FactsInv'
<1>1. delivery' \in [Deliveries -> DeliveryRecord] /\ \A o \in Deliveries : DeliveryKnows(delivery'[o])
  BY DEF FactsInv
<1>2. \A o \in Deliveries : DeliveryKnows(delivery[o])'
  BY <1>1 DEF DeliveryKnows
<1>3. FactsAnnouncedOnce'
  BY DEF FactsInv, FactsAnnouncedOnce, EventsOf
<1>4. ended' \subseteq Works /\ CommittedHasFacts'
  BY DEF FactsInv, CommittedHasFacts
<1>5. QED
  BY <1>1, <1>2, <1>3, <1>4 DEF FactsInv

\* The row and its event are stored together, if there is no row yet.
LEMMA SaveKeepsFacts ==
  ASSUME FactsInv, NEW d \in Deliveries, SaveFacts(d)
  PROVE  FactsInv'
<1> DEFINE q == delivery[d]
           w == q.work
           n == Len(factEvents)
<1>1. q \in DeliveryRecord /\ q.pc = "save" /\ w \in Works /\ q.probe \in Nat /\ q.probe # 0
  BY DEF FactsInv, SaveFacts, DeliveryKnows, DeliveryRecord
<1>2. /\ delivery' = [delivery EXCEPT ![d] = NoDelivery] /\ ended' = ended \cup {w}
      /\ measured' = measured /\ cut' = cut /\ deadFacts' = deadFacts
  BY DEF SaveFacts, Commit, FactStep
<1>3. DeliveryKnows(NoDelivery)
  BY DeliveryFields DEF DeliveryKnows
<1>4. CASE facts[w] # 0
  <2>1. facts' = facts /\ factEvents' = factEvents
    BY <1>4 DEF SaveFacts
  <2>2. measured' \in Nat
    BY <1>2 DEF FactsInv
  <2>3. QED
    BY <1>1, <1>2, <1>3, <1>4, <2>1, <2>2, DeliveryFields, DeliveryMoves
<1>5. CASE facts[w] = 0
  <2> DEFINE e == [work |-> w, probe |-> q.probe]
  <2>1. facts' = [facts EXCEPT ![w] = q.probe] /\ factEvents' = Append(factEvents, e)
    BY <1>5 DEF SaveFacts
  <2>2. e \in FactRecord /\ e.work = w /\ e.probe = q.probe
    BY <1>1 DEF FactRecord
  <2> HIDE DEF e
  <2>3. facts \in [Works -> Nat] /\ factEvents \in Seq(FactRecord) /\ FactsAnnouncedOnce /\ n \in Nat
    BY DEF FactsInv
  <2>4. facts' \in [Works -> Nat] /\ facts'[w] = q.probe /\ \A v \in Works \ {w} : facts'[v] = facts[v]
    BY <1>1, <2>1, <2>3
  <2>5. /\ factEvents' \in Seq(FactRecord) /\ Len(factEvents') = n + 1 /\ factEvents'[n + 1] = e
        /\ \A i \in 1..n : factEvents'[i] = factEvents[i]
    BY <2>1, <2>2, <2>3
  <2>6. ASSUME NEW v \in Works, v # w
        PROVE  {i \in 1..(n + 1) : factEvents'[i].work = v} = {i \in 1..n : factEvents[i].work = v}
    BY <2>2, <2>3, <2>5, <2>6
  <2>7. {i \in 1..(n + 1) : factEvents'[i].work = w} = {n + 1}
    <3>1. {i \in 1..n : factEvents[i].work = w} = {}
      BY <1>1, <1>5, <2>3 DEF FactsAnnouncedOnce, EventsOf
    <3>2. QED
      BY <2>2, <2>3, <2>5, <3>1
  <2>8. FactsAnnouncedOnce'
    <3> SUFFICES ASSUME NEW v \in Works
                 PROVE  IF facts'[v] = 0 THEN {i \in 1..(n + 1) : factEvents'[i].work = v} = {}
                        ELSE \E i \in 1..(n + 1) : /\ {j \in 1..(n + 1) : factEvents'[j].work = v} = {i}
                                                   /\ factEvents'[i].probe = facts'[v]
      BY <2>5 DEF FactsAnnouncedOnce, EventsOf
    <3>1. CASE v = w
      BY <1>1, <2>2, <2>3, <2>4, <2>5, <2>7, <3>1
    <3>2. CASE v # w /\ facts[v] = 0
      BY <2>3, <2>4, <2>6, <3>2 DEF FactsAnnouncedOnce, EventsOf
    <3>3. CASE v # w /\ facts[v] # 0
      <4>1. PICK i \in 1..n : {j \in 1..n : factEvents[j].work = v} = {i} /\ factEvents[i].probe = facts[v]
        BY <2>3, <3>3 DEF FactsAnnouncedOnce, EventsOf
      <4>2. i \in 1..(n + 1) /\ factEvents'[i].probe = facts'[v] /\ facts'[v] # 0
        BY <2>3, <2>4, <2>5, <3>3, <4>1
      <4>3. {j \in 1..(n + 1) : factEvents'[j].work = v} = {i}
        BY <2>6, <3>3, <4>1
      <4>4. QED
        BY <4>2, <4>3
    <3>4. QED
      BY <3>1, <3>2, <3>3
  <2>9. delivery' \in [Deliveries -> DeliveryRecord] /\ \A o \in Deliveries : DeliveryKnows(delivery'[o])
    BY <1>2, <1>3, DeliveryFields DEF FactsInv
  <2>10. \A o \in Deliveries : DeliveryKnows(delivery[o])'
    BY <2>9 DEF DeliveryKnows
  <2>11. ended' \subseteq Works /\ CommittedHasFacts'
    BY <1>1, <1>2, <2>4 DEF FactsInv, CommittedHasFacts
  <2>12. QED
    BY <1>2, <2>4, <2>5, <2>8, <2>9, <2>10, <2>11 DEF FactsInv
<1>6. QED
  BY <1>4, <1>5

\* Every step of the two workers keeps the invariant.
LEMMA FactsKeep ==
  ASSUME FactsInv, [FactsNext]_factsVars
  PROVE  FactsInv'
<1>1. ASSUME NEW d \in Deliveries, NEW u \in Masters, MetadataRecord(d, u) \/ FeaturesRecord(d, u) PROVE FactsInv'
  <2>1. PICK worker \in FactWorkers : delivery' = [delivery EXCEPT ![d] = [NoDelivery EXCEPT !.pc = "exists", !.work = <<worker, u>>]]
    BY <1>1 DEF MetadataRecord, FeaturesRecord, FactStep, FactWorkers
  <2> DEFINE new == [NoDelivery EXCEPT !.pc = "exists", !.work = <<worker, u>>]
  <2>2. <<worker, u>> \in Works
    BY DEF Works
  <2>3. new \in DeliveryRecord /\ new.pc = "exists" /\ new.work \in Works
    BY <2>2, DeliveryFields DEF DeliveryRecord
  <2> HIDE DEF new
  <2>4. DeliveryKnows(new)
    BY <2>3 DEF DeliveryKnows
  <2>5. facts' = facts /\ factEvents' = factEvents /\ measured' \in Nat /\ ended' = ended /\ cut' = cut /\ deadFacts' = deadFacts
    BY <1>1 DEF MetadataRecord, FeaturesRecord, FactsInv
  <2>6. QED
    BY <2>1, <2>3, <2>4, <2>5, DeliveryMoves DEF new
<1>2. ASSUME NEW d \in Deliveries, CheckStored(d) \/ SourceURL(d) \/ Probe(d) \/ Analyze(d) \/ Undecodable(d)
                              \/ HandleFails(d) \/ DeadLetterFacts(d)
      PROVE  FactsInv'
  <2> DEFINE q == delivery[d]
  <2>1. q \in DeliveryRecord /\ DeliveryKnows(q) /\ q.pc # "idle" /\ measured \in Nat
    BY <1>2 DEF FactsInv, CheckStored, SourceURL, Probe, Analyze, Measure, Undecodable, HandleFails, DeadLetterFacts, Commit, FactStep
  <2>2. q.work \in Works
    BY <2>1 DEF DeliveryKnows
  <2>3. facts' = facts /\ factEvents' = factEvents
    BY <1>2 DEF CheckStored, SourceURL, Probe, Analyze, Measure, Undecodable, HandleFails, DeadLetterFacts, Commit, FactStep
  <2>4. measured' \in Nat /\ cut \subseteq cut' /\ deadFacts \subseteq deadFacts'
    BY <1>2, <2>1 DEF CheckStored, SourceURL, Probe, Analyze, Measure, Undecodable, HandleFails, DeadLetterFacts, Commit, FactStep
  <2>5. DeliveryKnows(NoDelivery)
    BY DeliveryFields DEF DeliveryKnows
  <2>6. ASSUME delivery' = [delivery EXCEPT ![d] = NoDelivery],
               \/ ended' = ended
               \/ /\ ended' = ended \cup {q.work}
                  /\ MasterKind[q.work[2]] = "audio" => facts[q.work] # 0 \/ q.work \in cut' \cup deadFacts'
        PROVE  FactsInv'
    BY <2>2, <2>3, <2>4, <2>5, <2>6, DeliveryFields, DeliveryMoves
  <2>7. ASSUME NEW pc \in {"source", "probe"}, delivery' = [delivery EXCEPT ![d] = [q EXCEPT !.pc = pc]], ended' = ended
        PROVE  FactsInv'
    <3> DEFINE new == [q EXCEPT !.pc = pc]
    <3>1. new \in DeliveryRecord /\ new.pc = pc /\ new.work = q.work
      <4>1. pc \in DeliveryPcs
        BY DeliveryFields
      <4>2. QED
        BY <2>1, <4>1 DEF DeliveryRecord
    <3>2. delivery' = [delivery EXCEPT ![d] = new]
      BY <2>7
    <3> HIDE DEF new
    <3>3. DeliveryKnows(new)
      BY <2>2, <3>1 DEF DeliveryKnows
    <3>4. QED
      BY <2>3, <2>4, <2>7, <3>1, <3>2, <3>3, DeliveryMoves
  <2>8. CASE CheckStored(d)
    <3>1. CASE MetadataExists(q.work) \/ FeaturesExist(q.work)
      BY <2>6, <2>8, <3>1 DEF CheckStored, Commit, FactStep, MetadataExists, FeaturesExist
    <3>2. CASE ~(MetadataExists(q.work) \/ FeaturesExist(q.work))
      BY <2>7, <2>8, <3>2 DEF CheckStored, FactStep, At
    <3>3. QED
      BY <3>1, <3>2
  <2>9. CASE SourceURL(d)
    <3>1. CASE MasterKind[q.work[2]] = "missing"
      BY <2>6, <2>9, <3>1 DEF SourceURL, Commit, FactStep
    <3>2. CASE MasterKind[q.work[2]] # "missing"
      BY <2>7, <2>9, <3>2 DEF SourceURL, FactStep, At
    <3>3. QED
      BY <3>1, <3>2
  <2>10. CASE Probe(d) \/ Analyze(d)
    <3> DEFINE saving == [q EXCEPT !.pc = "save"]
               n == measured + 1
               new == [saving EXCEPT !.probe = n]
    <3>1. delivery' = [delivery EXCEPT ![d] = new] /\ ended' = ended
      BY <2>10 DEF Probe, Analyze, Measure, FactStep, At
    <3>2. new \in DeliveryRecord /\ new.pc = "save" /\ new.work = q.work /\ new.probe = measured + 1
      <4>1. saving \in DeliveryRecord /\ saving.pc = "save" /\ saving.work = q.work
        BY <2>1, DeliveryFields DEF DeliveryRecord
      <4>2. n \in Nat
        BY <2>1
      <4> HIDE DEF saving, n
      <4>3. new \in DeliveryRecord /\ new.pc = saving.pc /\ new.work = saving.work /\ new.probe = n
        BY <4>1, <4>2 DEF DeliveryRecord
      <4>4. QED
        BY <4>1, <4>3 DEF n
    <3> HIDE DEF new
    <3>3. DeliveryKnows(new)
      BY <2>1, <2>2, <3>2 DEF DeliveryKnows
    <3>4. QED
      BY <2>3, <2>4, <3>1, <3>2, <3>3, DeliveryMoves
  <2>11. CASE Undecodable(d)
    BY <2>6, <2>11 DEF Undecodable, Commit, FactStep, OfGoodMaster
  <2>12. CASE HandleFails(d)
    BY <2>6, <2>12 DEF HandleFails, FactStep
  <2>13. CASE DeadLetterFacts(d)
    BY <2>6, <2>13 DEF DeadLetterFacts, Commit, FactStep, OfGoodMaster
  <2>14. QED
    BY <1>2, <2>8, <2>9, <2>10, <2>11, <2>12, <2>13
<1>3. ASSUME NEW d \in Deliveries, SaveMetadata(d) \/ SaveAnalysis(d) PROVE FactsInv'
  BY <1>3, SaveKeepsFacts DEF SaveMetadata, SaveAnalysis
<1>4. CASE UNCHANGED factsVars
  BY <1>4 DEF factsVars, FactsInv, DeliveryKnows, FactsAnnouncedOnce, EventsOf, CommittedHasFacts
<1>5. QED
  BY <1>1, <1>2, <1>3, <1>4 DEF FactsNext, MetadataHandle, FeaturesHandle

\* Whatever deliveries of one master overlap, repeat or die, its facts are
\* announced once, as they are stored, and its record is committed only when
\* they are, when it has none, when storage cut the reading short or when the
\* record was dead-lettered.
THEOREM FactsAreExact == FactsSpec => []FactsExact
<1>1. FactsInit => FactsInv
  <2> SUFFICES ASSUME FactsInit PROVE FactsInv
    OBVIOUS
  <2>1. DeliveryKnows(NoDelivery)
    BY DeliveryFields DEF DeliveryKnows
  <2>2. delivery \in [Deliveries -> DeliveryRecord] /\ \A d \in Deliveries : DeliveryKnows(delivery[d])
    BY <2>1, DeliveryFields DEF FactsInit
  <2>3. factEvents \in Seq(FactRecord) /\ Len(factEvents) = 0 /\ facts \in [Works -> Nat]
        /\ \A w \in Works : facts[w] = 0
    BY DEF FactsInit
  <2>4. FactsAnnouncedOnce
    BY <2>3 DEF FactsAnnouncedOnce, EventsOf
  <2>5. QED
    BY <2>2, <2>3, <2>4 DEF FactsInit, FactsInv, CommittedHasFacts
<1>2. FactsInv /\ [FactsNext]_factsVars => FactsInv'
  BY FactsKeep
<1>3. FactsInv => FactsExact
  BY DEF FactsInv, FactsExact
<1>4. QED
  BY <1>1, <1>2, <1>3, PTL DEF FactsSpec
=============================================================================
