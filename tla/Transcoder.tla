----------------------------- MODULE Transcoder -----------------------------
(***************************************************************************)
(* The transcoder worker: it reads track.uploaded, writes one variant per  *)
(* quality over the previous one, and announces the result on the topic it *)
(* reads.  It has no database: the provenance stored with each variant is  *)
(* what makes a job idempotent, and it is read well before the writes.     *)
(***************************************************************************)
EXTENDS MediaEvents

CONSTANTS Workers,
          Qualities,      \* media.Qualities are 1..Qualities, lowest first
          JobRetries,     \* CONSUMER_MAX_RETRIES
          MaxJobFaults,   \* bound: failed calls, deaths
          MaxRebalances   \* bound: times the partition changes hands

Provenance == [upload : Uploads, at : Nat]

ASSUME TranscoderAssumption ==
  /\ Qualities \in Nat \ {0}
  /\ JobRetries \in Nat
  /\ MaxJobFaults \in Nat
  /\ MaxRebalances \in Nat
  /\ None \notin Workers \cup Provenance

VARIABLES jobs,      \* the consumer group `transcoder'
          job,       \* where each worker is in Handle
          variant,   \* provenance of the stored variants
          dlq,       \* media.events.dlq: positions of the records given up
          jobFaults,
          rebalances

transcoderVars == <<jobs, job, variant, dlq, jobFaults, rebalances>>

TranscoderTypeOK ==
  /\ jobs \in Group(Workers)
  /\ job \in [Workers -> [pc : {"start", "encode", "put", "announce", "fail"},
                          q : 1..Qualities, tries : 0..JobRetries]]
  /\ variant \in [1..Qualities -> Provenance \cup {None}]
  /\ dlq \in SUBSET Nat
  /\ jobFaults \in 0..MaxJobFaults
  /\ rebalances \in 0..MaxRebalances

NewJob == [pc |-> "start", q |-> 1, tries |-> 0]

TranscoderInit ==
  /\ jobs = NewGroup(Workers)
  /\ job = [w \in Workers |-> NewJob]
  /\ variant = [q \in 1..Qualities |-> None]
  /\ dlq = {}
  /\ jobFaults = 0
  /\ rebalances = 0

Job(w) == topic[jobs.next[w]]
IsJob(w) == Job(w).type = "track.uploaded"
AtJob(w, pc) == Working(jobs, w) /\ IsJob(w) /\ job[w].pc = pc
GotoJob(w, pc) == job' = [job EXCEPT ![w].pc = pc]
EndJob(w) == jobs' \in Settles(jobs, w) /\ job' = [job EXCEPT ![w] = NewJob]
JobFault == jobFaults < MaxJobFaults /\ jobFaults' = jobFaults + 1

FetchJobs(w) ==
  /\ jobs' \in Fetches(jobs, w)
  /\ UNCHANGED <<job, variant, dlq, jobFaults, rebalances, topic, object>>

\* Handler: the topic also carries events that are not jobs.
SkipEvent(w) ==
  /\ Working(jobs, w) /\ ~IsJob(w)
  /\ EndJob(w)
  /\ UNCHANGED <<variant, dlq, jobFaults, rebalances, topic, object>>

\* existing and alreadyHandled.
Newer(e) == \E q \in 1..Qualities : variant[q] # None /\ variant[q].at > e.at
\* Mutant of SameMaster: one variant of the master is enough.
SomeVariant(e) ==
  \E q \in 1..Qualities : variant[q] # None /\ Digest[variant[q].upload] = Digest[e.upload]

SameMaster(e) ==
  \A q \in 1..Qualities : variant[q] # None /\ Digest[variant[q].upload] = Digest[e.upload]

\* existing reads the variants one by one.  One read stands for them: variants are
\* never removed, and while no partition changes hands one worker writes them.
DropStale(w) ==
  /\ AtJob(w, "start")
  /\ Newer(Job(w))
  /\ EndJob(w)
  /\ UNCHANGED <<variant, dlq, jobFaults, rebalances, topic, object>>

CheckExisting(w) ==
  /\ AtJob(w, "start")
  /\ ~Newer(Job(w))
  /\ GotoJob(w, IF SameMaster(Job(w)) THEN "announce" ELSE "encode")
  /\ UNCHANGED <<jobs, variant, dlq, jobFaults, rebalances, topic, object>>

\* Download, Probe and Encode.
Encode(w) ==
  LET u == Job(w).upload IN
  /\ AtJob(w, "encode")
  /\ GotoJob(w, IF object[u] = "stored" /\ Content[u] = "audio" THEN "put" ELSE "fail")
  /\ UNCHANGED <<jobs, variant, dlq, jobFaults, rebalances, topic, object>>

\* Mutant of PutVariant: the first variant is announced already.
PutFirstVariant(w) ==
  /\ AtJob(w, "put")
  /\ variant' = [variant EXCEPT ![job[w].q] = [upload |-> Job(w).upload, at |-> Job(w).at]]
  /\ GotoJob(w, "announce")
  /\ UNCHANGED <<jobs, dlq, jobFaults, rebalances, topic, object>>

\* PutVariant of the next quality.
PutVariant(w) ==
  LET q == job[w].q IN
  /\ AtJob(w, "put")
  /\ variant' = [variant EXCEPT ![q] = [upload |-> Job(w).upload, at |-> Job(w).at]]
  /\ job' = [job EXCEPT ![w] = IF q = Qualities THEN [@ EXCEPT !.pc = "announce"]
                                                ELSE [@ EXCEPT !.q = q + 1]]
  /\ UNCHANGED <<jobs, dlq, jobFaults, rebalances, topic, object>>

Announcement(w) ==
  [type |-> IF job[w].pc = "announce" THEN "track.transcoded" ELSE "media.transcode.failed",
   upload |-> Job(w).upload, at |-> Job(w).at]

\* pub.Transcoded or pub.Failed, and Handle returns.
Announce(w) ==
  /\ AtJob(w, "announce") \/ AtJob(w, "fail")
  /\ Publish(Announcement(w))
  /\ EndJob(w)
  /\ UNCHANGED <<variant, dlq, jobFaults, rebalances, object>>

\* Consumer.process after an error: run the handler again, or give the record up.
AfterError(w) ==
  \/ /\ job[w].tries < JobRetries
     /\ job' = [job EXCEPT ![w] = [NewJob EXCEPT !.tries = job[w].tries + 1]]
     /\ UNCHANGED <<jobs, dlq>>
  \/ /\ job[w].tries = JobRetries
     /\ dlq' = dlq \cup {jobs.next[w]}
     /\ EndJob(w)

\* A call failed, or the job timed out, before it took effect ...
JobError(w) ==
  /\ Working(jobs, w) /\ IsJob(w)
  /\ JobFault
  /\ AfterError(w)
  /\ UNCHANGED <<variant, rebalances, topic, object>>

\* ... or the broker took the event and the producer did not learn of it.
AnnounceUnsure(w) ==
  /\ AtJob(w, "announce") \/ AtJob(w, "fail")
  /\ JobFault
  /\ Publish(Announcement(w))
  /\ AfterError(w)
  /\ UNCHANGED <<variant, rebalances, object>>

KillWorker(w) ==
  /\ JobFault
  /\ Working(jobs, w)
  /\ jobs' = Killed(jobs, w)
  /\ job' = [job EXCEPT ![w] = NewJob]
  /\ UNCHANGED <<variant, dlq, rebalances, topic, object>>

\* The first assignment and the one after a death are part of the protocol; a
\* partition taken from a live worker is a disturbance.
AssignJobs(w) ==
  /\ jobs.owner # w
  /\ \/ jobs.owner = None /\ UNCHANGED rebalances
     \/ jobs.owner # None /\ rebalances < MaxRebalances /\ rebalances' = rebalances + 1
  /\ jobs' = Rebalanced(jobs, w)
  /\ UNCHANGED <<job, variant, dlq, jobFaults, topic, object>>

WorkerStep(w) ==
  \/ FetchJobs(w) \/ SkipEvent(w) \/ DropStale(w) \/ CheckExisting(w) \/ Encode(w)
  \/ PutVariant(w) \/ Announce(w)

TranscoderNext ==
  \E w \in Workers : \/ WorkerStep(w) \/ JobError(w) \/ AnnounceUnsure(w)
                     \/ KillWorker(w) \/ AssignJobs(w)

\* A worker keeps working, and the group coordinator assigns a free partition.
TranscoderFairness ==
  \A w \in Workers :
    /\ WF_<<transcoderVars, topic>>(WorkerStep(w))
    /\ WF_<<transcoderVars, topic>>(jobs.owner = None /\ AssignJobs(w))

-----------------------------------------------------------------------------
(* Properties *)

\* TypeTrackTranscoded: "every audio variant of the track is stored" whenever
\* track.transcoded is on the topic, after retries, deaths and lost partitions.
TranscodedIsStored ==
  (\E i \in DOMAIN topic : topic[i].type = "track.transcoded")
    => \A q \in 1..Qualities : variant[q] # None

\* publisher.go: the offset of a job is committed only after its outcome is
\* announced, unless the job is in the DLQ or a newer master supersedes it: also
\* when the worker died, retried or lost the partition in between.
JobAnnounced ==
  \A i \in DOMAIN topic :
    /\ i <= jobs.committed
    /\ topic[i].type = "track.uploaded"
    /\ i \notin dlq
    => \E k \in DOMAIN topic :
         \/ /\ topic[k].upload = topic[i].upload
            /\ topic[k].type \in {"track.transcoded", "media.transcode.failed"}
         \/ topic[k].type = "track.uploaded" /\ topic[k].at > topic[i].at

MasterOf(q) == IF variant[q] = None THEN None ELSE Digest[variant[q].upload]

\* While no partition is taken from a live worker and nothing is given up, the
\* variants left when every job is done come from one master: no retry, death or
\* redelivery leaves a mixture.  A master is its SHA-256: the variants may name
\* two uploads of the same bytes.
OneMaster ==
  /\ dlq = {} /\ rebalances = 0
  /\ \A w \in Workers : ~Working(jobs, w)
  /\ \A i \in DOMAIN topic : i > jobs.committed => topic[i].type # "track.uploaded"
  => \A p, q \in 1..Qualities : MasterOf(p) = MasterOf(q)

Older == \E q \in 1..Qualities :
  variant[q] # None /\ (variant'[q] = None \/ variant'[q].at < variant[q].at)

\* Handle: "a stale one (older than what is stored) is dropped", so what is stored
\* never goes back to an older master.  The provenance is read before the encoding
\* and not again before the writes.
NeverOlder == [][~Older]_transcoderVars

\* What the code does guarantee: it takes a worker that lost its partition while it
\* was encoding, and no redelivery, retry or death alone, to go back.
OlderOnlyAfterRebalance == [][Older => rebalances > 0]_transcoderVars

\* The variants of a track are complete when they are announced, announced
\* before the job is committed, and of one master, which only a worker that
\* lost its partition can replace by an older one.
VariantsSound == [](TranscodedIsStored /\ JobAnnounced /\ OneMaster) /\ OlderOnlyAfterRebalance
=============================================================================
