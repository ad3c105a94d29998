---------------------------- MODULE BatchConsumer ----------------------------
(***************************************************************************)
(* libs/platform/kafka BatchConsumer (workers/analytics): collect a batch, *)
(* decode it, dead-letter the undecodable records, flush the rest in one   *)
(* write with retries, then commit.  Records are collected over several    *)
(* polls, between which the partition may be lost and won back.            *)
(***************************************************************************)
EXTENDS ConsumerGroup, FiniteSetsExt

CONSTANTS MaxRecords,  \* BatchConfig.MaxRecords
          Skipped      \* records the decoder drops with ErrSkip

ASSUME BatchAssumption ==
  MaxRecords \in Nat \ {0} /\ Skipped \subseteq Offsets \ Poison

VARIABLES recs,   \* the collected batch
          todo,   \* those of recs not decoded yet
          items   \* those decoded

runVars == <<recs, todo, items>>
steps == <<groupVars, runVars>>
vars == <<DLQ, steps>>

TypeOK ==
  /\ GroupTypeOK
  /\ recs \in [Members -> SUBSET Offsets]
  /\ todo \in [Members -> SUBSET Offsets]
  /\ items \in [Members -> SUBSET Offsets]

Init ==
  /\ GroupInit
  /\ recs = [m \in Members |-> {}]
  /\ todo = [m \in Members |-> {}]
  /\ items = [m \in Members |-> {}]

\* poll: some records from the client's position on, up to a full batch.
PollRecords(m, room) ==
  /\ owner = m
  /\ \E n \in (pos[m] + 1)..LogEnd :
       /\ n - pos[m] <= room
       /\ pos' = [pos EXCEPT ![m] = n]
       /\ recs' = [recs EXCEPT ![m] = @ \cup ((pos[m] + 1)..n)]

\* collect blocks for the first records, then polls until the batch is full
\* or Linger has passed.
Collect(m) ==
  /\ phase[m] \in {"polling", "collecting"}
  /\ ~ cancelled[m]
  /\ PollRecords(m, MaxRecords - Cardinality(recs[m]))
  /\ phase' = [phase EXCEPT ![m] = "collecting"]
  /\ UNCHANGED <<owner, committed, attempt, cancelled, handled, dlq, faults, todo, items>>

Lingered(m) ==
  /\ phase[m] = "collecting"
  /\ ~ cancelled[m]
  /\ phase' = [phase EXCEPT ![m] = "handling"]
  /\ todo' = [todo EXCEPT ![m] = recs[m]]
  /\ items' = [items EXCEPT ![m] = {}]
  /\ UNCHANGED <<owner, committed, pos, attempt, cancelled, handled, dlq, faults, recs>>

\* handle, the decoding loop: the next record is decoded, dropped or goes to
\* the DLQ; at the end the batch is flushed unless it is empty.
Decode(m) ==
  /\ phase[m] = "handling"
  /\ \/ /\ todo[m] # {}
        /\ LET o == Min(todo[m]) IN
             \/ /\ o \notin Poison
                /\ todo' = [todo EXCEPT ![m] = @ \ {o}]
                /\ items' = [items EXCEPT ![m] = @ \cup ({o} \ Skipped)]
                /\ UNCHANGED <<owner, phase>>
             \/ o \in Poison /\ DLQ /\ phase' = [phase EXCEPT ![m] = "deadletter"]
                  /\ UNCHANGED <<owner, todo, items>>
             \/ o \in Poison /\ ~ DLQ /\ Leave(m) /\ UNCHANGED <<todo, items>>
     \/ /\ todo[m] = {}
        /\ phase' = [phase EXCEPT ![m] = IF items[m] = {} THEN "committing" ELSE "flushing"]
        /\ UNCHANGED <<owner, todo, items>>
  /\ UNCHANGED <<committed, pos, attempt, cancelled, handled, dlq, faults, recs>>

ToDLQ(m) ==
  /\ phase[m] = "deadletter"
  /\ dlq' = dlq \cup {Min(todo[m])}
  /\ todo' = [todo EXCEPT ![m] = @ \ {Min(@)}]
  /\ phase' = [phase EXCEPT ![m] = "handling"]
  /\ UNCHANGED <<owner, committed, pos, attempt, cancelled, handled, faults, recs, items>>

ToDLQFails(m) ==
  /\ phase[m] = "deadletter"
  /\ CallFails(m)
  /\ dlq' \in {dlq, dlq \cup {Min(todo[m])}}
  /\ Leave(m)
  /\ UNCHANGED <<committed, pos, attempt, cancelled, handled, runVars>>

FlushOk(m) ==
  /\ phase[m] = "flushing"
  /\ handled' = handled \cup items[m]
  /\ phase' = [phase EXCEPT ![m] = "committing"]
  /\ attempt' = [attempt EXCEPT ![m] = 0]
  /\ UNCHANGED <<owner, committed, pos, cancelled, dlq, faults, runVars>>

\* Mutants of FlushError: one attempt too many; and a batch that could not be
\* written is committed all the same.
FlushErrorOnceMore(m) ==
  /\ phase[m] = "flushing"
  /\ CallFails(m)
  /\ handled' \in {handled, handled \cup items[m]}
  /\ \/ /\ attempt[m] <= MaxRetries
        /\ attempt' = [attempt EXCEPT ![m] = @ + 1]
        /\ UNCHANGED <<owner, phase>>
     \/ /\ attempt[m] > MaxRetries \/ cancelled[m]
        /\ Leave(m)
        /\ UNCHANGED attempt
  /\ UNCHANGED <<committed, pos, cancelled, dlq, runVars>>

FlushErrorCommits(m) ==
  /\ phase[m] = "flushing"
  /\ CallFails(m)
  /\ handled' \in {handled, handled \cup items[m]}
  /\ \/ /\ attempt[m] < MaxRetries
        /\ attempt' = [attempt EXCEPT ![m] = @ + 1]
        /\ UNCHANGED <<owner, phase>>
     \/ /\ attempt[m] = MaxRetries \/ cancelled[m]
        /\ phase' = [phase EXCEPT ![m] = "committing"]
        /\ UNCHANGED <<owner, attempt>>
  /\ UNCHANGED <<committed, pos, cancelled, dlq, runVars>>

\* The write may have reached the store although it reported an error.
FlushError(m) ==
  /\ phase[m] = "flushing"
  /\ CallFails(m)
  /\ handled' \in {handled, handled \cup items[m]}
  /\ \/ /\ attempt[m] < MaxRetries
        /\ attempt' = [attempt EXCEPT ![m] = @ + 1]
        /\ UNCHANGED <<owner, phase>>
     \/ /\ attempt[m] = MaxRetries \/ cancelled[m]
        /\ Leave(m)
        /\ UNCHANGED attempt
  /\ UNCHANGED <<committed, pos, cancelled, dlq, runVars>>

\* CommitRecords keeps the highest offset of the batch; a failure is only
\* logged, and the next batch starts empty.
CommitBatch(m) ==
  /\ phase[m] = "committing"
  /\ CommitOffset(m, Max(recs[m]))
  /\ phase' = [phase EXCEPT ![m] = "polling"]
  /\ recs' = [recs EXCEPT ![m] = {}]
  /\ items' = [items EXCEPT ![m] = {}]
  /\ UNCHANGED <<owner, pos, attempt, cancelled, handled, dlq, todo>>

RestartRun(m) ==
  /\ Restart(m)
  /\ recs' = [recs EXCEPT ![m] = {}]
  /\ todo' = [todo EXCEPT ![m] = {}]
  /\ items' = [items EXCEPT ![m] = {}]

-----------------------------------------------------------------------------
RunStep(m) ==
  \/ Lingered(m) \/ Decode(m) \/ ToDLQ(m) \/ FlushOk(m) \/ CommitBatch(m)

Environment(m) ==
  \/ RestartRun(m)
  \/ GroupStep(m) /\ UNCHANGED runVars

Next ==
  /\ \E m \in Members :
       \/ Collect(m) \/ RunStep(m) \/ ToDLQFails(m) \/ FlushError(m)
       \/ Environment(m)
       \/ Disturb(m) /\ UNCHANGED runVars
  /\ UNCHANGED DLQ

Fairness == \A m \in Members :
  WF_steps(Collect(m)) /\ WF_steps(RunStep(m)) /\ WF_steps(Environment(m))

Safety == Init /\ [][Next]_vars
Spec == Safety /\ Fairness

-----------------------------------------------------------------------------
\* Offsets are committed only after the batch is flushed (batch.go): every
\* record up to the committed offset is stored, dead-lettered or skipped,
\* even when the batch was collected over two assignments and has a hole
\* that another member filled.
BatchCommitCovers == 1..committed \subseteq Settled \cup Skipped

\* With a DLQ every record is eventually stored, dead-lettered or skipped: the
\* process that gave up is restarted until it is.
EveryRecordFlushed == <>(DLQ => Offsets \subseteq Settled \cup Skipped)
=============================================================================
