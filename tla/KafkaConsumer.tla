---------------------------- MODULE KafkaConsumer ----------------------------
(***************************************************************************)
(* libs/platform/kafka Consumer: poll, handle the records one by one with  *)
(* retries, dead-letter what cannot be handled, commit what was handled.   *)
(***************************************************************************)
EXTENDS ConsumerGroup

VARIABLES first,     \* the polled records first..last,
          last,
          cur,       \*   and the one being processed
          stopping   \* stopErr # nil

runVars == <<first, last, cur, stopping>>
steps == <<groupVars, runVars>>
vars == <<DLQ, steps>>

TypeOK ==
  /\ GroupTypeOK
  /\ first \in [Members -> 1..(LogEnd + 1)]
  /\ last \in [Members -> 0..LogEnd]
  /\ cur \in [Members -> 1..(LogEnd + 1)]
  /\ stopping \in [Members -> BOOLEAN]

Init ==
  /\ GroupInit
  /\ first = [m \in Members |-> 1]
  /\ last = [m \in Members |-> 0]
  /\ cur = [m \in Members |-> 1]
  /\ stopping = [m \in Members |-> FALSE]

\* PollFetches returns records from the client's position on.
Poll(m) ==
  /\ phase[m] = "polling"
  /\ ~ cancelled[m]
  /\ owner = m
  /\ \E n \in (pos[m] + 1)..LogEnd :
       /\ last' = [last EXCEPT ![m] = n]
       /\ pos' = [pos EXCEPT ![m] = n]
  /\ first' = [first EXCEPT ![m] = pos[m] + 1]
  /\ cur' = [cur EXCEPT ![m] = pos[m] + 1]
  /\ attempt' = [attempt EXCEPT ![m] = 0]
  /\ phase' = [phase EXCEPT ![m] = "handling"]
  /\ UNCHANGED <<owner, committed, cancelled, handled, dlq, faults, stopping>>

\* process returned nil: on to the next record, or to the commit.
Advance(m) ==
  /\ cur' = [cur EXCEPT ![m] = @ + 1]
  /\ attempt' = [attempt EXCEPT ![m] = 0]
  /\ phase' = [phase EXCEPT ![m] = IF cur[m] = last[m] THEN "committing" ELSE "handling"]
  /\ UNCHANGED stopping

\* process returned an error: the rest of the fetch is dropped.
Stop(m) ==
  /\ stopping' = [stopping EXCEPT ![m] = TRUE]
  /\ phase' = [phase EXCEPT ![m] = "committing"]
  /\ UNCHANGED <<cur, attempt>>

\* Mutant of GiveUp: without a DLQ the record is skipped.
GiveUpSkips(m) ==
  \/ ~ DLQ /\ Advance(m)
  \/ /\ DLQ
     /\ phase' = [phase EXCEPT ![m] = "deadletter"]
     /\ UNCHANGED <<cur, attempt, stopping>>

\* Out of attempts.
GiveUp(m) ==
  \/ ~ DLQ /\ Stop(m)
  \/ /\ DLQ
     /\ phase' = [phase EXCEPT ![m] = "deadletter"]
     /\ UNCHANGED <<cur, attempt, stopping>>

HandleOk(m) ==
  /\ phase[m] = "handling"
  /\ cur[m] \notin Poison
  /\ handled' = handled \cup {cur[m]}
  /\ Advance(m)
  /\ UNCHANGED <<owner, committed, pos, cancelled, dlq, faults, first, last>>

\* Mutant of HandleError: one attempt too many.
HandleErrorOnceMore(m) ==
  /\ phase[m] = "handling"
  /\ cur[m] \notin Poison
  /\ CallFails(m)
  /\ handled' \in {handled, handled \cup {cur[m]}}
  /\ \/ /\ attempt[m] <= MaxRetries
        /\ attempt' = [attempt EXCEPT ![m] = @ + 1]
        /\ UNCHANGED <<phase, cur, stopping>>
     \/ attempt[m] > MaxRetries /\ GiveUp(m)
  /\ UNCHANGED <<owner, committed, pos, cancelled, dlq, first, last>>

\* The handler returns an error; its effect may be stored all the same (an
\* answer lost after the commit).
HandleError(m) ==
  /\ phase[m] = "handling"
  /\ cur[m] \notin Poison
  /\ CallFails(m)
  /\ handled' \in {handled, handled \cup {cur[m]}}
  /\ \/ /\ attempt[m] < MaxRetries
        /\ attempt' = [attempt EXCEPT ![m] = @ + 1]
        /\ UNCHANGED <<phase, cur, stopping>>
     \/ attempt[m] = MaxRetries /\ GiveUp(m)
  /\ UNCHANGED <<owner, committed, pos, cancelled, dlq, first, last>>

\* An error wrapping ErrPermanent is not retried.
HandlePermanent(m) ==
  /\ phase[m] = "handling"
  /\ cur[m] \in Poison
  /\ GiveUp(m)
  /\ UNCHANGED <<owner, committed, pos, cancelled, handled, dlq, faults, first, last>>

\* Cancelled while waiting for the next attempt.
CancelledInBackoff(m) ==
  /\ phase[m] = "handling"
  /\ attempt[m] > 0
  /\ cancelled[m]
  /\ Stop(m)
  /\ UNCHANGED <<owner, committed, pos, cancelled, handled, dlq, faults, first, last>>

ToDLQ(m) ==
  /\ phase[m] = "deadletter"
  /\ dlq' = dlq \cup {cur[m]}
  /\ Advance(m)
  /\ UNCHANGED <<owner, committed, pos, cancelled, handled, faults, first, last>>

\* ProduceSync reports an error; the broker may have the record all the same.
ToDLQFails(m) ==
  /\ phase[m] = "deadletter"
  /\ CallFails(m)
  /\ dlq' \in {dlq, dlq \cup {cur[m]}}
  /\ Stop(m)
  /\ UNCHANGED <<owner, committed, pos, cancelled, handled, first, last>>

\* Mutant of CommitProcessed: the whole fetch is committed.
CommitFetched(m) ==
  /\ phase[m] = "committing"
  /\ CommitOffset(m, last[m])
  /\ IF stopping[m] THEN Leave(m)
                    ELSE phase' = [phase EXCEPT ![m] = "polling"] /\ UNCHANGED owner
  /\ UNCHANGED <<pos, attempt, cancelled, handled, dlq, runVars>>

\* The commit uses a context of its own; a failure is only logged.
CommitProcessed(m) ==
  /\ phase[m] = "committing"
  /\ IF cur[m] > first[m] THEN CommitOffset(m, cur[m] - 1)
                          ELSE UNCHANGED <<committed, faults>>
  /\ IF stopping[m] THEN Leave(m)
                    ELSE phase' = [phase EXCEPT ![m] = "polling"] /\ UNCHANGED owner
  /\ UNCHANGED <<pos, attempt, cancelled, handled, dlq, runVars>>

\* A new process starts with an empty fetch.
RestartRun(m) ==
  /\ Restart(m)
  /\ first' = [first EXCEPT ![m] = 1]
  /\ last' = [last EXCEPT ![m] = 0]
  /\ cur' = [cur EXCEPT ![m] = 1]
  /\ stopping' = [stopping EXCEPT ![m] = FALSE]

-----------------------------------------------------------------------------
RunStep(m) ==
  \/ Poll(m)
  \/ HandleOk(m) \/ HandlePermanent(m) \/ CancelledInBackoff(m)
  \/ ToDLQ(m)
  \/ CommitProcessed(m)

Environment(m) ==
  \/ RestartRun(m)
  \/ GroupStep(m) /\ UNCHANGED runVars

Next ==
  /\ \E m \in Members :
       \/ RunStep(m) \/ HandleError(m) \/ ToDLQFails(m)
       \/ Environment(m)
       \/ Disturb(m) /\ UNCHANGED runVars
  /\ UNCHANGED DLQ

\* Run loops, the coordinator assigns, the orchestrator restarts; handlers
\* and brokers that fail do so finitely often (MaxFaults).
Fairness == \A m \in Members : WF_steps(RunStep(m)) /\ WF_steps(Environment(m))

Safety == Init /\ [][Next]_vars
Spec == Safety /\ Fairness

=============================================================================
