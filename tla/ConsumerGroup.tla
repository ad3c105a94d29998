---------------------------- MODULE ConsumerGroup ----------------------------
(***************************************************************************)
(* What the consumers of libs/platform/kafka share: the members of one     *)
(* consumer group, the partition they compete for, its committed offset,   *)
(* and the processes that run them.  Offsets are 1..LogEnd; committed = n  *)
(* says that records 1..n need not be delivered again.                     *)
(*                                                                         *)
(* The client does not block rebalances while records are processed        *)
(* (NewConsumer), so a member may go on with records of a partition it has *)
(* lost, and its commit may still be accepted.                             *)
(***************************************************************************)
EXTENDS Integers, FiniteSets

CONSTANTS Members,        \* group members: one consumer in each process
          LogEnd,         \* records in the partition
          Poison,         \* records no handler or decoder accepts
          MaxRetries,     \* ConsumerConfig.MaxRetries
          RestartOnStop,  \* does the process exit when Run gives up?
          MaxFaults,      \* bound: crashes, rebalances, failed calls
          None

ASSUME GroupAssumption ==
  /\ LogEnd \in Nat
  /\ Poison \subseteq 1..LogEnd
  /\ MaxRetries \in Nat
  /\ RestartOnStop \in BOOLEAN
  /\ MaxFaults \in Nat
  /\ None \notin Members

VARIABLES DLQ,        \* ConsumerConfig.DLQ, the same for all and never changed
          owner,      \* the member the partition is assigned to
          committed,  \* the group's committed offset
          phase,      \* where each member is in Run
          pos,        \* the client's fetch position
          attempt,    \* retries made on the record (or batch) at hand
          cancelled,  \* the context of Run is cancelled
          handled,    \* records whose effect is stored
          dlq,        \* records in <topic>.dlq
          faults      \* failures so far

groupVars == <<owner, committed, phase, pos, attempt, cancelled, handled, dlq, faults>>

Offsets == 1..LogEnd
Running == {"polling", "collecting", "handling", "deadletter", "flushing", "committing"}

GroupTypeOK ==
  /\ DLQ \in BOOLEAN
  /\ owner \in Members \cup {None}
  /\ committed \in 0..LogEnd
  /\ phase \in [Members -> Running \cup {"down", "dead"}]
  /\ pos \in [Members -> 0..LogEnd]
  /\ attempt \in [Members -> 0..MaxRetries]
  /\ cancelled \in [Members -> BOOLEAN]
  /\ handled \in SUBSET Offsets
  /\ dlq \in SUBSET Offsets
  /\ faults \in 0..MaxFaults

GroupInit ==
  /\ DLQ \in BOOLEAN
  /\ owner = None
  /\ committed = 0
  /\ phase = [m \in Members |-> "polling"]
  /\ pos = [m \in Members |-> 0]
  /\ attempt = [m \in Members |-> 0]
  /\ cancelled = [m \in Members |-> FALSE]
  /\ handled = {}
  /\ dlq = {}
  /\ faults = 0

Fault == faults < MaxFaults /\ faults' = faults + 1
NoFault == UNCHANGED faults

\* A call that takes a context fails when it is cancelled, or by a fault.
CallFails(m) == (cancelled[m] /\ NoFault) \/ Fault

ReleaseOwner(m) == owner' = IF owner = m THEN None ELSE owner

-----------------------------------------------------------------------------
(* The broker's group coordinator *)

\* A running member gets the partition and fetches from the committed offset
\* (from the start of the log when nothing is committed).
Assign(m) ==
  /\ owner = None
  /\ phase[m] \in Running
  /\ owner' = m
  /\ pos' = [pos EXCEPT ![m] = committed]
  /\ UNCHANGED <<committed, phase, attempt, cancelled, handled, dlq, faults>>

\* A rebalance takes the partition away at any moment.
Revoke(m) ==
  /\ owner = m
  /\ Fault
  /\ owner' = None
  /\ UNCHANGED <<committed, phase, pos, attempt, cancelled, handled, dlq>>

\* CommitRecords up to n: accepted, or lost.  A member that no longer owns
\* the partition may be refused or not.
CommitOffset(m, n) ==
  \/ committed' = n /\ NoFault
  \/ committed' = committed /\ (Fault \/ (owner # m /\ NoFault))

-----------------------------------------------------------------------------
(* Processes *)

Crash(m) ==
  /\ phase[m] \in Running
  /\ Fault
  /\ ReleaseOwner(m)
  /\ phase' = [phase EXCEPT ![m] = "down"]
  /\ UNCHANGED <<committed, pos, attempt, cancelled, handled, dlq>>

\* SIGTERM cancels the context Run was given.
Cancel(m) ==
  /\ phase[m] \in Running
  /\ ~ cancelled[m]
  /\ Fault
  /\ cancelled' = [cancelled EXCEPT ![m] = TRUE]
  /\ UNCHANGED <<owner, committed, phase, pos, attempt, handled, dlq>>

\* Mutant of Restart: no process whose Run ended is started again.
RestartDownOnly(m) ==
  /\ phase[m] = "down"
  /\ phase' = [phase EXCEPT ![m] = "polling"]
  /\ attempt' = [attempt EXCEPT ![m] = 0]
  /\ cancelled' = [cancelled EXCEPT ![m] = FALSE]
  /\ UNCHANGED <<owner, committed, pos, handled, dlq, faults>>

\* The orchestrator starts an exited process again.  When Run has given up,
\* the process exits only if its main says so: analytics cancels itself, all
\* others read consumerDone only while shutting down.
Restart(m) ==
  /\ phase[m] = "down" \/ (phase[m] = "dead" /\ (cancelled[m] \/ RestartOnStop))
  /\ phase' = [phase EXCEPT ![m] = "polling"]
  /\ attempt' = [attempt EXCEPT ![m] = 0]
  /\ cancelled' = [cancelled EXCEPT ![m] = FALSE]
  /\ UNCHANGED <<owner, committed, pos, handled, dlq, faults>>

\* Run returns; Close leaves the group.
Leave(m) ==
  /\ phase' = [phase EXCEPT ![m] = "dead"]
  /\ ReleaseOwner(m)

\* PollFetches returned because of the cancellation.
PollCancelled(m) ==
  /\ phase[m] \in {"polling", "collecting"}
  /\ cancelled[m]
  /\ Leave(m)
  /\ UNCHANGED <<committed, pos, attempt, cancelled, handled, dlq, faults>>

GroupStep(m) == Assign(m) \/ PollCancelled(m)
Disturb(m) == Revoke(m) \/ Crash(m) \/ Cancel(m)

-----------------------------------------------------------------------------
(* Properties of both consumers *)

Settled == handled \cup dlq

\* At least once (event-driven.md): an offset is committed only when every
\* record up to it has been handled or dead-lettered, also when a member that
\* lost the partition commits late, or rewinds what its successor committed.
CommitCovers == 1..committed \subseteq Settled

\* No record is skipped: when one is settled, all before it are.
SettledInOrder == \A o \in Settled : 1..o \subseteq Settled

\* Without a DLQ a record that cannot be handled holds back all behind it.
PoisonBlocks == ~ DLQ => \A o \in Settled, p \in Poison : o < p

\* event-driven.md: delivery is "at least once".  With a DLQ every record is
\* eventually handled or dead-lettered, once failures cease.  Refuted where a
\* process lives on without its consumer.
EveryRecordSettled == <>(DLQ => Settled = Offsets)

\* What holds with every main: records stay unsettled only if the Run of every
\* member of the group has given up; one member is enough to settle them all.
SettledUnlessAllGaveUp ==
  <>(DLQ => Settled = Offsets \/ \A m \in Members : phase[m] = "dead" /\ ~ cancelled[m])
=============================================================================
