------------------------------- MODULE Outbox -------------------------------
(***************************************************************************)
(* The transactional outbox of libs/platform/outbox: service transactions  *)
(* insert event rows next to their state change, and one relay per service *)
(* replica moves committed rows to Kafka and deletes them.                 *)
(*                                                                         *)
(* An id is drawn from the identity column when the row is inserted, and   *)
(* the row becomes visible when its transaction commits: the two orders    *)
(* differ.  A relay's transaction owns a transaction-scoped advisory lock; *)
(* the lock goes with the database session, which may break while the      *)
(* relay is still producing to Kafka.                                      *)
(***************************************************************************)
EXTENDS Integers, Sequences, FiniteSets

CONSTANTS Txs,         \* service transactions (one use case execution each)
          Relays,      \* service replicas, one relay each
          Keys,        \* partition keys of the events (aggregate ids)
          LockedKeys,  \* keys whose use cases lock the aggregate's row first
          KeyOf,       \* KeyOf[t]: the aggregate transaction t changes
          Batch,       \* RelayConfig.Batch
          MaxIds,      \* bound: rows inserted in all
          MaxFaults,   \* bound: failures of broker, database or process
          None

ASSUME OutboxAssumption ==
  /\ LockedKeys \subseteq Keys
  /\ KeyOf \in [Txs -> Keys]
  /\ Batch \in Nat \ {0}
  /\ MaxIds \in Nat
  /\ MaxFaults \in Nat
  /\ None \notin Txs \cup Relays

VARIABLES txn,      \* state of each service transaction
          lock,     \* holder of each locked aggregate row
          nextId,   \* the identity sequence
          written,  \* history: every row ever inserted
          outbox,   \* rows in the table, uncommitted ones included
          topic,    \* Kafka: the log of each key
          leader,   \* the relay whose transaction holds the advisory lock
          phase,    \* where each relay is in RelayOnce
          batch,    \* the rows it selected
          sent,     \* those of them the broker has appended
          faults    \* failures so far

txVars    == <<txn, lock, nextId, written>>
relayVars == <<leader, phase, batch, sent>>
vars      == <<txVars, outbox, topic, relayVars, faults>>

Row == {[id |-> i, key |-> KeyOf[t], tx |-> t] : i \in 1..MaxIds, t \in Txs}

TypeOK ==
  /\ txn \in [Txs -> {"open", "committed", "rolledback"}]
  /\ lock \in [Keys -> Txs \cup {None}]
  /\ nextId \in 1..(MaxIds + 1)
  /\ written \in SUBSET Row
  /\ outbox \in SUBSET written
  /\ topic \in [Keys -> Seq(Row)]
  /\ leader \in Relays \cup {None}
  /\ phase \in [Relays -> {"idle", "locked", "publishing"}]
  /\ batch \in [Relays -> SUBSET Row]
  /\ sent \in [Relays -> SUBSET Row]
  /\ faults \in 0..MaxFaults

Init ==
  /\ txn = [t \in Txs |-> "open"]
  /\ lock = [k \in Keys |-> None]
  /\ nextId = 1
  /\ written = {}
  /\ outbox = {}
  /\ topic = [k \in Keys |-> <<>>]
  /\ leader = None
  /\ phase = [r \in Relays |-> "idle"]
  /\ batch = [r \in Relays |-> {}]
  /\ sent = [r \in Relays |-> {}]
  /\ faults = 0

-----------------------------------------------------------------------------
(* Service transactions *)

\* Mutant of LockRow: a plain SELECT, which waits for nobody.
SelectRow(t) ==
  /\ txn[t] = "open"
  /\ KeyOf[t] \in LockedKeys
  /\ lock' = [lock EXCEPT ![KeyOf[t]] = t]
  /\ UNCHANGED <<txn, nextId, written, outbox, topic, relayVars, faults>>

\* SELECT ... FOR UPDATE (or the aggregate's UPDATE) blocks until the row is free.
LockRow(t) ==
  /\ txn[t] = "open"
  /\ KeyOf[t] \in LockedKeys
  /\ lock[KeyOf[t]] = None
  /\ lock' = [lock EXCEPT ![KeyOf[t]] = t]
  /\ UNCHANGED <<txn, nextId, written, outbox, topic, relayVars, faults>>

\* Mutant of Write: the id is off by one.
WriteOffByOne(t) ==
  /\ txn[t] = "open"
  /\ KeyOf[t] \in LockedKeys => lock[KeyOf[t]] = t
  /\ nextId <= MaxIds
  /\ LET row == [id |-> nextId - 1, key |-> KeyOf[t], tx |-> t] IN
       /\ written' = written \cup {row}
       /\ outbox' = outbox \cup {row}
  /\ nextId' = nextId + 1
  /\ UNCHANGED <<txn, lock, topic, relayVars, faults>>

\* Sink.Publish inserts a row through the caller's transaction.
Write(t) ==
  /\ txn[t] = "open"
  /\ KeyOf[t] \in LockedKeys => lock[KeyOf[t]] = t
  /\ nextId <= MaxIds
  /\ LET row == [id |-> nextId, key |-> KeyOf[t], tx |-> t] IN
       /\ written' = written \cup {row}
       /\ outbox' = outbox \cup {row}
  /\ nextId' = nextId + 1
  /\ UNCHANGED <<txn, lock, topic, relayVars, faults>>

Unlock(t) == lock' = [k \in Keys |-> IF lock[k] = t THEN None ELSE lock[k]]

\* InTx: fn returned nil.
Commit(t) ==
  /\ txn[t] = "open"
  /\ txn' = [txn EXCEPT ![t] = "committed"]
  /\ Unlock(t)
  /\ UNCHANGED <<nextId, written, outbox, topic, relayVars, faults>>

\* InTx: fn or the commit failed, or the process died.
Rollback(t) ==
  /\ txn[t] = "open"
  /\ txn' = [txn EXCEPT ![t] = "rolledback"]
  /\ Unlock(t)
  /\ outbox' = {row \in outbox : row.tx # t}
  /\ UNCHANGED <<nextId, written, topic, relayVars, faults>>

-----------------------------------------------------------------------------
(* Relay.RelayOnce *)

Visible == {row \in outbox : txn[row.tx] = "committed"}

\* ORDER BY id LIMIT Batch.
FirstRows(S) == {x \in S : Cardinality({y \in S : y.id < x.id}) < Batch}

\* The end of a relay's transaction: the advisory lock goes with it.
EndRelayTx(r) ==
  /\ leader' = IF leader = r THEN None ELSE leader
  /\ phase' = [phase EXCEPT ![r] = "idle"]
  /\ batch' = [batch EXCEPT ![r] = {}]
  /\ sent' = [sent EXCEPT ![r] = {}]

\* pg_try_advisory_xact_lock; another holder makes RelayOnce a no-op.
TryLock(r) ==
  /\ phase[r] = "idle"
  /\ leader = None
  /\ leader' = r
  /\ phase' = [phase EXCEPT ![r] = "locked"]
  /\ UNCHANGED <<txVars, outbox, topic, batch, sent, faults>>

\* pending: nothing to send ends the transaction at once.
Pending(r) ==
  /\ phase[r] = "locked"
  /\ leader = r
  /\ \/ /\ Visible = {}
        /\ EndRelayTx(r)
     \/ /\ Visible # {}
        /\ phase' = [phase EXCEPT ![r] = "publishing"]
        /\ batch' = [batch EXCEPT ![r] = FirstRows(Visible)]
        /\ UNCHANGED <<leader, sent>>
  /\ UNCHANGED <<txVars, outbox, topic, faults>>

\* Mutant of Produce: several requests in flight per partition, in any order.
ProduceUnordered(r, row) ==
  /\ phase[r] = "publishing"
  /\ row \in batch[r] \ sent[r]
  /\ topic' = [topic EXCEPT ![row.key] = Append(@, row)]
  /\ sent' = [sent EXCEPT ![r] = @ \cup {row}]
  /\ UNCHANGED <<txVars, outbox, leader, phase, batch, faults>>

\* The broker appends one record of the batch: in order within a key's
\* partition, in any order between partitions.
Produce(r, row) ==
  /\ phase[r] = "publishing"
  /\ row \in batch[r] \ sent[r]
  /\ \A x \in batch[r] : x.key = row.key /\ x.id < row.id => x \in sent[r]
  /\ topic' = [topic EXCEPT ![row.key] = Append(@, row)]
  /\ sent' = [sent EXCEPT ![r] = @ \cup {row}]
  /\ UNCHANGED <<txVars, outbox, leader, phase, batch, faults>>

\* Publish returned nil: DELETE the batch and commit.
DeleteSent(r) ==
  /\ phase[r] = "publishing"
  /\ sent[r] = batch[r]
  /\ leader = r
  /\ outbox' = outbox \ batch[r]
  /\ EndRelayTx(r)
  /\ UNCHANGED <<txVars, topic, faults>>

\* The statement after a broken session fails and RelayOnce returns its error.
SessionGone(r) ==
  /\ leader # r
  /\ \/ phase[r] = "locked"
     \/ phase[r] = "publishing" /\ sent[r] = batch[r]
  /\ EndRelayTx(r)
  /\ UNCHANGED <<txVars, outbox, topic, faults>>

\* Publish, DELETE or COMMIT fails, or the process dies: rollback.
Abort(r) ==
  /\ phase[r] # "idle"
  /\ faults < MaxFaults
  /\ faults' = faults + 1
  /\ EndRelayTx(r)
  /\ UNCHANGED <<txVars, outbox, topic>>

\* The database drops the relay's session; the relay has yet to notice.
LoseSession(r) ==
  /\ leader = r
  /\ faults < MaxFaults
  /\ faults' = faults + 1
  /\ leader' = None
  /\ UNCHANGED <<txVars, outbox, topic, phase, batch, sent>>

-----------------------------------------------------------------------------
TxStep(t) == LockRow(t) \/ Write(t) \/ Commit(t) \/ Rollback(t)

\* Relay.Run repeats RelayOnce for ever.
RelayStep(r) ==
  \/ TryLock(r)
  \/ Pending(r)
  \/ \E row \in batch[r] : Produce(r, row)
  \/ DeleteSent(r)
  \/ SessionGone(r)

Next ==
  \/ \E t \in Txs : TxStep(t)
  \/ \E r \in Relays : RelayStep(r) \/ Abort(r) \/ LoseSession(r)

Fairness == \A r \in Relays : WF_vars(RelayStep(r))

Safety == Init /\ [][Next]_vars
Spec == Safety /\ Fairness

-----------------------------------------------------------------------------
(* Properties *)

Committed == {row \in written : txn[row.tx] = "committed"}

OnTopic(k) == {topic[k][i] : i \in 1..Len(topic[k])}

\* A message exists only if its change committed (outbox.go, package comment):
\* neither an uncommitted nor a rolled-back transaction's row reaches Kafka,
\* even when several relays race the transaction.
NoPhantom == \A k \in Keys : OnTopic(k) \subseteq Committed

\* A message exists if its change committed: a committed row is in the table
\* or on its topic, whatever crash, retry or lost session happened between
\* publish and delete.
NothingLost == \A row \in Committed : row \in outbox \/ row \in OnTopic(row.key)

\* On a key whose use cases lock the aggregate row, a message is preceded by
\* every earlier committed message of the key, across replicas, partial
\* batches and republished rows.
KeyOrder ==
  \A k \in LockedKeys : \A i \in 1..Len(topic[k]) : \A row \in Committed :
    row.key = k /\ row.id < topic[k][i].id
      => \E j \in 1..(i - 1) : topic[k][j] = row

\* The outbox does what consumers are told: see EventStream.
Stream == INSTANCE EventStream
            WITH OrderedKeys <- LockedKeys, Events <- Row,
                 recorded <- Committed, stream <- topic
ImplementsStream == Stream!Spec

\* relay.go: "rows go out in insertion order and per-key order holds".
\* Refuted for keys without a row lock: ids are drawn at insert, rows become
\* visible at commit.
PerKeyOrder ==
  \A k \in Keys : \A i \in 1..Len(topic[k]) : \A row \in Committed :
    row.key = k /\ row.id < topic[k][i].id
      => \E j \in 1..(i - 1) : topic[k][j] = row
=============================================================================
