---------------------------- MODULE OutboxProofs ----------------------------
(***************************************************************************)
(* Proofs about Outbox: no message without its commit, no commit without   *)
(* its message, per-key order under row locks, and the refinement of       *)
(* EventStream's safety part, for any number of transactions, relays, keys *)
(* and failures.                                                           *)
(***************************************************************************)
EXTENDS Outbox, FiniteSetTheorems, TLAPS

IsOpen(row) == txn[row.tx] = "open"

\* Rows of running transactions are still in the table, behind the id
\* sequence, and on a locked key they belong to the holder of the lock.
OpenRows ==
  \A row \in written :
    /\ row.id < nextId
    /\ IsOpen(row) => row \in outbox
    /\ IsOpen(row) /\ row.key \in LockedKeys => lock[row.key] = row.tx

\* On a locked key everything committed is earlier than everything running.
CommitsInIdOrder ==
  \A x \in Committed, y \in written :
    IsOpen(y) /\ x.key = y.key /\ x.key \in LockedKeys => x.id < y.id

\* What a relay has selected is committed, what it has sent is on the topic.
Batches ==
  \A r \in Relays :
    /\ batch[r] \subseteq Committed
    /\ sent[r] \subseteq batch[r]
    /\ phase[r] # "publishing" => batch[r] = {}
    /\ \A x \in sent[r] : x \in OnTopic(x.key)

\* A batch misses no earlier row of a locked key that is not published yet,
\* even when the relay has lost its session and others went on.
BatchesClosed ==
  \A r \in Relays : \A x \in batch[r], y \in Committed :
    x.key = y.key /\ x.key \in LockedKeys /\ y.id < x.id
      => y \in batch[r] \/ y \in OnTopic(y.key)

\* A log holds messages of its own key only.
KeysMatch == \A k \in Keys : \A x \in OnTopic(k) : x.key = k

IInv ==
  /\ TypeOK
  /\ IsFiniteSet(written)
  /\ OpenRows
  /\ CommitsInIdOrder
  /\ Batches
  /\ BatchesClosed
  /\ KeysMatch
  /\ NoPhantom
  /\ NothingLost
  /\ KeyOrder

-----------------------------------------------------------------------------
\* Appending to a log adds exactly the appended element to its contents and
\* leaves every position as it was (Kafka's append, as Produce uses it).
LEMMA AppendFacts ==
  ASSUME NEW S, NEW s \in Seq(S), NEW e \in S
  PROVE  /\ Append(s, e) \in Seq(S)
         /\ Len(Append(s, e)) = Len(s) + 1
         /\ Len(s) \in Nat
         /\ Append(s, e)[Len(s) + 1] = e
         /\ \A i \in 1..Len(s) : Append(s, e)[i] = s[i]
         /\ {Append(s, e)[i] : i \in 1..Len(Append(s, e))} = {s[i] : i \in 1..Len(s)} \cup {e}
<1>1. /\ Append(s, e) \in Seq(S)
      /\ Len(Append(s, e)) = Len(s) + 1
      /\ Len(s) \in Nat
      /\ Append(s, e)[Len(s) + 1] = e
      /\ \A i \in 1..Len(s) : Append(s, e)[i] = s[i]
  OBVIOUS
<1>2. 1..Len(Append(s, e)) = 1..Len(s) \cup {Len(s) + 1}
  BY <1>1
<1>3. QED
  BY <1>1, <1>2

\* ORDER BY id LIMIT Batch (pending) selects, with a row, every visible row
\* of a smaller id.
LEMMA FirstRowsClosed ==
  ASSUME NEW S, IsFiniteSet(S), \A z \in S : z.id \in Nat,
         NEW x \in FirstRows(S), NEW y \in S, y.id < x.id
  PROVE  y \in FirstRows(S)
<1> DEFINE Below(v) == {z \in S : z.id < v.id}
<1>1. Below(y) \subseteq Below(x)
  <2>1. x \in S BY DEF FirstRows
  <2>2. QED BY <2>1
<1>2. IsFiniteSet(Below(x))
  BY FS_Subset
<1>3. /\ IsFiniteSet(Below(y))
      /\ Cardinality(Below(y)) <= Cardinality(Below(x))
  BY <1>1, <1>2, FS_Subset
<1>4. Cardinality(Below(x)) \in Nat /\ Cardinality(Below(y)) \in Nat
  BY <1>2, <1>3, FS_CardinalityType
<1>5. Cardinality(Below(x)) < Batch
  BY DEF FirstRows
<1>6. Cardinality(Below(y)) < Batch
  BY <1>3, <1>4, <1>5, OutboxAssumption
<1>7. QED
  BY <1>6 DEF FirstRows

-----------------------------------------------------------------------------
\* What every row of the table carries.
LEMMA RowFacts ==
  ASSUME NEW x \in Row
  PROVE  /\ x.id \in 1..MaxIds /\ x.id \in Nat
         /\ x.tx \in Txs
         /\ x.key = KeyOf[x.tx] /\ x.key \in Keys
BY OutboxAssumption DEF Row

\* The initial state satisfies the inductive invariant.
LEMMA InitIInv == Init => IInv
<1> SUFFICES ASSUME Init PROVE IInv
  OBVIOUS
<1>1. \A k \in Keys : topic[k] = <<>> /\ OnTopic(k) = {}
  BY DEF Init, OnTopic
<1>2. TypeOK
  BY OutboxAssumption DEF Init, TypeOK
<1>3. IsFiniteSet(written)
  BY FS_EmptySet DEF Init
<1>4. OpenRows /\ CommitsInIdOrder /\ Batches /\ BatchesClosed /\ NothingLost
  BY DEF Init, OpenRows, CommitsInIdOrder, Batches, BatchesClosed, NothingLost, Committed
<1>5. NoPhantom /\ KeyOrder /\ KeysMatch
  BY <1>1, OutboxAssumption DEF NoPhantom, KeyOrder, KeysMatch
<1>6. QED
  BY <1>2, <1>3, <1>4, <1>5 DEF IInv

\* A transaction that takes its aggregate's row lock had no rows before it:
\* LockRow preserves the invariant.
LEMMA LockRowIInv ==
  ASSUME IInv, NEW t \in Txs, LockRow(t)
  PROVE  IInv'
<1> USE DEF IInv
<1>1. /\ UNCHANGED <<txn, nextId, written, outbox, topic, leader, phase, batch, sent, faults>>
      /\ lock' = [lock EXCEPT ![KeyOf[t]] = t] /\ lock[KeyOf[t]] = None
  BY DEF LockRow, relayVars
<1>2. TypeOK'
  BY <1>1, OutboxAssumption DEF TypeOK
<1>3. OpenRows'
  <2> SUFFICES ASSUME NEW x \in written
               PROVE  /\ x.id < nextId
                      /\ IsOpen(x) => x \in outbox
                      /\ IsOpen(x) /\ x.key \in LockedKeys => lock'[x.key] = x.tx
    BY <1>1 DEF OpenRows, IsOpen
  <2>1. x \in Row BY DEF TypeOK
  <2>2. x.tx \in Txs /\ x.key \in Keys BY <2>1, RowFacts
  <2>3. QED
    BY <1>1, <2>2, OutboxAssumption DEF OpenRows, IsOpen, TypeOK
<1>4. QED
  BY <1>1, <1>2, <1>3 DEF CommitsInIdOrder, Batches, BatchesClosed, KeysMatch, NoPhantom, NothingLost,
                          KeyOrder, Committed, OnTopic, IsOpen

\* Sink.Publish adds one row of a running transaction behind all others:
\* Write preserves the invariant.
LEMMA WriteIInv ==
  ASSUME IInv, NEW t \in Txs, Write(t)
  PROVE  IInv'
<1> USE DEF IInv
<1> DEFINE new == [id |-> nextId, key |-> KeyOf[t], tx |-> t]
<1>1. /\ UNCHANGED <<txn, lock, topic, leader, phase, batch, sent, faults>>
      /\ written' = written \cup {new} /\ outbox' = outbox \cup {new}
      /\ nextId' = nextId + 1 /\ nextId <= MaxIds
      /\ txn[t] = "open" /\ (KeyOf[t] \in LockedKeys => lock[KeyOf[t]] = t)
  BY DEF Write, relayVars
<1>2. new \in Row /\ nextId \in Nat
  BY <1>1, OutboxAssumption DEF Row, TypeOK
<1>3. TypeOK'
  BY <1>1, <1>2, OutboxAssumption DEF TypeOK
<1>4. IsFiniteSet(written')
  BY <1>1, FS_AddElement
<1>5. \A x \in written : x.id \in Nat
  BY RowFacts DEF TypeOK
<1>6. Committed' = Committed
  BY <1>1 DEF Committed
<1>7. OpenRows'
  BY <1>1, <1>2, <1>5 DEF OpenRows, IsOpen
<1>8. CommitsInIdOrder'
  <2> SUFFICES ASSUME NEW x \in Committed, NEW y \in written',
                      txn[y.tx] = "open", x.key = y.key, x.key \in LockedKeys
               PROVE  x.id < y.id
    BY <1>1, <1>6 DEF CommitsInIdOrder, IsOpen
  <2>1. CASE y \in written
    BY <2>1 DEF CommitsInIdOrder, IsOpen
  <2>2. CASE y = new
    BY <2>2 DEF OpenRows, Committed
  <2>3. QED
    BY <1>1, <2>1, <2>2
<1>9. QED
  BY <1>1, <1>3, <1>4, <1>6, <1>7, <1>8
     DEF Batches, BatchesClosed, KeysMatch, NoPhantom, NothingLost, KeyOrder, OnTopic

\* A commit makes rows visible that, on a locked key, are later than all that
\* was visible before: Commit preserves the invariant.
LEMMA CommitIInv ==
  ASSUME IInv, NEW t \in Txs, Commit(t)
  PROVE  IInv'
<1> USE DEF IInv
<1>1. /\ UNCHANGED <<nextId, written, outbox, topic, leader, phase, batch, sent, faults>>
      /\ txn[t] = "open" /\ txn' = [txn EXCEPT ![t] = "committed"]
      /\ lock' = [k \in Keys |-> IF lock[k] = t THEN None ELSE lock[k]]
  BY DEF Commit, Unlock, relayVars
<1>2. TypeOK'
  BY <1>1 DEF TypeOK
<1>3. \A x \in written : x \in Row /\ x.id \in Nat /\ x.tx \in Txs /\ x.key \in Keys
  BY RowFacts DEF TypeOK
<1>4. Committed \subseteq Committed'
  BY <1>1, <1>3 DEF Committed, TypeOK
<1>5. ASSUME NEW x \in Committed', x \notin Committed
      PROVE  x \in written /\ x.tx = t /\ IsOpen(x)
  BY <1>1, <1>3, <1>5 DEF Committed, IsOpen, TypeOK
<1>6. ASSUME NEW x \in written, IsOpen(x)'
      PROVE  IsOpen(x) /\ x.tx # t
  BY <1>1, <1>3, <1>6 DEF IsOpen, TypeOK
<1>7. OpenRows'
  <2> SUFFICES ASSUME NEW x \in written
               PROVE  /\ x.id < nextId
                      /\ IsOpen(x)' => x \in outbox
                      /\ IsOpen(x)' /\ x.key \in LockedKeys => lock'[x.key] = x.tx
    BY <1>1 DEF OpenRows
  <2>1. QED
    BY <1>1, <1>3, <1>6 DEF OpenRows
<1>8. CommitsInIdOrder'
  <2> SUFFICES ASSUME NEW x \in Committed', NEW y \in written, IsOpen(y)',
                      x.key = y.key, x.key \in LockedKeys
               PROVE  x.id < y.id
    BY <1>1 DEF CommitsInIdOrder
  <2>1. CASE x \in Committed
    BY <1>6, <2>1 DEF CommitsInIdOrder
  <2>2. CASE x \notin Committed
    BY <1>5, <1>6, <2>2 DEF OpenRows
  <2>3. QED
    BY <2>1, <2>2
<1>9. Batches'
  BY <1>1, <1>4 DEF Batches, OnTopic
<1>10. BatchesClosed'
  <2> SUFFICES ASSUME NEW r \in Relays, NEW x \in batch[r], NEW y \in Committed',
                      x.key = y.key, x.key \in LockedKeys, y.id < x.id
               PROVE  y \in batch[r] \/ y \in OnTopic(y.key)
    BY <1>1 DEF BatchesClosed, OnTopic
  <2>1. x \in Committed /\ x.id \in Nat
    BY <1>3 DEF Batches, Committed
  <2>2. CASE y \notin Committed
    <3>1. y \in written /\ IsOpen(y) /\ y.id \in Nat
      BY <1>3, <1>5, <2>2
    <3>2. x.id < y.id
      BY <2>1, <3>1 DEF CommitsInIdOrder
    <3>3. QED
      BY <2>1, <3>1, <3>2
  <2>3. QED
    BY <2>2 DEF BatchesClosed
<1>11. NoPhantom'
  BY <1>1, <1>4 DEF NoPhantom, OnTopic
<1>12. NothingLost'
  BY <1>1, <1>5 DEF NothingLost, OnTopic, OpenRows
<1>13. KeyOrder'
  <2> SUFFICES ASSUME NEW k \in LockedKeys, NEW i \in 1..Len(topic[k]), NEW y \in Committed',
                      y.key = k, y.id < topic[k][i].id
               PROVE  \E j \in 1..(i - 1) : topic[k][j] = y
    BY <1>1 DEF KeyOrder
  <2>1. topic[k][i] \in OnTopic(k) /\ topic[k] \in Seq(Row)
    BY OutboxAssumption DEF OnTopic, TypeOK
  <2>2. topic[k][i] \in Committed /\ topic[k][i].key = k
    <3>1. topic[k][i] \in Committed
      BY <2>1, OutboxAssumption DEF NoPhantom
    <3>2. QED
      BY <2>1, <3>1, OutboxAssumption DEF KeysMatch
  <2>3. CASE y \notin Committed
    <3>1. y \in written /\ IsOpen(y) /\ y.id \in Nat /\ topic[k][i].id \in Nat
      BY <1>3, <1>5, <2>2, <2>3 DEF Committed
    <3>2. topic[k][i].id < y.id
      BY <2>2, <3>1 DEF CommitsInIdOrder
    <3>3. QED
      BY <3>1, <3>2
  <2>4. QED
    BY <2>3 DEF KeyOrder
<1>14. KeysMatch'
  BY <1>1 DEF KeysMatch, OnTopic
<1>15. QED
  BY <1>14, <1>1, <1>2, <1>7, <1>8, <1>9, <1>10, <1>11, <1>12, <1>13

\* A rollback removes rows nobody could see: Rollback preserves the invariant.
LEMMA RollbackIInv ==
  ASSUME IInv, NEW t \in Txs, Rollback(t)
  PROVE  IInv'
<1> USE DEF IInv
<1>1. /\ UNCHANGED <<nextId, written, topic, leader, phase, batch, sent, faults>>
      /\ txn[t] = "open" /\ txn' = [txn EXCEPT ![t] = "rolledback"]
      /\ lock' = [k \in Keys |-> IF lock[k] = t THEN None ELSE lock[k]]
      /\ outbox' = {x \in outbox : x.tx # t}
  BY DEF Rollback, Unlock, relayVars
<1>2. TypeOK'
  BY <1>1 DEF TypeOK
<1>3. \A x \in written : x \in Row /\ x.tx \in Txs /\ x.key \in Keys
  BY RowFacts DEF TypeOK
<1>4. Committed' = Committed
  BY <1>1, <1>3 DEF Committed, TypeOK
<1>5. ASSUME NEW x \in written, IsOpen(x)'
      PROVE  IsOpen(x) /\ x.tx # t
  BY <1>1, <1>3, <1>5 DEF IsOpen, TypeOK
<1>6. OpenRows'
  <2> SUFFICES ASSUME NEW x \in written
               PROVE  /\ x.id < nextId
                      /\ IsOpen(x)' => x \in outbox'
                      /\ IsOpen(x)' /\ x.key \in LockedKeys => lock'[x.key] = x.tx
    BY <1>1 DEF OpenRows
  <2>1. QED
    BY <1>1, <1>3, <1>5 DEF OpenRows
<1>7. CommitsInIdOrder'
  BY <1>1, <1>4, <1>5 DEF CommitsInIdOrder
<1>8. NothingLost'
  <2>1. \A x \in Committed : x.tx # t
    BY <1>1 DEF Committed
  <2>2. QED
    BY <1>1, <1>4, <2>1 DEF NothingLost, OnTopic
<1>9. QED
  BY <1>1, <1>2, <1>4, <1>6, <1>7, <1>8
     DEF Batches, BatchesClosed, KeysMatch, NoPhantom, KeyOrder, OnTopic

\* The end of a relay's transaction forgets its batch: an action that does
\* nothing else preserves the invariant, whether or not it used up a fault.
LEMMA EndRelayTxIInv ==
  ASSUME IInv, NEW r \in Relays, EndRelayTx(r), faults' \in 0..MaxFaults,
         UNCHANGED <<txVars, topic>>,
         outbox' \subseteq outbox,
         \A x \in outbox \ outbox' : x \in Committed /\ x \in OnTopic(x.key)
  PROVE  IInv'
<1> USE DEF IInv
<1>1. /\ UNCHANGED <<txn, lock, nextId, written, topic>>
      /\ leader' = IF leader = r THEN None ELSE leader
      /\ phase' = [phase EXCEPT ![r] = "idle"]
      /\ batch' = [batch EXCEPT ![r] = {}]
      /\ sent' = [sent EXCEPT ![r] = {}]
  BY DEF EndRelayTx, txVars
<1>2. TypeOK'
  BY <1>1 DEF TypeOK
<1>3. Committed' = Committed /\ \A k \in Keys : OnTopic(k)' = OnTopic(k)
  BY <1>1 DEF Committed, OnTopic
<1>4. \A x \in written : x.key \in Keys
  BY RowFacts DEF TypeOK
<1>5. OpenRows' /\ NothingLost'
  BY <1>1, <1>3, <1>4 DEF OpenRows, NothingLost, IsOpen, Committed
<1>6. Batches'
  <2> SUFFICES ASSUME NEW q \in Relays
               PROVE  /\ batch'[q] \subseteq Committed
                      /\ sent'[q] \subseteq batch'[q]
                      /\ phase'[q] # "publishing" => batch'[q] = {}
                      /\ \A x \in sent'[q] : x \in OnTopic(x.key)
    BY <1>1, <1>3 DEF Batches, OnTopic
  <2>1. QED
    BY <1>1 DEF Batches, TypeOK
<1>7. BatchesClosed'
  <2> SUFFICES ASSUME NEW q \in Relays, NEW x \in batch'[q], NEW y \in Committed,
                      x.key = y.key, x.key \in LockedKeys, y.id < x.id
               PROVE  y \in batch'[q] \/ y \in OnTopic(y.key)
    BY <1>1, <1>3 DEF BatchesClosed, OnTopic
  <2>1. q # r /\ batch'[q] = batch[q]
    BY <1>1 DEF TypeOK
  <2>2. QED
    BY <2>1 DEF BatchesClosed
<1>8. QED
  BY <1>1, <1>2, <1>3, <1>5, <1>6, <1>7
     DEF CommitsInIdOrder, KeysMatch, NoPhantom, KeyOrder, IsOpen

\* RelayOnce reads the table only under the lock, a batch at a time:
\* TryLock and Pending preserve the invariant.
LEMMA SelectIInv ==
  ASSUME IInv, NEW r \in Relays, TryLock(r) \/ Pending(r)
  PROVE  IInv'
<1> USE DEF IInv
<1>1. CASE TryLock(r)
  <2>1. /\ UNCHANGED <<txn, lock, nextId, written, outbox, topic, batch, sent, faults>>
        /\ phase[r] = "idle" /\ leader' = r /\ phase' = [phase EXCEPT ![r] = "locked"]
    BY <1>1 DEF TryLock, txVars
  <2>2. TypeOK' /\ Batches'
    BY <2>1 DEF TypeOK, Batches, Committed, OnTopic
  <2>3. QED
    BY <2>1, <2>2 DEF OpenRows, CommitsInIdOrder, BatchesClosed, KeysMatch, NoPhantom,
                      NothingLost, KeyOrder, Committed, OnTopic, IsOpen
<1>2. CASE Pending(r) /\ Visible = {} /\ EndRelayTx(r)
  BY <1>2, EndRelayTxIInv DEF Pending, TypeOK, txVars
<1>3. CASE Pending(r) /\ Visible # {} /\ batch' = [batch EXCEPT ![r] = FirstRows(Visible)]
                      /\ phase' = [phase EXCEPT ![r] = "publishing"] /\ UNCHANGED <<leader, sent>>
  <2>1. /\ UNCHANGED <<txn, lock, nextId, written, outbox, topic, sent, leader, faults>>
        /\ phase[r] = "locked"
    BY <1>3 DEF Pending, txVars
  <2>2. FirstRows(Visible) \subseteq Committed
    BY DEF FirstRows, Visible, Committed, TypeOK
  <2>3. TypeOK'
    BY <1>3, <2>1, <2>2 DEF TypeOK, Committed
  <2>4. Batches'
    <3>1. batch[r] = {} /\ sent[r] = {}
      BY <2>1 DEF Batches
    <3>2. QED
      BY <1>3, <2>1, <2>2, <3>1 DEF Batches, Committed, OnTopic, TypeOK
  <2>5. BatchesClosed'
    <3> SUFFICES ASSUME NEW q \in Relays, NEW x \in batch'[q], NEW y \in Committed,
                        x.key = y.key, x.key \in LockedKeys, y.id < x.id
                 PROVE  y \in batch'[q] \/ y \in OnTopic(y.key)
      BY <2>1 DEF BatchesClosed, OnTopic, Committed
    <3>1. CASE q # r
      BY <1>3, <3>1 DEF BatchesClosed, TypeOK
    <3>2. CASE q = r
      <4>1. batch'[q] = FirstRows(Visible)
        BY <1>3, <3>2 DEF TypeOK
      <4>2. IsFiniteSet(Visible) /\ \A z \in Visible : z.id \in Nat
        <5>1. Visible \subseteq written
          BY DEF Visible, TypeOK
        <5>2. \A z \in written : z.id \in Nat
          BY RowFacts DEF TypeOK
        <5>3. QED
          BY <5>1, <5>2, FS_Subset
      <4>3. CASE y \in outbox
        <5>1. y \in Visible
          BY <4>3 DEF Visible, Committed
        <5>2. QED
          BY <4>1, <4>2, <5>1, FirstRowsClosed
      <4>4. CASE y \notin outbox
        BY <4>4 DEF NothingLost
      <4>5. QED
        BY <4>3, <4>4
    <3>3. QED
      BY <3>1, <3>2
  <2>6. QED
    BY <2>1, <2>3, <2>4, <2>5 DEF OpenRows, CommitsInIdOrder, KeysMatch, NoPhantom,
                      NothingLost, KeyOrder, Committed, OnTopic, IsOpen
<1>4. QED
  BY <1>1, <1>2, <1>3 DEF Pending

\* Producer.Publish appends rows of a batch in key order: Produce preserves
\* the invariant.
LEMMA ProduceIInv ==
  ASSUME IInv, NEW r \in Relays, NEW row \in batch[r], Produce(r, row)
  PROVE  IInv'
<1> USE DEF IInv
<1> DEFINE k0 == row.key
<1>1. /\ UNCHANGED <<txn, lock, nextId, written, outbox, leader, phase, batch, faults>>
      /\ topic' = [topic EXCEPT ![k0] = Append(@, row)]
      /\ sent' = [sent EXCEPT ![r] = @ \cup {row}]
      /\ \A x \in batch[r] : x.key = row.key /\ x.id < row.id => x \in sent[r]
  BY DEF Produce, txVars
<1>2. row \in Committed /\ row \in Row /\ k0 \in Keys /\ topic[k0] \in Seq(Row)
  <2>1. row \in Committed /\ row \in Row
    BY DEF Batches, Committed, TypeOK
  <2>2. QED
    BY <2>1, RowFacts DEF TypeOK
<1>3. Committed' = Committed
  BY <1>1 DEF Committed
<1>4. /\ Append(topic[k0], row) \in Seq(Row)
      /\ Len(topic'[k0]) = Len(topic[k0]) + 1 /\ Len(topic[k0]) \in Nat
      /\ topic'[k0][Len(topic[k0]) + 1] = row
      /\ \A i \in 1..Len(topic[k0]) : topic'[k0][i] = topic[k0][i]
      /\ OnTopic(k0)' = OnTopic(k0) \cup {row}
  <2>1. topic'[k0] = Append(topic[k0], row)
    BY <1>1, <1>2 DEF TypeOK
  <2> HIDE DEF k0
  <2>2. QED
    BY <1>2, <2>1, AppendFacts DEF OnTopic
<1>5. \A k \in Keys \ {k0} : topic'[k] = topic[k] /\ OnTopic(k)' = OnTopic(k)
  BY <1>1 DEF TypeOK, OnTopic
<1>6. \A k \in Keys : OnTopic(k) \subseteq OnTopic(k)'
  BY <1>4, <1>5
<1>7. TypeOK'
  BY <1>1, <1>2, <1>4 DEF TypeOK
<1>8. \A x \in written : x.key \in Keys
  BY RowFacts DEF TypeOK
<1>9. Batches'
  <2> SUFFICES ASSUME NEW q \in Relays
               PROVE  /\ batch[q] \subseteq Committed
                      /\ sent'[q] \subseteq batch[q]
                      /\ phase[q] # "publishing" => batch[q] = {}
                      /\ \A x \in sent'[q] : x \in OnTopic(x.key)'
    BY <1>1, <1>3 DEF Batches
  <2>1. batch[q] \subseteq written /\ sent[q] \subseteq batch[q]
    BY DEF Batches, Committed
  <2>2. \A x \in sent'[q] : x \in sent[q] \/ (q = r /\ x = row)
    BY <1>1 DEF TypeOK
  <2>3. QED
    BY <1>4, <1>6, <1>8, <2>1, <2>2 DEF Batches
<1>10. BatchesClosed'
  BY <1>1, <1>3, <1>6, <1>8 DEF BatchesClosed, Committed
<1>11. NoPhantom' /\ NothingLost' /\ KeysMatch'
  BY <1>1, <1>2, <1>3, <1>4, <1>5, <1>6, <1>8 DEF NoPhantom, NothingLost, KeysMatch, Committed
<1>12. KeyOrder'
  <2> SUFFICES ASSUME NEW k \in LockedKeys, NEW i \in 1..Len(topic'[k]), NEW y \in Committed,
                      y.key = k, y.id < topic'[k][i].id
               PROVE  \E j \in 1..(i - 1) : topic'[k][j] = y
    BY <1>3 DEF KeyOrder
  <2>0. k \in Keys
    BY OutboxAssumption
  <2>1. CASE k # k0
    BY <1>5, <2>0, <2>1 DEF KeyOrder
  <2>2. CASE k = k0 /\ i \in 1..Len(topic[k0])
    <3>1. PICK j \in 1..(i - 1) : topic[k0][j] = y
      BY <1>4, <2>2 DEF KeyOrder
    <3>2. j \in 1..Len(topic[k0])
      BY <1>4, <2>2
    <3>3. QED
      BY <1>4, <2>2, <3>1, <3>2
  <2>3. CASE k = k0 /\ i = Len(topic[k0]) + 1
    <3>1. y.id < row.id /\ y.key = row.key
      BY <1>4, <2>3
    <3>2. y \in OnTopic(k0)
      <4>1. CASE y \in batch[r]
        BY <1>1, <3>1, <4>1 DEF Batches
      <4>2. CASE y \notin batch[r]
        BY <2>3, <3>1, <4>2 DEF BatchesClosed
      <4>3. QED
        BY <4>1, <4>2
    <3>3. PICK j \in 1..Len(topic[k0]) : topic[k0][j] = y
      BY <3>2 DEF OnTopic
    <3>4. QED
      BY <1>4, <2>3, <3>3
  <2>4. QED
    BY <1>4, <2>1, <2>2, <2>3
<1>13. OpenRows' /\ CommitsInIdOrder'
  BY <1>1, <1>3 DEF OpenRows, CommitsInIdOrder, IsOpen
<1>14. QED
  BY <1>1, <1>7, <1>9, <1>10, <1>11, <1>12, <1>13

\* Rows are deleted only after the broker has them all, and every failure
\* leaves the table as it was: the ends of RelayOnce preserve the invariant.
LEMMA FinishIInv ==
  ASSUME IInv, NEW r \in Relays,
         DeleteSent(r) \/ SessionGone(r) \/ Abort(r) \/ LoseSession(r)
  PROVE  IInv'
<1>1. CASE DeleteSent(r)
  <2>1. \A x \in outbox \ outbox' : x \in Committed /\ x \in OnTopic(x.key)
    BY <1>1 DEF DeleteSent, IInv, Batches
  <2>2. QED
    BY <1>1, <2>1, EndRelayTxIInv DEF DeleteSent, IInv, TypeOK
<1>2. CASE SessionGone(r)
  BY <1>2, EndRelayTxIInv DEF SessionGone, IInv, TypeOK
<1>3. CASE Abort(r)
  BY <1>3, EndRelayTxIInv, OutboxAssumption DEF Abort, IInv, TypeOK
<1>4. CASE LoseSession(r)
  <2>1. /\ UNCHANGED <<txn, lock, nextId, written, outbox, topic, phase, batch, sent>>
        /\ leader' = None /\ faults' = faults + 1 /\ faults < MaxFaults
    BY <1>4 DEF LoseSession, txVars
  <2>2. TypeOK'
    BY <2>1, OutboxAssumption DEF IInv, TypeOK
  <2>3. QED
    BY <2>1, <2>2 DEF IInv, OpenRows, CommitsInIdOrder, Batches, BatchesClosed, KeysMatch,
                      NoPhantom, NothingLost, KeyOrder, Committed, OnTopic, IsOpen
<1>5. QED
  BY <1>1, <1>2, <1>3, <1>4

\* Every step of the outbox preserves the inductive invariant.
LEMMA NextIInv == IInv /\ [Next]_vars => IInv'
<1> SUFFICES ASSUME IInv, [Next]_vars PROVE IInv'
  OBVIOUS
<1>1. CASE UNCHANGED vars
  BY <1>1, SMTT(30) DEF vars, txVars, relayVars, IInv, TypeOK, OpenRows, CommitsInIdOrder, Batches,
              BatchesClosed, KeysMatch, NoPhantom, NothingLost, KeyOrder, Committed, OnTopic, IsOpen
<1>2. ASSUME NEW t \in Txs, TxStep(t) PROVE IInv'
  BY <1>2, LockRowIInv, WriteIInv, CommitIInv, RollbackIInv DEF TxStep
<1>3. ASSUME NEW r \in Relays, RelayStep(r) \/ Abort(r) \/ LoseSession(r) PROVE IInv'
  BY <1>3, SelectIInv, ProduceIInv, FinishIInv DEF RelayStep
<1>4. QED
  BY <1>1, <1>2, <1>3 DEF Next

\* The inductive invariant holds throughout.
THEOREM Invariance == Safety => []IInv
BY InitIInv, NextIInv, PTL DEF Safety

\* Every reachable state of the outbox is well typed.
THEOREM TypeCorrect == Safety => []TypeOK
<1>1. IInv => TypeOK BY DEF IInv
<1>2. QED BY <1>1, Invariance, PTL

\* "A message exists if and only if the change committed" (outbox.go):
\* nothing uncommitted is published, nothing committed is lost.
THEOREM ExactlyCommitted == Safety => [](NoPhantom /\ NothingLost)
<1>1. IInv => NoPhantom /\ NothingLost BY DEF IInv
<1>2. QED BY <1>1, Invariance, PTL

\* Per-key order across replicas, for the keys whose use cases lock the row.
THEOREM LockedKeysInOrder == Safety => []KeyOrder
<1>1. IInv => KeyOrder BY DEF IInv
<1>2. QED BY <1>1, Invariance, PTL

-----------------------------------------------------------------------------
\* Each step of the outbox records committed events, delivers one of them, or
\* changes nothing a consumer can tell.
LEMMA StepImplementsStream ==
  ASSUME IInv, IInv', [Next]_vars
  PROVE  [Stream!Next]_(Stream!vars)
<1> USE DEF IInv
<1>0. \A x \in written : x \in Row /\ x.id \in Nat /\ x.tx \in Txs /\ x.key \in Keys
  BY RowFacts DEF TypeOK
<1>1. CASE UNCHANGED <<txn, written, topic>>
  BY <1>1 DEF Stream!vars, Committed
<1>2. ASSUME NEW t \in Txs, TxStep(t) PROVE [Stream!Next]_(Stream!vars)
  <2>1. CASE LockRow(t) \/ Write(t)
    <3>1. Committed' = Committed /\ UNCHANGED topic
      BY <1>0, <2>1 DEF LockRow, Write, Committed, TypeOK
    <3>2. QED
      BY <3>1 DEF Stream!vars
  <2>2. CASE Rollback(t)
    <3>1. Committed' = Committed /\ UNCHANGED topic
      BY <1>0, <2>2 DEF Rollback, Committed, TypeOK
    <3>2. QED
      BY <3>1 DEF Stream!vars
  <2>3. CASE Commit(t)
    <3>1. /\ txn[t] = "open" /\ txn' = [txn EXCEPT ![t] = "committed"]
          /\ UNCHANGED <<written, topic>>
      BY <2>3 DEF Commit
    <3>2. Committed \subseteq Committed'
      BY <1>0, <3>1 DEF Committed, TypeOK
    <3>3. ASSUME NEW e \in Committed' \ Committed, e.key \in LockedKeys,
                 NEW f \in OnTopic(e.key)
          PROVE  ~ (e.key = f.key /\ e.id < f.id)
      <4>1. e \in written /\ IsOpen(e) /\ e.id \in Nat /\ e.key \in Keys
        BY <1>0, <3>1 DEF Committed, IsOpen, TypeOK
      <4>2. f \in Committed /\ f.id \in Nat
        BY <1>0, <4>1 DEF NoPhantom, Committed
      <4>3. QED
        BY <3>3, <4>1, <4>2 DEF CommitsInIdOrder
    <3>4. CASE Committed' = Committed
      BY <3>1, <3>4 DEF Stream!vars
    <3>5. CASE Committed' # Committed
      <4>1. Stream!Record
        BY <3>1, <3>2, <3>3, <3>5 DEF Stream!Record, Stream!Delivered, Stream!Earlier, OnTopic
      <4>2. QED
        BY <4>1 DEF Stream!Next
    <3>6. QED
      BY <3>4, <3>5
  <2>4. QED
    BY <1>2, <2>1, <2>2, <2>3 DEF TxStep
<1>3. ASSUME NEW r \in Relays, RelayStep(r) \/ Abort(r) \/ LoseSession(r)
      PROVE  [Stream!Next]_(Stream!vars)
  <2>1. ASSUME NEW row \in batch[r], Produce(r, row) PROVE Stream!Next
    <3>1. /\ UNCHANGED <<txn, written>>
          /\ topic' = [topic EXCEPT ![row.key] = Append(@, row)]
          /\ \A x \in batch[r] : x.key = row.key /\ x.id < row.id => x \in sent[r]
      BY <2>1 DEF Produce, txVars
    <3>2. row \in Committed /\ row \in Row /\ Committed' = Committed
      BY <1>0, <3>1 DEF Batches, Committed
    <3>3. ASSUME row.key \in LockedKeys, NEW f \in Committed, f.key = row.key, f.id < row.id
          PROVE  f \in OnTopic(row.key)
      BY <3>1, <3>3 DEF BatchesClosed, Batches
    <3>4. Stream!Deliver(row)
      BY <3>1, <3>2, <3>3 DEF Stream!Deliver, Stream!Delivered, Stream!Earlier, OnTopic
    <3>5. QED
      BY <3>2, <3>4 DEF Stream!Next
  <2>2. CASE ~ \E row \in batch[r] : Produce(r, row)
    <3>1. UNCHANGED <<txn, written, topic>>
      BY <1>3, <2>2 DEF RelayStep, TryLock, Pending, DeleteSent, SessionGone, Abort,
                        LoseSession, EndRelayTx, txVars
    <3>2. QED
      BY <1>1, <3>1
  <2>3. QED
    BY <2>1, <2>2
<1>4. QED
  BY <1>1, <1>2, <1>3 DEF Next, vars, txVars

\* The outbox implements the event stream its consumers rely on (the safety
\* part; that events keep flowing is model-checked).
THEOREM ImplementsStreamSafety == Safety => Stream!Safety
<1>1. Init => Stream!Init
  BY DEF Init, Stream!Init, Committed
<1>2. QED
  BY <1>1, StepImplementsStream, Invariance, PTL DEF Safety, Stream!Safety
=============================================================================
