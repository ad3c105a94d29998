----------------------------- MODULE RuntimeProofs ---------------------------
(***************************************************************************)
(* Proofs about what runs in every process.  BatchConsumer: the offset a   *)
(* batch commits covers no record that is neither stored, dead-lettered    *)
(* nor skipped, for any number of members, records, retries and failures,  *)
(* and any size of batch.  Lifecycle: what a program opened is closed in   *)
(* reverse, when nothing uses it any more.  BffPages: a page says truly    *)
(* what it lacks.                                                          *)
(***************************************************************************)
EXTENDS MCRuntime, FiniteSetTheorems, SequenceTheorems, WellFoundedInduction, TLAPS

\* Records that need no more work.
Done == Settled \cup Skipped

\* What a member knows about its batch.  Holed: a batch collected over two
\* assignments may have holes, and another member has filled them.
Holed(m) == \A o \in recs[m] : 1..o \subseteq recs[m] \cup Done
Fetched(m) == owner = m => phase[m] \in Running /\ 1..pos[m] \subseteq recs[m] \cup Done
Decoding(m) ==
  /\ phase[m] \in {"handling", "deadletter"} => recs[m] \subseteq todo[m] \cup items[m] \cup Done
  /\ phase[m] = "deadletter" => todo[m] # {}
  /\ phase[m] = "flushing" => recs[m] \subseteq items[m] \cup Done
  /\ phase[m] = "committing" => recs[m] \subseteq Done
Nonempty(m) == phase[m] \in Running \ {"polling"} => recs[m] # {}

MemberInv(m) == Holed(m) /\ Fetched(m) /\ Decoding(m) /\ Nonempty(m)

IInv == TypeOK /\ BatchCommitCovers /\ \A m \in Members : MemberInv(m)

-----------------------------------------------------------------------------
(* The least and the greatest record of a batch *)

NatLess == {ss \in Nat \X Nat : ss[1] < ss[2]}

\* The order of the naturals has no infinite descent.
LEMMA NatLessWellFounded == IsWellFoundedOn(NatLess, Nat)
<1>1. OpToRel(<, Nat) = NatLess
  BY DEF OpToRel, NatLess
<1>2. QED
  BY <1>1, NatLessThanWellFounded, Zenon

\* Every nonempty set of naturals has a least element.
LEMMA LeastExists ==
  ASSUME NEW S, S \subseteq Nat, S # {}
  PROVE  \E x \in S : \A y \in S : x <= y
<1>1. PICK x \in S : \A y \in S : ~ (<<y, x>> \in NatLess)
  BY NatLessWellFounded, WFMin, Zenon
<1>2. ASSUME NEW y \in S PROVE x <= y
  <2>1. x \in Nat /\ y \in Nat
    OBVIOUS
  <2>2. ~ (<<y, x>> \in NatLess)
    BY <1>1
  <2>3. ~ (y < x)
    BY <2>1, <2>2 DEF NatLess
  <2>4. QED
    BY <2>1, <2>3
<1>3. QED
  BY <1>2

\* The Min and the Max of a nonempty set of records are records of it, and no
\* record of it is beyond the Max.
LEMMA MinMaxOfBatch ==
  ASSUME NEW S, S \subseteq Offsets, S # {}
  PROVE  /\ Min(S) \in S
         /\ Max(S) \in S
         /\ \A y \in S : y <= Max(S)
<1> LogEnd \in Nat
  BY GroupAssumption
<1>1. \E x \in S : \A y \in S : x <= y
  <2>1. S \subseteq Nat
    BY DEF Offsets
  <2>2. QED
    BY <2>1, LeastExists
<1>2. \E x \in S : \A y \in S : x >= y
  <2> DEFINE T == {LogEnd - x : x \in S}
  <2>1. T \subseteq Nat
    <3>1. \A x \in S : LogEnd - x \in Nat
      BY DEF Offsets
    <3>2. QED
      BY <3>1
  <2>2. T # {}
    <3>1. PICK x \in S : TRUE
      OBVIOUS
    <3>2. LogEnd - x \in T
      OBVIOUS
    <3>3. QED
      BY <3>2
  <2>3. PICK t \in T : \A y \in T : t <= y
    <3> HIDE DEF T
    <3> QED
      BY <2>1, <2>2, LeastExists
  <2>4. PICK x \in S : t = LogEnd - x
    OBVIOUS
  <2>5. \A y \in S : LogEnd - x <= LogEnd - y
    BY <2>3, <2>4
  <2>6. \A y \in S : x >= y
    BY <2>5 DEF Offsets
  <2>7. QED
    BY <2>6
<1>3. Max(S) \in S /\ \A y \in S : Max(S) >= y
  BY <1>2 DEF Max
<1>4. QED
  BY <1>1, <1>3 DEF Min, Offsets

-----------------------------------------------------------------------------
(* What every step keeps *)

\* Setting one flag of a family of flags gives a family of flags.
LEMMA SetFlag ==
  ASSUME NEW S, NEW f \in [S -> BOOLEAN], NEW x \in S, NEW b \in BOOLEAN
  PROVE  [f EXCEPT ![x] = b] \in [S -> BOOLEAN]
OBVIOUS

\* The initial state satisfies the inductive invariant.
LEMMA InitIInv == Init => IInv
<1> SUFFICES ASSUME Init PROVE IInv
  OBVIOUS
<1> USE GroupAssumption DEF Init, GroupInit
<1>1. TypeOK
  BY DEF TypeOK, GroupTypeOK, Running, Offsets
<1>2. BatchCommitCovers
  BY DEF BatchCommitCovers
<1>3. ASSUME NEW m \in Members PROVE MemberInv(m)
  BY DEF MemberInv, Holed, Fetched, Decoding, Nonempty
<1>4. QED
  BY <1>1, <1>2, <1>3 DEF IInv

\* A step that leaves the member's run, its phase and its position alone keeps
\* what the member knows: records once done stay done, and nobody gives the
\* member the partition.
LEMMA MemberKept ==
  ASSUME NEW m \in Members, MemberInv(m), Done \subseteq Done',
         phase'[m] = phase[m], recs'[m] = recs[m], todo'[m] = todo[m], items'[m] = items[m],
         owner' = m => owner = m /\ pos'[m] = pos[m]
  PROVE  MemberInv(m)'
<1>1. Holed(m)'
  BY DEF MemberInv, Holed
<1>2. Fetched(m)'
  BY DEF MemberInv, Fetched
<1>3. Decoding(m)'
  BY DEF MemberInv, Decoding
<1>4. Nonempty(m)'
  BY DEF MemberInv, Nonempty
<1>5. QED
  BY <1>1, <1>2, <1>3, <1>4 DEF MemberInv

\* A member that leaves the group, or crashes, keeps its batch but not the
\* partition.
LEMMA MemberGone ==
  ASSUME NEW m \in Members, MemberInv(m), Done \subseteq Done', recs'[m] = recs[m],
         phase'[m] \in {"down", "dead"}, owner' # m
  PROVE  MemberInv(m)'
BY DEF MemberInv, Holed, Fetched, Decoding, Nonempty, Running

\* The members other than the one that acts, in a step that touches only the
\* acting member's run and gives the partition to nobody else.
LEMMA OthersKept ==
  ASSUME IInv, NEW m \in Members, Done \subseteq Done',
         \A n \in Members \ {m} : /\ phase'[n] = phase[n] /\ pos'[n] = pos[n]
                                  /\ recs'[n] = recs[n] /\ todo'[n] = todo[n]
                                  /\ items'[n] = items[n]
                                  /\ owner' = n => owner = n
  PROVE  \A n \in Members \ {m} : MemberInv(n)'
BY MemberKept DEF IInv

-----------------------------------------------------------------------------
(* One lemma per step *)

\* Collect: what is fetched continues the batch or the records already done.
LEMMA CollectInv ==
  ASSUME IInv, NEW m \in Members, Collect(m), UNCHANGED DLQ
  PROVE  IInv'
<1> USE GroupAssumption
<1>1. PICK n \in (pos[m] + 1)..LogEnd :
         /\ pos' = [pos EXCEPT ![m] = n]
         /\ recs' = [recs EXCEPT ![m] = @ \cup ((pos[m] + 1)..n)]
  BY DEF Collect, PollRecords
<1>2. pos[m] \in 0..LogEnd /\ n \in Offsets /\ (pos[m] + 1)..n \subseteq Offsets
  BY DEF IInv, TypeOK, GroupTypeOK, Offsets
<1>3. TypeOK'
  <2>1. recs' \in [Members -> SUBSET Offsets]
    BY <1>1, <1>2 DEF IInv, TypeOK
  <2>2. pos' \in [Members -> 0..LogEnd]
    BY <1>1, <1>2 DEF IInv, TypeOK, GroupTypeOK, Offsets
  <2>3. phase' \in [Members -> Running \cup {"down", "dead"}]
    BY DEF Collect, IInv, TypeOK, GroupTypeOK, Running
  <2>4. QED
    BY <2>1, <2>2, <2>3 DEF Collect, IInv, TypeOK, GroupTypeOK
<1>4. Done' = Done
  BY DEF Collect, Done, Settled
<1>5. recs'[m] = recs[m] \cup ((pos[m] + 1)..n) /\ pos'[m] = n /\ phase'[m] = "collecting"
  BY <1>1 DEF Collect, IInv, TypeOK, GroupTypeOK
<1>6. 1..pos[m] \subseteq recs[m] \cup Done
  BY DEF Collect, PollRecords, IInv, MemberInv, Fetched
<1>7. 1..n \subseteq recs'[m] \cup Done'
  BY <1>2, <1>4, <1>5, <1>6 DEF Offsets
<1>8. MemberInv(m)'
  <2>1. Holed(m)'
    <3>1. \A o \in recs[m] : 1..o \subseteq recs'[m] \cup Done'
      BY <1>4, <1>5 DEF IInv, MemberInv, Holed
    <3>2. \A o \in (pos[m] + 1)..n : 1..o \subseteq 1..n
      BY <1>2 DEF Offsets
    <3>3. QED
      BY <1>5, <1>7, <3>1, <3>2 DEF Holed
  <2>2. Fetched(m)'
    BY <1>5, <1>7 DEF Fetched, Running
  <2>3. Decoding(m)'
    BY <1>5 DEF Decoding
  <2>4. Nonempty(m)'
    <3>1. n \in recs'[m]
      BY <1>2, <1>5 DEF Offsets
    <3>2. QED
      BY <3>1 DEF Nonempty
  <2>5. QED
    BY <2>1, <2>2, <2>3, <2>4 DEF MemberInv
<1>9. \A k \in Members \ {m} : MemberInv(k)'
  <2>1. \A k \in Members \ {m} : /\ phase'[k] = phase[k] /\ pos'[k] = pos[k]
                                 /\ recs'[k] = recs[k] /\ todo'[k] = todo[k]
                                 /\ items'[k] = items[k]
                                 /\ owner' = k => owner = k
    BY <1>1 DEF Collect, IInv, TypeOK, GroupTypeOK
  <2>2. QED
    BY <1>4, <2>1, OthersKept
<1>10. BatchCommitCovers'
  BY <1>4 DEF Collect, IInv, BatchCommitCovers, Done
<1>11. QED
  BY <1>3, <1>8, <1>9, <1>10 DEF IInv

\* The batch that Linger ends is all still to be decoded.
LEMMA LingeredInv ==
  ASSUME IInv, NEW m \in Members, Lingered(m), UNCHANGED DLQ
  PROVE  IInv'
<1>1. TypeOK'
  BY DEF Lingered, IInv, TypeOK, GroupTypeOK, Running
<1>2. Done' = Done
  BY DEF Lingered, Done, Settled
<1>3. /\ recs'[m] = recs[m] /\ pos'[m] = pos[m] /\ owner' = owner
      /\ todo'[m] = recs[m] /\ phase'[m] = "handling"
  BY DEF Lingered, IInv, TypeOK, GroupTypeOK
<1>4. MemberInv(m)'
  BY <1>2, <1>3 DEF Lingered, IInv, MemberInv, Holed, Fetched, Decoding, Nonempty, Running
<1>5. \A k \in Members \ {m} : MemberInv(k)'
  <2>1. \A k \in Members \ {m} : /\ phase'[k] = phase[k] /\ pos'[k] = pos[k]
                                 /\ recs'[k] = recs[k] /\ todo'[k] = todo[k]
                                 /\ items'[k] = items[k]
                                 /\ owner' = k => owner = k
    BY DEF Lingered, IInv, TypeOK, GroupTypeOK
  <2>2. QED
    BY <1>2, <2>1, OthersKept
<1>6. BatchCommitCovers'
  BY <1>2 DEF Lingered, IInv, BatchCommitCovers, Done
<1>7. QED
  BY <1>1, <1>4, <1>5, <1>6 DEF IInv

\* A decoded record is an item, a skipped one is done; a batch is flushed or
\* committed when nothing is left to decode.
LEMMA DecodeInv ==
  ASSUME IInv, NEW m \in Members, Decode(m), UNCHANGED DLQ
  PROVE  IInv'
<1> DEFINE o == Min(todo[m])
<1>1. todo[m] \subseteq Offsets /\ items[m] \subseteq Offsets
  BY DEF IInv, TypeOK
<1>2. todo[m] # {} => o \in todo[m] /\ o \in Offsets
  BY <1>1, MinMaxOfBatch
<1>3. Done' = Done
  BY DEF Decode, Done, Settled
<1>4. /\ recs' = recs /\ pos' = pos /\ committed' = committed
      /\ owner' = owner \/ owner' = None
  BY DEF Decode, Leave, ReleaseOwner
<1>5. /\ \A k \in Members \ {m} : /\ phase'[k] = phase[k] /\ todo'[k] = todo[k]
                                   /\ items'[k] = items[k]
  BY DEF Decode, Leave, IInv, TypeOK, GroupTypeOK
<1>6. \A k \in Members \ {m} : MemberInv(k)'
  BY <1>3, <1>4, <1>5, OthersKept, GroupAssumption
<1>7. BatchCommitCovers'
  BY <1>3, <1>4 DEF IInv, BatchCommitCovers, Done
<1> HIDE DEF o
<1>8. TypeOK' /\ MemberInv(m)'
  <2>1. CASE /\ todo[m] # {} /\ o \notin Poison
             /\ todo' = [todo EXCEPT ![m] = @ \ {o}]
             /\ items' = [items EXCEPT ![m] = @ \cup ({o} \ Skipped)]
             /\ UNCHANGED <<owner, phase>>
    <3>1. todo'[m] = todo[m] \ {o} /\ items'[m] = items[m] \cup ({o} \ Skipped)
      BY <2>1 DEF IInv, TypeOK
    <3>2. todo' \in [Members -> SUBSET Offsets] /\ items' \in [Members -> SUBSET Offsets]
      BY <1>1, <1>2, <2>1 DEF IInv, TypeOK
    <3>3. TypeOK'
      BY <2>1, <3>2 DEF Decode, IInv, TypeOK, GroupTypeOK
    <3>4. MemberInv(m)'
      BY <1>3, <1>4, <2>1, <3>1
      DEF Decode, IInv, MemberInv, Holed, Fetched, Decoding, Nonempty, Done
    <3>5. QED
      BY <3>3, <3>4
  <2>2. CASE /\ todo[m] # {} /\ o \in Poison /\ phase' = [phase EXCEPT ![m] = "deadletter"]
             /\ UNCHANGED <<owner, todo, items>>
    <3>1. phase'[m] = "deadletter"
      BY <2>2 DEF IInv, TypeOK, GroupTypeOK
    <3>2. TypeOK'
      BY <2>2 DEF Decode, IInv, TypeOK, GroupTypeOK, Running
    <3>3. MemberInv(m)'
      BY <1>3, <1>4, <2>2, <3>1
      DEF Decode, IInv, MemberInv, Holed, Fetched, Decoding, Nonempty, Running
    <3>4. QED
      BY <3>2, <3>3
  <2>3. CASE Leave(m) /\ UNCHANGED <<todo, items>>
    <3>1. phase'[m] = "dead" /\ owner' # m
      BY <2>3, GroupAssumption DEF Leave, ReleaseOwner, IInv, TypeOK, GroupTypeOK
    <3>2. TypeOK'
      BY <2>3 DEF Decode, Leave, ReleaseOwner, IInv, TypeOK, GroupTypeOK
    <3>3. MemberInv(m)'
      BY <1>3, <1>4, <3>1, MemberGone DEF IInv
    <3>4. QED
      BY <3>2, <3>3
  <2>4. CASE /\ todo[m] = {}
             /\ phase' = [phase EXCEPT ![m] = IF items[m] = {} THEN "committing" ELSE "flushing"]
             /\ UNCHANGED <<owner, todo, items>>
    <3>1. phase'[m] = IF items[m] = {} THEN "committing" ELSE "flushing"
      BY <2>4 DEF IInv, TypeOK, GroupTypeOK
    <3>2. TypeOK'
      BY <2>4 DEF Decode, IInv, TypeOK, GroupTypeOK, Running
    <3>3. MemberInv(m)'
      BY <1>3, <1>4, <2>4, <3>1
      DEF Decode, IInv, MemberInv, Holed, Fetched, Decoding, Nonempty, Running
    <3>4. QED
      BY <3>2, <3>3
  <2>5. QED
    BY <2>1, <2>2, <2>3, <2>4 DEF Decode, o
<1>9. QED
  BY <1>6, <1>7, <1>8 DEF IInv

\* A dead-lettered record is done.
LEMMA ToDLQInv ==
  ASSUME IInv, NEW m \in Members, ToDLQ(m), UNCHANGED DLQ
  PROVE  IInv'
<1> DEFINE o == Min(todo[m])
<1>1. o \in todo[m] /\ o \in Offsets
  BY MinMaxOfBatch DEF ToDLQ, IInv, TypeOK, MemberInv, Decoding
<1>2. todo' = [todo EXCEPT ![m] = todo[m] \ {o}] /\ dlq' = dlq \cup {o}
  BY DEF ToDLQ
<1> HIDE DEF o
<1>3. TypeOK'
  BY <1>1, <1>2 DEF ToDLQ, IInv, TypeOK, GroupTypeOK, Running
<1>4. Done' = Done \cup {o}
  BY <1>2 DEF ToDLQ, Done, Settled
<1>5. todo'[m] = todo[m] \ {o} /\ phase'[m] = "handling"
  BY <1>2 DEF ToDLQ, IInv, TypeOK, GroupTypeOK
<1>6. MemberInv(m)'
  BY <1>4, <1>5 DEF ToDLQ, IInv, MemberInv, Holed, Fetched, Decoding, Nonempty, Running
<1>7. \A k \in Members \ {m} : MemberInv(k)'
  <2>1. \A k \in Members \ {m} : /\ phase'[k] = phase[k] /\ pos'[k] = pos[k]
                                 /\ recs'[k] = recs[k] /\ todo'[k] = todo[k]
                                 /\ items'[k] = items[k]
                                 /\ owner' = k => owner = k
    BY <1>2 DEF ToDLQ, IInv, TypeOK, GroupTypeOK
  <2>2. QED
    BY <1>4, <2>1, OthersKept
<1>8. BatchCommitCovers'
  BY <1>4 DEF ToDLQ, IInv, BatchCommitCovers, Done
<1>9. QED
  BY <1>3, <1>6, <1>7, <1>8 DEF IInv

\* A step that only ends the member's run: it gives up, is cancelled while it
\* polls, or crashes.
LEMMA GoneInv ==
  ASSUME IInv, NEW m \in Members, TypeOK', Done \subseteq Done', UNCHANGED <<committed, pos, runVars>>,
         ReleaseOwner(m),
         \E gone \in {"down", "dead"} : phase' = [phase EXCEPT ![m] = gone]
  PROVE  IInv'
<1>1. phase'[m] \in {"down", "dead"} /\ \A k \in Members \ {m} : phase'[k] = phase[k]
  BY DEF IInv, TypeOK, GroupTypeOK
<1>2. owner' # m /\ (owner' = owner \/ owner' = None)
  BY GroupAssumption DEF ReleaseOwner
<1>3. MemberInv(m)'
  BY <1>1, <1>2, MemberGone DEF IInv, runVars
<1>4. \A k \in Members \ {m} : MemberInv(k)'
  BY <1>1, <1>2, OthersKept, GroupAssumption DEF runVars
<1>5. BatchCommitCovers'
  BY DEF IInv, BatchCommitCovers, Done
<1>6. QED
  BY <1>3, <1>4, <1>5 DEF IInv

\* Giving up on the DLQ, whether or not the record reached it.
LEMMA ToDLQFailsInv ==
  ASSUME IInv, NEW m \in Members, ToDLQFails(m), UNCHANGED DLQ
  PROVE  IInv'
<1>1. Min(todo[m]) \in Offsets
  BY MinMaxOfBatch DEF ToDLQFails, IInv, TypeOK, MemberInv, Decoding
<1>2. dlq' \in SUBSET Offsets /\ dlq \subseteq dlq'
  BY <1>1 DEF ToDLQFails, IInv, TypeOK, GroupTypeOK
<1>3. faults' \in 0..MaxFaults
  BY GroupAssumption DEF ToDLQFails, CallFails, Fault, NoFault, IInv, TypeOK, GroupTypeOK
<1>4. TypeOK'
  BY <1>2, <1>3
  DEF ToDLQFails, Leave, ReleaseOwner, runVars, IInv, TypeOK, GroupTypeOK
<1>5. Done \subseteq Done'
  BY <1>2 DEF ToDLQFails, Done, Settled
<1>6. QED
  BY <1>4, <1>5, GoneInv DEF ToDLQFails, Leave

\* A flushed batch is done.
LEMMA FlushOkInv ==
  ASSUME IInv, NEW m \in Members, FlushOk(m), UNCHANGED DLQ
  PROVE  IInv'
<1>1. TypeOK'
  BY GroupAssumption DEF FlushOk, runVars, IInv, TypeOK, GroupTypeOK, Running
<1>2. Done' = Done \cup items[m]
  BY DEF FlushOk, Done, Settled
<1>3. phase'[m] = "committing"
  BY DEF FlushOk, IInv, TypeOK, GroupTypeOK
<1>4. MemberInv(m)'
  BY <1>2, <1>3
  DEF FlushOk, runVars, IInv, MemberInv, Holed, Fetched, Decoding, Nonempty, Running
<1>5. \A k \in Members \ {m} : MemberInv(k)'
  <2>1. \A k \in Members \ {m} : /\ phase'[k] = phase[k] /\ pos'[k] = pos[k]
                                 /\ recs'[k] = recs[k] /\ todo'[k] = todo[k]
                                 /\ items'[k] = items[k]
                                 /\ owner' = k => owner = k
    BY DEF FlushOk, runVars, IInv, TypeOK, GroupTypeOK
  <2>2. QED
    BY <1>2, <2>1, OthersKept
<1>6. BatchCommitCovers'
  BY <1>2 DEF FlushOk, IInv, BatchCommitCovers, Done
<1>7. QED
  BY <1>1, <1>4, <1>5, <1>6 DEF IInv

\* A failed flush may have stored the batch; it is tried again, or given up
\* without a commit.
LEMMA FlushErrorInv ==
  ASSUME IInv, NEW m \in Members, FlushError(m), UNCHANGED DLQ
  PROVE  IInv'
<1>1. handled' \in SUBSET Offsets /\ handled \subseteq handled'
  BY DEF FlushError, IInv, TypeOK, GroupTypeOK
<1>2. faults' \in 0..MaxFaults
  BY GroupAssumption DEF FlushError, CallFails, Fault, NoFault, IInv, TypeOK, GroupTypeOK
<1>3. Done \subseteq Done'
  BY <1>1 DEF FlushError, Done, Settled
<1>4. CASE /\ attempt[m] < MaxRetries /\ attempt' = [attempt EXCEPT ![m] = @ + 1]
           /\ UNCHANGED <<owner, phase>>
  <2>1. attempt' \in [Members -> 0..MaxRetries]
    BY <1>4, GroupAssumption DEF IInv, TypeOK, GroupTypeOK
  <2>2. TypeOK'
    BY <1>1, <1>2, <1>4, <2>1 DEF FlushError, runVars, IInv, TypeOK, GroupTypeOK
  <2>3. \A k \in Members : MemberInv(k)'
    BY <1>3, <1>4, MemberKept DEF FlushError, runVars, IInv
  <2>4. BatchCommitCovers'
    BY <1>3 DEF FlushError, IInv, BatchCommitCovers, Done
  <2>5. QED
    BY <2>2, <2>3, <2>4 DEF IInv
<1>5. CASE Leave(m) /\ UNCHANGED attempt
  <2>1. TypeOK'
    BY <1>1, <1>2, <1>5
    DEF FlushError, Leave, ReleaseOwner, runVars, IInv, TypeOK, GroupTypeOK
  <2>2. QED
    BY <1>3, <1>5, <2>1, GoneInv DEF FlushError, Leave
<1>6. QED
  BY <1>4, <1>5 DEF FlushError

\* The highest record of a batch is committed when the whole batch is done,
\* and the records in its holes are.
LEMMA CommitBatchInv ==
  ASSUME IInv, NEW m \in Members, CommitBatch(m), UNCHANGED DLQ
  PROVE  IInv'
<1> DEFINE top == Max(recs[m])
<1>1. top \in recs[m] /\ top \in Offsets
  BY MinMaxOfBatch DEF CommitBatch, IInv, TypeOK, MemberInv, Nonempty, Running
<1>2. recs[m] \subseteq Done /\ 1..top \subseteq recs[m] \cup Done
  BY <1>1 DEF CommitBatch, IInv, MemberInv, Holed, Decoding
<1>3. committed' \in {committed, top}
  BY DEF CommitBatch, CommitOffset
<1> HIDE DEF top
<1>4. Done' = Done
  BY DEF CommitBatch, Done, Settled
<1>5. BatchCommitCovers'
  BY <1>2, <1>3, <1>4 DEF IInv, BatchCommitCovers, Done
<1>6. TypeOK'
  <2>1. committed' \in 0..LogEnd
    BY <1>1, <1>3, GroupAssumption DEF Offsets, IInv, TypeOK, GroupTypeOK
  <2>2. faults' \in 0..MaxFaults
    BY GroupAssumption
    DEF CommitBatch, CommitOffset, Fault, NoFault, IInv, TypeOK, GroupTypeOK
  <2>3. QED
    BY <2>1, <2>2 DEF CommitBatch, IInv, TypeOK, GroupTypeOK, Running
<1>7. recs'[m] = {} /\ phase'[m] = "polling" /\ pos' = pos /\ owner' = owner
  BY DEF CommitBatch, IInv, TypeOK, GroupTypeOK
<1>8. MemberInv(m)'
  BY <1>2, <1>4, <1>7 DEF IInv, MemberInv, Holed, Fetched, Decoding, Nonempty, Running
<1>9. \A k \in Members \ {m} : MemberInv(k)'
  <2>1. \A k \in Members \ {m} : /\ phase'[k] = phase[k] /\ pos'[k] = pos[k]
                                 /\ recs'[k] = recs[k] /\ todo'[k] = todo[k]
                                 /\ items'[k] = items[k]
                                 /\ owner' = k => owner = k
    BY DEF CommitBatch, IInv, TypeOK, GroupTypeOK
  <2>2. QED
    BY <1>4, <2>1, OthersKept
<1>10. QED
  BY <1>5, <1>6, <1>8, <1>9 DEF IInv

\* A process starts again with an empty batch and without the partition.
LEMMA RestartRunInv ==
  ASSUME IInv, NEW m \in Members, RestartRun(m), UNCHANGED DLQ
  PROVE  IInv'
<1>1. TypeOK'
  <2>1. cancelled' \in [Members -> BOOLEAN]
    <3>1. cancelled \in [Members -> BOOLEAN] /\ cancelled' = [cancelled EXCEPT ![m] = FALSE]
      BY DEF RestartRun, Restart, IInv, TypeOK, GroupTypeOK
    <3>2. QED
      BY <3>1, SetFlag
  <2>2. QED
    BY <2>1, GroupAssumption DEF RestartRun, Restart, IInv, TypeOK, GroupTypeOK, Running
<1>2. Done' = Done
  BY DEF RestartRun, Restart, Done, Settled
<1>3. recs'[m] = {} /\ phase'[m] = "polling" /\ owner' = owner
  BY DEF RestartRun, Restart, IInv, TypeOK, GroupTypeOK
<1>4. owner # m
  BY DEF RestartRun, Restart, IInv, MemberInv, Fetched, Running
<1>5. MemberInv(m)'
  BY <1>3, <1>4 DEF MemberInv, Holed, Fetched, Decoding, Nonempty
<1>6. \A k \in Members \ {m} : MemberInv(k)'
  <2>1. \A k \in Members \ {m} : /\ phase'[k] = phase[k] /\ pos'[k] = pos[k]
                                 /\ recs'[k] = recs[k] /\ todo'[k] = todo[k]
                                 /\ items'[k] = items[k]
                                 /\ owner' = k => owner = k
    BY DEF RestartRun, Restart, IInv, TypeOK, GroupTypeOK
  <2>2. QED
    BY <1>2, <2>1, OthersKept
<1>7. BatchCommitCovers'
  BY <1>2 DEF RestartRun, Restart, IInv, BatchCommitCovers, Done
<1>8. QED
  BY <1>1, <1>5, <1>6, <1>7 DEF IInv

\* The coordinator and the processes: a member that gets the partition fetches
\* from the committed offset, up to which everything is done.
LEMMA GroupInv ==
  ASSUME IInv, NEW m \in Members, GroupStep(m) \/ Disturb(m), UNCHANGED <<DLQ, runVars>>
  PROVE  IInv'
<1>1. Done' = Done
  BY DEF GroupStep, Disturb, Assign, PollCancelled, Revoke, Crash, Cancel, Done, Settled
<1>2. BatchCommitCovers'
  BY <1>1 DEF GroupStep, Disturb, Assign, PollCancelled, Revoke, Crash, Cancel, IInv,
              BatchCommitCovers, Done
<1>3. faults' \in 0..MaxFaults
  BY GroupAssumption
  DEF GroupStep, Disturb, Assign, PollCancelled, Revoke, Crash, Cancel, Fault, IInv, TypeOK,
      GroupTypeOK
<1>4. CASE Assign(m)
  <2>1. TypeOK'
    BY <1>4 DEF Assign, runVars, IInv, TypeOK, GroupTypeOK
  <2>2. MemberInv(m)'
    <3>1. Fetched(m)'
      BY <1>1, <1>4 DEF Assign, IInv, TypeOK, GroupTypeOK, BatchCommitCovers, Fetched, Done
    <3>2. Holed(m)' /\ Decoding(m)' /\ Nonempty(m)'
      BY <1>1, <1>4 DEF Assign, runVars, IInv, MemberInv, Holed, Decoding, Nonempty
    <3>3. QED
      BY <3>1, <3>2 DEF MemberInv
  <2>3. \A k \in Members \ {m} : MemberInv(k)'
    BY <1>1, <1>4, MemberKept DEF Assign, runVars, IInv
  <2>4. QED
    BY <1>2, <2>1, <2>2, <2>3 DEF IInv
<1>5. CASE Revoke(m) \/ Cancel(m)
  <2>1. cancelled' \in [Members -> BOOLEAN]
    <3>1. /\ cancelled \in [Members -> BOOLEAN]
          /\ cancelled' = cancelled \/ cancelled' = [cancelled EXCEPT ![m] = TRUE]
      BY <1>5 DEF Revoke, Cancel, IInv, TypeOK, GroupTypeOK
    <3>2. QED
      BY <3>1, SetFlag
  <2>2. TypeOK'
    BY <1>3, <1>5, <2>1 DEF Revoke, Cancel, runVars, IInv, TypeOK, GroupTypeOK
  <2>3. \A k \in Members : MemberInv(k)'
    BY <1>1, <1>5, MemberKept, GroupAssumption DEF Revoke, Cancel, runVars, IInv
  <2>4. QED
    BY <1>2, <2>2, <2>3 DEF IInv
<1>6. CASE PollCancelled(m) \/ Crash(m)
  <2>1. TypeOK'
    BY <1>3, <1>6
    DEF PollCancelled, Crash, Leave, ReleaseOwner, runVars, IInv, TypeOK, GroupTypeOK
  <2>2. QED
    BY <1>1, <1>6, <2>1, GoneInv DEF PollCancelled, Crash, Leave
<1>7. QED
  BY <1>4, <1>5, <1>6 DEF GroupStep, Disturb

-----------------------------------------------------------------------------
\* The inductive invariant holds in every reachable state.
THEOREM Invariance == Safety => []IInv
<1>1. IInv /\ [Next]_vars => IInv'
  <2> SUFFICES ASSUME IInv, [Next]_vars PROVE IInv'
    OBVIOUS
  <2>1. CASE Next
    <3>1. PICK m \in Members :
            \/ Collect(m) \/ RunStep(m) \/ ToDLQFails(m) \/ FlushError(m)
            \/ Environment(m)
            \/ Disturb(m) /\ UNCHANGED runVars
      BY <2>1 DEF Next
    <3>2. UNCHANGED DLQ
      BY <2>1 DEF Next
    <3>3. QED
      BY <3>1, <3>2, CollectInv, LingeredInv, DecodeInv, ToDLQInv, ToDLQFailsInv, FlushOkInv,
         FlushErrorInv, CommitBatchInv, RestartRunInv, GroupInv
      DEF RunStep, Environment
  <2>2. CASE UNCHANGED vars
    BY <2>2 DEF vars, steps, groupVars, runVars, IInv, TypeOK, GroupTypeOK, BatchCommitCovers,
                MemberInv, Holed, Fetched, Decoding, Nonempty, Done, Settled
  <2>3. QED
    BY <2>1, <2>2
<1>2. QED
  BY InitIInv, <1>1, PTL DEF Safety

\* The batch consumer keeps its types.
THEOREM TypeCorrect == Spec => []TypeOK
<1>1. IInv => TypeOK
  BY DEF IInv
<1>2. QED
  BY Invariance, <1>1, PTL DEF Spec

\* At least once for batches (batch.go): whatever the size of the batch, the
\* rebalances between its polls and the commits of members that have lost the
\* partition, every record up to the committed offset is stored,
\* dead-lettered or skipped.
THEOREM BatchAtLeastOnce == Spec => []BatchCommitCovers
<1>1. IInv => BatchCommitCovers
  BY DEF IInv
<1>2. QED
  BY Invariance, <1>1, PTL DEF Spec

-----------------------------------------------------------------------------
(* Programs (Lifecycle)                                                     *)

Verbs == {"open", "check", "command", "start"}
Resources == {"tracing", "postgres", "redis", "producer", ""}
Parts == {"always", "kafka", "cache"}
BootSteps == [does : Verbs, what : Resources \cup Loops, needs : Parts]
Calls == {s \in BootSteps : s.does # "start" /\ s.what \notin Loops}
Begins == {s \in BootSteps : s.does = "start" /\ s.what \in Loops}

\* Booting calls what may fail before the first loop is started, and starts
\* each loop once, only loops of S.
Ordered(b, S) ==
  /\ b \in Seq(Calls \cup Begins)
  /\ \A i \in 1..Len(b) : b[i] \in Begins => b[i].what \in S
  /\ \A i \in 1..Len(b), j \in 1..Len(b) : i < j /\ b[i] \in Begins => b[j] \in Begins /\ b[i].what # b[j].what

\* A program boots in that order and joins every loop that it starts.
JoinedLoops(p) == {p.join[k] : k \in 1..Len(p.join)}
WellMade(p) == p.join \in Seq(Loops) /\ Ordered(p.boot, JoinedLoops(p))

LEMMA StepKinds ==
  /\ \A r \in Resources : Opens(r) \in Calls
  /\ Checks \in Calls /\ Commands \in Calls
  /\ \A l \in Loops : Starts(l) \in Begins /\ Starts(l).what = l
  /\ \A part \in Parts, s \in Calls : If(part, s) \in Calls
  /\ \A part \in Parts, s \in Begins : If(part, s) \in Begins /\ If(part, s).what = s.what
<1>1. \A r \in Resources : Opens(r) \in Calls
  BY DEF Calls, BootSteps, Opens, Loops, Verbs, Resources, Parts
<1>2. Checks \in Calls /\ Commands \in Calls
  BY DEF Calls, BootSteps, Checks, Commands, Loops, Verbs, Resources, Parts
<1>3. \A l \in Loops : Starts(l) \in Begins /\ Starts(l).what = l
  BY DEF Begins, BootSteps, Starts, Verbs, Parts
<1>4. \A part \in Parts, s \in Calls : If(part, s) \in Calls
  BY DEF Calls, BootSteps, If
<1>5. \A part \in Parts, s \in Begins : If(part, s) \in Begins /\ If(part, s).what = s.what
  BY DEF Begins, BootSteps, If
<1>6. QED
  BY <1>1, <1>2, <1>3, <1>4, <1>5

\* The steps the programs are made of.
LEMMA TheSteps ==
  /\ Opens("tracing") \in Calls /\ Opens("postgres") \in Calls /\ Opens("redis") \in Calls /\ Opens("producer") \in Calls
  /\ Checks \in Calls /\ Commands \in Calls
  /\ If("kafka", Opens("producer")) \in Calls /\ If("kafka", Checks) \in Calls /\ If("cache", Opens("redis")) \in Calls
  /\ Starts("relay") \in Begins /\ Starts("relay").what = "relay"
  /\ Starts("consumer") \in Begins /\ Starts("consumer").what = "consumer"
  /\ Starts("builder") \in Begins /\ Starts("builder").what = "builder"
  /\ Starts("aggregator") \in Begins /\ Starts("aggregator").what = "aggregator"
  /\ If("kafka", Starts("relay")) \in Begins /\ If("kafka", Starts("relay")).what = "relay"
  /\ If("kafka", Starts("consumer")) \in Begins /\ If("kafka", Starts("consumer")).what = "consumer"
  /\ Calls \cap Begins = {}
<1>1. "kafka" \in Parts /\ "cache" \in Parts /\ {"relay", "consumer", "builder", "aggregator"} = Loops
      /\ {"tracing", "postgres", "redis", "producer"} \subseteq Resources
  BY DEF Parts, Loops, Resources
<1>2. Calls \cap Begins = {}
  BY DEF Calls, Begins
<1>3. QED
  BY <1>1, <1>2, StepKinds

LEMMA AfterCalls ==
  ASSUME NEW h \in Seq(Calls), NEW t, NEW S, Ordered(t, S)
  PROVE  Ordered(h \o t, S)
<1> DEFINE b == h \o t
<1>1. Calls \cap Begins = {} /\ t \in Seq(Calls \cup Begins)
  BY TheSteps DEF Ordered
<1>2. b \in Seq(Calls \cup Begins) /\ Len(b) = Len(h) + Len(t) /\ Len(h) \in Nat /\ Len(t) \in Nat
  BY <1>1
<1>3. \A i \in 1..Len(b) : b[i] \in Begins => i - Len(h) \in 1..Len(t) /\ b[i] = t[i - Len(h)]
  BY <1>1, <1>2
<1>4. \A i \in 1..Len(b) : i > Len(h) => i - Len(h) \in 1..Len(t) /\ b[i] = t[i - Len(h)]
  BY <1>1, <1>2
<1>5. ASSUME NEW i \in 1..Len(b), NEW j \in 1..Len(b), i < j, b[i] \in Begins
      PROVE  b[j] \in Begins /\ b[i].what # b[j].what
  <2>1. i - Len(h) \in 1..Len(t) /\ b[i] = t[i - Len(h)]
    BY <1>3, <1>5
  <2>2. j - Len(h) \in 1..Len(t) /\ b[j] = t[j - Len(h)]
    BY <1>2, <1>4, <1>5, <2>1
  <2>3. i - Len(h) < j - Len(h)
    BY <1>2, <1>5
  <2>4. QED
    BY <1>5, <2>1, <2>2, <2>3 DEF Ordered
<1>6. \A i \in 1..Len(b) : b[i] \in Begins => b[i].what \in S
  BY <1>3 DEF Ordered
<1>7. QED
  BY <1>2, <1>5, <1>6 DEF Ordered

LEMMA Made ==
  ASSUME NEW boot, NEW join \in Seq(Loops), NEW optional, NEW S, {join[k] : k \in 1..Len(join)} = S, Ordered(boot, S)
  PROVE  WellMade(Serves(boot, join, optional))
BY DEF WellMade, Serves, JoinedLoops

LEMMA TheJoins ==
  /\ <<"relay">> \in Seq(Loops) /\ {<<"relay">>[k] : k \in 1..Len(<<"relay">>)} = {"relay"}
  /\ <<"consumer">> \in Seq(Loops) /\ {<<"consumer">>[k] : k \in 1..Len(<<"consumer">>)} = {"consumer"}
  /\ \A l \in Loops, m \in Loops : <<l, m>> \in Seq(Loops) /\ {<<l, m>>[k] : k \in 1..Len(<<l, m>>)} = {l, m}
  /\ <<>> \in Seq(Loops) /\ {<<>>[k] : k \in 1..Len(<<>>)} = {}
  /\ {"relay", "consumer", "builder", "aggregator"} = Loops
BY DEF Loops

LEMMA ProgramsWellMade == \A p \in Programs : WellMade(p)
<1> USE TheSteps
<1>1. Database \in Seq(Calls) /\ Database \o <<Opens("redis")>> \in Seq(Calls)
  BY DEF Database
<1>2. Ordered(Relayed, {"relay"})
  BY DEF Ordered, Relayed
<1>3. WellMade(Playlist_main) /\ WellMade(Social_main) /\ WellMade(Library_main)
  <2>1. Ordered(Database \o <<Opens("redis")>> \o Relayed, {"relay"})
    BY <1>1, <1>2, AfterCalls
  <2>2. QED
    BY <2>1, TheJoins, Made DEF Playlist_main, Social_main, Library_main
<1>4. WellMade(Auth_main)
  <2>1. Ordered(<<Opens("redis"), If("kafka", Opens("producer")), If("kafka", Checks),
                  Checks, If("kafka", Starts("relay"))>>, {"relay"})
    BY DEF Ordered
  <2>2. QED
    BY <1>1, <2>1, TheJoins, Made, AfterCalls DEF Auth_main
<1>5. WellMade(MediaIngest_main)
  <2>1. Database \o <<Opens("redis"), Checks>> \in Seq(Calls)
    BY <1>1
  <2>2. QED
    BY <1>2, <2>1, TheJoins, Made, AfterCalls DEF MediaIngest_main
<1>6. WellMade(Catalog_main)
  <2>1. Ordered(<<If("kafka", Opens("producer")), If("kafka", Checks), If("cache", Opens("redis")), If("kafka", Checks),
                  If("kafka", Starts("consumer")), If("kafka", Starts("relay"))>>, {"relay", "consumer"})
    BY DEF Ordered
  <2>2. QED
    BY <1>1, <2>1, TheJoins, Made, AfterCalls DEF Catalog_main
<1>7. WellMade(UserProfile_main)
  <2>1. Ordered(<<Opens("redis"), If("kafka", Opens("producer")), If("kafka", Checks), If("kafka", Checks),
                  If("kafka", Starts("consumer")), If("kafka", Starts("relay"))>>, {"relay", "consumer"})
    BY DEF Ordered
  <2>2. QED
    BY <1>1, <2>1, TheJoins, Made, AfterCalls DEF UserProfile_main
<1>8. WellMade(History_main)
  <2>1. Ordered(<<Opens("redis"), If("kafka", Checks), If("kafka", Starts("consumer"))>>, {"consumer"})
    BY DEF Ordered
  <2>2. QED
    BY <1>1, <2>1, TheJoins, Made, AfterCalls DEF History_main
<1>9. WellMade(Playback_main) /\ WellMade(Bff_main) /\ WellMade(Search_main) /\ WellMade(Recommendation_main) /\ WellMade(StreamAuth_main)
  <2>1. /\ Ordered(<<Opens("tracing"), Opens("redis"), If("kafka", Opens("producer"))>>, {})
        /\ Ordered(<<Opens("tracing")>>, {}) /\ Ordered(<<Opens("tracing"), Opens("redis")>>, {})
        /\ Ordered(<<Opens("tracing"), Opens("redis"), Checks>>, {})
    BY DEF Ordered
  <2>2. QED
    BY <2>1, TheJoins, Made DEF Playback_main, Bff_main, Search_main, Recommendation_main, StreamAuth_main
<1>10. WellMade(Metadata_main) /\ WellMade(AudioAnalysis_main)
  <2>1. Ordered(<<Checks, Checks, Opens("producer"), Checks, Checks, Starts("consumer"), Starts("relay")>>, {"consumer", "relay"})
    BY DEF Ordered
  <2>2. QED
    BY <1>1, <2>1, TheJoins, Made, AfterCalls DEF Metadata_main, AudioAnalysis_main
<1>11. WellMade(RecommendationWorker_main)
  <2>1. Ordered(<<Opens("redis"), Commands, Checks, Starts("consumer"), Starts("builder")>>, {"builder", "consumer"})
    BY DEF Ordered
  <2>2. QED
    BY <1>1, <2>1, TheJoins, Made, AfterCalls DEF RecommendationWorker_main
<1>12. WellMade(SearchIndexer_main) /\ WellMade(Transcoder_main)
  <2>1. /\ Ordered(<<Opens("tracing"), Commands, Checks, Starts("consumer")>>, {"consumer"})
        /\ Ordered(<<Opens("tracing"), Checks, Checks, Opens("producer"), Checks, Starts("consumer")>>, {"consumer"})
    BY DEF Ordered
  <2>2. QED
    BY <2>1, TheJoins, Made DEF SearchIndexer_main, Transcoder_main
<1>13. WellMade(Analytics_serve)
  <2>1. Ordered(<<Opens("tracing"), Checks, Starts("consumer"), Starts("aggregator")>>, {"aggregator", "consumer"})
    BY DEF Ordered
  <2> DEFINE p == Serves(<<Opens("tracing"), Checks, Starts("consumer"), Starts("aggregator")>>, <<"aggregator", "consumer">>, {})
  <2>2. WellMade(p)
    BY <2>1, TheJoins, Made
  <2>3. Analytics_serve.boot = p.boot /\ Analytics_serve.join = p.join
    BY DEF Analytics_serve, Serves
  <2>4. QED
    BY <2>2, <2>3 DEF WellMade, JoinedLoops
<1>14. QED
  BY <1>3, <1>4, <1>5, <1>6, <1>7, <1>8, <1>9, <1>10, <1>11, <1>12, <1>13 DEF Programs

\* The loops started or turned off before step n.
Begun(n) == {program.boot[j].what : j \in {i \in 1..Len(program.boot) : i < n /\ program.boot[i] \in Begins}}
OpenedFirst(n) == {j \in Openings : j < n}
Opened == stack \o Reverse(closing)
Names == Resources \cup Loops

LifeTyped ==
  /\ program \in Programs /\ at \in Nat \ {0}
  /\ stack \in Seq(Names) /\ closing \in Seq(Names)
  /\ running \subseteq Loops /\ joinable \subseteq Loops
  /\ inFlight \in Nat

BootKnows ==
  stage = "boot" => /\ closing = <<>> /\ inFlight = 0
                    /\ Len(stack) = Cardinality(OpenedFirst(at))
                    /\ running \cup joinable \subseteq Begun(at)

OpenedRight ==
  /\ Len(Opened) <= Cardinality(Openings)
  /\ \A k \in Openings : Rank(k) <= Len(Opened) => Opened[Rank(k)] = program.boot[k].what

\* A loop runs or has left its result, and is joined.
LoopsKnown == running \cap joinable = {} /\ running \subseteq JoinedLoops(program)

JoinKnows ==
  stage = "joining" => inFlight = 0 /\ \A i \in 1..Len(program.join) : i < at => program.join[i] \in joinable

CloseKnows ==
  /\ closing # <<>> => stage \in {"closing", "exited"}
  /\ stage = "closing" /\ failure # "server" => running = {} /\ inFlight = 0
  /\ stage = "exited" => stack = <<>>

LifeInv == LifeTyped /\ BootKnows /\ OpenedRight /\ LoopsKnown /\ JoinKnows /\ CloseKnows

-----------------------------------------------------------------------------
\* The step that booting has come to.
LEMMA AtStep ==
  ASSUME LifeInv, Booting
  PROVE  /\ at \in 1..Len(program.boot) /\ at + 1 \in Nat \ {0} /\ Len(program.boot) \in Nat
         /\ BootStep \in Calls \cup Begins /\ BootStep.what \in Names
         /\ BootStep.does = "start" <=> BootStep \in Begins
         /\ BootStep.what \in Loops <=> BootStep \in Begins
         /\ BootStep \in Begins => BootStep.what \in JoinedLoops(program) /\ BootStep.what \notin Begun(at)
         /\ BootStep \notin Begins => Begun(at) = {}
         /\ Begun(at) \subseteq Begun(at + 1)
         /\ BootStep \in Begins => BootStep.what \in Begun(at + 1)
<1> DEFINE b == program.boot
<1>1. Ordered(b, JoinedLoops(program)) /\ at \in Nat \ {0}
  BY ProgramsWellMade DEF LifeInv, LifeTyped, WellMade
<1>2. b \in Seq(Calls \cup Begins) /\ Len(b) \in Nat
  BY <1>1 DEF Ordered
<1>3. at \in 1..Len(b)
  BY <1>1, <1>2 DEF Booting
<1>4. b[at] \in Calls \cup Begins
  BY <1>2, <1>3
<1>5. /\ BootStep = b[at] /\ BootStep \in Calls \cup Begins /\ BootStep.what \in Names
      /\ BootStep.does = "start" <=> BootStep \in Begins
      /\ BootStep.what \in Loops <=> BootStep \in Begins
  BY <1>4 DEF BootStep, Calls, Begins, BootSteps, Names
<1>6. ASSUME BootStep \in Begins
      PROVE  BootStep.what \in JoinedLoops(program) /\ BootStep.what \notin Begun(at) /\ BootStep.what \in Begun(at + 1)
  <2>1. BootStep.what \in JoinedLoops(program)
    BY <1>1, <1>3, <1>5, <1>6 DEF Ordered
  <2>2. BootStep.what \notin Begun(at)
    BY <1>1, <1>3, <1>5, <1>6 DEF Ordered, Begun
  <2>3. at < at + 1
    BY <1>1
  <2>4. BootStep.what \in Begun(at + 1)
    BY <1>3, <1>5, <1>6, <2>3 DEF Begun
  <2>5. QED
    BY <2>1, <2>2, <2>4
<1>7. ASSUME BootStep \notin Begins PROVE Begun(at) = {}
  BY <1>1, <1>3, <1>5, <1>7 DEF Ordered, Begun
<1>8. Begun(at) \subseteq Begun(at + 1)
  <2>1. \A i \in 1..Len(b) : i < at => i < at + 1
    BY <1>1, <1>2
  <2>2. QED
    BY <2>1 DEF Begun
<1>9. QED
  BY <1>1, <1>2, <1>3, <1>5, <1>6, <1>7, <1>8

LEMMA OpeningsFinite ==
  ASSUME LifeTyped
  PROVE  /\ IsFiniteSet(Openings) /\ Openings \subseteq Nat
         /\ \A S \in SUBSET Openings : IsFiniteSet(S) /\ Cardinality(S) \in Nat /\ Cardinality(S) <= Cardinality(Openings)
         /\ Cardinality(Openings) \in Nat
<1>1. Len(program.boot) \in Nat
  BY ProgramsWellMade DEF LifeTyped, WellMade, Ordered
<1>2. IsFiniteSet(1..Len(program.boot))
  BY <1>1, FS_Interval
<1>3. Openings \subseteq 1..Len(program.boot)
  BY DEF Openings
<1>4. IsFiniteSet(Openings)
  BY <1>2, <1>3, FS_Subset
<1>5. Cardinality(Openings) \in Nat
  BY <1>4, FS_CardinalityType
<1>6. ASSUME NEW S \in SUBSET Openings
      PROVE  IsFiniteSet(S) /\ Cardinality(S) \in Nat /\ Cardinality(S) <= Cardinality(Openings)
  BY <1>4, FS_Subset, FS_CardinalityType
<1>7. Openings \subseteq Nat
  BY <1>1, <1>3
<1>8. QED
  BY <1>4, <1>5, <1>6, <1>7

\* A step that is no opening, or one turned off, leaves the count of openings.
LEMMA NoOpening ==
  ASSUME LifeInv, Booting, at \notin Openings
  PROVE  OpenedFirst(at + 1) = OpenedFirst(at)
<1>1. at \in Nat /\ Openings \subseteq Nat
  BY OpeningsFinite DEF LifeInv, LifeTyped
<1>2. \A j \in Openings : j < at + 1 <=> j < at
  BY <1>1
<1>3. QED
  BY <1>2 DEF OpenedFirst

\* What is opened next stands at its rank.
LEMMA OpeningRanks ==
  ASSUME LifeInv, Booting, at \in Openings
  PROVE  /\ Cardinality(OpenedFirst(at + 1)) = Cardinality(OpenedFirst(at)) + 1
         /\ Rank(at) = Cardinality(OpenedFirst(at)) + 1
         /\ \A k \in Openings : k < at => Rank(k) <= Cardinality(OpenedFirst(at))
         /\ \A k \in Openings : k > at => Rank(k) > Rank(at)
         /\ \A k \in Openings : Rank(k) \in Nat \ {0}
         /\ Cardinality(OpenedFirst(at)) \in Nat
         /\ Cardinality(OpenedFirst(at + 1)) <= Cardinality(Openings)
<1>1. at \in Nat /\ Openings \subseteq Nat /\ LifeTyped
  BY OpeningsFinite DEF LifeInv, LifeTyped
<1> DEFINE E(k) == {j \in Openings : j <= k}
<1>2. \A k \in Openings : Rank(k) = Cardinality(E(k)) /\ E(k) \in SUBSET Openings /\ k \in E(k)
  BY <1>1 DEF Rank
<1>3. OpenedFirst(at) \in SUBSET Openings /\ OpenedFirst(at + 1) \in SUBSET Openings /\ at \notin OpenedFirst(at)
  BY <1>1 DEF OpenedFirst
<1>4. OpenedFirst(at + 1) = OpenedFirst(at) \cup {at} /\ E(at) = OpenedFirst(at) \cup {at}
  <2>1. \A j \in Openings : (j < at + 1 <=> j < at \/ j = at) /\ (j <= at <=> j < at \/ j = at)
    BY <1>1
  <2>2. QED
    BY <2>1 DEF OpenedFirst
<1>5. Cardinality(OpenedFirst(at) \cup {at}) = Cardinality(OpenedFirst(at)) + 1
  BY <1>1, <1>3, OpeningsFinite, FS_AddElement
<1>6. ASSUME NEW k \in Openings, k < at PROVE Rank(k) <= Cardinality(OpenedFirst(at))
  <2>1. E(k) \subseteq OpenedFirst(at)
    <3>1. \A j \in Openings : j <= k => j < at
      BY <1>1, <1>6
    <3>2. QED
      BY <3>1 DEF OpenedFirst
  <2> HIDE DEF E
  <2>2. Cardinality(E(k)) <= Cardinality(OpenedFirst(at))
    BY <1>1, <1>3, <2>1, OpeningsFinite, FS_Subset
  <2>3. QED
    BY <1>2, <2>2
<1>7. ASSUME NEW k \in Openings, k > at PROVE Rank(k) > Rank(at)
  <2>1. E(at) \cup {k} \subseteq E(k) /\ k \notin E(at)
    <3>1. \A j \in Openings : j <= at => j <= k
      BY <1>1, <1>7
    <3>2. k <= k /\ ~(k <= at)
      BY <1>1, <1>7
    <3>3. QED
      BY <3>1, <3>2
  <2>2. E(at) \in SUBSET Openings /\ E(k) \in SUBSET Openings
    OBVIOUS
  <2> HIDE DEF E
  <2>3. Cardinality(E(at) \cup {k}) = Cardinality(E(at)) + 1
    BY <1>1, <2>1, <2>2, OpeningsFinite, FS_AddElement
  <2>4. Cardinality(E(at) \cup {k}) <= Cardinality(E(k))
    BY <1>1, <2>1, <2>2, OpeningsFinite, FS_Subset
  <2>5. Cardinality(E(at)) \in Nat /\ Cardinality(E(k)) \in Nat
    BY <1>1, <2>2, OpeningsFinite
  <2>6. QED
    BY <1>2, <2>3, <2>4, <2>5
<1>8. ASSUME NEW k \in Openings PROVE Rank(k) \in Nat \ {0}
  <2>1. E(k) \in SUBSET Openings /\ E(k) # {}
    BY <1>2
  <2> HIDE DEF E
  <2>2. IsFiniteSet(E(k)) /\ Cardinality(E(k)) \in Nat
    BY <1>1, <2>1, OpeningsFinite
  <2>3. Cardinality(E(k)) # 0
    BY <2>1, <2>2, FS_EmptySet
  <2>4. QED
    BY <1>2, <2>2, <2>3
<1>9. Cardinality(OpenedFirst(at)) \in Nat /\ Cardinality(OpenedFirst(at + 1)) <= Cardinality(Openings)
  BY <1>1, <1>3, OpeningsFinite
<1> HIDE DEF E
<1>10. QED
  BY <1>2, <1>4, <1>5, <1>6, <1>7, <1>8, <1>9

\* Nothing is closed yet.
LEMMA OpenedIsStack ==
  ASSUME NEW s \in Seq(Names)
  PROVE  s \o Reverse(<<>>) = s
<1>1. Reverse(<<>>) = <<>>
  BY DEF Reverse
<1>2. QED
  BY <1>1

\* Closing moves the last of what is open to the front of what is closed.
LEMMA ClosingKeepsOrder ==
  ASSUME NEW s \in Seq(Names), NEW c \in Seq(Names), s # <<>>
  PROVE  /\ Front(s) \o Reverse(Append(c, Last(s))) = s \o Reverse(c)
         /\ Front(s) \in Seq(Names) /\ Append(c, Last(s)) \in Seq(Names)
<1> DEFINE n == Len(s)
           m == Len(c)
           d == Append(c, Last(s))
<1>1. n \in Nat \ {0} /\ m \in Nat
  OBVIOUS
<1>2. Last(s) = s[n] /\ s[n] \in Names
  BY <1>1 DEF Last
<1>3. d \in Seq(Names) /\ Len(d) = m + 1 /\ d[m + 1] = s[n] /\ \A i \in 1..m : d[i] = c[i]
  <2> DEFINE l == Last(s)
  <2>1. l \in Names
    BY <1>2
  <2> HIDE DEF l
  <2>2. /\ Append(c, l) \in Seq(Names) /\ Len(Append(c, l)) = m + 1 /\ Append(c, l)[m + 1] = l
        /\ \A i \in 1..m : Append(c, l)[i] = c[i]
    BY <1>1, <2>1
  <2>3. QED
    BY <1>2, <2>2 DEF l
<1>4. Front(s) \in Seq(Names) /\ Len(Front(s)) = n - 1 /\ \A i \in 1..n - 1 : Front(s)[i] = s[i]
  <2> DEFINE p == n - 1
  <2>1. p \in Nat /\ p <= n /\ \A i \in 1..p : s[i] \in Names
    BY <1>1
  <2>2. Front(s) = SubSeq(s, 1, p)
    BY DEF Front
  <2>3. SubSeq(s, 1, p) = [i \in 1..p |-> s[i]]
    BY <1>1, <2>1
  <2> HIDE DEF p
  <2>4. [i \in 1..p |-> s[i]] \in Seq(Names)
    BY <2>1
  <2>5. Len(Front(s)) = p
    BY <2>1, <2>2, <2>3
  <2>6. QED
    BY <2>2, <2>3, <2>4, <2>5 DEF p
<1> HIDE DEF d
<1>5. Reverse(d) \in Seq(Names) /\ Len(Reverse(d)) = m + 1 /\ \A i \in 1..m + 1 : Reverse(d)[i] = d[m + 2 - i]
  BY <1>1, <1>3 DEF Reverse
<1>6. Reverse(c) \in Seq(Names) /\ Len(Reverse(c)) = m /\ \A i \in 1..m : Reverse(c)[i] = c[m + 1 - i]
  BY <1>1 DEF Reverse
<1> DEFINE x == Front(s) \o Reverse(d)
           y == s \o Reverse(c)
<1>7. x \in Seq(Names) /\ y \in Seq(Names) /\ Len(x) = n + m /\ Len(y) = n + m
  <2>1. Len(Front(s)) + Len(Reverse(d)) = n + m
    BY <1>1, <1>4, <1>5
  <2>2. x \in Seq(Names) /\ Len(x) = Len(Front(s)) + Len(Reverse(d))
    BY <1>4, <1>5, ConcatProperties
  <2>3. y \in Seq(Names) /\ Len(y) = Len(s) + Len(Reverse(c))
    BY <1>6, ConcatProperties
  <2>4. QED
    BY <1>6, <2>1, <2>2, <2>3
<1>8. ASSUME NEW i \in 1..n + m PROVE x[i] = y[i]
  <2>1. CASE i < n
    BY <1>1, <1>4, <1>5, <1>6, <2>1
  <2>2. CASE i = n
    <3>1. x[i] = Reverse(d)[1] /\ y[i] = s[n]
      BY <1>1, <1>4, <1>5, <1>6, <2>2
    <3>2. Reverse(d)[1] = d[m + 1]
      BY <1>1, <1>5
    <3>3. QED
      BY <1>3, <3>1, <3>2
  <2>3. CASE i > n
    <3> DEFINE k == i - n
    <3>1. k \in 1..m /\ m + 1 - k \in 1..m
      BY <1>1, <2>3
    <3>2. x[i] = Reverse(d)[k + 1] /\ y[i] = Reverse(c)[k]
      BY <1>1, <1>4, <1>5, <1>6, <2>3
    <3>3. k + 1 \in 1..m + 1 /\ m + 2 - (k + 1) = m + 1 - k
      BY <1>1, <3>1
    <3> HIDE DEF k
    <3>4. Reverse(d)[k + 1] = d[m + 1 - k] /\ Reverse(c)[k] = c[m + 1 - k]
      BY <1>5, <1>6, <3>1, <3>3
    <3>5. QED
      BY <1>3, <3>1, <3>2, <3>4
  <2>4. i < n \/ i = n \/ i > n
    BY <1>1
  <2> HIDE DEF x, y
  <2>5. QED
    BY <2>1, <2>2, <2>3, <2>4
<1>9. x = y
  <2> HIDE DEF x, y
  <2>1. QED
    BY <1>7, <1>8
<1>10. QED
  BY <1>3, <1>4, <1>9 DEF d

-----------------------------------------------------------------------------
\* While the program and what it has opened stay, so does the order.
LEMMA OrderKept ==
  ASSUME OpenedRight, UNCHANGED <<program, off>>, Opened' = Opened
  PROVE  OpenedRight'
BY DEF OpenedRight, Openings, Rank

\* A boot step that opens nothing.
LEMMA BootOther ==
  ASSUME LifeInv, Booting, UNCHANGED <<program, off>>, at \notin Openings, at' = at + 1,
         UNCHANGED <<stage, stack, closing, inFlight, failure>>,
         running' \subseteq running \cup ({BootStep.what} \cap Loops),
         joinable' \subseteq joinable \cup ({BootStep.what} \cap Loops),
         running' = running \/ joinable' = joinable
  PROVE  LifeInv'
<1> USE DEF LifeInv
<1>1. stage = "boot"
  BY DEF Booting
<1>2. (BootStep.what \notin running /\ BootStep.what \notin joinable) \/ BootStep.what \notin Loops
  BY <1>1, AtStep DEF BootKnows
<1>3. LifeTyped'
  BY AtStep DEF LifeTyped
<1>4. OpenedRight'
  <2>1. Opened' = Opened
    BY DEF Opened
  <2>2. QED
    BY <2>1, OrderKept
<1>5. LoopsKnown'
  <2>1. running' \cap joinable' = {}
    BY <1>2 DEF LoopsKnown
  <2>2. running' \subseteq JoinedLoops(program)
    BY AtStep DEF LoopsKnown
  <2>3. QED
    BY <2>1, <2>2 DEF LoopsKnown, JoinedLoops
<1>6. BootKnows'
  <2>1. OpenedFirst(at)' = OpenedFirst(at)
    <3>1. OpenedFirst(at)' = OpenedFirst(at + 1)
      BY DEF OpenedFirst, Openings
    <3>2. QED
      BY <3>1, NoOpening
  <2>2. Begun(at)' = Begun(at + 1)
    BY DEF Begun
  <2>3. running' \cup joinable' \subseteq Begun(at + 1)
    BY <1>1, AtStep DEF BootKnows
  <2>4. Len(stack') = Cardinality(OpenedFirst(at)) /\ closing' = <<>> /\ inFlight' = 0
    BY <1>1 DEF BootKnows
  <2>5. QED
    BY <2>1, <2>2, <2>3, <2>4 DEF BootKnows
<1>7. JoinKnows' /\ CloseKnows'
  BY <1>1 DEF JoinKnows, CloseKnows
<1>8. QED
  BY <1>3, <1>4, <1>5, <1>6, <1>7

LEMMA StepOpen ==
  ASSUME LifeInv, Open, UNCHANGED <<program, off>>
  PROVE  LifeInv'
<1> USE DEF LifeInv
<1>1. /\ Booting /\ stage = "boot" /\ stack' = Append(stack, BootStep.what) /\ at' = at + 1
      /\ UNCHANGED <<stage, closing, running, joinable, asked, drained, inFlight, failure>>
  BY DEF Open, Booting
<1>2. at \in Openings
  BY <1>1, AtStep DEF Open, Openings, BootStep, Enabled
<1> DEFINE w == BootStep.what
           n == Len(stack)
<1>3. w \in Names /\ stack \in Seq(Names) /\ n \in Nat /\ closing = <<>>
  BY <1>1, AtStep DEF LifeTyped, BootKnows
<1>4. w = program.boot[at].what
  BY DEF BootStep
<1> HIDE DEF w
<1>5. stack' = Append(stack, w)
  BY <1>1 DEF w
<1>6. stack' \in Seq(Names) /\ Len(stack') = n + 1 /\ stack'[n + 1] = w /\ \A i \in 1..n : stack'[i] = stack[i]
  BY <1>3, <1>5
<1>7. Opened = stack /\ Opened' = stack'
  BY <1>1, <1>3, <1>6, OpenedIsStack DEF Opened
<1>8. n = Cardinality(OpenedFirst(at))
  BY <1>1 DEF BootKnows
<1>9. LifeTyped'
  BY <1>1, <1>6, AtStep DEF LifeTyped
<1>10. BootKnows'
  <2>1. OpenedFirst(at)' = OpenedFirst(at + 1)
    BY <1>1 DEF OpenedFirst, Openings
  <2>2. Len(stack') = Cardinality(OpenedFirst(at + 1))
    BY <1>1, <1>2, <1>6, <1>8, OpeningRanks
  <2>3. running' \cup joinable' \subseteq Begun(at + 1)
    BY <1>1, AtStep DEF BootKnows
  <2>4. Begun(at)' = Begun(at + 1)
    BY <1>1 DEF Begun
  <2>5. closing' = <<>> /\ inFlight' = 0
    BY <1>1 DEF BootKnows
  <2>6. QED
    BY <2>1, <2>2, <2>3, <2>4, <2>5 DEF BootKnows
<1>11. OpenedRight'
  <2>1. Openings' = Openings /\ \A k : Rank(k)' = Rank(k)
    BY DEF Openings, Rank
  <2>2. Len(stack') <= Cardinality(Openings)
    BY <1>1, <1>2, <1>6, <1>8, OpeningRanks
  <2>3. ASSUME NEW k \in Openings, Rank(k) <= Len(stack') PROVE stack'[Rank(k)] = program.boot[k].what
    <3>1. k \in Nat /\ at \in Nat
      BY OpeningsFinite, AtStep, <1>1
    <3>2. CASE k < at
      <4>1. Rank(k) <= n /\ Rank(k) \in Nat \ {0}
        BY <1>1, <1>2, <1>8, <3>2, OpeningRanks
      <4>2. Rank(k) \in 1..n
        BY <1>3, <4>1
      <4>3. stack[Rank(k)] = program.boot[k].what
        BY <1>7, <4>1 DEF OpenedRight
      <4>4. QED
        BY <1>6, <4>2, <4>3
    <3>3. CASE k = at
      <4>1. Rank(k) = n + 1
        BY <1>1, <1>2, <1>8, <3>3, OpeningRanks
      <4>2. QED
        BY <1>4, <1>6, <3>3, <4>1
    <3>4. CASE k > at
      <4>1. Rank(k) > Rank(at) /\ Rank(at) = n + 1 /\ Rank(k) \in Nat
        BY <1>1, <1>2, <1>8, <3>4, OpeningRanks
      <4>2. QED
        BY <1>3, <1>6, <2>3, <4>1
    <3>5. QED
      BY <3>1, <3>2, <3>3, <3>4
  <2>4. QED
    BY <1>7, <2>1, <2>2, <2>3 DEF OpenedRight
<1>12. LoopsKnown' /\ JoinKnows' /\ CloseKnows'
  BY <1>1, <1>3 DEF LoopsKnown, JoinKnows, CloseKnows, JoinedLoops
<1>13. QED
  BY <1>9, <1>10, <1>11, <1>12

LEMMA StepBoot ==
  ASSUME LifeInv, Check \/ Start \/ Skip, UNCHANGED <<program, off>>
  PROVE  LifeInv'
<1>1. Booting /\ at' = at + 1 /\ UNCHANGED <<stage, stack, closing, inFlight, failure>>
  BY DEF Check, Start, Skip
<1>2. at \notin Openings
  BY DEF Check, Start, Skip, Openings, BootStep, Enabled
<1>3. /\ running' \subseteq running \cup ({BootStep.what} \cap Loops)
      /\ joinable' \subseteq joinable \cup ({BootStep.what} \cap Loops)
      /\ running' = running \/ joinable' = joinable
  <2>1. CASE Check
    BY <2>1 DEF Check
  <2>2. CASE Start
    BY <1>1, <2>2, AtStep DEF Start
  <2>3. CASE Skip
    <3>1. {BootStep.what} \cap {"consumer", "relay"} \subseteq {BootStep.what} \cap Loops
      BY DEF Loops
    <3>2. QED
      BY <2>3, <3>1 DEF Skip
  <2>4. QED
    BY <2>1, <2>2, <2>3
<1>4. QED
  BY <1>1, <1>2, <1>3, BootOther

\* run returns: with the server's error, or when no loop and no request runs.
LEMMA Returns ==
  ASSUME LifeInv, NEW err, Return(err), UNCHANGED <<program, off>>, stage # "exited",
         err # "server" => running = {} /\ inFlight = 0
  PROVE  LifeInv'
<1> USE DEF LifeInv
<1>1. /\ stage' = "closing" /\ failure' = err
      /\ UNCHANGED <<at, stack, closing, running, joinable, drained, inFlight>>
  BY DEF Return
<1>2. LifeTyped' /\ LoopsKnown' /\ BootKnows' /\ JoinKnows' /\ CloseKnows'
  BY <1>1 DEF LifeTyped, LoopsKnown, BootKnows, JoinKnows, CloseKnows, JoinedLoops
<1>3. Opened' = Opened
  BY <1>1 DEF Opened
<1>4. QED
  BY <1>2, <1>3, OrderKept

LEMMA StepReturn ==
  ASSUME LifeInv, BootFails \/ CommandDone \/ ServerFails \/ ShutdownTimeout \/ Joined, UNCHANGED <<program, off>>
  PROVE  LifeInv'
<1> USE DEF LifeInv
<1>1. CASE BootFails \/ CommandDone
  <2>1. Booting /\ stage = "boot" /\ BootStep.does # "start"
    BY <1>1 DEF BootFails, CommandDone, Booting
  <2>2. running = {} /\ inFlight = 0
    BY <2>1, AtStep DEF BootKnows
  <2>3. QED
    BY <1>1, <2>1, <2>2, Returns DEF BootFails, CommandDone
<1>2. CASE ServerFails \/ ShutdownTimeout
  BY <1>2, Returns DEF ServerFails, ShutdownTimeout
<1>3. CASE Joined
  <2>1. stage = "joining" /\ at > Len(program.join) /\ (Return("none") \/ Return("consumer"))
    BY <1>3 DEF Joined
  <2>2. at \in Nat /\ Len(program.join) \in Nat
    BY ProgramsWellMade DEF LifeTyped, WellMade
  <2>3. \A i \in 1..Len(program.join) : program.join[i] \in joinable
    BY <2>1, <2>2 DEF JoinKnows
  <2>4. running = {} /\ inFlight = 0
    BY <2>1, <2>3 DEF LoopsKnown, JoinKnows, JoinedLoops
  <2>5. QED
    BY <2>1, <2>4, Returns
<1>4. QED
  BY <1>1, <1>2, <1>3

\* The steps of the server and the loops.
LEMMA StepServing ==
  ASSUME LifeInv, UNCHANGED <<program, off>>,
         Listen \/ Request \/ Answer \/ Signal \/ Drain \/ StopServing \/ ShutdownDone \/ Join \/ \E l \in Loops : LoopEnds(l)
  PROVE  LifeInv'
<1> USE DEF LifeInv
<1>1. UNCHANGED <<stack, closing, failure>>
  BY DEF Listen, Request, Answer, Signal, Drain, StopServing, ShutdownDone, Join, LoopEnds
<1>2. OpenedRight'
  BY <1>1, OrderKept DEF Opened
<1>3. CASE Listen
  BY <1>1, <1>2, <1>3 DEF Listen, LifeTyped, LoopsKnown, BootKnows, JoinKnows, CloseKnows, JoinedLoops
<1>4. CASE Request
  <2>1. inFlight + 1 \in Nat
    BY DEF LifeTyped
  <2>2. QED
    BY <1>1, <1>2, <1>4, <2>1 DEF Request, LifeTyped, LoopsKnown, BootKnows, JoinKnows, CloseKnows, JoinedLoops
<1>5. CASE Answer
  <2>1. inFlight - 1 \in Nat /\ inFlight # 0
    BY <1>5 DEF LifeTyped, Answer
  <2>2. QED
    BY <1>1, <1>2, <1>5, <2>1 DEF Answer, LifeTyped, LoopsKnown, BootKnows, JoinKnows, CloseKnows, JoinedLoops
<1>6. CASE Signal \/ Drain
  <2>1. UNCHANGED <<stage, at, running, joinable, inFlight>>
    BY <1>6 DEF Signal, Drain
  <2>2. BootKnows'
    BY <1>1, <2>1 DEF BootKnows, OpenedFirst, Openings, Begun
  <2>3. QED
    BY <1>1, <1>2, <2>1, <2>2 DEF LifeTyped, LoopsKnown, JoinKnows, CloseKnows, JoinedLoops
<1>7. CASE StopServing
  BY <1>1, <1>2, <1>7 DEF StopServing, LifeTyped, LoopsKnown, BootKnows, JoinKnows, CloseKnows, JoinedLoops
<1>8. CASE ShutdownDone
  <2>1. \A i \in 1..Len(program.join) : ~ (i < 1)
    BY ProgramsWellMade DEF LifeTyped, WellMade
  <2>2. QED
    BY <1>1, <1>2, <1>8, <2>1 DEF ShutdownDone, LifeTyped, LoopsKnown, BootKnows, JoinKnows, CloseKnows, JoinedLoops
<1>9. CASE Join
  <2>1. /\ stage = "joining" /\ program.join[at] \in joinable /\ at' = at + 1
        /\ UNCHANGED <<stage, running, joinable, inFlight>>
    BY <1>9 DEF Join
  <2>2. at \in Nat /\ at + 1 \in Nat \ {0} /\ Len(program.join) \in Nat
    BY ProgramsWellMade DEF LifeTyped, WellMade
  <2>3. \A i \in 1..Len(program.join) : i < at + 1 => i < at \/ i = at
    BY <2>2
  <2>4. JoinKnows'
    BY <2>1, <2>3 DEF JoinKnows
  <2>5. QED
    BY <1>1, <1>2, <2>1, <2>2, <2>4 DEF LifeTyped, LoopsKnown, BootKnows, CloseKnows, JoinedLoops
<1>10. ASSUME NEW l \in Loops, LoopEnds(l) PROVE LifeInv'
  <2>1. /\ l \in running /\ running' = running \ {l} /\ joinable' = joinable \cup {l}
        /\ UNCHANGED <<stage, at, inFlight>>
    BY <1>10 DEF LoopEnds
  <2>2. BootKnows'
    <3>1. running' \cup joinable' = running \cup joinable
      BY <2>1
    <3>2. QED
      BY <1>1, <2>1, <3>1 DEF BootKnows, OpenedFirst, Openings, Begun
  <2>3. LifeTyped' /\ LoopsKnown'
    BY <1>1, <2>1 DEF LifeTyped, LoopsKnown, JoinedLoops
  <2>4. QED
    BY <1>1, <1>2, <2>1, <2>2, <2>3 DEF JoinKnows, CloseKnows
<1>11. QED
  BY <1>3, <1>4, <1>5, <1>6, <1>7, <1>8, <1>9, <1>10

LEMMA StepClose ==
  ASSUME LifeInv, CloseNext \/ Exit, UNCHANGED <<program, off>>
  PROVE  LifeInv'
<1> USE DEF LifeInv
<1>1. CASE CloseNext
  <2>1. /\ stage = "closing" /\ stack # <<>> /\ closing' = Append(closing, Last(stack)) /\ stack' = Front(stack)
        /\ UNCHANGED <<stage, at, running, joinable, inFlight, failure>>
    BY <1>1 DEF CloseNext
  <2>2. Opened' = Opened /\ stack' \in Seq(Names) /\ closing' \in Seq(Names)
    BY <2>1, ClosingKeepsOrder DEF Opened, LifeTyped
  <2>3. LifeTyped'
    BY <2>1, <2>2 DEF LifeTyped
  <2>4. LoopsKnown' /\ BootKnows' /\ JoinKnows' /\ CloseKnows'
    BY <2>1 DEF LoopsKnown, BootKnows, JoinKnows, CloseKnows, JoinedLoops
  <2>5. QED
    BY <2>2, <2>3, <2>4, OrderKept
<1>2. CASE Exit
  <2>1. /\ stage' = "exited" /\ stack = <<>> /\ running' = {} /\ inFlight' = 0
        /\ UNCHANGED <<at, stack, closing, joinable, failure>>
    BY <1>2 DEF Exit
  <2>2. Opened' = Opened
    BY <2>1 DEF Opened
  <2>3. LifeTyped' /\ LoopsKnown' /\ BootKnows' /\ JoinKnows' /\ CloseKnows'
    BY <2>1 DEF LifeTyped, LoopsKnown, BootKnows, JoinKnows, CloseKnows, JoinedLoops
  <2>4. QED
    BY <2>2, <2>3, OrderKept
<1>3. QED
  BY <1>1, <1>2

LEMMA LifeStarts == LifecycleInit => LifeInv
<1> SUFFICES ASSUME LifecycleInit PROVE LifeInv
  OBVIOUS
<1>1. LifeTyped
  BY DEF LifecycleInit, LifeTyped
<1>2. Opened = <<>>
  <2>1. stack = <<>> /\ closing = <<>> /\ stack \in Seq(Names)
    BY <1>1 DEF LifecycleInit, LifeTyped
  <2>2. stack \o Reverse(<<>>) = stack
    BY <2>1, OpenedIsStack
  <2>3. QED
    BY <2>1, <2>2 DEF Opened
<1>3. Len(program.boot) \in Nat /\ \A j \in 1..Len(program.boot) : ~ (j < 1)
  BY <1>1, ProgramsWellMade DEF LifeTyped, WellMade, Ordered
<1>4. OpenedFirst(1) = {}
  BY <1>3 DEF OpenedFirst, Openings
<1>5. BootKnows
  BY <1>4, FS_EmptySet DEF BootKnows, LifecycleInit
<1>6. OpenedRight
  <2>1. Len(Opened) = 0
    BY <1>2
  <2>2. Cardinality(Openings) \in Nat
    BY <1>1, OpeningsFinite
  <2>3. ASSUME NEW k \in Openings PROVE ~ (Rank(k) <= 0)
    <3> DEFINE E == {j \in Openings : j <= k}
    <3>1. k \in Nat /\ k \in E /\ E \in SUBSET Openings
      BY <1>1, OpeningsFinite
    <3> HIDE DEF E
    <3>2. IsFiniteSet(E) /\ Cardinality(E) \in Nat
      BY <1>1, <3>1, OpeningsFinite
    <3>3. Cardinality(E) # 0
      BY <3>1, <3>2, FS_EmptySet
    <3>4. QED
      BY <3>2, <3>3 DEF Rank, E
  <2>4. QED
    BY <2>1, <2>2, <2>3 DEF OpenedRight
<1>7. QED
  BY <1>1, <1>5, <1>6 DEF LifeInv, LifecycleInit, LoopsKnown, JoinKnows, CloseKnows

LEMMA LifeInductive == LifeInv /\ [LifecycleNext]_lifecycleVars => LifeInv'
<1> SUFFICES ASSUME LifeInv, [LifecycleNext]_lifecycleVars PROVE LifeInv'
  OBVIOUS
<1>1. CASE UNCHANGED lifecycleVars
  <2>1. UNCHANGED <<program, off, stage, at, stack, closing, running, joinable, inFlight, failure>>
    BY <1>1 DEF lifecycleVars
  <2>2. OpenedRight'
    BY <2>1, OrderKept DEF Opened, LifeInv
  <2>3. QED
    BY <2>1, <2>2 DEF LifeInv, LifeTyped, BootKnows, LoopsKnown, JoinKnows, CloseKnows, OpenedFirst, Openings, Begun, JoinedLoops
<1>2. CASE LifecycleNext
  BY <1>2, StepOpen, StepBoot, StepReturn, StepServing, StepClose DEF LifecycleNext, Main
<1>3. QED
  BY <1>1, <1>2

\* All 19 programs: whatever step `run` returned at, with any of the optional
\* parts turned off, what was opened is closed in reverse, all of it before the
\* process ends, and unless the HTTP server returned an error while no loop and
\* no request runs.
THEOREM ProgramsCloseOrderly == LifecycleSpec => []OrderlyClose
<1>1. LifeInv => OrderlyClose
  BY DEF LifeInv, OrderlyClose, ClosedInReverse, QuietClose, OpenedRight, CloseKnows, Opened
<1>2. QED
  BY <1>1, LifeStarts, LifeInductive, PTL DEF LifecycleSpec

-----------------------------------------------------------------------------
(* Pages (BffPages)                                                         *)

PageKinds == {"none", "album", "playlist", "home"}
Truths == BOOLEAN
Times == Nat
StageNumbers == Nat
SourcelessNames == {"albumOfTheWeek", "recommended", "trending", "madeForYou", "followedArtists"}
SectionNames == {"album", "playlist", "tracks", "tags", "moreByArtist", "artistNames", "liked", "owners", "albums",
                 "newReleases", "recentlyPlayed", "recent"} \cup SourcelessNames
PageCalls == [section : SectionNames, item : Int, seen : Int]
CallSets == SUBSET PageCalls
Things == {"artists", "listed", "tracks", "playlist"}
ThingSets == SUBSET Things
Counts == Nat
NameSets == SUBSET SectionNames
Refusals == {"none", "not_found", "upstream"}
NameLists == Seq(SectionNames)
TagPairs == Nat \X Nat
PageAnswers == {"none", "page", "not_found", "upstream"}
PageRecord == [kind : PageKinds, user : Truths, opened : Times, stage : StageNumbers, calls : CallSets, got : ThingSets,
               owned : Counts, lost : NameSets, err : Refusals, unavailable : NameLists, tags : TagPairs, answer : PageAnswers]

PagesTyped ==
  /\ page \in [Requests -> PageRecord]
  /\ genres \in [version : Nat, expire : Nat]
  /\ replaced \in Seq(Nat) /\ pageClock \in Nat

\* The genre lists: the calls' were read after their page was opened, the
\* cached one expires a TTL after a page kept it, which was in its budget.
ListsSound ==
  /\ \A i \in 1..Len(replaced) : replaced[i] <= pageClock
  /\ genres.version <= Len(replaced) + 1
  /\ genres.version \in 1..Len(replaced) => genres.expire < replaced[genres.version] + GenreCacheTTL + PageBudget
  /\ genres.version = Len(replaced) + 1 => genres.expire <= pageClock + GenreCacheTTL
TagsSound(q) ==
  /\ q.opened <= pageClock
  /\ \A c \in q.calls : /\ c.seen <= Len(replaced) + 1
                        /\ c.seen \in 1..Len(replaced) => replaced[c.seen] >= q.opened
  /\ q.tags[1] <= Len(replaced) + 1
  /\ q.tags[1] \in 1..Len(replaced) => q.tags[2] < replaced[q.tags[1]] + GenreCacheTTL + PageBudget
  /\ q.tags[1] = Len(replaced) + 1 => q.tags[2] <= pageClock

\* The stage in which a page asks for a section.
Place(kind, s) ==
  IF kind = "album" THEN IF s = "album" THEN 1 ELSE IF s = "artistNames" THEN 3 ELSE IF s = "liked" THEN 4 ELSE 2
  ELSE IF kind = "playlist"
       THEN IF s = "playlist" THEN 1 ELSE IF s = "albums" THEN 3 ELSE IF s = "artistNames" THEN 4
            ELSE IF s = "liked" THEN 5 ELSE 2
       ELSE IF s = "artistNames" THEN 2 ELSE IF s = "owners" THEN 3 ELSE 1

ListedBy(l) == {l[i] : i \in 1..Len(l)}
Unsourced(q) ==
  IF q.kind # "home" THEN {} ELSE SourcelessNames \cup (IF "history" \in personal THEN {} ELSE {"recentlyPlayed"})
Asked(q) == {c.section : c \in q.calls}
Unlisted == Required \cup {"recent"}

\* A page has listed what has no source and every optional section that was
\* lost and of which no call is left; it was refused or will be if a required
\* section was lost; and what it asks for was not asked for in an earlier stage.
PageKnows(q) ==
  /\ q.kind = "none" => q.calls = {} /\ q.stage = 0 /\ q.answer = "none" /\ q.lost = {}
  /\ q.kind # "none" =>
       /\ ListedBy(q.unavailable) = Unsourced(q) \cup {s \in q.lost : s \notin Unlisted /\ s \notin Asked(q)}
       /\ Cardinality(ListedBy(q.unavailable)) = Len(q.unavailable)
  /\ Asked(q) \cap Unsourced(q) = {}
  /\ q.lost \cap Required = {} <=> q.err = "none"
  /\ \A s \in q.lost \cup Asked(q) : Place(q.kind, s) <= q.stage
  /\ q.answer # "none" => q.calls = {}
  /\ q.answer = "page" => q.err = "none"
  /\ q.answer \in {"not_found", "upstream"} => q.err # "none" \/ (q.kind = "playlist" /\ "playlists" \notin personal)

PagesInv == PagesTyped /\ ListsSound /\ \A r \in Requests : PageKnows(page[r]) /\ TagsSound(page[r])

-----------------------------------------------------------------------------
LEMMA PageFields ==
  ASSUME NEW q \in PageRecord
  PROVE  /\ q.kind \in PageKinds /\ q.user \in Truths /\ q.opened \in Times /\ q.stage \in StageNumbers
         /\ q.calls \in CallSets /\ q.got \in ThingSets /\ q.owned \in Counts /\ q.lost \in NameSets
         /\ q.err \in Refusals /\ q.unavailable \in NameLists /\ q.tags \in TagPairs /\ q.answer \in PageAnswers
BY DEF PageRecord

\* One more name in a list.
LEMMA ListedMore ==
  ASSUME NEW l \in NameLists, NEW s \in SectionNames
  PROVE  /\ Append(l, s) \in NameLists /\ Len(Append(l, s)) = Len(l) + 1
         /\ ListedBy(Append(l, s)) = ListedBy(l) \cup {s}
<1> DEFINE m == Append(l, s)
           n == Len(l)
<1>1. n \in Nat /\ m \in NameLists /\ Len(m) = n + 1 /\ m[n + 1] = s /\ \A i \in 1..n : m[i] = l[i]
  BY DEF NameLists
<1>2. 1..n + 1 = 1..n \cup {n + 1}
  BY <1>1
<1> HIDE DEF m, n
<1>3. {m[i] : i \in 1..n + 1} = {l[i] : i \in 1..n} \cup {s}
  BY <1>1, <1>2
<1>4. QED
  BY <1>1, <1>3 DEF ListedBy, m, n

LEMMA ListedFinite ==
  ASSUME NEW l \in NameLists
  PROVE  IsFiniteSet(ListedBy(l))
<1>1. Len(l) \in Nat
  BY DEF NameLists
<1>2. IsFiniteSet(1..Len(l))
  BY <1>1, FS_Interval
<1>3. l \in [1..Len(l) -> ListedBy(l)]
  <2>1. l \in [1..Len(l) -> SectionNames]
    BY DEF NameLists
  <2>2. QED
    BY <2>1 DEF ListedBy
<1>4. l \in Surjection(1..Len(l), ListedBy(l))
  BY <1>3 DEF Surjection, ListedBy
<1>5. QED
  BY <1>2, <1>4, FS_Surjection

\* Counting goes on when a new name is listed.
LEMMA ListedOnce ==
  ASSUME NEW l \in NameLists, NEW s \in SectionNames, s \notin ListedBy(l), Cardinality(ListedBy(l)) = Len(l)
  PROVE  Cardinality(ListedBy(Append(l, s))) = Len(Append(l, s))
<1> DEFINE S == ListedBy(l)
<1>1. IsFiniteSet(S)
  BY ListedFinite
<1>2. Cardinality(S \cup {s}) = Cardinality(S) + 1
  <2> HIDE DEF S
  <2>1. QED
    BY <1>1, FS_AddElement DEF S
<1>3. QED
  BY <1>2, ListedMore

\* A new page lists what has no source.
LEMMA SourcelessListed ==
  /\ NoSource \in NameLists /\ ListedBy(NoSource) = SourcelessNames /\ Cardinality(ListedBy(NoSource)) = Len(NoSource)
  /\ LET l == NoSource \o <<"recentlyPlayed">>
     IN l \in NameLists /\ ListedBy(l) = SourcelessNames \cup {"recentlyPlayed"} /\ Cardinality(ListedBy(l)) = Len(l)
  /\ NoSource \o <<>> = NoSource
  /\ <<>> \in NameLists /\ ListedBy(<<>>) = {} /\ Cardinality({}) = 0 /\ Len(<<>>) = 0
<1>1. <<>> \in NameLists /\ ListedBy(<<>>) = {} /\ Cardinality({}) = 0 /\ Len(<<>>) = 0
  BY FS_EmptySet DEF NameLists, ListedBy
<1> DEFINE l1 == Append(<<>>, "albumOfTheWeek")
           l2 == Append(l1, "recommended")
           l3 == Append(l2, "trending")
           l4 == Append(l3, "madeForYou")
           l5 == Append(l4, "followedArtists")
           l6 == Append(l5, "recentlyPlayed")
<1>2. {"albumOfTheWeek", "recommended", "trending", "madeForYou", "followedArtists", "recentlyPlayed"} \subseteq SectionNames
  BY DEF SectionNames, SourcelessNames
<1> HIDE DEF l1, l2, l3, l4, l5, l6
<1>3. l1 \in NameLists /\ ListedBy(l1) = {"albumOfTheWeek"} /\ Cardinality(ListedBy(l1)) = Len(l1)
  BY <1>1, <1>2, ListedMore, ListedOnce DEF l1
<1>4. l2 \in NameLists /\ ListedBy(l2) = {"albumOfTheWeek", "recommended"} /\ Cardinality(ListedBy(l2)) = Len(l2)
  BY <1>2, <1>3, ListedMore, ListedOnce DEF l2
<1>5. l3 \in NameLists /\ ListedBy(l3) = {"albumOfTheWeek", "recommended", "trending"} /\ Cardinality(ListedBy(l3)) = Len(l3)
  BY <1>2, <1>4, ListedMore, ListedOnce DEF l3
<1>6. /\ l4 \in NameLists /\ ListedBy(l4) = {"albumOfTheWeek", "recommended", "trending", "madeForYou"}
      /\ Cardinality(ListedBy(l4)) = Len(l4)
  BY <1>2, <1>5, ListedMore, ListedOnce DEF l4
<1>7. l5 \in NameLists /\ ListedBy(l5) = SourcelessNames /\ Cardinality(ListedBy(l5)) = Len(l5)
  BY <1>2, <1>6, ListedMore, ListedOnce DEF l5, SourcelessNames
<1>8. /\ l6 \in NameLists /\ ListedBy(l6) = SourcelessNames \cup {"recentlyPlayed"}
      /\ Cardinality(ListedBy(l6)) = Len(l6)
  BY <1>2, <1>7, ListedMore, ListedOnce DEF l6, SourcelessNames
<1>9. NoSource = l5
  BY DEF NoSource, l1, l2, l3, l4, l5
<1>10. NoSource \o <<"recentlyPlayed">> = l6
  BY DEF NoSource, l1, l2, l3, l4, l5, l6
<1>11. NoSource \o <<>> = NoSource
  BY DEF NoSource
<1>12. QED
  BY <1>1, <1>7, <1>8, <1>9, <1>10, <1>11

\* What a stage asks for is not asked for in another, and has a source.
PlacedAt(S, kind, s) ==
  /\ S \subseteq SectionNames \ SourcelessNames
  /\ \A x \in S : Place(kind, x) = s /\ (x = "recentlyPlayed" => "history" \in personal)
LEMMA PlanFits ==
  ASSUME NEW q \in PageRecord, q.kind # "none"
  PROVE  /\ Len(Plan(q)) \in Nat /\ Len(Plan(q)) >= 1
         /\ \A s \in 1..Len(Plan(q)) : PlacedAt(Plan(q)[s], q.kind, s)
<1> DEFINE names == IF "artists" \in q.got THEN {"artistNames"} ELSE {}
           owners == IF "profiles" \in personal THEN {"owners"} ELSE {}
           liked == IF "library" \in personal /\ q.user /\ "tracks" \in q.got THEN {"liked"} ELSE {}
<1>1. names \subseteq {"artistNames"} /\ owners \subseteq {"owners"} /\ liked \subseteq {"liked"}
  OBVIOUS
<1>2. CASE q.kind = "album"
  <2> DEFINE second == {"tracks", "tags"} \cup IF "artists" \in q.got THEN {"moreByArtist"} ELSE {}
  <2>1. Plan(q) = <<{"album"}, second, names, liked>>
    BY <1>2 DEF Plan
  <2>2. second \subseteq {"tracks", "tags", "moreByArtist"}
    OBVIOUS
  <2> HIDE DEF second, names, liked, owners
  <2>3. /\ PlacedAt({"album"}, "album", 1) /\ PlacedAt(second, "album", 2)
        /\ PlacedAt(names, "album", 3) /\ PlacedAt(liked, "album", 4)
    BY <1>1, <2>2 DEF PlacedAt, Place, SectionNames, SourcelessNames
  <2>4. QED
    BY <1>2, <2>1, <2>3
<1>3. CASE q.kind = "playlist"
  <2> DEFINE second == owners \cup IF "listed" \in q.got THEN {"tracks"} ELSE {}
             third == IF "tracks" \in q.got THEN {"albums"} ELSE {}
  <2>1. Plan(q) = <<{"playlist"}, second, third, names, liked>>
    BY <1>3 DEF Plan
  <2>2. second \subseteq {"tracks", "owners"} /\ third \subseteq {"albums"}
    OBVIOUS
  <2> HIDE DEF second, third, names, liked, owners
  <2>3. /\ PlacedAt({"playlist"}, "playlist", 1) /\ PlacedAt(second, "playlist", 2) /\ PlacedAt(third, "playlist", 3)
        /\ PlacedAt(names, "playlist", 4) /\ PlacedAt(liked, "playlist", 5)
    BY <1>1, <2>2 DEF PlacedAt, Place, SectionNames, SourcelessNames
  <2>4. QED
    BY <1>3, <2>1, <2>3
<1>4. CASE q.kind = "home"
  <2> DEFINE first == {"newReleases"} \cup IF "history" \in personal /\ q.user THEN {"recentlyPlayed"} ELSE {}
             last == IF q.owned > 0 THEN owners ELSE {}
  <2>1. Plan(q) = <<first, names, last>>
    BY <1>4 DEF Plan
  <2>2. first \subseteq {"newReleases", "recentlyPlayed"} /\ ("recentlyPlayed" \in first => "history" \in personal) /\ last \subseteq {"owners"}
    OBVIOUS
  <2> HIDE DEF first, last, names, liked, owners
  <2>3. PlacedAt(first, "home", 1) /\ PlacedAt(names, "home", 2) /\ PlacedAt(last, "home", 3)
    BY <1>1, <2>2 DEF PlacedAt, Place, SectionNames, SourcelessNames
  <2>4. QED
    BY <1>4, <2>1, <2>3
<1>5. QED
  BY <1>2, <1>3, <1>4, PageFields DEF PageKinds

\* Calls begin without a genre list.
LEMMA FreshCalls ==
  ASSUME NEW S \in NameSets, NEW n \in Nat
  PROVE  LET C == UNION {CallsOf(s, n) : s \in S}
         IN C \in CallSets /\ \A c \in C : c.section \in S /\ c.seen = -1
<1>1. ASSUME NEW s \in S, NEW c \in CallsOf(s, n) PROVE c \in PageCalls /\ c.section = s /\ c.seen = -1
  <2>1. PICK i : c = [section |-> s, item |-> i, seen |-> -1] /\ i \in Int
    BY <1>1 DEF CallsOf
  <2>2. s \in SectionNames /\ -1 \in Int
    BY DEF NameSets
  <2>3. QED
    BY <2>1, <2>2 DEF PageCalls
<1>2. QED
  BY <1>1 DEF CallSets

-----------------------------------------------------------------------------
\* What stays of a page when a call of it ends.
SameBut(e, q, c) ==
  /\ e.kind = q.kind /\ e.user = q.user /\ e.opened = q.opened /\ e.stage = q.stage /\ e.got = q.got
  /\ e.owned = q.owned /\ e.tags = q.tags /\ e.answer = q.answer /\ e.calls = q.calls \ {c}

\* The end of a call, whatever its outcome, lists its section if it was the
\* last of a section that was lost.
LEMMA CallEnded ==
  ASSUME NEW q \in PageRecord, PageKnows(q), NEW c \in q.calls, NEW outcome
  PROVE  /\ CallEnds(q, c, outcome) \in PageRecord /\ SameBut(CallEnds(q, c, outcome), q, c)
         /\ PageKnows(CallEnds(q, c, outcome))
<1> DEFINE x == c.section
           rest == q.calls \ {c}
           bad == outcome = "failed" \/ (outcome = "missing" /\ x \notin PerItem)
           lost == IF bad THEN q.lost \cup {x} ELSE q.lost
           last == \A d \in rest : d.section # x
           noted == last /\ x \in lost /\ x \notin Required \cup {"recent"}
           list == IF noted THEN Append(q.unavailable, x) ELSE q.unavailable
           err == IF bad /\ x \in Required /\ q.err = "none"
                  THEN IF outcome = "missing" THEN "not_found" ELSE "upstream" ELSE q.err
           e == CallEnds(q, c, outcome)
<1>1. e = [q EXCEPT !.calls = rest, !.lost = lost, !.unavailable = list, !.err = err]
  BY DEF CallEnds, CallOutcome
<1>2. x \in SectionNames /\ x \in Asked(q) /\ q.kind # "none" /\ q.answer = "none"
  <2>1. c \in PageCalls
    BY PageFields DEF CallSets
  <2>2. QED
    BY <2>1 DEF PageCalls, Asked, PageKnows
<1>3. rest \in CallSets /\ lost \in NameSets /\ list \in NameLists /\ err \in Refusals
  <2>1. rest \in CallSets /\ lost \in NameSets
    BY <1>2, PageFields DEF CallSets, NameSets
  <2>2. list \in NameLists
    BY <1>2, PageFields, ListedMore
  <2>3. err \in Refusals
    BY PageFields DEF Refusals
  <2>4. QED
    BY <2>1, <2>2, <2>3
<1>4. lost \cap Required = {} <=> err = "none"
  <2>1. CASE bad /\ x \in Required
    <3>1. x \in lost
      BY <2>1
    <3>2. err # "none"
      BY <2>1
    <3>3. QED
      BY <2>1, <3>1, <3>2
  <2>2. CASE ~ (bad /\ x \in Required)
    <3>1. err = q.err /\ lost \cap Required = q.lost \cap Required
      BY <2>2
    <3>2. QED
      BY <3>1 DEF PageKnows
  <2>3. QED
    BY <2>1, <2>2
<1> DEFINE left == {d.section : d \in rest}
<1>5. left = IF last THEN Asked(q) \ {x} ELSE Asked(q)
  BY DEF Asked
<1>6. last => x \notin left
  OBVIOUS
<1>7. \A s \in lost \cup left : Place(q.kind, s) <= q.stage
  BY <1>2, <1>5 DEF PageKnows
<1>8. x \notin ListedBy(q.unavailable)
  BY <1>2 DEF PageKnows
<1>9. Cardinality(ListedBy(list)) = Len(list)
  BY <1>2, <1>8, PageFields, ListedOnce DEF PageKnows
<1>10. ListedBy(list) = Unsourced(q) \cup {s \in lost : s \notin Unlisted /\ s \notin left}
  <2>1. ListedBy(q.unavailable) = Unsourced(q) \cup {s \in q.lost : s \notin Unlisted /\ s \notin Asked(q)}
    BY <1>2 DEF PageKnows
  <2>2. ListedBy(list) = IF noted THEN ListedBy(q.unavailable) \cup {x} ELSE ListedBy(q.unavailable)
    BY <1>2, PageFields, ListedMore
  <2>3. CASE noted
    <3>1. {s \in lost : s \notin Unlisted /\ s \notin left} = {s \in q.lost : s \notin Unlisted /\ s \notin Asked(q)} \cup {x}
      BY <1>2, <1>5, <2>3 DEF Unlisted
    <3>2. QED
      BY <2>1, <2>2, <2>3, <3>1
  <2>4. CASE ~ noted
    <3>1. {s \in lost : s \notin Unlisted /\ s \notin left} = {s \in q.lost : s \notin Unlisted /\ s \notin Asked(q)}
      BY <1>2, <1>5, <2>4 DEF Unlisted
    <3>2. QED
      BY <2>1, <2>2, <2>4, <3>1
  <2>5. QED
    BY <2>3, <2>4
<1> HIDE DEF rest, bad, lost, last, noted, list, err
<1>11. /\ e \in PageRecord /\ e.calls = rest /\ e.lost = lost /\ e.unavailable = list /\ e.err = err
       /\ e.kind = q.kind /\ e.user = q.user /\ e.opened = q.opened /\ e.stage = q.stage /\ e.got = q.got
       /\ e.owned = q.owned /\ e.tags = q.tags /\ e.answer = q.answer
  BY <1>1, <1>3 DEF PageRecord
<1>12. SameBut(e, q, c)
  BY <1>11 DEF SameBut, rest
<1> HIDE DEF e
<1>13. Asked(e) = left /\ Unsourced(e) = Unsourced(q)
  BY <1>11 DEF Asked, Unsourced
<1>14. left \cap Unsourced(q) = {}
  BY <1>5 DEF PageKnows
<1>15. PageKnows(e)
  <2> HIDE DEF left, x
  <2>1. QED
    BY <1>2, <1>4, <1>7, <1>9, <1>10, <1>11, <1>13, <1>14 DEF PageKnows
<1>16. QED
  BY <1>11, <1>12, <1>15 DEF e

\* What is known of a page does not depend on the genre lists.
LEMMA PagesKept ==
  ASSUME PagesInv, UNCHANGED <<page, personal>>
  PROVE  \A r \in Requests : PageKnows(page[r])'
<1>1. ASSUME NEW r \in Requests PROVE PageKnows(page[r])'
  <2>1. PageKnows(page[r]) /\ page'[r] = page[r]
    BY DEF PagesInv
  <2>2. QED
    BY <2>1 DEF PageKnows, Unsourced, Asked
<1>2. QED
  BY <1>1

\* A step of one page.
LEMMA OnePageKnows ==
  ASSUME PagesInv, NEW r \in Requests, NEW e \in PageRecord, PageKnows(e),
         page' = [page EXCEPT ![r] = e], personal' = personal
  PROVE  /\ page' \in [Requests -> PageRecord] /\ page'[r] = e
         /\ \A s \in Requests : s # r => page'[s] = page[s]
         /\ \A s \in Requests : PageKnows(page[s])'
<1>1. /\ page' \in [Requests -> PageRecord] /\ page'[r] = e
      /\ \A s \in Requests : s # r => page'[s] = page[s]
  BY DEF PagesInv, PagesTyped
<1>2. ASSUME NEW s \in Requests PROVE PageKnows(page[s])'
  <2>1. PageKnows(page'[s])
    <3>1. CASE s = r
      BY <1>1, <3>1
    <3>2. CASE s # r
      BY <1>1, <3>2 DEF PagesInv
    <3>3. QED
      BY <3>1, <3>2
  <2>2. QED
    BY <2>1 DEF PageKnows, Unsourced, Asked
<1>3. QED
  BY <1>1, <1>2

LEMMA OnePageStep ==
  ASSUME PagesInv, NEW r \in Requests, NEW e \in PageRecord, PageKnows(e), TagsSound(e),
         page' = [page EXCEPT ![r] = e], UNCHANGED <<personal, genres, replaced, pageClock>>
  PROVE  PagesInv'
<1>1. PagesTyped' /\ ListsSound'
  BY OnePageKnows DEF PagesInv, PagesTyped, ListsSound
<1>2. ASSUME NEW s \in Requests PROVE TagsSound(page[s])'
  <2>1. TagsSound(page'[s])
    BY OnePageKnows DEF PagesInv
  <2>2. QED
    BY <2>1 DEF TagsSound
<1>3. QED
  BY <1>1, <1>2, OnePageKnows DEF PagesInv

LEMMA StepPageCallFails ==
  ASSUME PagesInv, NEW r \in Requests, NEW c \in page[r].calls, PageCallFails(r, c)
  PROVE  PagesInv'
<1> DEFINE e == CallEnds(page[r], c, "failed")
<1>1. page[r] \in PageRecord /\ PageKnows(page[r]) /\ TagsSound(page[r])
  BY DEF PagesInv, PagesTyped
<1>2. e \in PageRecord /\ SameBut(e, page[r], c) /\ PageKnows(e)
  BY <1>1, CallEnded
<1>3. page' = [page EXCEPT ![r] = e] /\ UNCHANGED <<personal, genres, replaced, pageClock>>
  BY DEF PageCallFails
<1> HIDE DEF e
<1>4. TagsSound(e)
  BY <1>1, <1>2 DEF TagsSound, SameBut
<1>5. QED
  BY <1>2, <1>3, <1>4, OnePageStep

\* What a call brings is counted and may be looked up further.
LEMMA Brought ==
  ASSUME NEW e \in PageRecord, PageKnows(e), TagsSound(e), NEW got \in SUBSET Things, NEW more \in CallSets, NEW owned \in Nat,
         e.answer = "none", e.kind # "none",
         \A d \in more : d.section = "recent" /\ d.seen = -1,
         more # {} => Place(e.kind, "recentlyPlayed") <= e.stage,
         NEW f, f = [e EXCEPT !.got = @ \cup (got \ {"playlist"}), !.calls = @ \cup more, !.owned = owned],
         PagesTyped
  PROVE  f \in PageRecord /\ PageKnows(f) /\ TagsSound(f)
<1> DEFINE g == e.got \cup (got \ {"playlist"})
           cs == e.calls \cup more
<1>1. g \in ThingSets /\ cs \in CallSets /\ owned \in Counts
  BY PageFields DEF ThingSets, CallSets, Counts
<1>2. f = [e EXCEPT !.got = g, !.calls = cs, !.owned = owned]
  OBVIOUS
<1> HIDE DEF g, cs
<1>3. /\ f \in PageRecord /\ f.calls = cs /\ f.kind = e.kind /\ f.opened = e.opened /\ f.stage = e.stage /\ f.lost = e.lost
      /\ f.err = e.err /\ f.unavailable = e.unavailable /\ f.tags = e.tags /\ f.answer = e.answer
  BY <1>1, <1>2 DEF PageRecord
<1>4. Asked(f) \subseteq Asked(e) \cup {"recent"} /\ Asked(e) \subseteq Asked(f) /\ (more = {} => Asked(f) = Asked(e))
  BY <1>3 DEF Asked, cs
<1>5. Unsourced(f) = Unsourced(e) /\ "recent" \notin Unsourced(e)
  BY <1>3 DEF Unsourced, SourcelessNames
<1>6. {s \in f.lost : s \notin Unlisted /\ s \notin Asked(f)} = {s \in e.lost : s \notin Unlisted /\ s \notin Asked(e)}
  BY <1>3, <1>4 DEF Unlisted
<1>7. \A s \in f.lost \cup Asked(f) : Place(f.kind, s) <= f.stage
  <2>1. Place(e.kind, "recent") = Place(e.kind, "recentlyPlayed")
    BY DEF Place
  <2>2. \A s \in e.lost \cup Asked(e) : Place(e.kind, s) <= e.stage
    BY DEF PageKnows
  <2>3. QED
    BY <1>3, <1>4, <2>1, <2>2
<1>8. PageKnows(f)
  BY <1>3, <1>4, <1>5, <1>6, <1>7 DEF PageKnows
<1>9. TagsSound(f)
  <2>1. Len(replaced) \in Nat
    BY DEF PagesTyped
  <2>2. \A d \in more : d.seen <= Len(replaced) + 1 /\ d.seen \notin 1..Len(replaced)
    BY <2>1
  <2>3. QED
    BY <1>3, <2>2 DEF TagsSound, cs
<1>10. QED
  BY <1>3, <1>8, <1>9

LEMMA StepCallAnswers ==
  ASSUME PagesInv, NEW r \in Requests, NEW c \in page[r].calls, CallAnswers(r, c)
  PROVE  PagesInv'
<1>1. page[r] \in PageRecord /\ PageKnows(page[r]) /\ TagsSound(page[r])
  BY DEF PagesInv, PagesTyped
<1>2. UNCHANGED <<personal, genres, replaced, pageClock>>
  BY DEF CallAnswers
<1>3. CASE page' = [page EXCEPT ![r] = CallEnds(page[r], c, "missing")]
  <2> DEFINE e == CallEnds(page[r], c, "missing")
  <2>1. e \in PageRecord /\ SameBut(e, page[r], c) /\ PageKnows(e)
    BY <1>1, CallEnded
  <2>2. page' = [page EXCEPT ![r] = e]
    BY <1>3
  <2> HIDE DEF e
  <2>3. TagsSound(e)
    BY <1>1, <2>1 DEF TagsSound, SameBut
  <2>4. QED
    BY <1>2, <2>1, <2>2, <2>3, OnePageStep
<1>4. ASSUME NEW got \in Brings(c.section), NEW n \in 0..Fan,
             LET more == IF c.section = "recentlyPlayed" THEN CallsOf("recent", n) ELSE {}
                 q == CallEnds(page[r], c, "ok")
             IN page' = [page EXCEPT ![r] = [q EXCEPT !.got = @ \cup (got \ {"playlist"}), !.calls = @ \cup more,
                                                      !.owned = IF "playlist" \in got THEN @ + 1 ELSE @]]
      PROVE  PagesInv'
  <2> DEFINE e == CallEnds(page[r], c, "ok")
             more == IF c.section = "recentlyPlayed" THEN CallsOf("recent", n) ELSE {}
             owned == IF "playlist" \in got THEN e.owned + 1 ELSE e.owned
             f == [e EXCEPT !.got = @ \cup (got \ {"playlist"}), !.calls = @ \cup more, !.owned = owned]
  <2>1. e \in PageRecord /\ SameBut(e, page[r], c) /\ PageKnows(e)
    BY <1>1, CallEnded
  <2>2. page' = [page EXCEPT ![r] = f]
    BY <1>4
  <2>3. TagsSound(e)
    <3> HIDE DEF e
    <3>1. QED
      BY <1>1, <2>1 DEF TagsSound, SameBut
  <2>4. got \in SUBSET Things
    <3>1. Brings(c.section) \subseteq SUBSET Things
      BY DEF Brings, Things
    <3>2. QED
      BY <1>4, <3>1
  <2>5. more \in CallSets /\ \A d \in more : d.section = "recent" /\ d.seen = -1
    <3>1. "recent" \in SectionNames /\ n \in Nat
      BY PagesAssumption DEF SectionNames
    <3>2. \A d \in CallsOf("recent", n) : d \in PageCalls /\ d.section = "recent" /\ d.seen = -1
      <4>1. TAKE d \in CallsOf("recent", n)
      <4>2. PICK i : d = [section |-> "recent", item |-> i, seen |-> -1] /\ i \in Int
        BY <3>1 DEF CallsOf
      <4>3. -1 \in Int
        OBVIOUS
      <4>4. QED
        BY <3>1, <4>2, <4>3 DEF PageCalls
    <3>3. QED
      BY <3>2 DEF CallSets
  <2> HIDE DEF e, more
  <2>6. owned \in Nat
    BY <2>1, PageFields DEF Counts
  <2>7. e.answer = "none" /\ e.kind # "none"
    BY <1>1, <2>1 DEF PageKnows, SameBut
  <2>8. more # {} => Place(e.kind, "recentlyPlayed") <= e.stage
    BY <1>1, <2>1 DEF PageKnows, Asked, SameBut, more
  <2> HIDE DEF owned
  <2>9. f \in PageRecord /\ PageKnows(f) /\ TagsSound(f)
    BY <2>1, <2>3, <2>4, <2>5, <2>6, <2>7, <2>8, Brought DEF PagesInv
  <2> HIDE DEF f
  <2>10. QED
    BY <1>2, <2>2, <2>9, OnePageStep
<1>5. QED
  BY <1>3, <1>4 DEF CallAnswers

\* Another genre list in the hands of a call.
LEMMA StepSeen ==
  ASSUME PagesInv, NEW r \in Requests, NEW c \in page[r].calls, NEW v \in Nat, v = 0 \/ v = Len(replaced) + 1,
         page' = [page EXCEPT ![r].calls = (@ \ {c}) \cup {[c EXCEPT !.seen = v]}],
         UNCHANGED <<personal, genres, replaced, pageClock>>
  PROVE  PagesInv'
<1> DEFINE q == page[r]
           d == [c EXCEPT !.seen = v]
           cs == (q.calls \ {c}) \cup {d}
           e == [q EXCEPT !.calls = cs]
<1>1. q \in PageRecord /\ PageKnows(q) /\ TagsSound(q) /\ Len(replaced) \in Nat
  BY DEF PagesInv, PagesTyped
<1>2. page' = [page EXCEPT ![r] = e]
  BY DEF PagesInv, PagesTyped
<1>3. c \in PageCalls
  BY <1>1, PageFields DEF CallSets
<1>4. d \in PageCalls /\ d.section = c.section /\ d.seen = v
  BY <1>3 DEF PageCalls
<1> HIDE DEF d
<1>5. cs \in CallSets
  BY <1>1, <1>4, PageFields DEF CallSets
<1>6. {x.section : x \in cs} = Asked(q)
  BY <1>4 DEF Asked
<1> HIDE DEF q
<1>7. \A x \in cs : /\ x.seen <= Len(replaced) + 1
                    /\ x.seen \in 1..Len(replaced) => replaced[x.seen] >= q.opened
  BY <1>1, <1>4 DEF TagsSound
<1>8. q.calls # {}
  BY DEF q
<1> HIDE DEF cs
<1>9. /\ e \in PageRecord /\ e.calls = cs /\ e.kind = q.kind /\ e.opened = q.opened /\ e.stage = q.stage /\ e.lost = q.lost
      /\ e.err = q.err /\ e.unavailable = q.unavailable /\ e.tags = q.tags /\ e.answer = q.answer
  BY <1>1, <1>5 DEF PageRecord
<1> HIDE DEF e
<1>10. Asked(e) = Asked(q) /\ Unsourced(e) = Unsourced(q)
  BY <1>6, <1>9 DEF Asked, Unsourced
<1>11. PageKnows(e)
  BY <1>1, <1>8, <1>9, <1>10 DEF PageKnows
<1>12. TagsSound(e)
  BY <1>1, <1>7, <1>9 DEF TagsSound
<1>13. QED
  BY <1>2, <1>9, <1>11, <1>12, OnePageStep

\* A page shows tags.
LEMMA Tagged ==
  ASSUME NEW e \in PageRecord, PageKnows(e), NEW v \in Nat, NEW t \in Nat
  PROVE  LET f == [e EXCEPT !.tags = <<v, t>>]
         IN f \in PageRecord /\ PageKnows(f) /\ f.calls = e.calls /\ f.opened = e.opened /\ f.tags[1] = v /\ f.tags[2] = t
<1> DEFINE p == <<v, t>>
           f == [e EXCEPT !.tags = p]
<1>1. p \in TagPairs /\ p[1] = v /\ p[2] = t
  BY DEF TagPairs
<1> HIDE DEF p
<1>2. /\ f \in PageRecord /\ f.tags = p /\ f.calls = e.calls /\ f.kind = e.kind /\ f.opened = e.opened /\ f.stage = e.stage
      /\ f.lost = e.lost /\ f.err = e.err /\ f.unavailable = e.unavailable /\ f.answer = e.answer
  BY <1>1 DEF PageRecord
<1> HIDE DEF f
<1>3. PageKnows(f)
  BY <1>2 DEF PageKnows, Asked, Unsourced
<1>4. QED
  BY <1>1, <1>2, <1>3 DEF f, p

LEMMA StepGenreIndexHit ==
  ASSUME PagesInv, NEW r \in Requests, NEW c \in page[r].calls, GenreIndexHit(r, c)
  PROVE  PagesInv'
<1> DEFINE e == CallEnds(page[r], c, "ok")
           f == [e EXCEPT !.tags = <<genres.version, pageClock>>]
<1>1. page[r] \in PageRecord /\ PageKnows(page[r]) /\ TagsSound(page[r]) /\ ListsSound
  BY DEF PagesInv, PagesTyped
<1>2. e \in PageRecord /\ SameBut(e, page[r], c) /\ PageKnows(e)
  BY <1>1, CallEnded
<1>3. /\ page' = [page EXCEPT ![r] = f] /\ UNCHANGED <<personal, genres, replaced, pageClock>>
      /\ genres.version # 0 /\ pageClock < genres.expire
  BY DEF GenreIndexHit
<1>4. /\ genres.version \in Nat /\ genres.expire \in Nat /\ pageClock \in Nat /\ Len(replaced) \in Nat
      /\ \A i \in 1..Len(replaced) : replaced[i] \in Nat
  BY DEF PagesInv, PagesTyped
<1> HIDE DEF e
<1>5. f \in PageRecord /\ PageKnows(f) /\ f.calls = e.calls /\ f.opened = e.opened /\ f.tags[1] = genres.version /\ f.tags[2] = pageClock
  BY <1>2, <1>4, Tagged
<1> HIDE DEF f
<1>6. TagsSound(f)
  <2>1. /\ f.opened <= pageClock
        /\ \A d \in f.calls : /\ d.seen <= Len(replaced) + 1
                              /\ d.seen \in 1..Len(replaced) => replaced[d.seen] >= f.opened
    BY <1>1, <1>2, <1>5 DEF TagsSound, SameBut
  <2>2. genres.version \in 1..Len(replaced) => pageClock < replaced[genres.version] + GenreCacheTTL + PageBudget
    BY <1>1, <1>3, <1>4, PagesAssumption DEF ListsSound
  <2>3. genres.version <= Len(replaced) + 1
    BY <1>1 DEF ListsSound
  <2>4. QED
    BY <1>4, <1>5, <2>1, <2>2, <2>3 DEF TagsSound
<1>7. QED
  BY <1>3, <1>5, <1>6, OnePageStep

\* A page in its budget keeps the list it read.
LEMMA StepGenresKept ==
  ASSUME PagesInv, NEW r \in Requests, NEW c \in page[r].calls, GenresKept(r, c)
  PROVE  PagesInv'
<1> DEFINE q == page[r]
           e == CallEnds(q, c, "ok")
           f == [e EXCEPT !.tags = <<c.seen, pageClock>>]
<1>1. q \in PageRecord /\ PageKnows(q) /\ TagsSound(q) /\ ListsSound
  BY DEF PagesInv, PagesTyped
<1>2. e \in PageRecord /\ SameBut(e, q, c) /\ PageKnows(e)
  BY <1>1, CallEnded
<1>3. /\ page' = [page EXCEPT ![r] = f] /\ UNCHANGED <<personal, replaced, pageClock>>
      /\ genres' = [version |-> c.seen, expire |-> pageClock + GenreCacheTTL]
      /\ c.seen > 0 /\ ~ (pageClock >= q.opened + PageBudget)
  BY DEF GenresKept, Expired
<1>4. /\ pageClock \in Nat /\ Len(replaced) \in Nat /\ \A i \in 1..Len(replaced) : replaced[i] \in Nat
      /\ q.opened \in Nat /\ c.seen \in Int
  <2>1. c \in PageCalls /\ q.opened \in Nat
    BY <1>1, PageFields DEF CallSets, Times
  <2>2. QED
    BY <2>1 DEF PagesInv, PagesTyped, PageCalls
<1>5. c.seen \in Nat /\ c.seen <= Len(replaced) + 1 /\ (c.seen \in 1..Len(replaced) => replaced[c.seen] >= q.opened)
  BY <1>1, <1>3, <1>4 DEF TagsSound
<1> HIDE DEF e
<1>6. f \in PageRecord /\ PageKnows(f) /\ f.calls = e.calls /\ f.opened = e.opened /\ f.tags[1] = c.seen /\ f.tags[2] = pageClock
  BY <1>2, <1>4, <1>5, Tagged
<1> HIDE DEF f
<1>7. c.seen \in 1..Len(replaced) => pageClock < replaced[c.seen] + PageBudget
  BY <1>3, <1>4, <1>5, PagesAssumption
<1>8. TagsSound(f)
  <2>1. /\ f.opened <= pageClock
        /\ \A d \in f.calls : /\ d.seen <= Len(replaced) + 1
                              /\ d.seen \in 1..Len(replaced) => replaced[d.seen] >= f.opened
    BY <1>1, <1>2, <1>6 DEF TagsSound, SameBut
  <2>2. c.seen \in 1..Len(replaced) => pageClock < replaced[c.seen] + GenreCacheTTL + PageBudget
    BY <1>4, <1>7, PagesAssumption
  <2>3. QED
    BY <1>4, <1>5, <1>6, <2>1, <2>2 DEF TagsSound
<1> HIDE DEF q
<1>9. PagesTyped'
  <2>1. pageClock + GenreCacheTTL \in Nat
    BY <1>4, PagesAssumption
  <2>2. genres' \in [version : Nat, expire : Nat]
    BY <1>3, <1>5, <2>1
  <2>3. QED
    BY <1>3, <1>6, <2>2, OnePageKnows DEF PagesInv, PagesTyped
<1>10. ListsSound'
  <2>1. genres'.version = c.seen /\ genres'.expire = pageClock + GenreCacheTTL
    BY <1>3
  <2>2. c.seen \in 1..Len(replaced) => pageClock + GenreCacheTTL < replaced[c.seen] + GenreCacheTTL + PageBudget
    BY <1>4, <1>7, PagesAssumption
  <2>3. QED
    BY <1>1, <1>3, <1>4, <1>5, <2>1, <2>2, PagesAssumption DEF ListsSound
<1>11. ASSUME NEW s \in Requests PROVE TagsSound(page[s])'
  <2>1. TagsSound(page'[s])
    BY <1>3, <1>6, <1>8, OnePageKnows DEF PagesInv
  <2>2. QED
    BY <1>3, <2>1 DEF TagsSound
<1>12. QED
  BY <1>3, <1>6, <1>9, <1>10, <1>11, OnePageKnows DEF PagesInv

\* The number of items a stage may ask for.
LEMMA DistinctIsNat ==
  ASSUME NEW q \in PageRecord
  PROVE  Distinct(q) \in Nat
<1>1. q.owned \in Nat
  BY PageFields DEF Counts
<1> DEFINE S == {1, q.owned}
<1>2. \E x \in S : \A y \in S : x >= y
  BY <1>1
<1>3. Max(S) \in S
  BY <1>2 DEF Max
<1>4. Max(S) \in Nat
  BY <1>1, <1>3
<1>5. QED
  BY <1>4, PagesAssumption DEF Distinct

LEMMA StepJoinCalls ==
  ASSUME PagesInv, NEW r \in Requests, JoinCalls(r)
  PROVE  PagesInv'
<1> DEFINE q == page[r]
           later == {s \in (q.stage + 1)..Len(Plan(q)) : Plan(q)[s] # {}}
<1>1. q \in PageRecord /\ PageKnows(q) /\ TagsSound(q) /\ Len(replaced) \in Nat
  BY DEF PagesInv, PagesTyped
<1>2. /\ q.stage # 0 /\ q.answer = "none" /\ q.calls = {} /\ UNCHANGED <<personal, genres, replaced, pageClock>>
      /\ \E n \in 1..Distinct(q) :
           page' = [page EXCEPT ![r] =
             IF q.err # "none" THEN [q EXCEPT !.answer = q.err]
             ELSE IF later = {} THEN [q EXCEPT !.answer = "page"]
             ELSE [q EXCEPT !.stage = Min(later), !.calls = UNION {CallsOf(s, n) : s \in Plan(q)[Min(later)]}]]
  BY DEF JoinCalls
<1>3. PICK n \in 1..Distinct(q) :
           page' = [page EXCEPT ![r] =
             IF q.err # "none" THEN [q EXCEPT !.answer = q.err]
             ELSE IF later = {} THEN [q EXCEPT !.answer = "page"]
             ELSE [q EXCEPT !.stage = Min(later), !.calls = UNION {CallsOf(s, n) : s \in Plan(q)[Min(later)]}]]
  BY <1>2
<1>4. n \in Nat
  BY <1>1, DistinctIsNat
<1>5. q.kind # "none" /\ q.stage \in Nat /\ q.err \in Refusals
  BY <1>1, <1>2, PageFields DEF PageKnows, StageNumbers
<1>6. CASE q.err # "none" \/ later = {}
  <2> DEFINE a == IF q.err # "none" THEN q.err ELSE "page"
             e == [q EXCEPT !.answer = a]
  <2>1. page' = [page EXCEPT ![r] = e]
    BY <1>3, <1>6
  <2>2. a \in PageAnswers /\ (a = "page" => q.err = "none") /\ (a \in {"not_found", "upstream"} => q.err # "none") /\ a # "none"
    BY <1>5 DEF PageAnswers, Refusals
  <2> HIDE DEF a, q, later
  <2>3. /\ e \in PageRecord /\ e.answer = a /\ e.calls = q.calls /\ e.kind = q.kind /\ e.opened = q.opened /\ e.stage = q.stage
        /\ e.lost = q.lost /\ e.err = q.err /\ e.unavailable = q.unavailable /\ e.tags = q.tags
    BY <1>1, <2>2 DEF PageRecord
  <2> HIDE DEF e
  <2>4. Asked(e) = Asked(q) /\ Unsourced(e) = Unsourced(q)
    BY <2>3 DEF Asked, Unsourced
  <2>5. PageKnows(e)
    BY <1>1, <1>2, <2>2, <2>3, <2>4 DEF PageKnows
  <2>6. TagsSound(e)
    BY <1>1, <2>3 DEF TagsSound
  <2>7. QED
    BY <1>2, <2>1, <2>3, <2>5, <2>6, OnePageStep
<1>7. CASE q.err = "none" /\ later # {}
  <2> DEFINE m == Min(later)
             cs == UNION {CallsOf(s, n) : s \in Plan(q)[m]}
             e == [q EXCEPT !.stage = m, !.calls = cs]
  <2>1. page' = [page EXCEPT ![r] = e]
    BY <1>3, <1>7
  <2>2. Len(Plan(q)) \in Nat
    BY <1>1, <1>5, PlanFits
  <2>3. m \in later
    <3>1. later \subseteq Nat
      BY <1>5, <2>2
    <3> HIDE DEF later
    <3>2. \E x \in later : \A y \in later : x <= y
      BY <1>7, <3>1, LeastExists
    <3>3. QED
      BY <3>2 DEF Min
  <2>4. m \in 1..Len(Plan(q)) /\ m \in Nat /\ q.stage < m
    <3> HIDE DEF m
    <3>1. QED
      BY <1>5, <2>2, <2>3
  <2>5. PlacedAt(Plan(q)[m], q.kind, m)
    BY <1>1, <1>5, <2>4, PlanFits
  <2>6. cs \in CallSets /\ \A c \in cs : c.section \in Plan(q)[m] /\ c.seen = -1
    <3> DEFINE S == Plan(q)[m]
    <3>1. S \in NameSets
      BY <2>5 DEF NameSets, PlacedAt
    <3> HIDE DEF S, m, q
    <3>2. LET C == UNION {CallsOf(s, n) : s \in S} IN C \in CallSets /\ \A c \in C : c.section \in S /\ c.seen = -1
      BY <1>4, <3>1, FreshCalls
    <3>3. QED
      BY <3>2 DEF S
  <2> HIDE DEF m, cs, later, q
  <2>7. /\ e \in PageRecord /\ e.stage = m /\ e.calls = cs /\ e.kind = q.kind /\ e.opened = q.opened /\ e.answer = q.answer
        /\ e.lost = q.lost /\ e.err = q.err /\ e.unavailable = q.unavailable /\ e.tags = q.tags
    <3>1. m \in StageNumbers
      BY <2>4 DEF StageNumbers
    <3>2. QED
      BY <1>1, <2>6, <3>1 DEF PageRecord
  <2> HIDE DEF e
  <2>8. Asked(e) \subseteq Plan(q)[m] /\ Asked(q) = {} /\ Unsourced(e) = Unsourced(q)
    BY <1>2, <2>6, <2>7 DEF Asked, Unsourced
  <2>9. \A s \in Asked(e) : Place(q.kind, s) = m /\ s \notin SourcelessNames /\ (s = "recentlyPlayed" => "history" \in personal)
    BY <2>5, <2>8 DEF PlacedAt
  <2>10. \A s \in q.lost : Place(q.kind, s) <= q.stage /\ Place(q.kind, s) \in Nat
    BY <1>1 DEF PageKnows, Place
  <2>11. \A s \in q.lost : s \notin Asked(e) /\ Place(q.kind, s) <= m
    BY <1>5, <2>4, <2>9, <2>10
  <2>12. {s \in e.lost : s \notin Unlisted /\ s \notin Asked(e)} = {s \in q.lost : s \notin Unlisted /\ s \notin Asked(q)}
    BY <2>7, <2>8, <2>11
  <2>13. Asked(e) \cap Unsourced(q) = {}
    BY <2>9 DEF Unsourced
  <2>14. \A s \in e.lost \cup Asked(e) : Place(e.kind, s) <= e.stage
    BY <2>4, <2>7, <2>9, <2>11
  <2>15. PageKnows(e)
    BY <1>1, <1>2, <1>5, <2>7, <2>8, <2>12, <2>13, <2>14 DEF PageKnows
  <2>16. TagsSound(e)
    BY <1>1, <2>6, <2>7 DEF TagsSound
  <2>17. QED
    BY <1>2, <2>1, <2>7, <2>15, <2>16, OnePageStep
<1>8. QED
  BY <1>6, <1>7

LEMMA UnaskedPage ==
  /\ Unasked \in PageRecord
  /\ Unasked.kind = "none" /\ Unasked.opened = 0 /\ Unasked.stage = 0 /\ Unasked.calls = {} /\ Unasked.lost = {}
  /\ Unasked.err = "none" /\ Unasked.unavailable = <<>> /\ Unasked.tags[1] = 0 /\ Unasked.tags[2] = 0 /\ Unasked.answer = "none"
<1>1. /\ "none" \in PageKinds /\ FALSE \in Truths /\ 0 \in Times /\ 0 \in StageNumbers /\ {} \in CallSets /\ {} \in ThingSets
      /\ 0 \in Counts /\ {} \in NameSets /\ "none" \in Refusals /\ <<>> \in NameLists /\ <<0, 0>> \in TagPairs /\ "none" \in PageAnswers
  BY DEF PageKinds, Truths, Times, StageNumbers, CallSets, ThingSets, Counts, NameSets, Refusals, NameLists, TagPairs, PageAnswers
<1>2. QED
  BY <1>1 DEF Unasked, PageRecord

LEMMA StepOpenPage ==
  ASSUME PagesInv, NEW r \in Requests, NEW kind \in {"album", "playlist", "home"}, NEW user \in BOOLEAN, OpenPage(r, kind, user)
  PROVE  PagesInv'
<1> DEFINE list == IF kind # "home" THEN <<>>
                   ELSE NoSource \o IF "history" \in personal THEN <<>> ELSE <<"recentlyPlayed">>
           q == [Unasked EXCEPT !.kind = kind, !.user = user, !.opened = pageClock, !.unavailable = list]
           a == IF kind = "playlist" /\ "playlists" \notin personal THEN "upstream" ELSE "none"
<1>1. /\ page' = [page EXCEPT ![r] =
                    IF kind = "playlist" /\ "playlists" \notin personal THEN [q EXCEPT !.answer = "upstream"]
                    ELSE [q EXCEPT !.stage = 1, !.calls = UNION {CallsOf(s, 1) : s \in Plan(q)[1]}]]
      /\ UNCHANGED <<personal, genres, replaced, pageClock>>
  BY DEF OpenPage
<1>2. list \in NameLists /\ Cardinality(ListedBy(list)) = Len(list)
      /\ ListedBy(list) = IF kind # "home" THEN {} ELSE SourcelessNames \cup (IF "history" \in personal THEN {} ELSE {"recentlyPlayed"})
  BY SourcelessListed
<1>3. pageClock \in Nat /\ Len(replaced) \in Nat
  BY DEF PagesInv, PagesTyped
<1> HIDE DEF list
<1>4. /\ q \in PageRecord /\ q.kind = kind /\ q.opened = pageClock /\ q.unavailable = list /\ q.stage = 0 /\ q.calls = {}
      /\ q.lost = {} /\ q.err = "none" /\ q.tags[1] = 0 /\ q.answer = "none"
  <2>1. kind \in PageKinds /\ user \in Truths /\ pageClock \in Times
    BY <1>3 DEF PageKinds, Truths, Times
  <2>2. QED
    BY <1>2, <2>1, UnaskedPage DEF PageRecord
<1> HIDE DEF q
<1>5. Unsourced(q) = ListedBy(list) /\ Asked(q) = {}
  BY <1>2, <1>4 DEF Unsourced, Asked
<1>6. CASE kind = "playlist" /\ "playlists" \notin personal
  <2> DEFINE e == [q EXCEPT !.answer = "upstream"]
  <2>1. page' = [page EXCEPT ![r] = e]
    BY <1>1, <1>6
  <2>2. /\ e \in PageRecord /\ e.answer = "upstream" /\ e.calls = {} /\ e.kind = kind /\ e.opened = pageClock
        /\ e.stage = 0 /\ e.lost = {} /\ e.err = "none" /\ e.unavailable = list /\ e.tags[1] = 0
    <3>1. "upstream" \in PageAnswers
      BY DEF PageAnswers
    <3>2. QED
      BY <1>4, <3>1 DEF PageRecord
  <2> HIDE DEF e
  <2>3. Unsourced(e) = ListedBy(list) /\ Asked(e) = {}
    BY <1>4, <1>5, <2>2 DEF Unsourced, Asked
  <2>4. PageKnows(e)
    BY <1>2, <1>6, <2>2, <2>3 DEF PageKnows
  <2>5. TagsSound(e)
    BY <1>3, <2>2 DEF TagsSound
  <2>6. QED
    BY <1>1, <2>1, <2>2, <2>4, <2>5, OnePageStep
<1>7. CASE ~ (kind = "playlist" /\ "playlists" \notin personal)
  <2> DEFINE S == Plan(q)[1]
             cs == UNION {CallsOf(s, 1) : s \in S}
             e == [q EXCEPT !.stage = 1, !.calls = cs]
  <2>1. page' = [page EXCEPT ![r] = e]
    BY <1>1, <1>7
  <2>2. PlacedAt(S, kind, 1)
    <3>1. Len(Plan(q)) \in Nat /\ Len(Plan(q)) >= 1 /\ \A s \in 1..Len(Plan(q)) : PlacedAt(Plan(q)[s], q.kind, s)
      BY <1>4, PlanFits
    <3>2. 1 \in 1..Len(Plan(q))
      BY <3>1
    <3>3. QED
      BY <1>4, <3>1, <3>2
  <2>3. cs \in CallSets /\ \A c \in cs : c.section \in S /\ c.seen = -1
    <3>1. S \in NameSets
      BY <2>2 DEF NameSets, PlacedAt
    <3> HIDE DEF S
    <3>2. QED
      BY <3>1, FreshCalls
  <2> HIDE DEF S, cs
  <2>4. /\ e \in PageRecord /\ e.answer = "none" /\ e.calls = cs /\ e.kind = kind /\ e.opened = pageClock
        /\ e.stage = 1 /\ e.lost = {} /\ e.err = "none" /\ e.unavailable = list /\ e.tags[1] = 0
    <3>1. 1 \in StageNumbers
      BY DEF StageNumbers
    <3>2. QED
      BY <1>4, <2>3, <3>1 DEF PageRecord
  <2> HIDE DEF e
  <2>5. Unsourced(e) = ListedBy(list) /\ Asked(e) \subseteq S
    BY <1>4, <1>5, <2>3, <2>4 DEF Unsourced, Asked
  <2>6. \A s \in Asked(e) : Place(kind, s) = 1 /\ s \notin SourcelessNames /\ (s = "recentlyPlayed" => "history" \in personal)
    BY <2>2, <2>5 DEF PlacedAt
  <2>7. Asked(e) \cap Unsourced(e) = {}
    BY <2>6 DEF Unsourced
  <2>8. PageKnows(e)
    <3>1. {s \in e.lost : s \notin Unlisted /\ s \notin Asked(e)} = {} /\ e.lost \cap Required = {} /\ e.kind # "none"
      BY <2>4
    <3>2. \A s \in e.lost \cup Asked(e) : Place(e.kind, s) <= e.stage
      BY <2>4, <2>6
    <3>3. QED
      BY <1>2, <2>4, <2>5, <2>7, <3>1, <3>2 DEF PageKnows
  <2>9. TagsSound(e)
    BY <1>3, <2>3, <2>4 DEF TagsSound
  <2>10. QED
    BY <1>1, <2>1, <2>4, <2>8, <2>9, OnePageStep
<1>8. QED
  BY <1>6, <1>7

\* The list that Catalog replaces was the newest, so nobody's tags are of it
\* for longer than from now on.
LEMMA StepGenresChange ==
  ASSUME PagesInv, GenresChange
  PROVE  PagesInv'
<1> DEFINE n == Len(replaced)
<1>1. replaced' = Append(replaced, pageClock) /\ UNCHANGED <<personal, page, genres, pageClock>>
  BY DEF GenresChange
<1>2. pageClock \in Nat /\ replaced \in Seq(Nat) /\ n \in Nat /\ genres.version \in Nat /\ genres.expire \in Nat
  BY DEF PagesInv, PagesTyped
<1>3. /\ replaced' \in Seq(Nat) /\ Len(replaced') = n + 1 /\ replaced'[n + 1] = pageClock
      /\ \A i \in 1..n : replaced'[i] = replaced[i]
  BY <1>1, <1>2
<1>4. \A v \in Int : v \in 1..n + 1 => v \in 1..n \/ v = n + 1
  BY <1>2
<1>5. PagesTyped'
  BY <1>1, <1>3 DEF PagesInv, PagesTyped
<1> HIDE DEF n
<1>6. ListsSound'
  <2>1. ASSUME NEW i \in 1..n + 1 PROVE replaced'[i] <= pageClock
    <3>1. i \in 1..n \/ i = n + 1
      BY <1>4
    <3>2. CASE i \in 1..n
      <4>1. replaced[i] <= pageClock
        BY <3>2 DEF PagesInv, ListsSound, n
      <4>2. QED
        BY <3>2, <4>1, <1>3
    <3>3. CASE i = n + 1
      BY <3>3, <1>2, <1>3
    <3>4. QED
      BY <3>1, <3>2, <3>3
  <2>2. genres.version <= n + 2 /\ genres.version # n + 2
    BY <1>2 DEF PagesInv, ListsSound, n
  <2>3. genres.version = n + 1 => genres.expire < pageClock + GenreCacheTTL + PageBudget
    BY <1>2, PagesAssumption DEF PagesInv, ListsSound, n
  <2>4. genres.version \in 1..n + 1 => genres.expire < replaced'[genres.version] + GenreCacheTTL + PageBudget
    BY <1>2, <1>3, <1>4, <2>3 DEF PagesInv, ListsSound, n
  <2>5. n + 1 + 1 = n + 2
    BY <1>2
  <2>6. QED
    BY <1>1, <1>3, <2>1, <2>2, <2>4, <2>5 DEF ListsSound
<1>7. ASSUME NEW r \in Requests PROVE TagsSound(page[r])'
  <2> DEFINE q == page[r]
  <2>1. TagsSound(q) /\ q \in PageRecord /\ page'[r] = q
    BY <1>1 DEF PagesInv, PagesTyped
  <2>2. q.opened \in Nat /\ q.tags[1] \in Nat /\ q.tags[2] \in Nat /\ \A c \in q.calls : c.seen \in Int
    BY <2>1, PageFields DEF Times, TagPairs, CallSets, PageCalls
  <2> HIDE DEF q
  <2>3. ASSUME NEW c \in q.calls
        PROVE  c.seen <= n + 2 /\ (c.seen \in 1..n + 1 => replaced'[c.seen] >= q.opened)
    <3>1. c.seen \in Int /\ c.seen <= n + 1 /\ q.opened <= pageClock
      BY <2>1, <2>2 DEF TagsSound, n
    <3>2. c.seen <= n + 2
      BY <3>1, <1>2
    <3>3. CASE c.seen \in 1..n
      <4>1. replaced[c.seen] >= q.opened
        BY <2>1, <3>3 DEF TagsSound, n
      <4>2. QED
        BY <1>3, <3>2, <3>3, <4>1
    <3>4. CASE c.seen = n + 1
      BY <1>2, <1>3, <2>2, <3>1, <3>2, <3>4
    <3>5. QED
      BY <1>4, <3>1, <3>2, <3>3, <3>4
  <2>4. q.tags[1] <= n + 2 /\ q.tags[1] # n + 2
    BY <1>2, <2>1, <2>2 DEF TagsSound, n
  <2>5. q.tags[1] = n + 1 => q.tags[2] < pageClock + GenreCacheTTL + PageBudget
    BY <1>2, <2>1, <2>2, PagesAssumption DEF TagsSound, n
  <2>6. q.tags[1] \in 1..n + 1 => q.tags[2] < replaced'[q.tags[1]] + GenreCacheTTL + PageBudget
    <3>1. CASE q.tags[1] \in 1..n
      <4>1. q.tags[2] < replaced[q.tags[1]] + GenreCacheTTL + PageBudget
        BY <2>1, <3>1 DEF TagsSound, n
      <4>2. QED
        BY <1>3, <3>1, <4>1
    <3>2. CASE q.tags[1] = n + 1
      BY <1>3, <2>5, <3>2
    <3>3. QED
      BY <1>4, <2>2, <3>1, <3>2
  <2>7. n + 1 + 1 = n + 2 /\ q.opened <= pageClock
    BY <1>2, <2>1 DEF TagsSound
  <2>8. QED
    BY <1>1, <1>3, <2>1, <2>3, <2>4, <2>6, <2>7 DEF TagsSound
<1>8. QED
  BY <1>1, <1>5, <1>6, <1>7, PagesKept DEF PagesInv

LEMMA StepPageTick ==
  ASSUME PagesInv, PageTick
  PROVE  PagesInv'
<1>1. pageClock' = pageClock + 1 /\ UNCHANGED <<personal, page, genres, replaced>>
  BY DEF PageTick
<1>2. /\ pageClock \in Nat /\ Len(replaced) \in Nat /\ \A i \in 1..Len(replaced) : replaced[i] \in Nat
      /\ genres.version \in Nat /\ genres.expire \in Nat
  BY DEF PagesInv, PagesTyped
<1>3. PagesTyped'
  BY <1>1, <1>2 DEF PagesInv, PagesTyped
<1>4. ListsSound'
  BY <1>1, <1>2, PagesAssumption DEF PagesInv, ListsSound
<1>5. ASSUME NEW r \in Requests PROVE TagsSound(page[r])'
  <2> DEFINE q == page[r]
  <2>1. TagsSound(q) /\ q \in PageRecord /\ page'[r] = q
    BY <1>1 DEF PagesInv, PagesTyped
  <2>2. q.opened \in Nat /\ q.tags[2] \in Nat
    BY <2>1, PageFields DEF Times, TagPairs
  <2> HIDE DEF q
  <2>3. q.opened <= pageClock + 1 /\ (q.tags[2] <= pageClock => q.tags[2] <= pageClock + 1)
    BY <1>2, <2>1, <2>2 DEF TagsSound
  <2>4. QED
    BY <1>1, <2>1, <2>3 DEF TagsSound
<1>6. QED
  BY <1>1, <1>3, <1>4, <1>5, PagesKept DEF PagesInv

LEMMA PagesStart == PagesInit => PagesInv
<1> SUFFICES ASSUME PagesInit PROVE PagesInv
  OBVIOUS
<1>1. PagesTyped /\ Len(replaced) = 0
  BY UnaskedPage DEF PagesInit, PagesTyped
<1>2. ListsSound
  BY <1>1, PagesAssumption DEF PagesInit, ListsSound
<1>3. ASSUME NEW r \in Requests PROVE PageKnows(page[r]) /\ TagsSound(page[r])
  <2>1. page[r] = Unasked /\ pageClock = 0
    BY DEF PagesInit
  <2>2. Asked(Unasked) = {} /\ Unasked.lost \cap Required = {}
    BY UnaskedPage DEF Asked
  <2>3. QED
    BY <1>1, <2>1, <2>2, UnaskedPage DEF PageKnows, TagsSound
<1>4. QED
  BY <1>1, <1>2, <1>3 DEF PagesInv

LEMMA PagesInductive == PagesInv /\ [PagesNext]_pageVars => PagesInv'
<1> SUFFICES ASSUME PagesInv, [PagesNext]_pageVars PROVE PagesInv'
  OBVIOUS
<1>1. CASE UNCHANGED pageVars
  <2>1. UNCHANGED <<personal, page, genres, replaced, pageClock>>
    BY <1>1 DEF pageVars
  <2>2. ASSUME NEW r \in Requests PROVE TagsSound(page[r])'
    BY <2>1 DEF PagesInv, TagsSound
  <2>3. QED
    BY <2>1, <2>2, PagesKept DEF PagesInv, PagesTyped, ListsSound
<1>2. ASSUME NEW r \in Requests, NEW c \in page[r].calls, GenreIndexMiss(r, c) PROVE PagesInv'
  BY <1>2, StepSeen DEF GenreIndexMiss
<1>3. ASSUME NEW r \in Requests, NEW c \in page[r].calls, GenresRead(r, c) PROVE PagesInv'
  <2>1. Len(replaced) + 1 \in Nat
    BY DEF PagesInv, PagesTyped
  <2>2. QED
    BY <1>3, <2>1, StepSeen DEF GenresRead
<1>4. CASE PagesNext
  BY <1>2, <1>3, <1>4, StepOpenPage, StepCallAnswers, StepPageCallFails, StepGenreIndexHit, StepGenresKept, StepJoinCalls,
     StepGenresChange, StepPageTick DEF PagesNext
<1>5. QED
  BY <1>1, <1>4

LEMMA PagesPromise == PagesInv => UnavailableIsExact /\ OnlyRequiredRefuses /\ TagsFresh
<1> SUFFICES ASSUME PagesInv, NEW r \in Requests
             PROVE  /\ LET q == page[r]
                           listed == {q.unavailable[i] : i \in 1..Len(q.unavailable)}
                           unsourced == IF q.kind # "home" THEN {}
                                        ELSE {NoSource[i] : i \in 1..Len(NoSource)}
                                               \cup (IF "history" \in personal THEN {} ELSE {"recentlyPlayed"})
                       IN q.answer = "page" =>
                            /\ listed = unsourced \cup (q.lost \ {"recent"})
                            /\ Cardinality(listed) = Len(q.unavailable)
                    /\ page[r].answer \in {"not_found", "upstream"} =>
                         page[r].lost \cap Required # {} \/ (page[r].kind = "playlist" /\ "playlists" \notin personal)
                    /\ LET v == page[r].tags[1]
                       IN v \in 1..Len(replaced) => page[r].tags[2] < replaced[v] + GenreCacheTTL + PageBudget
  BY DEF UnavailableIsExact, OnlyRequiredRefuses, TagsFresh
<1> DEFINE q == page[r]
<1>1. PageKnows(q) /\ TagsSound(q)
  BY DEF PagesInv
<1>2. {NoSource[i] : i \in 1..Len(NoSource)} = SourcelessNames
  BY SourcelessListed DEF ListedBy
<1>3. ASSUME q.answer = "page"
      PROVE  /\ ListedBy(q.unavailable) = Unsourced(q) \cup (q.lost \ {"recent"})
             /\ Cardinality(ListedBy(q.unavailable)) = Len(q.unavailable)
  <2>1. q.kind # "none" /\ q.calls = {} /\ q.err = "none"
    BY <1>1, <1>3 DEF PageKnows
  <2>2. Asked(q) = {} /\ q.lost \cap Required = {}
    BY <1>1, <2>1 DEF PageKnows, Asked
  <2>3. {s \in q.lost : s \notin Unlisted /\ s \notin Asked(q)} = q.lost \ {"recent"}
    BY <2>2 DEF Unlisted
  <2>4. QED
    BY <1>1, <2>1, <2>3 DEF PageKnows
<1>4. q.answer \in {"not_found", "upstream"} => q.lost \cap Required # {} \/ (q.kind = "playlist" /\ "playlists" \notin personal)
  BY <1>1 DEF PageKnows
<1>5. q.tags[1] \in 1..Len(replaced) => q.tags[2] < replaced[q.tags[1]] + GenreCacheTTL + PageBudget
  BY <1>1 DEF TagsSound
<1>6. QED
  BY <1>2, <1>3, <1>4, <1>5 DEF ListedBy, Unsourced

\* The BFF (pages.go, playlists.go): for any number of requests and in whatever
\* order their calls end, fail or run out of budget, an answered page lists the
\* sections it lacks, each once, it is refused only for what is required, and
\* its tags are of a genre list that was current a TTL and a budget ago.
THEOREM PagesStayHonest == PagesSpec => [](UnavailableIsExact /\ OnlyRequiredRefuses /\ TagsFresh)
<1>1. QED
  BY PagesStart, PagesInductive, PagesPromise, PTL DEF PagesSpec

-----------------------------------------------------------------------------
(* Types, and the run of MCRuntime                                          *)

Failures == {"none", "boot", "server", "consumer"}

LEMMA ProgramFlags == \A p \in Programs : p.consumerStops \in BOOLEAN
<1>1. \A boot, join, optional : Serves(boot, join, optional).consumerStops \in BOOLEAN
  BY DEF Serves
<1>2. Analytics_serve.consumerStops \in BOOLEAN
  BY DEF Analytics_serve, Serves
<1>3. \A p \in Programs \ {Analytics_serve} : \E boot, join, optional : p = Serves(boot, join, optional)
  BY Zenon
  DEF Programs, Playlist_main, Social_main, Library_main, Auth_main, MediaIngest_main, Catalog_main, UserProfile_main,
      History_main, Playback_main, Bff_main, Search_main, Recommendation_main, StreamAuth_main, Metadata_main,
      AudioAnalysis_main, RecommendationWorker_main, SearchIndexer_main, Transcoder_main
<1>4. QED
  BY <1>1, <1>2, <1>3

\* A program's variables keep their types: the next boot step is one of the
\* program's or the server, and the next join one of its loops or the end.
LEMMA LifeTypesNext == LifeInv /\ LifecycleTypeOK /\ [LifecycleNext]_lifecycleVars => LifecycleTypeOK'
<1> SUFFICES ASSUME LifeInv, LifecycleTypeOK, [LifecycleNext]_lifecycleVars PROVE LifecycleTypeOK'
  OBVIOUS
<1>1. program.consumerStops \in BOOLEAN /\ Len(program.boot) \in Nat /\ Len(program.join) \in Nat
  <2>1. program \in Programs /\ WellMade(program)
    BY ProgramsWellMade DEF LifecycleTypeOK
  <2>2. QED
    BY <2>1, ProgramFlags DEF WellMade, Ordered
<1>2. CASE UNCHANGED lifecycleVars
  BY <1>2 DEF lifecycleVars, LifecycleTypeOK
<1>3. ASSUME LifecycleNext PROVE LifecycleTypeOK'
  <2>1. program' = program /\ off' = off
    BY <1>3 DEF LifecycleNext
  <2>2. running' \subseteq Loops /\ joinable' \subseteq Loops /\ program' \in Programs
    <3>1. LifeInv'
      BY LifeInductive
    <3>2. QED
      BY <3>1 DEF LifeInv, LifeTyped
  <2>3. CASE Open \/ Check \/ Start \/ Skip
    BY <1>1, <2>1, <2>2, <2>3 DEF Open, Check, Start, Skip, Booting, LifecycleTypeOK
  <2>4. CASE BootFails \/ CommandDone \/ ServerFails \/ ShutdownTimeout \/ Joined
    BY <1>1, <2>1, <2>2, <2>4 DEF BootFails, CommandDone, ServerFails, ShutdownTimeout, Joined, Return, Stages, LifecycleTypeOK
  <2>5. CASE Listen \/ Signal \/ Drain
    BY <1>1, <2>1, <2>2, <2>5 DEF Listen, Signal, Drain, Stages, LifecycleTypeOK
  <2>9. CASE Request \/ Answer
    <3>1. inFlight' \in 0..MaxInFlight
      BY <2>9, LifecycleAssumption DEF Request, Answer, LifecycleTypeOK
    <3>2. QED
      BY <1>1, <2>1, <2>2, <2>9, <3>1 DEF Request, Answer, LifecycleTypeOK
  <2>6. CASE StopServing \/ ShutdownDone \/ Join \/ \E l \in Loops : LoopEnds(l)
    BY <1>1, <2>1, <2>2, <2>6 DEF StopServing, ShutdownDone, Join, LoopEnds, Stages, LifecycleTypeOK
  <2>7. CASE CloseNext \/ Exit
    BY <1>1, <2>1, <2>2, <2>7, LifecycleAssumption DEF CloseNext, Exit, Stages, LifecycleTypeOK
  <2>8. QED
    BY <1>3, <2>3, <2>4, <2>5, <2>6, <2>7, <2>9 DEF LifecycleNext, Main
<1>4. QED
  BY <1>2, <1>3

LEMMA LifeTypesInit == LifecycleInit => LifecycleTypeOK
<1> SUFFICES ASSUME LifecycleInit PROVE LifecycleTypeOK
  OBVIOUS
<1>1. Len(program.boot) \in Nat
  BY ProgramsWellMade DEF LifecycleInit, WellMade, Ordered
<1>2. 0 \in 0..MaxInFlight
  BY LifecycleAssumption
<1>3. off \subseteq program.optional /\ program \in Programs
  BY Zenon DEF LifecycleInit
<1>4. at \in Nat \ {0} /\ at <= Len(program.boot) + 1
  BY <1>1 DEF LifecycleInit
<1>5. /\ stage = "boot" /\ running = {} /\ joinable = {} /\ asked = FALSE /\ drained = FALSE
      /\ inFlight = 0 /\ failure = "none"
  BY Zenon DEF LifecycleInit
<1>6. QED
  BY <1>2, <1>3, <1>4, <1>5 DEF LifecycleTypeOK, Stages

\* What MCRuntime checks of one part at a time are behaviours of the three
\* specifications that the theorems are about.
THEOREM RunsAreBehaviours == MCSpec => Safety /\ LifecycleSpec /\ PagesSpec
<1>1. MCInit => Init /\ LifecycleInit /\ PagesInit
  BY Zenon DEF MCInit, NoBatch, NoProgram, NoPages
<1>2. [Batch \/ Program \/ OnePage \/ Tags]_runtime => [Next]_vars
  BY Zenon DEF Batch, Program, OnePage, Tags, runtime
<1>3. [Batch \/ Program \/ OnePage \/ Tags]_runtime => [LifecycleNext]_lifecycleVars
  BY Zenon DEF Batch, Program, OnePage, Tags, runtime
<1>4. [Batch \/ Program \/ OnePage \/ Tags]_runtime => [PagesNext]_pageVars
  BY Zenon DEF Batch, Program, OnePage, Tags, runtime
<1>5. QED
  BY <1>1, <1>2, <1>3, <1>4, PTL DEF MCSpec, Safety, LifecycleSpec, PagesSpec

\* The consumer's and the programs' variables keep their types (batch.go,
\* cmd/*/main.go), in every behaviour of MCRuntime.
THEOREM RuntimeTypesHold == MCSpec => []RuntimeTypeOK
<1>1. LifecycleSpec => []LifecycleTypeOK
  BY LifeStarts, LifeInductive, LifeTypesInit, LifeTypesNext, PTL DEF LifecycleSpec
<1>2. IInv => TypeOK
  BY DEF IInv
<1>3. QED
  BY RunsAreBehaviours, Invariance, <1>1, <1>2, PTL DEF RuntimeTypeOK
=============================================================================
