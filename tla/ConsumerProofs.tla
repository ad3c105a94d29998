--------------------------- MODULE ConsumerProofs ---------------------------
(***************************************************************************)
(* Proofs about KafkaConsumer: the committed offset never covers a record  *)
(* that was neither handled nor dead-lettered, records are settled in log  *)
(* order, and without a DLQ nothing behind a poison record is settled; for *)
(* any number of members, records, retries and failures.                   *)
(***************************************************************************)
EXTENDS KafkaConsumer, TLAPS

Prefix(n) == 1..n \subseteq Settled

\* What a member knows about the log in each phase of Run.
MemberInv(m) ==
  /\ phase[m] \in {"down", "dead"} => owner # m
  /\ phase[m] = "polling" => ~ stopping[m] /\ (owner = m => Prefix(pos[m]))
  /\ phase[m] \in {"handling", "deadletter"} =>
       /\ ~ stopping[m]
       /\ first[m] <= cur[m] /\ cur[m] <= last[m]
       /\ Prefix(cur[m] - 1)
  /\ phase[m] = "committing" =>
       /\ first[m] <= cur[m] /\ cur[m] <= last[m] + 1
       /\ ~ stopping[m] => cur[m] = last[m] + 1
       /\ Prefix(cur[m] - 1)
  /\ phase[m] \in {"handling", "deadletter", "committing"} /\ owner = m =>
       pos[m] <= last[m] \/ Prefix(pos[m])
  /\ phase[m] \notin {"collecting", "flushing"}
  /\ phase[m] = "deadletter" => DLQ

IInv ==
  /\ TypeOK
  /\ CommitCovers
  /\ SettledInOrder
  /\ handled \cap Poison = {}
  /\ ~ DLQ => dlq = {}
  /\ \A m \in Members : MemberInv(m)

-----------------------------------------------------------------------------
\* Setting one flag of a family of flags gives a family of flags.
LEMMA SetFlag ==
  ASSUME NEW S, NEW f \in [S -> BOOLEAN], NEW x \in S, NEW b \in BOOLEAN
  PROVE  [f EXCEPT ![x] = b] \in [S -> BOOLEAN]
OBVIOUS

\* The initial state satisfies the inductive invariant.
LEMMA InitIInv == Init => IInv
BY GroupAssumption DEF Init, GroupInit, IInv, TypeOK, GroupTypeOK, Running, CommitCovers,
   SettledInOrder, Settled, MemberInv, Prefix, Offsets

\* Settling more records keeps every prefix that was settled.
LEMMA PrefixGrows ==
  ASSUME Settled \subseteq Settled'
  PROVE  \A n : Prefix(n) => Prefix(n)'
BY DEF Prefix

\* Settling the record at hand (HandleOk, ToDLQ, or an error after the effect
\* was stored) keeps the log settled in order.
LEMMA SettleCur ==
  ASSUME IInv, UNCHANGED DLQ, NEW m \in Members, phase[m] \in {"handling", "deadletter"},
         Settled' = Settled \/ Settled' = Settled \cup {cur[m]}
  PROVE  /\ Settled \subseteq Settled'
         /\ SettledInOrder'
         /\ cur[m] \in Offsets /\ cur[m] \in 1..LogEnd
         /\ Settled' = Settled \cup {cur[m]} => 1..cur[m] \subseteq Settled'
<1>1. Prefix(cur[m] - 1) /\ cur[m] <= last[m] /\ cur[m] \in 1..(LogEnd + 1) /\ last[m] \in 0..LogEnd
  BY DEF IInv, MemberInv, TypeOK
<1>2. LogEnd \in Nat
  BY GroupAssumption
<1>3. cur[m] \in 1..LogEnd
  BY <1>1, <1>2
<1>4. Settled \subseteq Settled'
  OBVIOUS
<1>5. 1..cur[m] = 1..(cur[m] - 1) \cup {cur[m]}
  BY <1>3
<1>6. Settled' = Settled \cup {cur[m]} => 1..cur[m] \subseteq Settled'
  BY <1>1, <1>5 DEF Prefix
<1>7. SettledInOrder'
  BY <1>4, <1>6 DEF IInv, SettledInOrder, Prefix
<1>8. QED
  BY <1>3, <1>4, <1>6, <1>7 DEF Offsets

\* A step in which member m settles at most the record it is at and changes
\* only its own progress leaves the knowledge of the other members intact.
LEMMA OthersKeep ==
  ASSUME IInv, UNCHANGED DLQ, NEW m \in Members, Settled \subseteq Settled',
         \A q \in Members \ {m} :
           /\ phase'[q] = phase[q] /\ pos'[q] = pos[q] /\ first'[q] = first[q]
           /\ last'[q] = last[q] /\ cur'[q] = cur[q] /\ stopping'[q] = stopping[q],
         \A q \in Members \ {m} : owner' = q => owner = q
  PROVE  \A q \in Members \ {m} : MemberInv(q)'
<1> SUFFICES ASSUME NEW q \in Members \ {m} PROVE MemberInv(q)'
  OBVIOUS
<1>1. MemberInv(q)
  BY DEF IInv
<1>2. \A n : Prefix(n) => Prefix(n)'
  BY PrefixGrows
<1>3. QED
  BY <1>1, <1>2 DEF MemberInv

\* Handing the partition out, taking it away, crashing, cancelling and
\* restarting settle nothing and commit nothing.
LEMMA GroupIInv ==
  ASSUME IInv, UNCHANGED DLQ, NEW m \in Members,
         Environment(m) \/ (Disturb(m) /\ UNCHANGED runVars)
  PROVE  IInv'
<1> USE DEF IInv
<1>0. UNCHANGED <<committed, handled, dlq>>
  BY DEF Environment, Disturb, GroupStep, RestartRun, Restart, Assign, PollCancelled,
         Revoke, Crash, Cancel
<1>1. Settled' = Settled /\ \A n : Prefix(n)' = Prefix(n)
  BY <1>0 DEF Settled, Prefix
<1>2. CommitCovers' /\ SettledInOrder' /\ (handled \cap Poison = {})' /\ (~ DLQ => dlq = {})'
  BY <1>0, <1>1 DEF CommitCovers, SettledInOrder
<1>3. TypeOK'
  <2> USE DEF TypeOK, GroupTypeOK, Running, runVars
  <2>1. CASE Assign(m) /\ UNCHANGED runVars
    BY <2>1 DEF Assign
  <2>2. CASE Revoke(m) /\ UNCHANGED runVars
    BY <2>2, GroupAssumption DEF Revoke, Fault
  <2>6. CASE Cancel(m) /\ UNCHANGED runVars
    <3>1. cancelled' \in [Members -> BOOLEAN]
      BY <2>6, SetFlag DEF Cancel
    <3>2. QED
      BY <2>6, <3>1, GroupAssumption DEF Cancel, Fault
  <2>3. CASE (PollCancelled(m) \/ Crash(m)) /\ UNCHANGED runVars
    BY <2>3, GroupAssumption DEF PollCancelled, Crash, Leave, ReleaseOwner, Fault
  <2>4. CASE RestartRun(m)
    BY <2>4, GroupAssumption DEF RestartRun, Restart
  <2>5. QED
    BY <2>1, <2>2, <2>3, <2>4, <2>6 DEF Environment, Disturb, GroupStep
<1>4. CASE Assign(m) /\ UNCHANGED runVars
  <2>1. Prefix(committed)
    BY DEF CommitCovers, Prefix
  <2>2. MemberInv(m)'
    BY <1>1, <1>4, <2>1 DEF Assign, runVars, MemberInv, TypeOK, GroupTypeOK, Running
  <2>3. \A q \in Members \ {m} : MemberInv(q)'
    BY <1>1, <1>4, OthersKeep, GroupAssumption DEF Assign, runVars, TypeOK, GroupTypeOK
  <2>4. QED
    BY <1>2, <1>3, <2>2, <2>3
<1>5. CASE (PollCancelled(m) \/ Revoke(m) \/ Crash(m) \/ Cancel(m)) /\ UNCHANGED runVars
  <2>1. MemberInv(m)'
    BY <1>1, <1>5, GroupAssumption DEF PollCancelled, Revoke, Crash, Cancel, Leave, ReleaseOwner,
       runVars, MemberInv, TypeOK, GroupTypeOK, Running
  <2>2. \A q \in Members \ {m} : MemberInv(q)'
    <3>1. \A q \in Members \ {m} :
           /\ phase'[q] = phase[q] /\ pos'[q] = pos[q] /\ first'[q] = first[q]
           /\ last'[q] = last[q] /\ cur'[q] = cur[q] /\ stopping'[q] = stopping[q]
           /\ owner' = q => owner = q
      BY <1>5, GroupAssumption DEF PollCancelled, Revoke, Crash, Cancel, Leave, ReleaseOwner,
         runVars, TypeOK, GroupTypeOK
    <3>2. QED
      BY <1>1, <3>1, OthersKeep
  <2>3. QED
    BY <1>2, <1>3, <2>1, <2>2
<1>6. CASE RestartRun(m)
  <2>1. MemberInv(m)'
    BY <1>1, <1>6 DEF RestartRun, Restart, MemberInv, TypeOK, GroupTypeOK
  <2>2. \A q \in Members \ {m} : MemberInv(q)'
    <3>1. \A q \in Members \ {m} :
           /\ phase'[q] = phase[q] /\ pos'[q] = pos[q] /\ first'[q] = first[q]
           /\ last'[q] = last[q] /\ cur'[q] = cur[q] /\ stopping'[q] = stopping[q]
           /\ owner' = q => owner = q
      BY <1>6 DEF RestartRun, Restart, TypeOK, GroupTypeOK
    <3>2. QED
      BY <1>1, <3>1, OthersKeep
  <2>3. QED
    BY <1>2, <1>3, <2>1, <2>2
<1>7. QED
  BY <1>4, <1>5, <1>6 DEF Environment, Disturb, GroupStep

\* PollFetches starts at the client's position, below which all is settled.
LEMMA PollIInv ==
  ASSUME IInv, UNCHANGED DLQ, NEW m \in Members, Poll(m)
  PROVE  IInv'
<1> USE DEF IInv
<1>0. UNCHANGED <<committed, handled, dlq, owner, stopping, faults, cancelled>>
  BY DEF Poll
<1>1. Settled' = Settled /\ \A n : Prefix(n)' = Prefix(n)
  BY <1>0 DEF Settled, Prefix
<1>2. CommitCovers' /\ SettledInOrder' /\ (handled \cap Poison = {})' /\ (~ DLQ => dlq = {})'
  BY <1>0, <1>1 DEF CommitCovers, SettledInOrder
<1>3. PICK n \in (pos[m] + 1)..LogEnd :
        last' = [last EXCEPT ![m] = n] /\ pos' = [pos EXCEPT ![m] = n]
  BY DEF Poll
<1>4. TypeOK'
  BY <1>0, <1>3, GroupAssumption DEF Poll, TypeOK, GroupTypeOK, Running
<1>5. MemberInv(m)'
  <2>1. pos[m] \in 0..LogEnd /\ pos[m] + 1 - 1 = pos[m] /\ Prefix(pos[m]) /\ ~ stopping[m]
    BY DEF Poll, MemberInv, TypeOK, GroupTypeOK
  <2>2. QED
    BY <1>0, <1>1, <1>3, <2>1, GroupAssumption DEF Poll, MemberInv, TypeOK, GroupTypeOK
<1>6. \A q \in Members \ {m} : MemberInv(q)'
  <2>1. \A q \in Members \ {m} :
           /\ phase'[q] = phase[q] /\ pos'[q] = pos[q] /\ first'[q] = first[q]
           /\ last'[q] = last[q] /\ cur'[q] = cur[q] /\ stopping'[q] = stopping[q]
           /\ owner' = q => owner = q
    BY <1>0, <1>3 DEF Poll, TypeOK, GroupTypeOK
  <2>2. QED
    BY <1>1, <2>1, OthersKeep
<1>7. QED
  BY <1>2, <1>4, <1>5, <1>6

\* Working through a fetch, record by record, and dead-lettering settle only
\* the record at hand: they preserve the invariant.
LEMMA WorkIInv ==
  ASSUME IInv, UNCHANGED DLQ, NEW m \in Members,
         \/ HandleOk(m) \/ HandleError(m) \/ HandlePermanent(m) \/ CancelledInBackoff(m)
         \/ ToDLQ(m) \/ ToDLQFails(m)
  PROVE  IInv'
<1> USE DEF IInv
<1>1. /\ UNCHANGED <<owner, committed, pos, cancelled, first, last>>
      /\ phase[m] \in {"handling", "deadletter"}
  BY DEF HandleOk, HandleError, HandlePermanent, CancelledInBackoff, ToDLQ, ToDLQFails
<1>2. /\ handled' \in {handled, handled \cup {cur[m]}}
      /\ handled' # handled => cur[m] \notin Poison
      /\ dlq' \in {dlq, dlq \cup {cur[m]}}
      /\ dlq' # dlq => phase[m] = "deadletter"
  BY DEF HandleOk, HandleError, HandlePermanent, CancelledInBackoff, ToDLQ, ToDLQFails
<1>3. Settled' = Settled \/ Settled' = Settled \cup {cur[m]}
  BY <1>2 DEF Settled
<1>4. /\ Settled \subseteq Settled' /\ SettledInOrder' /\ cur[m] \in Offsets
      /\ Settled' = Settled \cup {cur[m]} => 1..cur[m] \subseteq Settled'
  BY <1>1, <1>3, SettleCur
<1>5. CommitCovers'
  BY <1>1, <1>4 DEF CommitCovers
<1>6. (handled \cap Poison = {})'
  BY <1>2
<1>7. (~ DLQ => dlq = {})'
  BY <1>1, <1>2 DEF MemberInv
<1>8. faults' \in 0..MaxFaults
  BY GroupAssumption DEF HandleOk, HandleError, HandlePermanent, CancelledInBackoff, ToDLQ,
     ToDLQFails, CallFails, Fault, NoFault, TypeOK, GroupTypeOK
<1>9. first[m] <= cur[m] /\ cur[m] <= last[m] /\ Prefix(cur[m] - 1) /\ ~ stopping[m]
      /\ first[m] \in 1..(LogEnd + 1) /\ last[m] \in 0..LogEnd /\ cur[m] \in 1..(LogEnd + 1)
      /\ LogEnd \in Nat /\ attempt[m] \in 0..MaxRetries /\ MaxRetries \in Nat
  BY <1>1, GroupAssumption DEF MemberInv, TypeOK, GroupTypeOK
\* The three ways on: the next record, the same record, or the end of Run.
<1>10. CASE Advance(m) /\ Settled' = Settled \cup {cur[m]}
  <2>1. /\ cur' = [cur EXCEPT ![m] = @ + 1] /\ attempt' = [attempt EXCEPT ![m] = 0]
        /\ phase' = [phase EXCEPT ![m] = IF cur[m] = last[m] THEN "committing" ELSE "handling"]
        /\ UNCHANGED stopping
    BY <1>10 DEF Advance
  <2>2. TypeOK'
    BY <1>1, <1>2, <1>4, <1>8, <1>9, <2>1 DEF TypeOK, GroupTypeOK, Running
  <2>3. cur'[m] = cur[m] + 1 /\ 1..(cur'[m] - 1) \subseteq Settled'
    <3>1. cur'[m] = cur[m] + 1 /\ cur'[m] - 1 = cur[m]
      BY <1>9, <2>1 DEF TypeOK
    <3>2. QED
      BY <1>4, <1>10, <3>1
  <2>4. MemberInv(m)'
    <3>1. /\ phase'[m] = IF cur[m] = last[m] THEN "committing" ELSE "handling"
          /\ ~ stopping'[m]
      BY <1>9, <2>1 DEF TypeOK, GroupTypeOK
    <3>2. owner = m => pos[m] <= last[m] \/ Prefix(pos[m])
      BY <1>1 DEF MemberInv
    <3>3. owner' = m => pos'[m] <= last'[m] \/ 1..pos'[m] \subseteq Settled'
      BY <1>1, <1>4, <3>2 DEF Prefix
    <3>4. cur'[m] <= last'[m] + 1 /\ first'[m] <= cur'[m]
          /\ (cur[m] # last[m] => cur'[m] <= last'[m])
          /\ (cur[m] = last[m] => cur'[m] = last'[m] + 1)
      BY <1>1, <1>9, <2>3
    <3>5. QED
      BY <2>3, <3>1, <3>3, <3>4 DEF MemberInv, Prefix
  <2>5. \A q \in Members \ {m} : MemberInv(q)'
    <3>1. \A q \in Members \ {m} :
             /\ phase'[q] = phase[q] /\ pos'[q] = pos[q] /\ first'[q] = first[q]
             /\ last'[q] = last[q] /\ cur'[q] = cur[q] /\ stopping'[q] = stopping[q]
             /\ owner' = q => owner = q
      BY <1>1, <2>1 DEF TypeOK, GroupTypeOK
    <3>2. QED
      BY <1>4, <3>1, OthersKeep
  <2>6. QED
    BY <1>4, <1>5, <1>6, <1>7, <2>2, <2>4, <2>5
<1>11. CASE UNCHANGED <<cur, stopping>> /\ attempt'[m] \in 0..MaxRetries
            /\ attempt' = [attempt EXCEPT ![m] = attempt'[m]]
            /\ \/ UNCHANGED phase
               \/ DLQ /\ phase' = [phase EXCEPT ![m] = "deadletter"]
  <2>1. TypeOK'
    <3>1. attempt' \in [Members -> 0..MaxRetries]
      BY <1>11 DEF TypeOK, GroupTypeOK
    <3>2. QED
      BY <1>1, <1>2, <1>4, <1>8, <1>11, <3>1 DEF TypeOK, GroupTypeOK, Running
  <2>2. MemberInv(m)'
    BY <1>1, <1>4, <1>9, <1>11 DEF MemberInv, Prefix, TypeOK, GroupTypeOK
  <2>3. \A q \in Members \ {m} : MemberInv(q)'
    <3>1. \A q \in Members \ {m} :
             /\ phase'[q] = phase[q] /\ pos'[q] = pos[q] /\ first'[q] = first[q]
             /\ last'[q] = last[q] /\ cur'[q] = cur[q] /\ stopping'[q] = stopping[q]
             /\ owner' = q => owner = q
      BY <1>1, <1>11 DEF TypeOK, GroupTypeOK
    <3>2. QED
      BY <1>4, <3>1, OthersKeep
  <2>4. QED
    BY <1>4, <1>5, <1>6, <1>7, <2>1, <2>2, <2>3
<1>12. CASE Stop(m)
  <2>1. /\ stopping' = [stopping EXCEPT ![m] = TRUE] /\ UNCHANGED <<cur, attempt>>
        /\ phase' = [phase EXCEPT ![m] = "committing"]
    BY <1>12 DEF Stop
  <2>2. TypeOK'
    <3>1. stopping' \in [Members -> BOOLEAN]
      BY <2>1, SetFlag DEF TypeOK
    <3>2. QED
      BY <1>1, <1>2, <1>4, <1>8, <2>1, <3>1 DEF TypeOK, GroupTypeOK, Running
  <2>3. MemberInv(m)'
    <3>1. phase'[m] = "committing" /\ stopping'[m] = TRUE /\ cur'[m] = cur[m]
      BY <2>1 DEF TypeOK, GroupTypeOK
    <3>2. 1..(cur[m] - 1) \subseteq Settled'
      BY <1>4, <1>9 DEF Prefix
    <3>3. owner' = m => pos'[m] <= last'[m] \/ 1..pos'[m] \subseteq Settled'
      BY <1>1, <1>4 DEF MemberInv, Prefix
    <3>4. cur[m] <= last[m] + 1
      BY <1>9
    <3>5. QED
      BY <1>1, <1>9, <3>1, <3>2, <3>3, <3>4 DEF MemberInv, Prefix
  <2>4. \A q \in Members \ {m} : MemberInv(q)'
    <3>1. \A q \in Members \ {m} :
             /\ phase'[q] = phase[q] /\ pos'[q] = pos[q] /\ first'[q] = first[q]
             /\ last'[q] = last[q] /\ cur'[q] = cur[q] /\ stopping'[q] = stopping[q]
             /\ owner' = q => owner = q
      BY <1>1, <2>1 DEF TypeOK, GroupTypeOK
    <3>2. QED
      BY <1>4, <3>1, OthersKeep
  <2>5. QED
    BY <1>4, <1>5, <1>6, <1>7, <2>2, <2>3, <2>4
<1>13. QED
  <2>1. CASE HandleOk(m)
    BY <1>10, <2>1 DEF HandleOk, Settled
  <2>2. CASE ToDLQ(m)
    BY <1>10, <2>2 DEF ToDLQ, Settled
  <2>3. CASE CancelledInBackoff(m) \/ ToDLQFails(m)
    BY <1>12, <2>3 DEF CancelledInBackoff, ToDLQFails
  <2>4. CASE GiveUp(m)
    BY <1>9, <1>11, <1>12, <2>4 DEF GiveUp, TypeOK, GroupTypeOK
  <2>5. CASE HandlePermanent(m)
    BY <2>4, <2>5 DEF HandlePermanent
  <2>6. CASE HandleError(m) /\ attempt[m] < MaxRetries
             /\ attempt' = [attempt EXCEPT ![m] = @ + 1] /\ UNCHANGED <<phase, cur, stopping>>
    <3>1. attempt'[m] = attempt[m] + 1
      BY <2>6 DEF TypeOK, GroupTypeOK
    <3>2. attempt'[m] \in 0..MaxRetries
      BY <1>9, <2>6, <3>1
    <3>3. QED
      BY <1>11, <2>6, <3>1, <3>2
  <2>7. QED
    BY <2>1, <2>2, <2>3, <2>4, <2>5, <2>6 DEF HandleError

\* CommitRecords covers settled records only, whoever owns the partition now.
LEMMA CommitIInv ==
  ASSUME IInv, UNCHANGED DLQ, NEW m \in Members, CommitProcessed(m)
  PROVE  IInv'
<1> USE DEF IInv
<1>1. /\ phase[m] = "committing"
      /\ UNCHANGED <<pos, attempt, cancelled, handled, dlq, first, last, cur, stopping>>
  BY DEF CommitProcessed, runVars
<1>2. Settled' = Settled /\ \A n : Prefix(n)' = Prefix(n)
  BY <1>1 DEF Settled, Prefix
<1>3. /\ Prefix(cur[m] - 1) /\ first[m] <= cur[m] /\ cur[m] <= last[m] + 1
      /\ (~ stopping[m] => cur[m] = last[m] + 1)
      /\ first[m] \in 1..(LogEnd + 1) /\ cur[m] \in 1..(LogEnd + 1) /\ LogEnd \in Nat
      /\ last[m] \in 0..LogEnd /\ pos[m] \in 0..LogEnd
  BY <1>1, GroupAssumption DEF MemberInv, TypeOK, GroupTypeOK
<1>4. committed' \in {committed, cur[m] - 1} /\ faults' \in 0..MaxFaults
  BY GroupAssumption DEF CommitProcessed, CommitOffset, Fault, NoFault, TypeOK, GroupTypeOK
<1>5. CommitCovers' /\ SettledInOrder'
  BY <1>2, <1>3, <1>4 DEF CommitCovers, SettledInOrder, Prefix
<1>6. committed' \in 0..LogEnd
  BY <1>3, <1>4 DEF TypeOK, GroupTypeOK
<1>7. CASE stopping[m] /\ Leave(m)
  <2>1. TypeOK'
    BY <1>1, <1>4, <1>6, <1>7 DEF Leave, ReleaseOwner, TypeOK, GroupTypeOK, Running
  <2>2. MemberInv(m)'
    BY <1>1, <1>7, GroupAssumption DEF Leave, ReleaseOwner, MemberInv, TypeOK, GroupTypeOK
  <2>3. \A q \in Members \ {m} : MemberInv(q)'
    <3>1. \A q \in Members \ {m} :
             /\ phase'[q] = phase[q] /\ pos'[q] = pos[q] /\ first'[q] = first[q]
             /\ last'[q] = last[q] /\ cur'[q] = cur[q] /\ stopping'[q] = stopping[q]
             /\ owner' = q => owner = q
      BY <1>1, <1>7, GroupAssumption DEF Leave, ReleaseOwner, TypeOK, GroupTypeOK
    <3>2. QED
      BY <1>2, <3>1, OthersKeep
  <2>4. QED
    BY <1>1, <1>5, <2>1, <2>2, <2>3
<1>8. CASE ~ stopping[m] /\ phase' = [phase EXCEPT ![m] = "polling"] /\ UNCHANGED owner
  <2>1. TypeOK'
    BY <1>1, <1>4, <1>6, <1>8 DEF TypeOK, GroupTypeOK, Running
  <2>2. owner = m => Prefix(pos[m])
    <3>1. cur[m] - 1 = last[m]
      BY <1>3, <1>8
    <3>2. owner = m => pos[m] <= last[m] \/ Prefix(pos[m])
      BY <1>1 DEF MemberInv
    <3>3. pos[m] <= last[m] => 1..pos[m] \subseteq 1..last[m]
      BY <1>3
    <3>4. QED
      BY <1>3, <3>1, <3>2, <3>3 DEF Prefix
  <2>3. MemberInv(m)'
    BY <1>1, <1>2, <1>8, <2>2 DEF MemberInv, TypeOK, GroupTypeOK
  <2>4. \A q \in Members \ {m} : MemberInv(q)'
    <3>1. \A q \in Members \ {m} :
             /\ phase'[q] = phase[q] /\ pos'[q] = pos[q] /\ first'[q] = first[q]
             /\ last'[q] = last[q] /\ cur'[q] = cur[q] /\ stopping'[q] = stopping[q]
             /\ owner' = q => owner = q
      BY <1>1, <1>8 DEF TypeOK, GroupTypeOK
    <3>2. QED
      BY <1>2, <3>1, OthersKeep
  <2>5. QED
    BY <1>1, <1>5, <2>1, <2>3, <2>4
<1>9. QED
  BY <1>7, <1>8 DEF CommitProcessed

\* Every step of the group preserves the inductive invariant.
LEMMA NextIInv == IInv /\ [Next]_vars => IInv'
<1> SUFFICES ASSUME IInv, [Next]_vars PROVE IInv'
  OBVIOUS
<1>1. CASE UNCHANGED vars
  BY <1>1 DEF vars, steps, groupVars, runVars, IInv, TypeOK, GroupTypeOK, CommitCovers, SettledInOrder,
              Settled, MemberInv, Prefix
<1>2. ASSUME UNCHANGED DLQ, NEW m \in Members,
             \/ RunStep(m) \/ HandleError(m) \/ ToDLQFails(m)
             \/ Environment(m)
             \/ Disturb(m) /\ UNCHANGED runVars
      PROVE  IInv'
  BY <1>2, PollIInv, WorkIInv, CommitIInv, GroupIInv DEF RunStep
<1>3. QED
  BY <1>1, <1>2 DEF Next

\* The inductive invariant holds throughout.
THEOREM Invariance == Safety => []IInv
BY InitIInv, NextIInv, PTL DEF Safety

\* Every reachable state of the consumer group is well typed.
THEOREM TypeCorrect == Safety => []TypeOK
<1>1. IInv => TypeOK BY DEF IInv
<1>2. QED BY <1>1, Invariance, PTL

\* At least once: an offset is committed only over settled records.
THEOREM AtLeastOnce == Safety => []CommitCovers
<1>1. IInv => CommitCovers BY DEF IInv
<1>2. QED BY <1>1, Invariance, PTL

\* No record is skipped by any member of the group.
THEOREM InLogOrder == Safety => []SettledInOrder
<1>1. IInv => SettledInOrder BY DEF IInv
<1>2. QED BY <1>1, Invariance, PTL

\* Without a DLQ a poison record holds back everything behind it.
THEOREM PoisonHoldsBack == Safety => []PoisonBlocks
<1>1. IInv => PoisonBlocks
  <2> SUFFICES ASSUME IInv, ~ DLQ, NEW o \in Settled, NEW p \in Poison PROVE o < p
    BY DEF PoisonBlocks
  <2>1. p \notin Settled /\ 1..o \subseteq Settled
    BY DEF IInv, Settled, SettledInOrder
  <2>2. p \in 1..LogEnd /\ LogEnd \in Nat
    BY GroupAssumption
  <2>3. o \in 1..LogEnd
    BY DEF IInv, TypeOK, GroupTypeOK, Settled, Offsets
  <2>4. QED
    BY <2>1, <2>2, <2>3
<1>2. QED BY <1>1, Invariance, PTL
=============================================================================
