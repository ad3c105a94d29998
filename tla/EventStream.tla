----------------------------- MODULE EventStream -----------------------------
(***************************************************************************)
(* What the services promise their consumers about the events they emit    *)
(* (libs/platform/outbox): an event is recorded if and only if its change  *)
(* committed, every recorded event reaches the stream at least once, the   *)
(* stream holds nothing else, and for the keys whose changes are           *)
(* serialised by a row lock the first deliveries follow the order of the   *)
(* changes.  Outbox implements this specification.                         *)
(***************************************************************************)
EXTENDS Naturals, Sequences, FiniteSets

CONSTANTS Keys,          \* partition keys (aggregate identifiers)
          OrderedKeys,   \* the keys whose changes are serialised
          Events         \* all possible events: records with .id and .key

VARIABLES recorded,      \* events of committed changes
          stream         \* what each key's partition received, in order

vars == <<recorded, stream>>

Delivered(k) == {stream[k][i] : i \in 1..Len(stream[k])}

Earlier(e, f) == e.key = f.key /\ e.id < f.id

Init == recorded = {} /\ stream = [k \in Keys |-> <<>>]

\* A change commits together with all its events.  On an ordered key none of
\* them is earlier than an event already delivered.
Record ==
  /\ recorded \subseteq recorded' /\ recorded' # recorded
  /\ \A e \in recorded' \ recorded : e.key \in OrderedKeys =>
        \A f \in Delivered(e.key) : ~ Earlier(e, f)
  /\ UNCHANGED stream

\* An event reaches the stream, possibly again.
Deliver(e) ==
  /\ e \in recorded
  /\ e.key \in OrderedKeys =>
        \A f \in recorded : Earlier(f, e) => f \in Delivered(e.key)
  /\ stream' = [stream EXCEPT ![e.key] = Append(@, e)]
  /\ UNCHANGED recorded

Next == Record \/ \E e \in Events : Deliver(e)

\* At least once: no recorded event is withheld for ever.
AtLeastOnce == \A e \in Events : e \in recorded ~> e \in Delivered(e.key)

Safety == Init /\ [][Next]_vars
Spec == Safety /\ AtLeastOnce
=============================================================================
