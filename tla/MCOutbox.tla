------------------------------ MODULE MCOutbox ------------------------------
(* Three transactions: two on the locked aggregate, one on an unlocked key. *)
EXTENDS Outbox

CONSTANTS t1, t2, t3, locked, free

MCTxs == {t1, t2, t3}
MCKeys == {locked, free}
MCLockedKeys == {locked}
MCKeyOf == [t \in MCTxs |-> IF t = t3 THEN free ELSE locked]
\* Two replicas of one service changing an aggregate no transaction locks.
MCUnlockedKeyOf == [t \in MCTxs |-> free]
=============================================================================
