SPECIFICATION Spec
CONSTANTS
  t1 = t1
  t2 = t2
  t3 = t3
  locked = locked
  free = free
  Txs <- MCTxs
  Relays = {r1, r2}
  Keys <- MCKeys
  LockedKeys <- MCLockedKeys
  KeyOf <- MCKeyOf
  Batch = 2
  MaxIds = 3
  MaxFaults = 1
  None = None
INVARIANTS TypeOK KeyOrder
PROPERTIES ImplementsStream
