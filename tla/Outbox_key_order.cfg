SPECIFICATION Safety
CONSTANTS
  t1 = t1
  t2 = t2
  t3 = t3
  locked = locked
  free = free
  Txs <- MCTxs
  Relays = {r1, r2}
  Keys <- MCKeys
  LockedKeys <- MCLockedKeys
  KeyOf <- MCUnlockedKeyOf
  Batch = 2
  MaxIds = 3
  MaxFaults = 2
  None = None
INVARIANT PerKeyOrder
