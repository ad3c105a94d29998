SPECIFICATION Spec
CONSTANTS
  Members = {m1, m2}
  LogEnd = 3
  Poison = {2}
  MaxRetries = 1
  RestartOnStop = FALSE
  MaxFaults = 3
  None = None
CHECK_DEADLOCK FALSE
INVARIANTS TypeOK CommitCovers PoisonBlocks
PROPERTIES SettledUnlessAllGaveUp
