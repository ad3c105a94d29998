SPECIFICATION Spec
CONSTANTS
  Members = {m1, m2}
  LogEnd = 2
  Poison = {2}
  MaxRetries = 1
  RestartOnStop = FALSE
  MaxFaults = 2
  None = None
PROPERTY EveryRecordSettled
CHECK_DEADLOCK FALSE
