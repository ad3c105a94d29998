SPECIFICATION MCSpec
CONSTANTS
  Members = {m1, m2}
  LogEnd = 3
  Poison = {2}
  MaxRetries = 1
  RestartOnStop = TRUE
  MaxFaults = 3
  None = None
  MaxRecords = 2
  Skipped = {1}
  MaxInFlight = 1
  q1 = q1
  q2 = q2
  Requests = {q1, q2}
  Personals <- AllOrNone
  PageBudget = 2
  GenreCacheTTL = 1
  Fan = 2
  MaxGenreChanges = 1
  LastPageTime = 5
CHECK_DEADLOCK FALSE
INVARIANTS RuntimeTypeOK BatchCommitCovers OrderlyClose
PROPERTIES EveryRecordFlushed ProgramsStop PagesHonest
