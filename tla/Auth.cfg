SPECIFICATION MCSpec
CONSTANTS
  alice = alice
  bob = bob
  Sessions = {s1}
  Users <- MCUsers
  UserOf <- MCUserOf
  Reqs = {q1, q2, q3, q4}
  Checks = {c1}
  SessionTTL = 2
  AccessTTL = 1
  Leeway = 1
  MaxTime = 2
  MaxFaults = 1
  None = None
  Attempts = {a1, a2, a3}
  MaxFailures = 2
  MaxWindow = 2
  MaxRedisFaults = 2
  KeyCallers = {k1, k2}
  KeyTTL = 3
  MinRefresh = 2
  FetchTimeout = 1
  LastKeyTime = 7
  MaxKeys = 2
  Tabs = {t1, t2}
  WebCalls = {w1, w2}
  NoCaller = NoCaller
  MaxExpiries = 1
  MaxLoads = 3
SYMMETRY MCSymmetry
CHECK_DEADLOCK FALSE
INVARIANTS AuthTypeOK ReuseIsCaught FailuresBounded SingleFlight
PROPERTIES RevocationHolds KeysFollow
