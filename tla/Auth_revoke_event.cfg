SPECIFICATION MCSpec
CONSTANTS
  alice = alice
  bob = bob
  Sessions = {s1}
  Users <- MCUsers
  UserOf <- MCUserOf
  Reqs = {q1, q2, q3}
  Checks = {c1}
  SessionTTL = 3
  AccessTTL = 2
  Leeway = 1
  MaxTime = 3
  MaxFaults = 1
  None = None
  Attempts = {a1}
  MaxFailures = 1
  MaxWindow = 0
  MaxRedisFaults = 0
  KeyCallers = {k1}
  KeyTTL = 2
  MinRefresh = 1
  FetchTimeout = 1
  LastKeyTime = 1
  MaxKeys = 1
  Tabs = {t1}
  WebCalls = {w1}
  NoCaller = NoCaller
  MaxExpiries = 0
  MaxLoads = 1
CHECK_DEADLOCK FALSE
INVARIANT RevokedEventOnce
