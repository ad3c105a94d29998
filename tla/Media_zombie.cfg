SPECIFICATION MCSpec
CONSTANTS
  u1 = u1
  u2 = u2
  u3 = u3
  u4 = u4
  Uploads <- MCUploads
  Content <- MCContent
  Digest <- MCDigest
  None = None
  Calls = {c1}
  URLTTL = 0
  MaxTime = 0
  MaxIngestFaults = 0
  Workers = {w1, w2}
  Qualities = 2
  JobRetries = 1
  MaxJobFaults = 1
  MaxRebalances = 2
  Replicas = {r1}
  EditStatuses = {"DRAFT", "PROCESSING", "READY", "BLOCKED", "DELETED"}
  MaxEdits = 0
  MaxCatalogFaults = 2
  Masters <- MCMasters
  MasterKind <- MCMasterKind
  Deliveries = {w1}
  MaxFacts = 0
  Bitrates = {64}
  DefaultQuality = 64
  Streams = {s1}
  StatusTTL = 1
  StreamTimeout = 1
  Queue <- MCQueue
  MaxPlays = 1
  MaxRenewals = 0
  LastStreamTime = 1
CHECK_DEADLOCK FALSE
PROPERTY NeverOlder
