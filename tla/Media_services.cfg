SPECIFICATION MCSpec
CONSTANTS
  u1 = u1
  u2 = u2
  u3 = u3
  u4 = u4
  Uploads <- MCUploads
  Content <- MCContent
  Digest <- MCDigest
  None = None
  Calls = {c1, c2, c3}
  URLTTL = 0
  MaxTime = 1
  MaxIngestFaults = 1
  Workers = {w1, w2}
  Qualities = 2
  JobRetries = 1
  MaxJobFaults = 2
  MaxRebalances = 1
  Replicas = {r1, r2}
  EditStatuses = {"DRAFT", "PROCESSING", "READY", "BLOCKED", "DELETED"}
  MaxEdits = 2
  MaxCatalogFaults = 1
  Masters <- MCMasters
  MasterKind <- MCMasterKind
  Deliveries = {w1, w2}
  MaxFacts = 3
  Bitrates = {64, 128}
  DefaultQuality = 128
  Streams = {s1}
  StatusTTL = 2
  StreamTimeout = 1
  Queue <- MCQueue
  MaxPlays = 3
  MaxRenewals = 1
  LastStreamTime = 5
SYMMETRY MCSymmetry
CHECK_DEADLOCK FALSE
INVARIANTS TypeOK SettledOnce FactsExact GrantsCurrent PlayerObeys
PROPERTIES VariantsSound StaysUntilEdited
