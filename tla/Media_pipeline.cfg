SPECIFICATION Spec
CONSTANTS
  u1 = u1
  u2 = u2
  Uploads <- MCUploads
  Content <- MCContent
  Digest <- MCDigest
  None = None
  Calls = {c1, c2}
  URLTTL = 0
  MaxTime = 0
  MaxIngestFaults = 0
  Workers = {w1}
  Qualities = 2
  JobRetries = 1
  MaxJobFaults = 1
  MaxRebalances = 0
  Replicas = {r1}
  EditStatuses = {"BLOCKED"}
  MaxEdits = 1
  MaxCatalogFaults = 1
CHECK_DEADLOCK FALSE
INVARIANTS ReadyHasAudio
PROPERTIES UploadsTakeEffect
