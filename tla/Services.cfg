SPECIFICATION MCSpec
CONSTANTS
  Listeners = {1, 2}
  Artists = {3}
  SocialReqs = {q1, q2}
  LastInstant = 2
  MaxSocialEvents = 3
  PageLimit = 1
  CacheReaders = {r1}
  CacheTTL = 2
  RequestTimeout = 1
  MaxVersion = 2
  Accounts = {u1, u2, u3}
  ProfileCalls = {q1, q2}
  MaxUsernameAttempts = 2
  Usernames = {1, 2}
  Texts = {"x"}
  MaxProfileEvents = 3
  Plays <- MCPlays
  HistoryReports <- MCHistoryReports
  AnalyticsReports <- MCAnalyticsReports
  ListenSlack = 5
  MinListen = 30
  TrackArtists <- MCTrackArtists
  TrackCacheMax = 1
  Lookback = 0
  LastDay = 2
  MaxReports = 3
  MaxBlocks = 2
  RecUsers = {u1}
  RecTracks <- MCRecTracks
  Builders = {k1, k2}
  SetTTL = 2
  BuildTime = 1
SYMMETRY MCSymmetry
CHECK_DEADLOCK FALSE
INVARIANTS ServicesTypeOK GraphConsistent CacheHonest ListensExact RecommendationsCurrent
PROPERTIES ProfilesKept
