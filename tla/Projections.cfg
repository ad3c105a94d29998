SPECIFICATION MCSpec
CONSTANTS
  a1 = a1
  a2 = a2
  b1 = b1
  b2 = b2
  c1 = c1
  c2 = c2
  d1 = d1
  d2 = d2
  Titles = {d1, d2}
  Songs = {b1, b2}
  PlaylistReqs = {a1, a2}
  LastStamp = 6
  Indexers = {c1, c2}
  Millis <- MCMillis
  LikedItems <- MCItems
  LibraryReqs = {a1, a2}
  LastSave = 2
  MaxLibraryEvents = 3
  OtherSignals <- MCOtherSignals
  MaxGeneration = 3
  MaxUpdates = 3
  Tracks = {1, 2, 3}
  TrackInfo <- MCTrackInfo
  Albums = {21, 22}
  Performers = {11, 12}
  Genres = {31, 32}
  Interactions <- MCInteractions
  TopTracks = 2
  TopArtists = 1
SYMMETRY MCSymmetry
CHECK_DEADLOCK FALSE
INVARIANTS ProjectionsTypeOK PlaylistFollowed LibraryFollowed TasteFollows RankingSound
PROPERTIES RebuildSafe
