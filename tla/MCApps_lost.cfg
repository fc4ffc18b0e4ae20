SPECIFICATION UploadsOnly
CONSTANTS
  Users = {u1, u2}
  IntMax = 4
  Calls = {c1, c2}
  TopupRefs = {r1, r2}
  TopupAmounts = {2}
  TransferKeys = {k1, k2}
  k1 = k1
  TransferAmounts = {1, 2}
  Sender = u1
  MaxEdits = 2
  Pages = {"home"}
  Films = {"f1", "f2"}
  MaxEpoch = 4
  MaxHistory = 2
  Viewers = {u1}
  Titles = {film}
  Window = 2
  MaxTime = 4
  Movies = {film}
  Views = {v1, v2}
  TvPlayers = {p1}
  WebPlayers = {p2}
  Purchases = {t1}
  MaxBeats = 2
  Uploads = {m1, m2}
  ObjectKeys = {o1, o2}
  Files <- MCFiles
  Types <- MCTypes
  MaxSize <- MCMaxSize
  Threshold = 2
  Bucket = TRUE
  Lanes = 2
  MaxAttempts = 2
  MaxRetries = 0
  MaxFaults = 0
  NoValue = NoValue
  Runs = {x1, x2}
  Outputs = {y1, y2}
  MaxStamp = 1
  Nothing = Nothing
  Builds = {b1, b2}
  Encoders = {e1, e2}
  Streamers = {s1, s2}
  Size <- MCSize
  Segments = {"s1", "s2"}
  FirstSegment = "s1"
  Capacity = 4
  ReadyTtl = 1
  PlayTtl = 3
  PrepareTtl = 1
  TicketEnds = {2}
  StreamEnd = 3
  MaxFingerprint = 2
  MaxCrashes = 1
  None = None
SYMMETRY Symmetry
INVARIANTS DoneIsAttached
CHECK_DEADLOCK FALSE
