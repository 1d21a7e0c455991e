SPECIFICATION Spec
CONSTANTS
  db = db
  web = web
  Services = {db, web}
  Sizes <- TypedSizes
  MaxBatch = 2
  SessionLimit = 4
  ServiceLimit = 3
  ChannelCapacity = 1
  QueueCapacity = 1
  MaxTyped = 3
  MaxRuns = 1
  SizedServices = {web}
  Widths = {5, 12, 16}
  InitialWidth = 8
  Sidebar <- LayoutOfPanes
  CommandCapacity = 2
  MaxChanges = 3
  Retentions <- SomeRetentions
  Updates <- LogUpdates
  EventHistory = 2
  HealthHistory = 1
  MaxLogRuns = 2
  MaxUpdates = 3
  MaxBirths = 2
  QueueMax = 1
  FileMax = 3
  CacheMax = 1
  Attempts = 2
  Queries <- LogQueries
  Gaps = {0, 2}
  LiveScreens = {1, 2}
  MaxLogged = 4
CHECK_DEADLOCK FALSE
INVARIANTS
  InputAccounted InputInOrder RecordsFaithful SizesAgree VisibleFaithful ViewFresh
  ReadFaithful FollowedOnce AsWritten
