SPECIFICATION Spec
CONSTANTS
  s1 = s1
  s2 = s2
  s3 = s3
  p1 = p1
  p2 = p2
  a = a
  b = b
  NoLimit = NoLimit
  db = db
  cron = cron
  key = key
  none = none
  here = here
  inner = inner
  api = api
  Ids = {db, cron}
  Files <- Changing
  Specs <- Dependent
  Leases = {"bounded"}
  Keys = {}
  NoKey = none
  MaxServices = 1
  MaxRetired = 0
  Window = 1
  MaxRevision = 2
  MaxRuns = 1
  MaxBirths = 2
  LogMax = 2
  PageMax = 1
  MirrorTail = 1
  MaxWrites = 3
  MaxBreaks = 1
  Sessions = {s1, s2, s3}
  Probes = {c1}
  Paths = {p1, p2}
  Requests = {r1, r2, r3}
  Workers = {w1, w2}
  Capacity = 1
  Word = 8
  Callers = {a, b}
  ToolsOf <- SomeTools
  Conns = {1, 2, 3}
  Permits = 1
  MailboxMax = 1
  MaxRestarts = 1
  Starts = {a}
  Stops = {b}
  Processes = {s1, s2, s3}
  Pids = {11, 12}
  RuntimeDirs = {p1}
  RuntimeDir = p1
  ProjectSessions <- SomeSessions
  DirList <- TwoDirs
  Selectors <- SomeSelectors
  Above <- Ancestors
  NoConfig = none
  AwaitedPolicies <- SomePolicies
  MaxAwaited = 2
  MaxLines = 1
  MaxCommands = 1
CHECK_DEADLOCK FALSE
INVARIANT FollowReachesAll
