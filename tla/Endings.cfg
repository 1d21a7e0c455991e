SPECIFICATION EndingsSpec
CONSTANTS
  db = db
  job = job
  none = none
  Ids = {db, job}
  Files <- OnlyNoFile
  Specs <- BothWays
  Leases = {"bounded"}
  Keys = {}
  NoKey = none
  MaxServices = 2
  MaxRetired = 0
  Window = 1
  MaxRevision = 2
  MaxRuns = 1
  MaxBirths = 1
CHECK_DEADLOCK FALSE
INVARIANT GraphSound
PROPERTIES LeaseEnds EndpointsReleased
