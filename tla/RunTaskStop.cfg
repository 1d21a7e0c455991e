SPECIFICATION FairSpec
CONSTANTS
  Platforms = {"unix", "other"}
  Retries = 2
  Capacity = 1
  MaxReports = 4
CHECK_DEADLOCK FALSE
INVARIANTS
  ExitIsLast
  KilledAnnounced
  ProbeOverAtExit
  VerdictEarned
PROPERTIES
  ExitReported
  StopCompletes
