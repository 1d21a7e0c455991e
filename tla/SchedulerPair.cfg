SPECIFICATION Spec
CONSTANTS
  db = db
  web = web
  none = none
  Services <- Pair
  NoLimit = none
  MaxRuns <- DbTwice
  MaxBackoff = 1
  Configs <- PairConfigs
  Disabled = {}
  Probed = {db}
  MaxInbox = 1
CHECK_DEADLOCK FALSE
ACTION_CONSTRAINT Focus
INVARIANTS
  BlockedAccurate
  NoMissedStart
