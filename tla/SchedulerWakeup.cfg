SPECIFICATION FairSpec
CONSTANTS
  db = db
  web = web
  none = none
  Services <- OneService
  NoLimit = none
  MaxRuns <- TwoEach
  MaxBackoff = 1
  Configs <- FairConfigs
  Disabled = {}
  Probed = {}
  MaxInbox = 0
CHECK_DEADLOCK FALSE
ACTION_CONSTRAINT QuickPass
PROPERTIES
  BackoffEnds
