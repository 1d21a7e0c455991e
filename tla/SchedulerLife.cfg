SPECIFICATION Spec
CONSTANTS
  db = db
  web = web
  none = none
  Services <- OneService
  NoLimit = none
  MaxRuns <- ThreeEach
  MaxBackoff = 2
  Configs <- LifeConfigs
  Disabled = {}
  Probed = {db}
  MaxInbox = 1
CHECK_DEADLOCK FALSE
ACTION_CONSTRAINT Reduction
INVARIANTS
  OneProcess
  RunAccounted
  ReadersAccounted
  StateMatchesRun
  ShutdownReaps
  BudgetRespected
PROPERTIES
  ImplementsSupervision
