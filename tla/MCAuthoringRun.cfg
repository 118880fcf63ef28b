SPECIFICATION FairAuthoring
CONSTANTS
  NRuns = 2
  Paths = {1}
  NAreas = 1
  NPhases = 1
  MaxCrashes = 1
  None = None
INVARIANTS
  AuthoringInv
  StatusIsEarned
PROPERTIES
  CancelIsObeyed
  RunsSettle
CHECK_DEADLOCK FALSE
