SPECIFICATION FairSpec
CONSTANTS
  NTopics = 2
  ThrashLooks = 2
  MaxRounds = 2
  MaxTurns = 3
  QuietRounds = 2
  MaxFailures = 1
  OpenAtStart = 1
  MaxRuns = 2
  MaxChanges = 1
  MaxLapses = 1
INVARIANTS
  BudgetRespected
  StopsAreJust
  CancelIsPrompt
  ReasonsAreCurrent
PROPERTIES
  RunEnds
CHECK_DEADLOCK FALSE
