SPECIFICATION FairSpec
CONSTANTS
  Calls = {c1, c2}
  Unattended = {c2}
  Tabs = {t1, t2}
  Nothing = Nothing
  MaxDrops = 1
  MaxCrashes = 1
INVARIANT DeskInv
INVARIANT AnswersAreObeyed
PROPERTY WaitsAreBounded
CHECK_DEADLOCK FALSE
