SPECIFICATION FairSpec
CONSTANTS
  Turns = {t1, t2}
  Cancellers = {k1}
  NoTurn = NoTurn
  MaxAttempts = 2
  Beside = {"autonomy", "file"}
  MaxBeside = 1
INVARIANTS
  OneEntryPerTurn
  AnswersMatchTheLog
  NoInterleaving
PROPERTIES
  ImplementsLedger
  SlotComesFree
CHECK_DEADLOCK FALSE
