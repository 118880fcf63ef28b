SPECIFICATION FairDialogue
CONSTANTS
  NReplies = 2
  Attempts = {a1}
  Enders = {e1}
  MaxRestarts = 1
  MaxLapses = 1
  None = None
INVARIANTS
  DialogueInv
  PositionsAgree
  AttemptsAreObserved
PROPERTIES
  NextReplyIsLetIn
CHECK_DEADLOCK FALSE
