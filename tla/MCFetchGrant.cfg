SPECIFICATION Spec
CONSTANTS
  NCalls = 3
  Budget = 1
  MaxBatch = 3
  MaxChanges = 2
  MaxRaises = 1
INVARIANTS
  UnattendedWithinBudget
  ChargesAreJust
  ClaimsAreLive
  ReplayAgrees
  DecisionsAreObeyed
