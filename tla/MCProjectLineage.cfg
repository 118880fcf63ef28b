SPECIFICATION Spec
CONSTANTS
  Sessions = {s1, s2, s3}
  Clients = {c1, c2}
  NoSession = NoSession
  MaxAppends = 2
  MaxVersion = 6
INVARIANTS
  InheritsUpToRecordedPoint
PROPERTIES
  TipOnlyAdvances
  SecuredWorkIsKept
  ImplementsLease
SYMMETRY Symmetry
CHECK_DEADLOCK FALSE
