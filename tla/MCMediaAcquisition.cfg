SPECIFICATION FairSpec
CONSTANTS
  Proposals = {p1}
  Digests = {d1, d2}
  TooLong = {d2}
  Sweepers = {s1}
  Editors = {e1}
  Nothing = Nothing
  MaxFaults = 1
INVARIANT RecordsHaveBytes
CHECK_DEADLOCK FALSE
PROPERTY AcceptedIsSettled
