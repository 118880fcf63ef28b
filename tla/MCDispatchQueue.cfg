SPECIFICATION FairSpec
CONSTANTS
  NPresses = 2
  MaxCancels = 2
  Others = {o1}
  Nobody = Nobody
INVARIANTS
  HeldOnlyByTheLiving
PROPERTIES
  AttendedPressIsServed
CHECK_DEADLOCK FALSE
