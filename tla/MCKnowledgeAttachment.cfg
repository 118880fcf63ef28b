SPECIFICATION FairSpec
CONSTANTS
  Projects = {p1, p2}
  Callers = {b1, r1, k1}
  Nobody = Nobody
  MaxBuilds = 3
  MaxPools = 3
  Browsers = {b1}
  Runs = {r1}
  Closers = {k1}
  NoProject = NoProject
  MaxOps = 3
INVARIANTS
  AttachmentInv
  OneLiveStore
PROPERTIES
  OpensEnd
CHECK_DEADLOCK FALSE
