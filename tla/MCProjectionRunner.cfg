SPECIFICATION FairRunner
CONSTANTS
  Sessions = {s1, s2}
  Rebuilders = {r1}
  Followers = {f1, f2, f3}
  Nothing = Nothing
  MaxEvents = 3
  MaxLapses = 1
  MaxRebuilds = 2
  MaxFaults = 2
INVARIANT RunnerInv
INVARIANT DriftIsFiled
PROPERTY LogIsFollowed
CHECK_DEADLOCK FALSE
