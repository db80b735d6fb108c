SPECIFICATION FairSpec
CONSTANTS
  Leader = Leader
  c1 = c1
  c2 = c2
  k1 = k1
  k2 = k2
  Children = {c1, c2}
  Stubborn = {Leader, c1}
  Stops = {k1, k2}
  Grace = 3
INVARIANTS LeaderGone
PROPERTIES StopReturns KilledLeaderLeavesNobody
CHECK_DEADLOCK FALSE
