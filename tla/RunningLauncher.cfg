SPECIFICATION RunningSpec
CONSTANTS
  Starts = {s1, s2}
  Stops = {s1, s2}
  MaxPolls = 2
  Unlaunchable = {s1}
  Forking = {s1, s2}
  Complaining = {s1, s2}
  AbandonedStarts = {}
  AbandonedStops = {}
  None = None
  s1 = s1
  s2 = s2
  Overlapping = FALSE
INVARIANTS IdleIsFree

CHECK_DEADLOCK FALSE
