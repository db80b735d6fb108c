SPECIFICATION FairSpec
CONSTANTS
  s1 = s1
  s2 = s2
  k1 = k1
  k2 = k2
  None = None
  Starts = {s1, s2}
  Stops = {k1, k2}
  MaxPolls = 1
  Unlaunchable = {}
  Forking = {}
  Complaining = {}
  AbandonedStarts = {s1}
  AbandonedStops = {k1}
INVARIANTS FailureExplained
PROPERTIES CallsReturn
CHECK_DEADLOCK FALSE
