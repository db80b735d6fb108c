SPECIFICATION FairApiSpec
CONSTANTS
  s1 = s1
  s2 = s2
  k1 = k1
  k2 = k2
  None = None
  Starts = {s1, s2}
  Stops = {k1, k2}
  MaxPolls = 1
  Unlaunchable = {}
  Forking = {}
  Complaining = {}
  AbandonedStarts = {s1, s2}
  AbandonedStops = {}
  a = a
  Configs = {a}
  ConfigOf <- MCConfigOf
  Shutdowns = {k2}
  Patient = TRUE
INVARIANTS StoppedIsGone NoOpenRun OutcomeIsOwn
PROPERTIES StopHasTheLastWord StopIsAnswered
CHECK_DEADLOCK FALSE
