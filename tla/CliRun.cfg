SPECIFICATION FairCliSpec
CONSTANTS
  s1 = s1
  k1 = k1
  k2 = k2
  None = None
  Starts = {s1}
  Stops = {k1, k2}
  MaxPolls = 2
  Unlaunchable = {}
  Forking = {s1}
  Complaining = {}
  AbandonedStarts = {s1}
  AbandonedStops = {}
  a = a
  Configs = {a}
  ConfigOf <- MCConfigOf
  Shutdowns = {k2}
  Patient = TRUE
  TheStart = s1
  TheStop = k1
  TheShutdown = k2
INVARIANTS NothingLeftBehind ExitCodeIsTrue
PROPERTIES InterruptEndsIt
CHECK_DEADLOCK FALSE
