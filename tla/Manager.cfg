SPECIFICATION ManagerSpec
CONSTANTS
  s1 = s1
  s2 = s2
  k1 = k1
  k2 = k2
  None = None
  Starts = {s1, s2}
  Stops = {k1}
  MaxPolls = 1
  Unlaunchable = {}
  Forking = {}
  Complaining = {s1}
  AbandonedStarts = {s1}
  AbandonedStops = {k1}
  a = a
  Configs = {a}
  ConfigOf <- MCConfigOf
INVARIANTS LedgerIsTrue OneRunPerStart
CHECK_DEADLOCK FALSE
