SPECIFICATION FairRunningSpec
CONSTANTS
  Starts = {s1, s2}
  Stops = {s1, s2}
  MaxPolls = 2
  Unlaunchable = {}
  Forking = {s1, s2}
  Complaining = {s1, s2}
  AbandonedStarts = {}
  AbandonedStops = {}
  None = None
  s1 = s1
  s2 = s2
  Overlapping = FALSE
INVARIANTS NoStrayEngine GoneAfterwards ReadyIsWatched IdleIsFree
PROPERTIES ImplementsLifecycle VerdictFromOwnLog SilenceIsNoticed
CHECK_DEADLOCK FALSE
