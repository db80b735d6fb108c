SPECIFICATION Spec
CONSTANTS
  m1 = m1
  m2 = m2
  m3 = m3
  e1 = e1
  e2 = e2
  None = None
  Managers = {m1, m2, m3}
  Engines = {e1, e2}
  Owner <- MCOwner
  MayRead <- MCMayRead
  MayKill <- MCMayKill
  PidOne = m3
  Subreaper = FALSE
INVARIANTS BootClears
PROPERTIES SupervisedIsSpared
CHECK_DEADLOCK FALSE
