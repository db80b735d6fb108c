SPECIFICATION Spec
CONSTANTS
  m1 = m1
  m2 = m2
  first = first
  retry = retry
  other = other
  f1 = f1
  f2 = f2
  r1 = r1
  r2 = r2
  o1 = o1
  o2 = o2
  ia = ia
  ib = ib
  None = None
  Managers = {m1, m2}
  Engines = {first, retry, other}
  Workers = {f1, f2, r1, r2, o1, o2}
  Ids = {ia, ib}
  Owner <- MCOwner
  EngineOf <- MCEngineOf
  Id <- MCId
SYMMETRY MCSymmetry
INVARIANTS NoDeadMemory
PROPERTIES HeldStays
CHECK_DEADLOCK FALSE
