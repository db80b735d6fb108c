SPECIFICATION Spec
CONSTANTS
  p1 = p1
  p2 = p2
  p3 = p3
  p4 = p4
  p5 = p5
  c1 = c1
  None = None
  Publishers = {p1, p2, p3, p4, p5}
  Threads = {p1, p2}
  Clients = {c1}
  QUEUE_DEPTH = 2
INVARIANTS Bounded EveryLossRecorded NewestKept
PROPERTIES ImplementsStreams
CHECK_DEADLOCK FALSE
