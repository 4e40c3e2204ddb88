SPECIFICATION Spec
CONSTANTS
  Threads = {w1, w2}
  Conns = {c1, c2}
  NoHandler = NoHandler
  MaxStarts = 2
  SpawnFails = TRUE
CHECK_DEADLOCK FALSE
INVARIANTS
  StaysReachable
PROPERTIES
  JoinedAfterStop
  StopReturns
