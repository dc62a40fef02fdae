SPECIFICATION Spec
CONSTANTS
  Threads = {t1}
  Channels = {c1, c2, c3}
  NoChannel = NoChannel
  FirstCap = 1
  Periods <- MCPeriods
  CallbackOps = {}
  AllocFails = FALSE
  Slow = TRUE
  MaxLate = 2
SYMMETRY Symmetry
INVARIANTS
  NoneForgotten
  ExceptionRaised
PROPERTY RunsInOrder
CHECK_DEADLOCK FALSE
