SPECIFICATION Spec
CONSTANTS
  Threads = {t1, t2}
  Channels = {c1, c2}
  NoChannel = NoChannel
  FirstCap = 1
  Periods <- MCPeriods
  CallbackOps = {"close", "shutdown"}
  AllocFails = TRUE
  Slow = TRUE
  MaxLate = 1
SYMMETRY Symmetry
INVARIANTS
  ClosedIsQuiet
  NoWaiterLost
  ExceptionIsOwn
CHECK_DEADLOCK FALSE
