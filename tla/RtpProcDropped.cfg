SPECIFICATION Spec
CONSTANTS
  Threads = {t1}
  Channels = {c1}
  NoChannel = NoChannel
  FirstCap = 1
  Periods = {1}
  CallbackOps = {}
  AllocFails = FALSE
  Slow = FALSE
  MaxLate = 1
INVARIANT ExceptionAlwaysRaised
CHECK_DEADLOCK FALSE
