SPECIFICATION Spec
CONSTANTS
  Threads = {t1, t2}
  Channels = {c1}
  NoChannel = NoChannel
  FirstCap = 1
  Periods = {1}
  CallbackOps = {}
  AllocFails = FALSE
  Slow = FALSE
  MaxLate = 1
INVARIANT ShutdownStopsWorker
CHECK_DEADLOCK FALSE
