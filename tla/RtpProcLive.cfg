SPECIFICATION FairSpec
CONSTANTS
  Threads = {t1, t2}
  Channels = {c1, c2}
  NoChannel = NoChannel
  FirstCap = 1
  Periods = {0, 1, 2}
  CallbackOps = {"close", "shutdown"}
  AllocFails = FALSE
  Slow = FALSE
  MaxLate = 1
PROPERTIES
  CallsReturn
  ScheduledRuns
  ShutdownEnds
CHECK_DEADLOCK FALSE
