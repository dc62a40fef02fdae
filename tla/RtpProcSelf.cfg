SPECIFICATION FairSpec
CONSTANTS
  Threads = {t1}
  Channels = {c1}
  NoChannel = NoChannel
  FirstCap = 1
  Periods = {1}
  CallbackOps = {"close"}
  AllocFails = FALSE
  Slow = FALSE
  MaxLate = 1
PROPERTY WorkerLoops
CHECK_DEADLOCK FALSE
