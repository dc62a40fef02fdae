SPECIFICATION FairSpec
CONSTANTS
  Threads = {t1, t2}
  Channels = {c1, c2}
  QueueSize = 1
  CallbackOps = {}
  AllocFails = FALSE
  MaxSend = 0
  MaxIn = 0
PROPERTIES CallsReturn
CHECK_DEADLOCK FALSE
