SPECIFICATION Spec
CONSTANTS
  Threads = {t1}
  Channels = {c1}
  QueueSize = 1
  CallbackOps = {}
  AllocFails = FALSE
  MaxSend = 2
  MaxIn = 1
INVARIANTS ShutdownStopsWorker
CHECK_DEADLOCK FALSE
