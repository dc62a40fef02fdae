SPECIFICATION Spec
CONSTANTS
  Threads = {t1}
  Channels = {c1}
  QueueSize = 1
  CallbackOps = {"close"}
  AllocFails = FALSE
  MaxSend = 2
  MaxIn = 1
INVARIANTS NoLeakEver
CHECK_DEADLOCK FALSE
