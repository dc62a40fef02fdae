SPECIFICATION FairSpec
CONSTANTS
  Threads = {t1}
  Channels = {c1}
  QueueSize = 2
  CallbackOps = {"send", "close", "set_target"}
  AllocFails = FALSE
  MaxSend = 3
  MaxIn = 1
INVARIANTS SentInOrder
PROPERTIES CallsReturn SendsLeave WorkerLoops
CHECK_DEADLOCK FALSE
