SPECIFICATION Spec
CONSTANTS
  Threads = {t1, t2}
  Channels = {c1, c2}
  QueueSize = 1
  CallbackOps = {"send", "close", "set_target"}
  AllocFails = TRUE
  MaxSend = 1
  MaxIn = 1
SYMMETRY Symmetry
INVARIANTS
  NoUseAfterFree
  NoLeak
  OpenIsHeld
  WaiterExclusive
  ReturnedMeansDone
  ClosedIsQuiet
CHECK_DEADLOCK FALSE
