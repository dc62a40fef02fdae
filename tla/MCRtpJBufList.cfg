SPECIFICATION PySpec
CONSTANTS
  Capacity = 3
  SEQ_MOD = 16
  SEQ_HI = 11
  LSEQ_MOD = 80
  TS_MOD = 4096
  TS_STEP = 8
  TS_BASE = 4000
  Copies <- MCCopies
  Starts = {3}
  MinT = 0
  MaxT = 6
  Reorder = 2
  Jump = 2
  MaxNoise = 2
  FollowRewinds = FALSE
  AllocFails = {"list"}
INVARIANTS RefsMatchBuffer
CHECK_DEADLOCK FALSE
