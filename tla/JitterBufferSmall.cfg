SPECIFICATION Spec
CONSTANTS
  Capacity = 2
  SEQ_MOD = 24
  SEQ_HI = 16
  LSEQ_MOD = 96
  TS_MOD = 4096
  TS_STEP = 8
  TS_BASE = 4000
  Copies = {1}
  Starts = {3}
  MinT = 0
  MaxT = 10
  Reorder = 4
  Jump = 4
  MaxNoise = 2
  FollowRewinds = TRUE
INVARIANTS NoAbort
