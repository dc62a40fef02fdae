SPECIFICATION Spec
CONSTANTS
  Capacity = 3
  SEQ_MOD = 24
  SEQ_HI = 16
  LSEQ_MOD = 96
  TS_MOD = 4096
  TS_STEP = 8
  TS_BASE = 4000
  Copies = {1}
  Starts = {24}
  MinT = 22
  MaxT = 30
  Reorder = 2
  Jump = 2
  MaxNoise = 0
  FollowRewinds = TRUE
INVARIANTS NoAbort
