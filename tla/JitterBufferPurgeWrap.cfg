SPECIFICATION Spec
CONSTANTS
  Capacity = 3
  SEQ_MOD = 24
  SEQ_HI = 16
  LSEQ_MOD = 96
  TS_MOD = 4096
  TS_STEP = 8
  TS_BASE = 4000
  Copies = {1}
  Starts = {14}
  MinT = 0
  MaxT = 34
  Reorder = 3
  Jump = 3
  MaxNoise = 1
  FollowRewinds = TRUE
INVARIANTS LseqFaithful
