SPECIFICATION Spec
CONSTANTS
  Capacity = 4
  SEQ_MOD = 16
  SEQ_HI = 11
  LSEQ_MOD = 80
  TS_MOD = 4096
  TS_STEP = 8
  TS_BASE = 4000
  Copies = {1}
  Starts = {12}
  MinT = 0
  MaxT = 34
  Reorder = 3
  Jump = 2
  MaxNoise = 3
  FollowRewinds = FALSE
INVARIANTS LseqFaithful
