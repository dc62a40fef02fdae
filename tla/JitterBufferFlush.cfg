SPECIFICATION Spec
CONSTANTS
  Capacity = 3
  SEQ_MOD = 64
  SEQ_HI = 60
  LSEQ_MOD = 128
  TS_MOD = 4096
  TS_STEP = 8
  TS_BASE = 4000
  Copies = {1}
  Starts = {3}
  MinT = 0
  MaxT = 11
  Reorder = 3
  Jump = 3
  MaxNoise = 0
  FollowRewinds = TRUE
PROPERTIES EveryErsSpansGap
