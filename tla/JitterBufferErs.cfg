SPECIFICATION Spec
CONSTANTS
  Capacity = 3
  SEQ_MOD = 64
  SEQ_HI = 60
  LSEQ_MOD = 128
  TS_MOD = 1024
  TS_STEP = 8
  TS_BASE = 900
  Copies = {1}
  Starts = {0}
  MinT = 0
  MaxT = 40
  Reorder = 3
  Jump = 12
  MaxNoise = 0
  FollowRewinds = TRUE
PROPERTIES ErsSpansGap
