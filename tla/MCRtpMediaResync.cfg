SPECIFICATION Spec
CONSTANTS
  htons <- MCSwap2
  htonl <- MCSwap4
  ntohs <- MCSwap2
  ntohl <- MCSwap4
  SEQ_MOD = 256
  TS_MOD = 65536
  U64_MOD = 1000000000
  TICKS_IN_SEC = 100
  Rates = {11025}
  Ptimes = {20}
  Rand <- MCRand
  Plens = {0, 14}
  Ploads <- MCPloads
  Slack <- MCSlack
  MaxPkts = 3
  MaxNow = 3
  MaxCalls = 2
  Samples = {}
  Pcm = {}
  Factors = {1, 2, 4}
  LowRate = 8
  Parts = {}
  MaxLost = 60
  NoCall = NoCall
INVARIANTS ResyncIdempotent
CHECK_DEADLOCK FALSE
