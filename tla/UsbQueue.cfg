SPECIFICATION FairSpec
CONSTANTS
  NumImg = 2
  NumRes = 2
  ImgCap = 2
  ResCap = 2
  MaxInput = 2
  ImgChunks = 2
  Totals = {1, 2}
  Crops = {2}
  MaxReq = 3
  MaxCmd = 1
  MaxSent = 3
  MaxReset = 0
  MaxDrop = 0
  MaxLink = 0
  Oversize = FALSE
  SlowHost = FALSE
INVARIANT OneInference
PROPERTIES ServiceSpec ServiceFairSpec
CHECK_DEADLOCK FALSE
