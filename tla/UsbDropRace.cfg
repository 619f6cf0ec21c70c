SPECIFICATION Spec
CONSTANTS
  NumImg = 2
  NumRes = 1
  ImgCap = 2
  ResCap = 1
  MaxInput = 1
  ImgChunks = 1
  Totals = {1}
  Crops = {1}
  MaxReq = 3
  MaxCmd = 0
  MaxSent = 3
  MaxReset = 0
  MaxDrop = 2
  MaxLink = 0
  Oversize = FALSE
  SlowHost = FALSE
INVARIANT DmaExclusive
CHECK_DEADLOCK FALSE
