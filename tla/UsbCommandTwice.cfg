SPECIFICATION Spec
CONSTANTS
  NumImg = 2
  NumRes = 1
  ImgCap = 2
  ResCap = 1
  MaxInput = 1
  ImgChunks = 1
  Totals = {1}
  Crops = {1}
  MaxReq = 1
  MaxCmd = 1
  MaxSent = 2
  MaxReset = 0
  MaxDrop = 0
  MaxLink = 1
  Oversize = FALSE
  SlowHost = FALSE
INVARIANT CommandsOnce
CHECK_DEADLOCK FALSE
