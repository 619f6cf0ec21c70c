SPECIFICATION FairSpec
CONSTANTS
  NumImg = 2
  NumRes = 1
  ImgCap = 2
  ResCap = 1
  MaxInput = 1
  ImgChunks = 1
  Totals = {1}
  Crops = {1}
  MaxReq = 2
  MaxCmd = 0
  MaxSent = 2
  MaxReset = 1
  MaxDrop = 0
  MaxLink = 0
  Oversize = FALSE
  SlowHost = FALSE
PROPERTY ResetHappens
CHECK_DEADLOCK FALSE
