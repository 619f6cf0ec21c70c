SPECIFICATION Spec
CONSTANTS
  NumImg = 3
  NumRes = 1
  ImgCap = 3
  ResCap = 1
  MaxInput = 3
  ImgChunks = 2
  Totals = {3}
  Crops = {1}
  MaxReq = 2
  MaxCmd = 0
  MaxSent = 2
  MaxReset = 1
  MaxDrop = 1
  MaxLink = 0
  Oversize = FALSE
  SlowHost = FALSE
INVARIANTS Exclusive NoMissingImage
CHECK_DEADLOCK FALSE
