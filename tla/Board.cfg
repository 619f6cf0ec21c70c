SPECIFICATION BoardFairSpec
CONSTANTS
  MaxBootSeq = 2 MaxUpdate = 3 MaxSwitch = 1 MaxBoot = 3 MaxFault = 1 MaxCommand = 0
  Begin <- MCBegin
  Writers = {w1, w2} Slots = 3 MaxLogs = 3
  Freqs = {200, 600, 650, 700} Proposals = {200, 300, 600, 630, 660, 700}
  MaxCalls = 2 MaxLink = 1 MaxReset = 1
INVARIANTS
  DfuTypeOK OneConfirmed ImageWriteSparesBoot BootsComplete
  WritersApart PrintsInOrder SlowIsWatched
  EpTypeOK DmaInCall OkIsMoved Usable WokenByDrop
PROPERTIES UpdateKept EveryUpdateEnds EveryLogPrinted SpeedComesBack HeatSlowsDown
CHECK_DEADLOCK FALSE
