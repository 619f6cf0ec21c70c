SPECIFICATION NcpuFairSpec
CONSTANTS
  Contexts = 2
  Buffers = 3
  MaxRuns = 3
  MaxUpsets = 2
INVARIANTS NcpuTypeOK ImageKept
PROPERTIES RunsServed EveryRunAnswered
CHECK_DEADLOCK FALSE
