SPECIFICATION NcpuFairSpec
CONSTANTS
  Contexts = 2
  Buffers = 2
  MaxRuns = 3
  MaxUpsets = 2
INVARIANT NoStrayFlags
CHECK_DEADLOCK FALSE
