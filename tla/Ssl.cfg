CONSTANTS
  NoFilter = NoFilter
  Threads = {1, 2}
  PidOf <- MCPidOf
  UidOf <- MCUidOf
  CommOf <- MCCommOf
  Options <- MCOptions
  MaxEntries = 1
  RingMax = 1
  MaxBuf = 2
  MaskLen = 4
  Lens = {2, 3, 4, 5}
  MaxCalls = 4
SPECIFICATION Spec
INVARIANTS TypeOK JoinsOwnCall NoUnexplainedLoss PtrsDropped CutsTold
CHECK_DEADLOCK FALSE
