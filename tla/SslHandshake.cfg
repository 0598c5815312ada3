CONSTANTS
  NoFilter = NoFilter
  Threads = {1, 2}
  PidOf <- MCPidOf
  UidOf <- MCUidOf
  CommOf <- MCCommOf
  Options <- MCOptions
  MaxEntries = 1
  RingMax = 1
  MaxBuf = 2
  MaskLen = 4
  Lens = {2, 3, 4}
  MaxCalls = 3
SPECIFICATION Spec
INVARIANTS HandshakesReported
CHECK_DEADLOCK FALSE
