CONSTANTS
  f = f
  Pids = {2, 3, 4}
  Files = {f}
  Hashes = {1, 2}
  HashOf <- MCHashOf
  MaxHashes = 1
  MaxLimits = 1
  FilesPerSec = 2
  SecondLen = 1
  Window = 0
  Word = 4
  Verbose = FALSE
  TableSize = 2
  RingMax = 2
  Options <- MCOptions
  Existing <- MCExisting
  MaxTime = 1
  MaxOps = 4
SPECIFICATION Spec
INVARIANTS TypeOK CatchesUp OwnersTracked
PROPERTIES NoLineOutsideLife
CHECK_DEADLOCK FALSE
