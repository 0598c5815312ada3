CONSTANTS
  f = f
  Pids = {2, 4}
  Files = {f}
  Hashes = {1, 2}
  HashOf <- MCHashOf
  MaxHashes = 1
  MaxLimits = 1
  FilesPerSec = 2
  SecondLen = 1
  Window = 0
  Word = 4
  Verbose = FALSE
  TableSize = 2
  RingMax = 2
  Options <- MCOptions
  Existing <- MCExisting
  MaxTime = 0
  MaxOps = 4
SPECIFICATION FairSpec
PROPERTY DeadForgotten
CHECK_DEADLOCK FALSE
