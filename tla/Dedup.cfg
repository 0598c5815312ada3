CONSTANTS
  a = a
  b = b
  Pids = {1, 2}
  Files = {a, b}
  Hashes = {1, 2, 3}
  HashOf <- MCHashOf
  MaxHashes = 2
  MaxLimits = 1
  FilesPerSec = 2
  SecondLen = 2
  Window = 2
  Word = 16
  Verbose = FALSE
  MaxTime = 4
  MaxEvents = 5
  Skew = 1
SPECIFICATION Spec
INVARIANTS TypeOK Conserved LimiterBound WarningsTruthful WithinArrays
PROPERTIES CleanedByNextOpen
CHECK_DEADLOCK FALSE
