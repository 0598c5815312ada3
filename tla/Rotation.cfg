CONSTANTS
  MaxFiles = 3
  MaxSize = 1
  Interval = 2
  MaxEvents = 11
  MaxRestarts = 1
SPECIFICATION Spec
INVARIANTS TypeOK WritesFound SizeBounded
PROPERTIES ImplementsBoundedLog FullBeforeDropping
CHECK_DEADLOCK FALSE
