CONSTANTS
  SslConditions <- MCSslConditions
  HttpConditions <- MCHttpConditions
  Lines <- MCLines
  Setups <- EmptyBodySetups
  PipeSize = 2
SPECIFICATION Spec
INVARIANTS EmptyBodyOnly
CHECK_DEADLOCK FALSE
