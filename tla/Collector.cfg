CONSTANTS
  SslConditions <- MCSslConditions
  HttpConditions <- MCHttpConditions
  Lines <- MCLines
  Setups <- MCSetups
  PipeSize = 2
SPECIFICATION Spec
INVARIANTS TypeOK LoggedAsMeant MetricsAccount
CHECK_DEADLOCK FALSE
