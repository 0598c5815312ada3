CONSTANTS
  Pids <- MCPids
  Size = 4
SPECIFICATION Spec
INVARIANTS TypeOK ExactUntilCut IInv AddReportsTruth
PROPERTIES RemoveUntracks AddKeepsOthers
