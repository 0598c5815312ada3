CONSTANTS
  Pids <- MCPids
  Size = 4
SPECIFICATION Spec
PROPERTY RemoveKeepsOthers
