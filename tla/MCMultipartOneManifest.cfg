SPECIFICATION Spec
CONSTANTS
  c1 = c1
  c2 = c2
  Client <- MCClient
  PartNo <- MCPartNo
  None = None
  MaxCalls = 4
INVARIANT OneManifest
CHECK_DEADLOCK FALSE
