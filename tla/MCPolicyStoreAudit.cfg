SPECIFICATION Spec
CONSTANTS
  c1 = c1
  c2 = c2
  Client <- MCClient
  Name <- MCName
  Version <- MCVersion
  None = None
  MaxCalls = 4
INVARIANT ChangesAudited
CHECK_DEADLOCK FALSE
