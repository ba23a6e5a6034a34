SPECIFICATION FairSpec
CONSTANTS
  c1 = c1
  c2 = c2
  Client <- MCClient
  PartNo <- MCPartNo
  None = None
  MaxCalls = 4
INVARIANTS
  PartsKept
  CompletionOwned
  DuplicatesNeedLateFailure
PROPERTY CallsEnd
CHECK_DEADLOCK FALSE
