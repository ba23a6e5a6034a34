SPECIFICATION Spec
CONSTANTS
  None = None
  d1 = d1
  d2 = d2
  Principal <- MCPrincipal
  Demand <- MCDemand
  Request <- MCRequest
  t1 = t1
  t2 = t2
  Thread = {t1, t2}
  MaxRecords = 4
  MaxRequests = 3
  MaxTime = 1
INVARIANTS Isolated Entitled RecordsAudited ApprovedStored
PROPERTY ManifestsKept
SYMMETRY MCSymmetry
CHECK_DEADLOCK FALSE
