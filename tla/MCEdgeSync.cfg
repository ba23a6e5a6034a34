SPECIFICATION Spec
CONSTANTS
  c1 = c1
  c2 = c2
  e1 = e1
  e2 = e2
  e3 = e3
  e4 = e4
  Client <- MCClient
  Event <- MCEvent
  None = None
  Limit = 2
  MaxCalls = 4
SYMMETRY MCSymmetry
INVARIANTS DeliveredInOrder DuplicatesNeedCut
PROPERTY CursorAdvances
CHECK_DEADLOCK FALSE
