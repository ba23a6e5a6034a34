SPECIFICATION Spec
CONSTANTS
  p1 = p1
  p2 = p2
  Thread <- MCThread
  Process <- MCProcess
  ProcOf <- MCProcOf
  Event <- MCEvent
  HashValue <- MCHashValue
  NoHash = 0
  Hash <- MCHash
  Junk = Junk
  Empty = Empty
  None = None
INVARIANTS ChainIntact NoSilentLoss
PROPERTY ImplementsEventLog
