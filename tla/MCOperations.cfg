SPECIFICATION OperationsSpec
CONSTANTS
  None = None
  Refused = Refused
  Unit <- MCUnit
  Bundle <- MCBundle
  Job <- MCJob
  RangeRead <- MCRangeRead
  Path = {"chunk", "chunk.tmp", "ledger", "cursor"}
  Sorted <- MCSorted
  Area <- MCArea
  Fleeting = {"chunk.tmp"}
  i1 = i1
  i2 = i2
  p = p
  q = q
  Import = {i1, i2}
  Pid <- MCPid
  MaxWrites = 1
  MaxExports = 2
  MaxFaults = 1
  Checkpoint = {"a", "b"}
  Content <- MCContent
  BlockSize = 2
  Client = {p, q}
  Room = {1, 2}
  MaxPuts = 3
  Caller = {"p", "q", "r"}
  MaxKeys = 2
  MaxMasters = 3
  MaxLosses = 1
  Count = 2
  MaxEdits = 2
  MaxFailures = 2
  Reduction <- MCReduction
  Samples <- MCSamples
  Table <- MCTable
  Scenario <- MCScenario
  Prompt <- MCPrompt
  Routing <- MCRouting
  s1 = s1
  s2 = s2
  Session = {s1, s2}
  Entry = {1, 2, 3}
  HashId <- MCHash
  NoLink = 0
  Link <- MCLink
  Worker = {p, q}
  File = {"x", "y"}
  Datum = {1, 2}
  MaxFileCalls = 3
INVARIANTS
  DecisionsSound
  RequestsPrepared
  DeferralMeetsDeadline
  RangesExact
  BackupsRestore
  CheckpointsReadBack
  KeysOpen
  StatusHonest
  TableIntact
  FilesAccounted
PROPERTIES
  MergeKeepsFiles
  ResourcesConverge
  TableImplementsEventLog
CHECK_DEADLOCK FALSE
