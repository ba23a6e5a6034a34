SPECIFICATION FairSpec
CONSTANTS
  t1 = t1
  t2 = t2
  Thread <- MCThread
  Library <- MCLibrary
  Namespace <- MCNamespace
  ShadowOf <- MCShadowOf
  Chunk <- MCChunk
  Key <- MCKey
  Compressible = {"a"}
  Request <- MCRequest
  None = None
  MaxRuns = 2
INVARIANTS
  ManifestsFaithful
  IndexedOnDisk
  AuditTrailComplete
PROPERTIES RunsEnd ImplementsObjectStore
CHECK_DEADLOCK FALSE
