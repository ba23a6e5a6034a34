SPECIFICATION Spec
CONSTANTS
  u1 = u1
  u2 = u2
  Unit <- MCUnit
  Query <- MCQuery
  Submitted <- MCSubmitted
  ClientValue <- MCClientValue
  Answer <- MCAnswer
  Accepted = {"plain", "cited", "vector"}
  Cited = {"cited"}
  CanAnswer <- MCCanAnswer
  Score <- MCScore
  Policy = {"open", "strict"}
  Allows <- MCAllows
  Demands <- MCDemands
  Gated = {"strict"}
  None = None
  MaxTime = 1
  MaxStores = 1
SYMMETRY MCSymmetry
INVARIANT HitUnderSamePolicy
CHECK_DEADLOCK FALSE
