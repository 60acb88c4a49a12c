SPECIFICATION EntitySpec
CONSTANTS
  Entity = {m, n, o}
  Edge = {e}
  Alias = {}
  Curator = {c}
  MaxOperation = 3
  NoCuration = NoCuration
INVARIANTS NoSelfRelationship
CHECK_DEADLOCK FALSE
