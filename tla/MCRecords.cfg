SPECIFICATION Spec
CONSTANTS
  Item = {u, v, w}
  SyncRun = {x, y}
  MaxPages = 2
  MaxClock = 2
  MaxTrouble = 1
  NoRun = NoRun
  Lost = Lost
  Entity = {m, n, o}
  Edge = {x, y}
  Alias = {z}
  Curator = {c}
  MaxOperation = 2
  NoCuration = NoCuration
INVARIANTS RecordsTypeOK Covered NothingLost AliasesSurvive
PROPERTIES BackfillAdvances
SYMMETRY Interchangeable
CHECK_DEADLOCK FALSE
