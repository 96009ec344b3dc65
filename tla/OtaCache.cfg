\* Calls in any order.
SPECIFICATION CacheSpec
CONSTANTS
  Places = 2
  PlaceLen = 2
  Values = {v1, v2}
  Blank = blank
  Zero = zero
  CountMod = 4
  Indexes <- MCIndexes
INVARIANTS
  CacheTypeOK
  ServedAsCached
  CompleteIsAll
  MissingNeverWraps
