CONSTANTS
  r1 = r1
  r2 = r2
  r3 = r3
  Results = {r1, r2, r3}
  NoResult = none
  Rows <- MCRows
  LongData = TRUE
  ClassKind = "object"
  Views = {v}
  MaxChanges = 2
SPECIFICATION CacheSpec
INVARIANT ViewInUseIsAlive
