CONSTANTS
  r1 = r1
  r2 = r2
  r3 = r3
  Results = {r1, r2, r3}
  NoResult = none
  Rows <- MCRows
  LongData = TRUE
  ClassKind = "no_id"
  Views = {v}
  MaxChanges = 2
SPECIFICATION CacheSpec
INVARIANT ReadsOwnRow
