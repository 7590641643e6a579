CONSTANTS
  Batch = 3
  RowErrors <- MCRowErrors
  WholeErrors <- MCWholeErrors
  MaxAffected = 2
SPECIFICATION Spec
INVARIANTS TypeOK EverySetAccountedFor IdsInPlace CountsAreExact
CHECK_DEADLOCK FALSE
