CONSTANTS
  tbl = tbl
  ja = ja
  jb = jb
  jc = jc
  From = tbl
  Joins <- MCJoins
  ColumnOf <- MCColumnOf
  NoColumn = none
SPECIFICATION Spec
INVARIANTS TypeOK MembersGetTheirColumns LongDataLast JoinsAreTheNeeded
CHECK_DEADLOCK FALSE
