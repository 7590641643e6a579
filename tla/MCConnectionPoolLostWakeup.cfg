CONSTANTS
  Threads = {t1, t2, t3}
  Owner = owner
  Conns = {c1, c2, c3, c4}
  NoConn = none
  MaxConn = 1
  MinConn = 0
  MaxCreateFailures = 1
SPECIFICATION Spec
INVARIANT WaitsForARelease
CHECK_DEADLOCK FALSE
