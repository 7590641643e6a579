CONSTANTS
  Threads = {t1, t2, t3, t4}
  Owner = owner
  Conns = {c1, c2, c3, c4, c5, c6}
  NoConn = none
  MaxConn = 2
  MinConn = 1
  MaxCreateFailures = 1
SPECIFICATION FairSpec
INVARIANTS TypeOK OneOwner Capacity NoStrandedWaiter
PROPERTIES ShrinksToMin WaitersProgress DestructorReturns ImplementsLeasing
CHECK_DEADLOCK FALSE
