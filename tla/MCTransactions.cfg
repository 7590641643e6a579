CONSTANTS
  Threads = {t1, t2}
  Conns = {c1, c2}
  NoConn = none
  Keepers = {t1}
  MaxConn = 2
  MaxTx = 3
  MaxFailures = 2
  StatementErrors <- MCStatementErrors
  LinkErrors <- MCLinkErrors
  EndTranErrors <- MCEndTranErrors
SYMMETRY Symmetry
SPECIFICATION Spec
INVARIANTS TypeOK ToldTheTruth CleanWhenPooled AllOrNothing
PROPERTY SuspectsStayOut
CHECK_DEADLOCK FALSE
