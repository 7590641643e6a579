CONSTANTS
  Threads = {t1, t2}
  Conns = {c1}
  NoConn = none
  Keepers = {}
  MaxConn = 1
  MaxTx = 2
  MaxFailures = 1
  StatementErrors <- MCStatementErrors
  LinkErrors <- MCLinkErrors
  EndTranErrors <- MCRolledBack
SPECIFICATION Spec
INVARIANT FirstStatementStartsTransaction
CHECK_DEADLOCK FALSE
