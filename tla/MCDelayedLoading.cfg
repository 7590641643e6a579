CONSTANTS
  a1 = a1
  a2 = a2
  a3 = a3
  a4 = a4
  b1 = b1
  classA = classA
  classB = classB
  Objects = {a1, a2, a3, a4, b1}
  ClassOf <- MCClassOf
  Graphs <- MCGraphs
  Missing = {a4}
  MaxThrows = 2
  MaxCalls = 3
SPECIFICATION FairSpec
INVARIANTS TypeOK LockGuardsTheImage SessionIsSound CallbackSeesPointees
PROPERTY CallsEnd
CHECK_DEADLOCK FALSE
