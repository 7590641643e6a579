CONSTANTS
  TmpCapacity = 8
  Short = 4
  Long = 6
  Capacities = {1, 4, 5, 9}
  Lengths <- MCLengths
  OldLengths = {0, 2, 15}
  Rooms = {1, 4, 6}
  ShortMax = 8
  Params <- MCParams
  Amounts <- MCAmounts
  Scale = 7
  Word = 128
  ByteBase = 4
  FloatBits = {5, 9}
  Quantum = 2048
SPECIFICATION ValuesSpec
INVARIANTS TypeOK ChunksAreExpected ValuesRoundTrip FloatMoney DeclaredAsTheColumn
CHECK_DEADLOCK FALSE
