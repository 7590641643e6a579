CONSTANTS
  ShortColumns = {"a", "HAVINGS"}
  LongColumns = {"l"}
  BoolColumns = {"a"}
  NativeColumns = {"HAVINGS"}
  Values = {0, 1}
  Vars = {"x"}
  BeginsWith <- MCBeginsWith
  Operands <- MCOperands
  MaxConditions = 3
  MaxValues = 2
SPECIFICATION Spec
INVARIANTS TypeOK PlaceholdersMatchParameters TextMeansTheQuery TranslationMeansTheQuery
