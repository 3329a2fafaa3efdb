CONSTANTS
  Radix = 4
  DIG = 2
  LEN = 3
  NOT_FIXED_DEC = 3
  IntBits = 8
  MaxExp = 10
  BYTE = 8
  TimeDigits = 1
  MaxCalls = 2
  Operands <- MCOperands
  Texts <- MCTexts
  Numbers <- MCNumbers
  Columns <- MCColumns
  Scales <- MCScales
  Increments = {0, 3}
SPECIFICATION Spec
INVARIANTS WellFormed ArithmeticIsExact RoundingIsRight ConversionsReadBack BytesCompareLikeNumbers
CHECK_DEADLOCK FALSE
