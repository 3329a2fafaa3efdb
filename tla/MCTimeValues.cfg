CONSTANTS
  UINT32 = 1048576
  MaxCalls = 2
  Values <- MCValues
  Intervals <- MCIntervals
  Numbers <- MCNumbers
  Texts <- MCTexts
  Flags <- MCFlags
  Decimals = {0, 1, 2, 3, 5, 6}
SPECIFICATION Spec
INVARIANTS ValueExists IntervalsAreExact RoundingIsRight ConversionsReadBack BytesSortLikeTimes
CHECK_DEADLOCK FALSE
