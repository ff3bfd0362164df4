SPECIFICATION RowsSpec
CONSTANTS
  Files <- FloatInputs
  Dates <- MCDates
  YearZero <- MCYearZero
  Answers <- MCAnswers
  I32Bits = 4
  I64Bits = 6
  FloatPlaces = 2
INVARIANT EveryRowCalled
