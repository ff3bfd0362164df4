SPECIFICATION RowsSpec
CONSTANTS
  Files <- MCFiles
  Dates <- MCDates
  YearZero <- MCYearZero
  Answers <- MCAnswers
  I32Bits = 4
  I64Bits = 6
  FloatPlaces = 2
INVARIANTS RefusedForCause CleanRuns RowsCallByName LiteralsExact CanonicalText ArgsDenote GreenMeansEqual CorrectIsGreen
