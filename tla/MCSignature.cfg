SPECIFICATION SignatureSpec
CONSTANTS
  Inputs <- MCInputs
  Files = {}
  Words <- MCWords
  TwoBytes <- MCTwoBytes
  Dates = {}
  YearZero = {}
  I32Bits = 32
  I64Bits = 64
  FloatPlaces = 2
INVARIANTS WrittenIsRead AcceptedWhole  SuggestNearest
