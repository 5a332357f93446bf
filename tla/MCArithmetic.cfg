SPECIFICATION MCSpec
CONSTANTS
  SignBit = 8
  Width = 4
  Counts <- UpToTen
  Parts = 3
  Digits <- AllDigits
INVARIANTS
  CodesMeanOverflow
  ConditionsAreRelations
  ChainComputes
  ChainCodes
  ShiftsCompute
  ShiftCodes
  WordsCompute
  DurationsMeasured
  DecimalCorrect
CHECK_DEADLOCK FALSE
