SPECIFICATION MCSpec
CONSTANTS
  ByteValues = 8
  MemoryWords = 16
  Origin = 2
  Firsts <- MCFirsts
  Levels = {1, 4, 7}
  Numbers = {7, 31}
  MaxNesting = 3
  Code = {8, 12, 14}
  Targets = {8, 1}
  Base = 0
  OuterFrame = 6
  Data = {2715}
  CCR = {1, 5}
  System = 4
  MaxItems = 3
  DataValues = {7, 2001}
  BaseValues = {0, 6, 27}
  StackValues = {2, 30}
  Start = 16
  Programs <- MCContents
  Group = 2
  InitialRegisters <- MCRegisters
  InitialMemory <- MCMemory
  Addresses = {4, 26, 27}
INVARIANTS
  OneInside
  TakenWhileHeld
  LoopsCount
  PointersReturn
  OperandsAccessed
  TransfersKept
PROPERTIES
  ImplementsProcedures
CHECK_DEADLOCK FALSE
