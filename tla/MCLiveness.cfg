SPECIFICATION ShortSpec
CONSTANTS
  AddressSpace = 18
  BusSpace = 18
  Ram <- NoRam
  Longs = {0, 3}
  StackPointers = {6, 7}
  StatusWords <- ModeWords
  Levels = {0, 7}
  Durations = {4}
  Extensions = {0}
  Budgets = {6}
PROPERTIES CallReturns StopEnds RequestServed
