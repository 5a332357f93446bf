SPECIFICATION HandlersSpec
CONSTANTS
  AddressSpace = 96
  BusSpace = 32
  Ram <- TwoFrames
  Longs = {0, 3}
  StackPointers = {64}
  StatusWords <- ModeWords
  Levels = {0, 4}
  Durations = {4}
  Extensions = {0}
  Budgets = {1}
CONSTRAINT TwoFramesDeep
PROPERTIES ReturnResumes
