SPECIFICATION ObservedSpec
CONSTANTS
  AddressSpace = 64
  BusSpace = 64
  Ram <- NoRam
  Longs = {0, 2}
  StackPointers = {40}
  StatusWords <- ModeWords
  Levels = {0, 4, 7}
  Durations = {1, 168}
  Extensions = {0}
  Budgets = {5}
CONSTRAINT ShortRuns
INVARIANTS CyclesFitByte CyclesReturned EvenStacksNeverHalt
PROPERTIES OneInstructionLatency
