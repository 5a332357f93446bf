SPECIFICATION Spec
CONSTANTS
  AddressSpace = 64
  BusSpace = 64
  Ram <- NoRam
  Longs = {0, 3}
  StackPointers = {40, 41}
  StatusWords <- ModeWords
  Levels = {0, 4}
  Durations = {4}
  Extensions = {0}
  Budgets = {1}
CONSTRAINT PrivilegeWindow
INVARIANT TypeOK
PROPERTIES PrivilegeKept StoppedWaits
