SPECIFICATION Spec
CONSTANTS
  Opcodes <- AllOpcodes
  BitCounts <- MCBitCounts
  ShiftCounts <- MCShiftCounts
INVARIANT NoSourceNeeded
