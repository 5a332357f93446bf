SPECIFICATION MCSpec
CONSTANTS
  Opcodes <- AllOpcodes
  max_instructions = 1
  Group <- RegistersPerGroup
  Lists <- AllLists
INVARIANTS
  ShowsMovedRegisters
  WordsAsExecuted
  TargetsAsExecuted
  OperandsAsExecuted
  SizesAsExecuted
  LineFits
CHECK_DEADLOCK FALSE
