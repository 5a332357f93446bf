SPECIFICATION Spec
CONSTANTS
  Opcodes <- AllOpcodes
  BitCounts <- MCBitCounts
  ShiftCounts <- MCShiftCounts
INVARIANTS
  DefinedBeforeUse
  FaultKeepsConditionCodes
  FramesHoldFinalCodes
  UserKeepsSystem
  TimingHolds
  OperandsWritable
  EmittedAsCheckedIn
