------------------------------ MODULE Generator ------------------------------
(***************************************************************************)
(* The microcode generator: a loop over the names of the instructions that *)
(* prints a case for each, one step of microcode after the other, from the *)
(* tables of InstructionProperties.  A case is known by the functions it   *)
(* calls; comments and indentation are left out.                           *)
(***************************************************************************)
EXTENDS InstructionProperties, MicrocodeFile, Sequences, Naturals

(* The enumeration of common/instruction.h. *)
Instruction ==
  <<"ABCD", "ADD", "ADDA", "ADDAQ", "ADDI", "ADDQ", "ADDX", "AND", "ANDI", "ANDI_TO_CCR",
    "ANDI_TO_SR", "ASD_MEMORY", "ASD_REGISTER", "BCC_SHORT", "BCC_WORD", "BCHG_DYNAMIC",
    "BCHG_STATIC", "BCLR_DYNAMIC", "BCLR_STATIC", "BRA_SHORT", "BRA_WORD", "BSET_DYNAMIC",
    "BSET_STATIC", "BSR_SHORT", "BSR_WORD", "BTST_DYNAMIC", "BTST_STATIC", "CHK", "CLR", "CMP",
    "CMPA", "CMPI", "CMPM", "DBCC", "DIVS", "DIVU", "EOR", "EORI", "EORI_TO_CCR", "EORI_TO_SR",
    "EXG", "EXT", "ILLEGAL", "JMP", "JSR", "LEA", "LINK", "LSD_MEMORY", "LSD_REGISTER", "MOVE",
    "MOVE_FROM_SR", "MOVE_TO_CCR", "MOVE_TO_SR", "MOVE_USP", "MOVEA", "MOVEM", "MOVEP", "MOVEQ",
    "MULS", "MULU", "NBCD", "NEG", "NEGX", "NOP", "NOT", "OR", "ORI", "ORI_TO_CCR", "ORI_TO_SR",
    "PEA", "RESET", "ROD_MEMORY", "ROD_REGISTER", "ROXD_MEMORY", "ROXD_REGISTER", "RTE", "RTR",
    "RTS", "SBCD", "SCC", "STOP", "SUB", "SUBA", "SUBAQ", "SUBI", "SUBQ", "SUBX", "SWAP", "TAS",
    "TRAP", "TRAPV", "TST", "UNLK", "UNIMPLEMENTED_1", "UNIMPLEMENTED_2">>

(* Mutant: two names in the wrong order. *)
InstructionStringsSwapped == [Instruction EXCEPT ![3] = "ADDAQ", ![4] = "ADDA"]

(* The names, in an array of their own; its index is cast to Instruction. *)
instruction_strings ==
  <<"ABCD", "ADD", "ADDA", "ADDAQ", "ADDI", "ADDQ", "ADDX", "AND", "ANDI", "ANDI_TO_CCR",
    "ANDI_TO_SR", "ASD_MEMORY", "ASD_REGISTER", "BCC_SHORT", "BCC_WORD", "BCHG_DYNAMIC",
    "BCHG_STATIC", "BCLR_DYNAMIC", "BCLR_STATIC", "BRA_SHORT", "BRA_WORD", "BSET_DYNAMIC",
    "BSET_STATIC", "BSR_SHORT", "BSR_WORD", "BTST_DYNAMIC", "BTST_STATIC", "CHK", "CLR", "CMP",
    "CMPA", "CMPI", "CMPM", "DBCC", "DIVS", "DIVU", "EOR", "EORI", "EORI_TO_CCR", "EORI_TO_SR",
    "EXG", "EXT", "ILLEGAL", "JMP", "JSR", "LEA", "LINK", "LSD_MEMORY", "LSD_REGISTER", "MOVE",
    "MOVE_FROM_SR", "MOVE_TO_CCR", "MOVE_TO_SR", "MOVE_USP", "MOVEA", "MOVEM", "MOVEP", "MOVEQ",
    "MULS", "MULU", "NBCD", "NEG", "NEGX", "NOP", "NOT", "OR", "ORI", "ORI_TO_CCR", "ORI_TO_SR",
    "PEA", "RESET", "ROD_MEMORY", "ROD_REGISTER", "ROXD_MEMORY", "ROXD_REGISTER", "RTE", "RTR",
    "RTS", "SBCD", "SCC", "STOP", "SUB", "SUBA", "SUBAQ", "SUBI", "SUBQ", "SUBX", "SWAP", "TAS",
    "TRAP", "TRAPV", "TST", "UNLK", "UNIMPLEMENTED_1", "UNIMPLEMENTED_2">>

(***************************************************************************)
(* What each step prints for an instruction.                               *)
(***************************************************************************)

EmitInstructionSupervisorCheck(instruction) ==
  IF IsPrivileged(instruction) THEN <<"SupervisorCheck">> ELSE <<>>

SizeCall ==
  [byte |-> "SetSize_Byte", word |-> "SetSize_Word", longword |-> "SetSize_Longword",
   longword_register_byte_memory |-> "SetSize_LongwordRegisterByteMemory",
   move |-> "SetSize_Move", ext |-> "SetSize_Ext", standard |-> "SetSize_Standard"]

EmitInstructionSize(instruction) ==
  IF GetSize(instruction) = "none" THEN <<>>
  ELSE <<SizeCall[GetSize(instruction)], "SetMSBBitIndex">>

SourceCall ==
  [immediate_data |-> "ImmediateData", data_register_secondary |-> "DataRegisterSecondary",
   immediate_data_byte |-> "ImmediateDataByte", memory_address_primary |-> "MemoryAddressPrimary",
   status_register |-> "StatusRegister", immediate_data_word |-> "ImmediateDataWord",
   bcd_x |-> "BCDX",
   data_register_secondary_or_primary_address_mode |->
     "DataRegisterSecondaryOrPrimaryAddressMode",
   primary_address_mode_sized |-> "PrimaryAddressModeSized",
   address_register_primary_postincrement |-> "AddressRegisterPrimaryPostIncrement",
   primary_address_mode |-> "PrimaryAddressMode",
   primary_address_mode_word |-> "PrimaryAddressModeWord"]

EmitInstructionSourceAddressMode(instruction) ==
  IF ~IsSourceOperandRead(instruction) \/ GetSourceOperand(instruction) = "none" THEN <<>>
  ELSE <<"DecodeSource_" \o SourceCall[GetSourceOperand(instruction)]>>

EmitInstructionReadSourceOperand(instruction) ==
  IF IsSourceOperandRead(instruction) THEN <<"ReadSource">> ELSE <<>>

DestinationCall ==
  [data_register_primary |-> "DataRegisterPrimary",
   data_register_secondary |-> "DataRegisterSecondary",
   address_register_secondary |-> "AddressRegisterSecondary",
   secondary_address_mode |-> "SecondaryAddressMode", bcd_x |-> "BCDX",
   data_register_secondary_or_primary_address_mode |->
     "DataRegisterSecondaryOrPrimaryAddressMode",
   address_register_secondary_full |-> "AddressRegisterSecondaryFull",
   address_register_secondary_postincrement |-> "AddressRegisterSecondaryPostIncrement",
   primary_address_mode |-> "PrimaryAddressMode",
   condition_code_register |-> "ConditionCodeRegister", status_register |-> "StatusRegister",
   movem |-> "MOVEM", movep |-> "MOVEP"]

EmitInstructionDestinationAddressMode(instruction) ==
  IF \/ ~IsDestinationOperandRead(instruction) /\ ~IsDestinationOperandWritten(instruction)
     \/ GetDestinationOperand(instruction) = "none"
  THEN <<>>
  ELSE <<"DecodeDestination_" \o DestinationCall[GetDestinationOperand(instruction)]>>

EmitInstructionReadDestinationOperand(instruction) ==
  IF IsDestinationOperandRead(instruction) THEN <<"ReadDestination">> ELSE <<>>

EmitInstructionAction(instruction) == <<"Action_" \o GetAction(instruction)>>

EmitInstructionWriteDestinationOperand(instruction) ==
  IF IsDestinationOperandWritten(instruction) THEN <<"WriteDestination">> ELSE <<>>

(* The modifiers that call a function; the others print a comment. *)
CarryCall(instruction) ==
  CASE GetCarryModifier(instruction) = "standard_carry" -> <<"Carry_StandardCarry">>
    [] GetCarryModifier(instruction) = "standard_borrow" -> <<"Carry_StandardBorrow">>
    [] GetCarryModifier(instruction) = "neg" -> <<"Carry_NEG">>
    [] GetCarryModifier(instruction) = "clear" -> <<"Carry_Clear">>
    [] OTHER -> <<>>

OverflowCall(instruction) ==
  CASE GetOverflowModifier(instruction) = "add" -> <<"Overflow_ADD">>
    [] GetOverflowModifier(instruction) = "sub" -> <<"Overflow_SUB">>
    [] GetOverflowModifier(instruction) = "neg" -> <<"Overflow_NEG">>
    [] GetOverflowModifier(instruction) = "cleared" -> <<"Overflow_Clear">>
    [] OTHER -> <<>>

ZeroCall(instruction) ==
  CASE GetZeroModifier(instruction) = "clear_if_nonzero_unaffected_otherwise" ->
         <<"Zero_ClearIfNonZeroUnaffectedOtherwise">>
    [] GetZeroModifier(instruction) = "set_if_zero_clear_otherwise" ->
         <<"Zero_SetIfZeroClearOtherwise">>
    [] OTHER -> <<>>

NegativeCall(instruction) ==
  IF GetNegativeModifier(instruction) = "set_if_negative_clear_otherwise"
  THEN <<"Negative_SetIfNegativeClearOtherwise">> ELSE <<>>

ExtendCall(instruction) ==
  IF GetExtendModifier(instruction) = "set_to_carry" THEN <<"Extend_SetToCarry">> ELSE <<>>

EmitInstructionConditionCodes(instruction) ==
  CarryCall(instruction) \o OverflowCall(instruction) \o ZeroCall(instruction)
    \o NegativeCall(instruction) \o ExtendCall(instruction)

(***************************************************************************)
(* The loop.                                                               *)
(***************************************************************************)

(* The body of the loop, between a case label and its break. *)
EmitInstruction(instruction) ==
  EmitInstructionSupervisorCheck(instruction)
    \o EmitInstructionSize(instruction)
    \o EmitInstructionSourceAddressMode(instruction)
    \o EmitInstructionReadSourceOperand(instruction)
    \o EmitInstructionDestinationAddressMode(instruction)
    \o EmitInstructionReadDestinationOperand(instruction)
    \o EmitInstructionAction(instruction)
    \o EmitInstructionWriteDestinationOperand(instruction)
    \o EmitInstructionConditionCodes(instruction)

(* The rounds that print a case label, named by the index of the loop. *)
RoundsLabelled(label) == {i \in DOMAIN instruction_strings : instruction_strings[i] = label}

(* The cases printed under a label: the index is cast to an instruction. *)
CasesPrinted(label) == {EmitInstruction(Instruction[i]) : i \in RoundsLabelled(label)}
==============================================================================
