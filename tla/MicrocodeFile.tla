--------------------------- MODULE MicrocodeFile ---------------------------
(***************************************************************************)
(* microcode.c as it is checked in: for each instruction, the functions of *)
(* clown68000.c its case calls, in order.  The generator wrote this file   *)
(* once; the build takes it as it is and does not run the generator, so    *)
(* that nothing but Generator compares the two.                            *)
(***************************************************************************)
EXTENDS TLC

CasesFrom_ABCD ==
  [ABCD |-> <<"SetSize_Byte", "SetMSBBitIndex", "DecodeSource_BCDX", "ReadSource",
      "DecodeDestination_BCDX", "ReadDestination", "Action_ABCD", "WriteDestination",
      "Overflow_ADD", "Zero_ClearIfNonZeroUnaffectedOtherwise",
      "Negative_SetIfNegativeClearOtherwise", "Extend_SetToCarry">>,
   ADD |-> <<"SetSize_Standard", "SetMSBBitIndex",
      "DecodeSource_DataRegisterSecondaryOrPrimaryAddressMode", "ReadSource",
      "DecodeDestination_DataRegisterSecondaryOrPrimaryAddressMode", "ReadDestination",
      "Action_ADD", "WriteDestination", "Carry_StandardCarry", "Overflow_ADD",
      "Zero_SetIfZeroClearOtherwise", "Negative_SetIfNegativeClearOtherwise",
      "Extend_SetToCarry">>,
   ADDA |-> <<"SetSize_Longword", "SetMSBBitIndex", "DecodeSource_PrimaryAddressModeSized",
      "ReadSource", "DecodeDestination_AddressRegisterSecondary", "ReadDestination",
      "Action_ADDA", "WriteDestination">>,
   ADDAQ |-> <<"SetSize_Longword", "SetMSBBitIndex", "DecodeDestination_PrimaryAddressMode",
      "ReadDestination", "Action_ADDQ", "WriteDestination">>]

CasesFrom_ADDI ==
  [ADDI |-> <<"SetSize_Standard", "SetMSBBitIndex", "DecodeSource_ImmediateData", "ReadSource",
      "DecodeDestination_PrimaryAddressMode", "ReadDestination", "Action_ADD",
      "WriteDestination", "Carry_StandardCarry", "Overflow_ADD", "Zero_SetIfZeroClearOtherwise",
      "Negative_SetIfNegativeClearOtherwise", "Extend_SetToCarry">>,
   ADDQ |-> <<"SetSize_Standard", "SetMSBBitIndex", "DecodeDestination_PrimaryAddressMode",
      "ReadDestination", "Action_ADDQ", "WriteDestination", "Carry_StandardCarry",
      "Overflow_ADD", "Zero_SetIfZeroClearOtherwise", "Negative_SetIfNegativeClearOtherwise",
      "Extend_SetToCarry">>,
   ADDX |-> <<"SetSize_Standard", "SetMSBBitIndex", "DecodeSource_BCDX", "ReadSource",
      "DecodeDestination_BCDX", "ReadDestination", "Action_ADDX", "WriteDestination",
      "Carry_StandardCarry", "Overflow_ADD", "Zero_ClearIfNonZeroUnaffectedOtherwise",
      "Negative_SetIfNegativeClearOtherwise", "Extend_SetToCarry">>,
   AND |-> <<"SetSize_Standard", "SetMSBBitIndex",
      "DecodeSource_DataRegisterSecondaryOrPrimaryAddressMode", "ReadSource",
      "DecodeDestination_DataRegisterSecondaryOrPrimaryAddressMode", "ReadDestination",
      "Action_AND", "WriteDestination", "Carry_Clear", "Overflow_Clear",
      "Zero_SetIfZeroClearOtherwise", "Negative_SetIfNegativeClearOtherwise">>]

CasesFrom_ANDI ==
  [ANDI |-> <<"SetSize_Standard", "SetMSBBitIndex", "DecodeSource_ImmediateData", "ReadSource",
      "DecodeDestination_PrimaryAddressMode", "ReadDestination", "Action_AND",
      "WriteDestination", "Carry_Clear", "Overflow_Clear", "Zero_SetIfZeroClearOtherwise",
      "Negative_SetIfNegativeClearOtherwise">>,
   ANDI_TO_CCR |-> <<"SetSize_Byte", "SetMSBBitIndex", "DecodeSource_ImmediateData",
      "ReadSource", "DecodeDestination_ConditionCodeRegister", "ReadDestination", "Action_AND",
      "WriteDestination">>,
   ANDI_TO_SR |-> <<"SupervisorCheck", "SetSize_Word", "SetMSBBitIndex",
      "DecodeSource_ImmediateData", "ReadSource", "DecodeDestination_StatusRegister",
      "ReadDestination", "Action_AND", "WriteDestination">>,
   ASD_MEMORY |-> <<"SetSize_Word", "SetMSBBitIndex", "DecodeDestination_PrimaryAddressMode",
      "ReadDestination", "Action_ASD_MEMORY", "WriteDestination",
      "Zero_SetIfZeroClearOtherwise", "Negative_SetIfNegativeClearOtherwise">>]

CasesFrom_ASD_REGISTER ==
  [ASD_REGISTER |-> <<"SetSize_Standard", "SetMSBBitIndex",
      "DecodeDestination_DataRegisterPrimary", "ReadDestination", "Action_ASD_REGISTER",
      "WriteDestination", "Zero_SetIfZeroClearOtherwise",
      "Negative_SetIfNegativeClearOtherwise">>,
   BCC_SHORT |-> <<"Action_BCC_SHORT">>,
   BCC_WORD |-> <<"DecodeSource_ImmediateDataWord", "ReadSource", "Action_BCC_WORD">>,
   BCHG_DYNAMIC |-> <<"SetSize_LongwordRegisterByteMemory", "SetMSBBitIndex",
      "DecodeSource_DataRegisterSecondary", "ReadSource",
      "DecodeDestination_PrimaryAddressMode", "ReadDestination", "Action_BCHG",
      "WriteDestination">>]

CasesFrom_BCHG_STATIC ==
  [BCHG_STATIC |-> <<"SetSize_LongwordRegisterByteMemory", "SetMSBBitIndex",
      "DecodeSource_ImmediateDataByte", "ReadSource", "DecodeDestination_PrimaryAddressMode",
      "ReadDestination", "Action_BCHG", "WriteDestination">>,
   BCLR_DYNAMIC |-> <<"SetSize_LongwordRegisterByteMemory", "SetMSBBitIndex",
      "DecodeSource_DataRegisterSecondary", "ReadSource",
      "DecodeDestination_PrimaryAddressMode", "ReadDestination", "Action_BCLR",
      "WriteDestination">>,
   BCLR_STATIC |-> <<"SetSize_LongwordRegisterByteMemory", "SetMSBBitIndex",
      "DecodeSource_ImmediateDataByte", "ReadSource", "DecodeDestination_PrimaryAddressMode",
      "ReadDestination", "Action_BCLR", "WriteDestination">>,
   BRA_SHORT |-> <<"Action_BRA_SHORT">>]

CasesFrom_BRA_WORD ==
  [BRA_WORD |-> <<"DecodeSource_ImmediateDataWord", "ReadSource", "Action_BRA_WORD">>,
   BSET_DYNAMIC |-> <<"SetSize_LongwordRegisterByteMemory", "SetMSBBitIndex",
      "DecodeSource_DataRegisterSecondary", "ReadSource",
      "DecodeDestination_PrimaryAddressMode", "ReadDestination", "Action_BSET",
      "WriteDestination">>,
   BSET_STATIC |-> <<"SetSize_LongwordRegisterByteMemory", "SetMSBBitIndex",
      "DecodeSource_ImmediateDataByte", "ReadSource", "DecodeDestination_PrimaryAddressMode",
      "ReadDestination", "Action_BSET", "WriteDestination">>,
   BSR_SHORT |-> <<"Action_BSR_SHORT">>,
   BSR_WORD |-> <<"DecodeSource_ImmediateDataWord", "ReadSource", "Action_BSR_WORD">>]

CasesFrom_BTST_DYNAMIC ==
  [BTST_DYNAMIC |-> <<"SetSize_LongwordRegisterByteMemory", "SetMSBBitIndex",
      "DecodeSource_DataRegisterSecondary", "ReadSource",
      "DecodeDestination_PrimaryAddressMode", "ReadDestination", "Action_BTST">>,
   BTST_STATIC |-> <<"SetSize_LongwordRegisterByteMemory", "SetMSBBitIndex",
      "DecodeSource_ImmediateDataByte", "ReadSource", "DecodeDestination_PrimaryAddressMode",
      "ReadDestination", "Action_BTST">>,
   CHK |-> <<"SetSize_Word", "SetMSBBitIndex", "DecodeSource_PrimaryAddressMode", "ReadSource",
      "Action_CHK">>,
   CLR |-> <<"SetSize_Standard", "SetMSBBitIndex", "DecodeDestination_PrimaryAddressMode",
      "ReadDestination", "Action_CLR", "WriteDestination", "Carry_Clear", "Overflow_Clear",
      "Zero_SetIfZeroClearOtherwise", "Negative_SetIfNegativeClearOtherwise">>]

CasesFrom_CMP ==
  [CMP |-> <<"SetSize_Standard", "SetMSBBitIndex", "DecodeSource_PrimaryAddressMode",
      "ReadSource", "DecodeDestination_DataRegisterSecondary", "ReadDestination", "Action_CMP",
      "Carry_StandardBorrow", "Overflow_SUB", "Zero_SetIfZeroClearOtherwise",
      "Negative_SetIfNegativeClearOtherwise">>,
   CMPA |-> <<"SetSize_Longword", "SetMSBBitIndex", "DecodeSource_PrimaryAddressModeSized",
      "ReadSource", "DecodeDestination_AddressRegisterSecondary", "ReadDestination",
      "Action_CMPA", "Carry_StandardBorrow", "Overflow_SUB", "Zero_SetIfZeroClearOtherwise",
      "Negative_SetIfNegativeClearOtherwise">>,
   CMPI |-> <<"SetSize_Standard", "SetMSBBitIndex", "DecodeSource_ImmediateData", "ReadSource",
      "DecodeDestination_PrimaryAddressMode", "ReadDestination", "Action_CMPI",
      "Carry_StandardBorrow", "Overflow_SUB", "Zero_SetIfZeroClearOtherwise",
      "Negative_SetIfNegativeClearOtherwise">>,
   CMPM |-> <<"SetSize_Standard", "SetMSBBitIndex",
      "DecodeSource_AddressRegisterPrimaryPostIncrement", "ReadSource",
      "DecodeDestination_AddressRegisterSecondaryPostIncrement", "ReadDestination",
      "Action_CMPM", "Carry_StandardBorrow", "Overflow_SUB", "Zero_SetIfZeroClearOtherwise",
      "Negative_SetIfNegativeClearOtherwise">>]

CasesFrom_DBCC ==
  [DBCC |-> <<"SetSize_Word", "SetMSBBitIndex", "DecodeSource_ImmediateData", "ReadSource",
      "Action_DBCC">>,
   DIVS |-> <<"SetSize_Longword", "SetMSBBitIndex", "DecodeSource_PrimaryAddressModeWord",
      "ReadSource", "DecodeDestination_DataRegisterSecondary", "ReadDestination", "Action_DIVS",
      "WriteDestination", "Carry_Clear">>,
   DIVU |-> <<"SetSize_Longword", "SetMSBBitIndex", "DecodeSource_PrimaryAddressModeWord",
      "ReadSource", "DecodeDestination_DataRegisterSecondary", "ReadDestination", "Action_DIVU",
      "WriteDestination", "Carry_Clear">>,
   EOR |-> <<"SetSize_Standard", "SetMSBBitIndex", "DecodeSource_DataRegisterSecondary",
      "ReadSource", "DecodeDestination_PrimaryAddressMode", "ReadDestination", "Action_EOR",
      "WriteDestination", "Carry_Clear", "Overflow_Clear", "Zero_SetIfZeroClearOtherwise",
      "Negative_SetIfNegativeClearOtherwise">>]

CasesFrom_EORI ==
  [EORI |-> <<"SetSize_Standard", "SetMSBBitIndex", "DecodeSource_ImmediateData", "ReadSource",
      "DecodeDestination_PrimaryAddressMode", "ReadDestination", "Action_EOR",
      "WriteDestination", "Carry_Clear", "Overflow_Clear", "Zero_SetIfZeroClearOtherwise",
      "Negative_SetIfNegativeClearOtherwise">>,
   EORI_TO_CCR |-> <<"SetSize_Byte", "SetMSBBitIndex", "DecodeSource_ImmediateData",
      "ReadSource", "DecodeDestination_ConditionCodeRegister", "ReadDestination", "Action_EOR",
      "WriteDestination">>,
   EORI_TO_SR |-> <<"SupervisorCheck", "SetSize_Word", "SetMSBBitIndex",
      "DecodeSource_ImmediateData", "ReadSource", "DecodeDestination_StatusRegister",
      "ReadDestination", "Action_EOR", "WriteDestination">>,
   EXG |-> <<"Action_EXG">>]

CasesFrom_EXT ==
  [EXT |-> <<"SetSize_Ext", "SetMSBBitIndex", "DecodeDestination_DataRegisterPrimary",
      "ReadDestination", "Action_EXT", "WriteDestination", "Carry_Clear", "Overflow_Clear",
      "Zero_SetIfZeroClearOtherwise", "Negative_SetIfNegativeClearOtherwise">>,
   ILLEGAL |-> <<"Action_ILLEGAL">>,
   JMP |-> <<"DecodeSource_MemoryAddressPrimary", "ReadSource", "Action_JMP">>,
   JSR |-> <<"DecodeSource_MemoryAddressPrimary", "ReadSource", "Action_JSR">>,
   LEA |-> <<"SetSize_Longword", "SetMSBBitIndex", "DecodeSource_MemoryAddressPrimary",
      "ReadSource", "DecodeDestination_AddressRegisterSecondary", "Action_LEA",
      "WriteDestination">>]

CasesFrom_LINK ==
  [LINK |-> <<"SetSize_Word", "SetMSBBitIndex", "DecodeSource_ImmediateData", "ReadSource",
      "Action_LINK">>,
   LSD_MEMORY |-> <<"SetSize_Word", "SetMSBBitIndex", "DecodeDestination_PrimaryAddressMode",
      "ReadDestination", "Action_LSD_MEMORY", "WriteDestination",
      "Zero_SetIfZeroClearOtherwise", "Negative_SetIfNegativeClearOtherwise">>,
   LSD_REGISTER |-> <<"SetSize_Standard", "SetMSBBitIndex",
      "DecodeDestination_DataRegisterPrimary", "ReadDestination", "Action_LSD_REGISTER",
      "WriteDestination", "Zero_SetIfZeroClearOtherwise",
      "Negative_SetIfNegativeClearOtherwise">>,
   MOVE |-> <<"SetSize_Move", "SetMSBBitIndex", "DecodeSource_PrimaryAddressMode", "ReadSource",
      "DecodeDestination_SecondaryAddressMode", "Action_MOVE", "WriteDestination",
      "Carry_Clear", "Overflow_Clear", "Zero_SetIfZeroClearOtherwise",
      "Negative_SetIfNegativeClearOtherwise">>]

CasesFrom_MOVE_FROM_SR ==
  [MOVE_FROM_SR |-> <<"SetSize_Word", "SetMSBBitIndex", "DecodeSource_StatusRegister",
      "ReadSource", "DecodeDestination_PrimaryAddressMode", "Action_MOVE", "WriteDestination">>,
   MOVE_TO_CCR |-> <<"SetSize_Word", "SetMSBBitIndex", "DecodeSource_PrimaryAddressMode",
      "ReadSource", "DecodeDestination_ConditionCodeRegister", "Action_MOVE",
      "WriteDestination">>,
   MOVE_TO_SR |-> <<"SupervisorCheck", "SetSize_Word", "SetMSBBitIndex",
      "DecodeSource_PrimaryAddressMode", "ReadSource", "DecodeDestination_StatusRegister",
      "Action_MOVE", "WriteDestination">>,
   MOVE_USP |-> <<"SupervisorCheck", "Action_MOVE_USP">>]

CasesFrom_MOVEA ==
  [MOVEA |-> <<"SetSize_Move", "SetMSBBitIndex", "DecodeSource_PrimaryAddressMode",
      "ReadSource", "DecodeDestination_AddressRegisterSecondaryFull", "Action_MOVEA",
      "WriteDestination">>,
   MOVEM |-> <<"SetSize_Word", "SetMSBBitIndex", "DecodeSource_ImmediateData", "ReadSource",
      "DecodeDestination_MOVEM", "ReadDestination", "Action_MOVEM">>,
   MOVEP |-> <<"DecodeDestination_MOVEP", "ReadDestination", "Action_MOVEP">>,
   MOVEQ |-> <<"SetSize_Longword", "SetMSBBitIndex", "DecodeDestination_DataRegisterSecondary",
      "Action_MOVEQ", "WriteDestination", "Carry_Clear", "Overflow_Clear",
      "Zero_SetIfZeroClearOtherwise", "Negative_SetIfNegativeClearOtherwise">>]

CasesFrom_MULS ==
  [MULS |-> <<"SetSize_Longword", "SetMSBBitIndex", "DecodeSource_PrimaryAddressModeWord",
      "ReadSource", "DecodeDestination_DataRegisterSecondary", "ReadDestination", "Action_MULS",
      "WriteDestination", "Carry_Clear", "Overflow_Clear", "Zero_SetIfZeroClearOtherwise",
      "Negative_SetIfNegativeClearOtherwise">>,
   MULU |-> <<"SetSize_Longword", "SetMSBBitIndex", "DecodeSource_PrimaryAddressModeWord",
      "ReadSource", "DecodeDestination_DataRegisterSecondary", "ReadDestination", "Action_MULU",
      "WriteDestination", "Carry_Clear", "Overflow_Clear", "Zero_SetIfZeroClearOtherwise",
      "Negative_SetIfNegativeClearOtherwise">>,
   NBCD |-> <<"SetSize_Byte", "SetMSBBitIndex", "DecodeDestination_PrimaryAddressMode",
      "ReadDestination", "Action_NBCD", "WriteDestination", "Overflow_SUB",
      "Zero_ClearIfNonZeroUnaffectedOtherwise", "Negative_SetIfNegativeClearOtherwise",
      "Extend_SetToCarry">>,
   NEG |-> <<"SetSize_Standard", "SetMSBBitIndex", "DecodeDestination_PrimaryAddressMode",
      "ReadDestination", "Action_NEG", "WriteDestination", "Carry_NEG", "Overflow_NEG",
      "Zero_SetIfZeroClearOtherwise", "Negative_SetIfNegativeClearOtherwise",
      "Extend_SetToCarry">>]

CasesFrom_NEGX ==
  [NEGX |-> <<"SetSize_Standard", "SetMSBBitIndex", "DecodeDestination_PrimaryAddressMode",
      "ReadDestination", "Action_NEGX", "WriteDestination", "Carry_NEG", "Overflow_NEG",
      "Zero_ClearIfNonZeroUnaffectedOtherwise", "Negative_SetIfNegativeClearOtherwise",
      "Extend_SetToCarry">>,
   NOP |-> <<"Action_NOP">>,
   NOT |-> <<"SetSize_Standard", "SetMSBBitIndex", "DecodeDestination_PrimaryAddressMode",
      "ReadDestination", "Action_NOT", "WriteDestination", "Carry_Clear", "Overflow_Clear",
      "Zero_SetIfZeroClearOtherwise", "Negative_SetIfNegativeClearOtherwise">>,
   OR |-> <<"SetSize_Standard", "SetMSBBitIndex",
      "DecodeSource_DataRegisterSecondaryOrPrimaryAddressMode", "ReadSource",
      "DecodeDestination_DataRegisterSecondaryOrPrimaryAddressMode", "ReadDestination",
      "Action_OR", "WriteDestination", "Carry_Clear", "Overflow_Clear",
      "Zero_SetIfZeroClearOtherwise", "Negative_SetIfNegativeClearOtherwise">>]

CasesFrom_ORI ==
  [ORI |-> <<"SetSize_Standard", "SetMSBBitIndex", "DecodeSource_ImmediateData", "ReadSource",
      "DecodeDestination_PrimaryAddressMode", "ReadDestination", "Action_OR",
      "WriteDestination", "Carry_Clear", "Overflow_Clear", "Zero_SetIfZeroClearOtherwise",
      "Negative_SetIfNegativeClearOtherwise">>,
   ORI_TO_CCR |-> <<"SetSize_Byte", "SetMSBBitIndex", "DecodeSource_ImmediateData",
      "ReadSource", "DecodeDestination_ConditionCodeRegister", "ReadDestination", "Action_OR",
      "WriteDestination">>,
   ORI_TO_SR |-> <<"SupervisorCheck", "SetSize_Word", "SetMSBBitIndex",
      "DecodeSource_ImmediateData", "ReadSource", "DecodeDestination_StatusRegister",
      "ReadDestination", "Action_OR", "WriteDestination">>,
   PEA |-> <<"DecodeSource_MemoryAddressPrimary", "ReadSource", "Action_PEA">>]

CasesFrom_RESET ==
  [RESET |-> <<"SupervisorCheck", "Action_RESET">>,
   ROD_MEMORY |-> <<"SetSize_Word", "SetMSBBitIndex", "DecodeDestination_PrimaryAddressMode",
      "ReadDestination", "Action_ROD_MEMORY", "WriteDestination",
      "Zero_SetIfZeroClearOtherwise", "Negative_SetIfNegativeClearOtherwise">>,
   ROD_REGISTER |-> <<"SetSize_Standard", "SetMSBBitIndex",
      "DecodeDestination_DataRegisterPrimary", "ReadDestination", "Action_ROD_REGISTER",
      "WriteDestination", "Zero_SetIfZeroClearOtherwise",
      "Negative_SetIfNegativeClearOtherwise">>,
   ROXD_MEMORY |-> <<"SetSize_Word", "SetMSBBitIndex", "DecodeDestination_PrimaryAddressMode",
      "ReadDestination", "Action_ROXD_MEMORY", "WriteDestination",
      "Zero_SetIfZeroClearOtherwise", "Negative_SetIfNegativeClearOtherwise">>,
   ROXD_REGISTER |-> <<"SetSize_Standard", "SetMSBBitIndex",
      "DecodeDestination_DataRegisterPrimary", "ReadDestination", "Action_ROXD_REGISTER",
      "WriteDestination", "Zero_SetIfZeroClearOtherwise",
      "Negative_SetIfNegativeClearOtherwise">>]

CasesFrom_RTE ==
  [RTE |-> <<"SupervisorCheck", "Action_RTE">>,
   RTR |-> <<"Action_RTR">>,
   RTS |-> <<"Action_RTS">>,
   SBCD |-> <<"SetSize_Byte", "SetMSBBitIndex", "DecodeSource_BCDX", "ReadSource",
      "DecodeDestination_BCDX", "ReadDestination", "Action_SBCD", "WriteDestination",
      "Overflow_SUB", "Zero_ClearIfNonZeroUnaffectedOtherwise",
      "Negative_SetIfNegativeClearOtherwise", "Extend_SetToCarry">>,
   SCC |-> <<"SetSize_Byte", "SetMSBBitIndex", "DecodeDestination_PrimaryAddressMode",
      "ReadDestination", "Action_SCC", "WriteDestination">>]

CasesFrom_STOP ==
  [STOP |-> <<"SupervisorCheck", "SetSize_Word", "SetMSBBitIndex", "DecodeSource_ImmediateData",
      "ReadSource", "Action_STOP">>,
   SUB |-> <<"SetSize_Standard", "SetMSBBitIndex",
      "DecodeSource_DataRegisterSecondaryOrPrimaryAddressMode", "ReadSource",
      "DecodeDestination_DataRegisterSecondaryOrPrimaryAddressMode", "ReadDestination",
      "Action_SUB", "WriteDestination", "Carry_StandardBorrow", "Overflow_SUB",
      "Zero_SetIfZeroClearOtherwise", "Negative_SetIfNegativeClearOtherwise",
      "Extend_SetToCarry">>,
   SUBA |-> <<"SetSize_Longword", "SetMSBBitIndex", "DecodeSource_PrimaryAddressModeSized",
      "ReadSource", "DecodeDestination_AddressRegisterSecondary", "ReadDestination",
      "Action_SUBA", "WriteDestination">>,
   SUBAQ |-> <<"SetSize_Longword", "SetMSBBitIndex", "DecodeDestination_PrimaryAddressMode",
      "ReadDestination", "Action_SUBQ", "WriteDestination">>]

CasesFrom_SUBI ==
  [SUBI |-> <<"SetSize_Standard", "SetMSBBitIndex", "DecodeSource_ImmediateData", "ReadSource",
      "DecodeDestination_PrimaryAddressMode", "ReadDestination", "Action_SUB",
      "WriteDestination", "Carry_StandardBorrow", "Overflow_SUB",
      "Zero_SetIfZeroClearOtherwise", "Negative_SetIfNegativeClearOtherwise",
      "Extend_SetToCarry">>,
   SUBQ |-> <<"SetSize_Standard", "SetMSBBitIndex", "DecodeDestination_PrimaryAddressMode",
      "ReadDestination", "Action_SUBQ", "WriteDestination", "Carry_StandardBorrow",
      "Overflow_SUB", "Zero_SetIfZeroClearOtherwise", "Negative_SetIfNegativeClearOtherwise",
      "Extend_SetToCarry">>,
   SUBX |-> <<"SetSize_Standard", "SetMSBBitIndex", "DecodeSource_BCDX", "ReadSource",
      "DecodeDestination_BCDX", "ReadDestination", "Action_SUBX", "WriteDestination",
      "Carry_StandardBorrow", "Overflow_SUB", "Zero_ClearIfNonZeroUnaffectedOtherwise",
      "Negative_SetIfNegativeClearOtherwise", "Extend_SetToCarry">>,
   SWAP |-> <<"SetSize_Longword", "SetMSBBitIndex", "DecodeDestination_DataRegisterPrimary",
      "ReadDestination", "Action_SWAP", "WriteDestination", "Carry_Clear", "Overflow_Clear",
      "Zero_SetIfZeroClearOtherwise", "Negative_SetIfNegativeClearOtherwise">>]

CasesFrom_TAS ==
  [TAS |-> <<"SetSize_Byte", "SetMSBBitIndex", "DecodeDestination_PrimaryAddressMode",
      "ReadDestination", "Action_TAS", "WriteDestination", "Carry_Clear", "Overflow_Clear">>,
   TRAP |-> <<"Action_TRAP">>,
   TRAPV |-> <<"Action_TRAPV">>,
   TST |-> <<"SetSize_Standard", "SetMSBBitIndex", "DecodeSource_PrimaryAddressMode",
      "ReadSource", "Action_TST", "Carry_Clear", "Overflow_Clear",
      "Zero_SetIfZeroClearOtherwise", "Negative_SetIfNegativeClearOtherwise">>,
   UNLK |-> <<"Action_UNLK">>,
   UNIMPLEMENTED_1 |-> <<"Action_UNIMPLEMENTED_1">>]

CasesFrom_UNIMPLEMENTED_2 ==
  [UNIMPLEMENTED_2 |-> <<"Action_UNIMPLEMENTED_2">>]

(* The cases of the file, by their labels. *)
MicrocodeCases ==
  CasesFrom_ABCD @@ CasesFrom_ADDI @@ CasesFrom_ANDI @@ CasesFrom_ASD_REGISTER @@
    CasesFrom_BCHG_STATIC @@ CasesFrom_BRA_WORD @@ CasesFrom_BTST_DYNAMIC @@ CasesFrom_CMP @@
    CasesFrom_DBCC @@ CasesFrom_EORI @@ CasesFrom_EXT @@ CasesFrom_LINK @@
    CasesFrom_MOVE_FROM_SR @@ CasesFrom_MOVEA @@ CasesFrom_MULS @@ CasesFrom_NEGX @@
    CasesFrom_ORI @@ CasesFrom_RESET @@ CasesFrom_RTE @@ CasesFrom_STOP @@ CasesFrom_SUBI @@
    CasesFrom_TAS @@ CasesFrom_UNIMPLEMENTED_2

==============================================================================
