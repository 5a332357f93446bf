------------------------ MODULE InstructionProperties ------------------------
(***************************************************************************)
(* The tables of microcode-generator/instruction-properties.c: for each    *)
(* instruction, what it operates on and what it does to the condition      *)
(* codes.  The generator turns them into the microcode, one case per       *)
(* instruction.                                                            *)
(***************************************************************************)

(* Instructions that differ in their operands only share an action. *)
GetAction(i) ==
  CASE i \in {"OR", "ORI", "ORI_TO_CCR", "ORI_TO_SR"} -> "OR"
    [] i \in {"AND", "ANDI", "ANDI_TO_CCR", "ANDI_TO_SR"} -> "AND"
    [] i \in {"SUBAQ", "SUBQ"} -> "SUBQ"
    [] i \in {"SUB", "SUBI"} -> "SUB"
    [] i \in {"ADDAQ", "ADDQ"} -> "ADDQ"
    [] i \in {"ADD", "ADDI"} -> "ADD"
    [] i \in {"EOR", "EORI", "EORI_TO_CCR", "EORI_TO_SR"} -> "EOR"
    [] i \in {"BCHG_DYNAMIC", "BCHG_STATIC"} -> "BCHG"
    [] i \in {"BCLR_DYNAMIC", "BCLR_STATIC"} -> "BCLR"
    [] i \in {"BSET_DYNAMIC", "BSET_STATIC"} -> "BSET"
    [] i \in {"BTST_DYNAMIC", "BTST_STATIC"} -> "BTST"
    [] i \in {"MOVE", "MOVE_FROM_SR", "MOVE_TO_CCR", "MOVE_TO_SR"} -> "MOVE"
    [] OTHER -> i

(* The source operand is decoded and read. *)
IsSourceOperandRead(i) ==
  i \notin {"ADDAQ", "SUBAQ", "ADDQ", "SUBQ", "TRAP", "BRA_SHORT",
            "BSR_SHORT", "BCC_SHORT", "MOVEP", "NEGX", "CLR", "NEG", "NOT",
            "EXT", "NBCD", "SWAP", "ILLEGAL", "TAS", "UNLK", "MOVE_USP",
            "RESET", "NOP", "RTE", "RTS", "TRAPV", "RTR", "SCC", "MOVEQ",
            "EXG", "ASD_MEMORY", "LSD_MEMORY", "ROXD_MEMORY", "ROD_MEMORY",
            "ASD_REGISTER", "LSD_REGISTER", "ROXD_REGISTER", "ROD_REGISTER",
            "UNIMPLEMENTED_1", "UNIMPLEMENTED_2"}

NoDestination ==
  {"BRA_SHORT", "BRA_WORD", "BSR_SHORT", "BSR_WORD", "BCC_SHORT", "BCC_WORD",
   "CHK", "DBCC", "EXG", "ILLEGAL", "JMP", "JSR", "LINK", "MOVE_USP", "NOP",
   "PEA", "RESET", "RTE", "RTR", "RTS", "STOP", "TRAP", "TRAPV", "TST", "UNLK",
   "UNIMPLEMENTED_1", "UNIMPLEMENTED_2"}

WrittenOnly ==
  {"LEA", "MOVE", "MOVE_FROM_SR", "MOVE_TO_CCR", "MOVE_TO_SR", "MOVEA", "MOVEQ"}

ReadOnly ==
  {"BTST_STATIC", "BTST_DYNAMIC", "CMP", "CMPA", "CMPI", "CMPM", "MOVEM", "MOVEP"}

(* Mutant: NBCD listed with the instructions that only write. *)
DestinationOfNBCDNotRead(i) == i \notin NoDestination \cup WrittenOnly \cup {"NBCD"}

(* The destination operand is decoded and read. *)
IsDestinationOperandRead(i) == i \notin NoDestination \cup WrittenOnly

(* Mutant: MOVEM not listed with the instructions that only read. *)
DestinationOfMOVEMWritten(i) == i \notin NoDestination \cup (ReadOnly \ {"MOVEM"})

(* The destination operand is decoded, and written after the action. *)
IsDestinationOperandWritten(i) == i \notin NoDestination \cup ReadOnly

(* How the size of the operation is found. *)
GetSize(i) ==
  CASE i \in {"ORI_TO_CCR", "ANDI_TO_CCR", "EORI_TO_CCR", "NBCD", "TAS",
              "SCC", "SBCD", "ABCD"} -> "byte"
    [] i \in {"ORI_TO_SR", "ANDI_TO_SR", "EORI_TO_SR", "MOVE_FROM_SR",
              "MOVE_TO_SR", "MOVE_TO_CCR", "LINK", "MOVEM", "CHK", "DBCC",
              "ASD_MEMORY", "LSD_MEMORY", "ROXD_MEMORY", "ROD_MEMORY",
              "STOP"} -> "word"
    [] i \in {"ADDAQ", "SUBAQ", "SWAP", "LEA", "MOVEQ", "DIVU", "DIVS",
              "MULU", "MULS", "SUBA", "CMPA", "ADDA"} -> "longword"
    [] i \in {"BTST_STATIC", "BCHG_STATIC", "BCLR_STATIC", "BSET_STATIC",
              "BTST_DYNAMIC", "BCHG_DYNAMIC", "BCLR_DYNAMIC", "BSET_DYNAMIC"} -> "longword_register_byte_memory"
    [] i \in {"MOVEA", "MOVE"} -> "move"
    [] i \in {"EXT"} -> "ext"
    [] i \in {"ORI", "ANDI", "SUBI", "ADDI", "EORI", "CMPI", "NEGX", "CLR",
              "NEG", "NOT", "TST", "OR", "SUB", "SUBX", "EOR", "CMPM",
              "CMP", "AND", "ADD", "ADDQ", "SUBQ", "ADDX", "ASD_REGISTER",
              "LSD_REGISTER", "ROXD_REGISTER", "ROD_REGISTER"} -> "standard"
    [] OTHER -> "none"

(* How the source operand is addressed. *)
GetSourceOperand(i) ==
  CASE i \in {"ORI_TO_CCR", "ORI_TO_SR", "ORI", "ANDI_TO_CCR", "ANDI_TO_SR",
              "ANDI", "SUBI", "ADDI", "EORI_TO_CCR", "EORI_TO_SR", "EORI",
              "CMPI", "LINK", "MOVEM", "DBCC", "STOP"} -> "immediate_data"
    [] i \in {"BTST_DYNAMIC", "BCHG_DYNAMIC", "BCLR_DYNAMIC",
              "BSET_DYNAMIC", "EOR"} -> "data_register_secondary"
    [] i \in {"BTST_STATIC", "BCHG_STATIC", "BCLR_STATIC", "BSET_STATIC"} -> "immediate_data_byte"
    [] i \in {"PEA", "JSR", "JMP", "LEA"} -> "memory_address_primary"
    [] i \in {"MOVE_FROM_SR"} -> "status_register"
    [] i \in {"BRA_WORD", "BSR_WORD", "BCC_WORD"} -> "immediate_data_word"
    [] i \in {"SBCD", "ABCD", "SUBX", "ADDX"} -> "bcd_x"
    [] i \in {"OR", "SUB", "AND", "ADD"} -> "data_register_secondary_or_primary_address_mode"
    [] i \in {"SUBA", "CMPA", "ADDA"} -> "primary_address_mode_sized"
    [] i \in {"CMPM"} -> "address_register_primary_postincrement"
    [] i \in {"MOVEA", "MOVE", "MOVE_TO_CCR", "MOVE_TO_SR", "CHK", "CMP",
              "TST"} -> "primary_address_mode"
    [] i \in {"DIVU", "DIVS", "MULU", "MULS"} -> "primary_address_mode_word"
    [] OTHER -> "none"

(* How the destination operand is addressed. *)
GetDestinationOperand(i) ==
  CASE i \in {"EXT", "SWAP", "ASD_REGISTER", "LSD_REGISTER",
              "ROXD_REGISTER", "ROD_REGISTER"} -> "data_register_primary"
    [] i \in {"MOVEQ", "CMP", "DIVU", "DIVS", "MULU", "MULS"} -> "data_register_secondary"
    [] i \in {"LEA", "SUBA", "CMPA", "ADDA"} -> "address_register_secondary"
    [] i \in {"MOVE"} -> "secondary_address_mode"
    [] i \in {"SBCD", "SUBX", "ABCD", "ADDX"} -> "bcd_x"
    [] i \in {"OR", "SUB", "AND", "ADD"} -> "data_register_secondary_or_primary_address_mode"
    [] i \in {"MOVEA"} -> "address_register_secondary_full"
    [] i \in {"CMPM"} -> "address_register_secondary_postincrement"
    [] i \in {"ORI", "ANDI", "SUBI", "ADDI", "EORI", "CMPI", "BTST_STATIC",
              "BCHG_STATIC", "BCLR_STATIC", "BSET_STATIC", "BTST_DYNAMIC",
              "BCHG_DYNAMIC", "BCLR_DYNAMIC", "BSET_DYNAMIC", "NEGX", "NEG",
              "NOT", "NBCD", "TAS", "MOVE_FROM_SR", "CLR", "ADDAQ", "SUBAQ",
              "ADDQ", "SUBQ", "SCC", "EOR", "ASD_MEMORY", "LSD_MEMORY",
              "ROXD_MEMORY", "ROD_MEMORY"} -> "primary_address_mode"
    [] i \in {"ORI_TO_CCR", "ANDI_TO_CCR", "EORI_TO_CCR", "MOVE_TO_CCR"} -> "condition_code_register"
    [] i \in {"ORI_TO_SR", "ANDI_TO_SR", "EORI_TO_SR", "MOVE_TO_SR"} -> "status_register"
    [] i \in {"MOVEM"} -> "movem"
    [] i \in {"MOVEP"} -> "movep"
    [] OTHER -> "none"

(* What becomes of each condition code after the write. *)
GetCarryModifier(i) ==
  CASE i \in {"ADDQ", "ADD", "ADDI", "ADDX"} -> "standard_carry"
    [] i \in {"SUBQ", "CMP", "CMPA", "CMPI", "CMPM", "SUB", "SUBI", "SUBX"} -> "standard_borrow"
    [] i \in {"NEG", "NEGX"} -> "neg"
    [] i \in {"AND", "ANDI", "EOR", "EORI", "MOVEQ", "MOVE", "OR", "ORI",
              "CLR", "EXT", "NOT", "TAS", "TST", "DIVS", "DIVU", "MULS",
              "MULU", "SWAP"} -> "clear"
    [] i \in {"CHK"} -> "undefined"
    [] OTHER -> "unaffected"

GetOverflowModifier(i) ==
  CASE i \in {"ABCD", "ADDQ", "ADD", "ADDI", "ADDX"} -> "add"
    [] i \in {"SUBQ", "CMP", "CMPA", "CMPI", "CMPM", "NBCD", "SBCD", "SUB",
              "SUBI", "SUBX"} -> "sub"
    [] i \in {"NEG", "NEGX"} -> "neg"
    [] i \in {"AND", "ANDI", "CLR", "EOR", "EORI", "EXT", "MOVE", "MOVEQ",
              "MULS", "MULU", "NOT", "OR", "ORI", "SWAP", "TAS", "TST"} -> "cleared"
    [] i \in {"CHK"} -> "undefined"
    [] OTHER -> "unaffected"

GetZeroModifier(i) ==
  CASE i \in {"ABCD", "ADDX", "NBCD", "NEGX", "SBCD", "SUBX"} -> "clear_if_nonzero_unaffected_otherwise"
    [] i \in {"ADDQ", "SUBQ", "ADD", "ADDI", "AND", "ANDI", "ASD_REGISTER",
              "ASD_MEMORY", "CLR", "CMP", "CMPA", "CMPI", "CMPM", "EOR",
              "EORI", "EXT", "LSD_REGISTER", "LSD_MEMORY", "MOVE", "MOVEQ",
              "MULS", "MULU", "NEG", "NOT", "OR", "ORI", "ROD_REGISTER",
              "ROD_MEMORY", "ROXD_REGISTER", "ROXD_MEMORY", "SUB", "SUBI",
              "SWAP", "TST"} -> "set_if_zero_clear_otherwise"
    [] i \in {"CHK"} -> "undefined"
    [] OTHER -> "unaffected"

GetNegativeModifier(i) ==
  CASE i \in {"ABCD", "NBCD", "SBCD", "ADDQ", "SUBQ", "ADD", "ADDI", "ADDX",
              "AND", "ANDI", "ASD_REGISTER", "ASD_MEMORY", "CLR", "CMP",
              "CMPA", "CMPI", "CMPM", "EOR", "EORI", "EXT", "LSD_REGISTER",
              "LSD_MEMORY", "MOVE", "MOVEQ", "MULS", "MULU", "NEG", "NEGX",
              "NOT", "OR", "ORI", "ROD_REGISTER", "ROD_MEMORY",
              "ROXD_REGISTER", "ROXD_MEMORY", "SUB", "SUBI", "SUBX", "SWAP",
              "TST"} -> "set_if_negative_clear_otherwise"
    [] OTHER -> "unaffected"

GetExtendModifier(i) ==
  CASE i \in {"ADDQ", "SUBQ", "ABCD", "ADD", "ADDI", "ADDX", "NBCD", "NEG",
              "NEGX", "SBCD", "SUB", "SUBI", "SUBX"} -> "set_to_carry"
    [] OTHER -> "unaffected"

(* Mutant: STOP and MOVE_USP for everyone. *)
IsPrivilegedStatusRegister(i) ==
  i \in {"ANDI_TO_SR", "EORI_TO_SR", "MOVE_TO_SR", "ORI_TO_SR", "RESET", "RTE"}

(* Supervisor mode only. *)
IsPrivileged(i) ==
  i \in {"ANDI_TO_SR", "EORI_TO_SR", "MOVE_TO_SR", "MOVE_USP", "ORI_TO_SR",
         "RESET", "RTE", "STOP"}
==============================================================================
