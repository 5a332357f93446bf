---------------------------- MODULE Disassembler ----------------------------
(***************************************************************************)
(* Clown68000_Disassemble: a reading position, and one line printed for    *)
(* each instruction.  disassembler/opcode.c has tables of its own for the  *)
(* size and the operands of an instruction, and GetOperandName reads the   *)
(* words of an operand when it prints it.  How long a line is matters to   *)
(* the buffer it is put in; the text itself does not.                      *)
(*                                                                         *)
(* The words read are not kept: the reader gives any opcode, or the end.   *)
(***************************************************************************)
EXTENDS OperandLayout

CONSTANTS
  Opcodes,           \* the opcodes read
  max_instructions   \* the argument

ASSUME OpcodesAssumption == Opcodes \subseteq AllOpcodes
ASSUME MaxAssumption == max_instructions \in Nat \ {0}

VARIABLES
  position,   \* stuff.address, from the address the listing starts at
  lines,      \* the loop's i: lines printed
  line,       \* the line in the making
  phase       \* "opcode", "source", "destination", "print" or "returned"

vars == <<position, lines, line, phase>>

(***************************************************************************)
(* The size and the operands of an instruction.                            *)
(***************************************************************************)

DisassembledSize(o, i) ==
  CASE i \in {"ORI_TO_CCR", "ANDI_TO_CCR", "EORI_TO_CCR", "NBCD", "TAS", "SCC", "SBCD",
              "ABCD"} -> "byte"
    [] i \in {"ORI_TO_SR", "ANDI_TO_SR", "EORI_TO_SR", "MOVE_FROM_SR", "MOVE_TO_SR",
              "MOVE_TO_CCR", "LINK", "CHK", "DBCC", "ASD_MEMORY", "LSD_MEMORY",
              "ROXD_MEMORY", "ROD_MEMORY", "STOP", "BRA_WORD", "BSR_WORD", "BCC_WORD",
              "DIVU", "DIVS", "MULU", "MULS"} -> "word"
    [] i \in {"ADDAQ", "SUBAQ", "SWAP", "LEA", "MOVEQ", "MOVE_USP"} -> "longword"
    [] i \in {"SUBA", "CMPA", "ADDA"} -> IF o.bit_8 THEN "longword" ELSE "word"
    [] i \in {"BTST_STATIC", "BCHG_STATIC", "BCLR_STATIC", "BSET_STATIC", "BTST_DYNAMIC",
              "BCHG_DYNAMIC", "BCLR_DYNAMIC", "BSET_DYNAMIC"} ->
         IF o.primary_address_mode = 0 THEN "longword" ELSE "byte"
    [] i \in {"MOVEA", "MOVE"} -> <<"byte", "longword", "word">>[Bits(o.raw, 12, 2)]
    [] i = "EXT" -> IF Bits(o.raw, 6, 1) = 1 THEN "longword" ELSE "word"
    [] i \in {"ORI", "ANDI", "SUBI", "ADDI", "EORI", "CMPI", "NEGX", "CLR", "NEG", "NOT", "TST",
              "OR", "SUB", "SUBX", "EOR", "CMPM", "CMP", "AND", "ADD", "ADDQ", "SUBQ", "ADDX",
              "ASD_REGISTER", "LSD_REGISTER", "ROXD_REGISTER", "ROD_REGISTER"} ->
         <<"byte", "word", "longword", "none">>[o.bits_6_and_7 + 1]
    [] i \in {"BRA_SHORT", "BSR_SHORT", "BCC_SHORT"} -> "short"
    [] i \in {"MOVEP", "MOVEM"} -> IF Bits(o.raw, 6, 1) = 1 THEN "longword" ELSE "word"
    [] OTHER -> "none"

(* The special mode has three registers the 68000 has not. *)
Shown(mode, register, size) ==
  Operand(IF mode = 7 /\ register >= 5
          THEN <<"branch", "register_list", "register_list_reversed">>[register - 4]
          ELSE EffectiveAddress(mode, register),
          register, size)

(* Mutant: the register field of the secondary operand. *)
ShownPrimaryWrongRegister(o, size) == Shown(o.primary_address_mode, o.secondary_register, size)

ShownPrimary(o, size) == Shown(o.primary_address_mode, o.primary_register, size)

DataRegister(register, size) == Operand("data_register", register, size)

AddressRegister(register, size) == Operand("address_register", register, size)

PairOperand(o, register, size) == Operand(PairAddress(o), register, size)

MovesToRegisters(o) == Bits(o.raw, 10, 1) = 1

GetSourceOperandShown(o, i, size) ==
  CASE i \in {"ORI_TO_CCR", "ORI_TO_SR", "ORI", "ANDI_TO_CCR", "ANDI_TO_SR", "ANDI", "SUBI",
              "ADDI", "EORI_TO_CCR", "EORI_TO_SR", "EORI", "CMPI", "LINK", "STOP"} ->
         Shown(7, 4, size)
    [] i \in {"BTST_DYNAMIC", "BCHG_DYNAMIC", "BCLR_DYNAMIC", "BSET_DYNAMIC", "EOR"} ->
         DataRegister(o.secondary_register, size)
    [] i \in {"BTST_STATIC", "BCHG_STATIC", "BCLR_STATIC", "BSET_STATIC"} -> Shown(7, 4, "byte")
    [] i \in {"PEA", "JSR", "JMP", "LEA"} -> ShownPrimary(o, "none")
    [] i = "MOVE_FROM_SR" -> Operand("status_register", 0, "none")
    [] i \in {"BRA_WORD", "BSR_WORD", "BCC_WORD"} -> Shown(7, 5, "word")
    [] i \in {"SBCD", "ABCD", "SUBX", "ADDX"} -> PairOperand(o, o.primary_register, size)
    [] i \in {"OR", "SUB", "AND", "ADD"} ->
         IF o.bit_8 THEN DataRegister(o.secondary_register, size) ELSE ShownPrimary(o, size)
    [] i = "CMPM" -> Operand("postincrement", o.primary_register, size)
    [] i \in {"MOVEA", "MOVE", "MOVE_TO_CCR", "MOVE_TO_SR", "CHK", "CMP", "TST", "SUBA", "CMPA",
              "ADDA"} -> ShownPrimary(o, size)
    [] i \in {"DIVU", "DIVS", "MULU", "MULS"} -> ShownPrimary(o, "word")
    [] i \in {"BRA_SHORT", "BSR_SHORT", "BCC_SHORT"} -> Operand("embedded_address", 0, "byte")
    [] i = "MOVEQ" -> Operand("embedded", 0, "byte")
    [] i \in {"TRAP", "ADDAQ", "SUBAQ", "ADDQ", "SUBQ", "ASD_REGISTER", "LSD_REGISTER",
              "ROXD_REGISTER", "ROD_REGISTER"} -> Operand("embedded", 0, "word")
    [] i = "DBCC" -> DataRegister(o.primary_register, "word")
    [] i = "MOVE_USP" ->
         IF Bits(o.raw, 3, 1) = 1 THEN Operand("user_stack_pointer", 0, "longword")
         ELSE AddressRegister(o.primary_register, "longword")
    [] i = "MOVEP" ->
         IF Bits(o.raw, 7, 1) = 1 THEN DataRegister(o.secondary_register, "none")
         ELSE Operand("displacement", o.primary_register, "none")
    [] i = "MOVEM" /\ MovesToRegisters(o) -> ShownPrimary(o, "none")
    [] i = "MOVEM" /\ ~MovesToRegisters(o) ->
         Shown(7, IF Primary(o) = "predecrement" THEN 7 ELSE 6, "word")
    [] OTHER -> Operand("none", 0, "none")

GetDestinationOperandShown(o, i, size) ==
  CASE i \in {"EXT", "SWAP", "ASD_REGISTER", "LSD_REGISTER", "ROXD_REGISTER", "ROD_REGISTER"} ->
         DataRegister(o.primary_register, size)
    [] i \in {"MOVEQ", "CMP"} -> DataRegister(o.secondary_register, size)
    [] i \in {"DIVU", "DIVS", "MULU", "MULS"} -> DataRegister(o.secondary_register, "longword")
    [] i = "MOVE" -> Shown(o.secondary_address_mode, o.secondary_register, size)
    [] i \in {"SBCD", "SUBX", "ABCD", "ADDX"} -> PairOperand(o, o.secondary_register, size)
    [] i \in {"OR", "SUB", "AND", "ADD"} ->
         IF o.bit_8 THEN ShownPrimary(o, size) ELSE DataRegister(o.secondary_register, size)
    [] i \in {"LEA", "SUBA", "CMPA", "ADDA", "MOVEA"} ->
         AddressRegister(o.secondary_register, "longword")
    [] i = "CMPM" -> Operand("postincrement", o.secondary_register, size)
    [] i \in {"ORI", "ANDI", "SUBI", "ADDI", "EORI", "CMPI", "BTST_STATIC", "BCHG_STATIC",
              "BCLR_STATIC", "BSET_STATIC", "BTST_DYNAMIC", "BCHG_DYNAMIC", "BCLR_DYNAMIC",
              "BSET_DYNAMIC", "NEGX", "NEG", "NOT", "NBCD", "TAS", "MOVE_FROM_SR", "CLR",
              "ADDAQ", "SUBAQ", "ADDQ", "SUBQ", "SCC", "EOR", "ASD_MEMORY", "LSD_MEMORY",
              "ROXD_MEMORY", "ROD_MEMORY"} -> ShownPrimary(o, size)
    [] i \in {"ORI_TO_CCR", "ANDI_TO_CCR", "EORI_TO_CCR", "MOVE_TO_CCR"} ->
         Operand("condition_code_register", 0, "none")
    [] i \in {"ORI_TO_SR", "ANDI_TO_SR", "EORI_TO_SR", "MOVE_TO_SR"} ->
         Operand("status_register", 0, "none")
    [] i = "MOVEM" ->
         IF MovesToRegisters(o) THEN Shown(7, 6, "word") ELSE ShownPrimary(o, "none")
    [] i = "MOVEP" ->
         IF Bits(o.raw, 7, 1) = 1 THEN Operand("displacement", o.primary_register, "none")
         ELSE DataRegister(o.secondary_register, "none")
    [] i = "DBCC" -> Shown(7, 5, size)
    [] i = "MOVE_USP" ->
         IF Bits(o.raw, 3, 1) = 1 THEN AddressRegister(o.primary_register, "longword")
         ELSE Operand("user_stack_pointer", 0, "longword")
    [] OTHER -> Operand("none", 0, "none")

Decoded(raw) ==
  LET o    == SplitOpcode(raw)
      i    == GetInstruction(o)
      size == DisassembledSize(o, i)
  IN  [opcode      |-> o,
       instruction |-> i,
       size        |-> size,
       operands    |-> [source      |-> GetSourceOperandShown(o, i, size),
                        destination |-> GetDestinationOperandShown(o, i, size)]]

(***************************************************************************)
(* The length of a line, at most.                                          *)
(***************************************************************************)

(* Mutant: a shorter buffer. *)
BufferSizeHalved == 64

BufferSize     == 128   \* string_buffer
AddressLength  == 10    \* "%08lX: "
OperandsColumn == 18

NameLength(i) ==
  CASE i \in {"BCC_SHORT", "BCC_WORD", "SCC"} -> 1
    [] i \in {"ASD_MEMORY", "ASD_REGISTER", "DBCC", "LSD_MEMORY", "LSD_REGISTER", "OR",
              "ROD_MEMORY", "ROD_REGISTER"} -> 2
    [] i \in {"ADD", "AND", "BRA_SHORT", "BRA_WORD", "BSR_SHORT", "BSR_WORD", "CHK", "CLR", "CMP",
              "EOR", "EXG", "EXT", "JMP", "JSR", "LEA", "NEG", "NOP", "NOT", "ORI", "ORI_TO_CCR",
              "ORI_TO_SR", "PEA", "ROXD_MEMORY", "ROXD_REGISTER", "RTE", "RTR", "RTS", "SUB",
              "TAS", "TST"} -> 3
    [] i \in {"MOVEA", "MOVEM", "MOVEP", "MOVEQ", "RESET", "TRAPV"} -> 5
    [] i = "ILLEGAL" -> 7
    [] i \in {"UNIMPLEMENTED_1", "UNIMPLEMENTED_2"} -> 25
    [] OTHER -> 4

(* The names of conditions 0 and 1 are one letter, those of the others two. *)
ConditionLength(o) == IF Bits(o.raw, 8, 4) < 2 THEN 1 ELSE 2

SuffixLength(o, i) ==
  CASE i \in {"BCC_SHORT", "BCC_WORD", "DBCC", "SCC"} -> ConditionLength(o)
    [] i \in {"ASD_MEMORY", "ASD_REGISTER", "LSD_MEMORY", "LSD_REGISTER", "ROD_MEMORY",
              "ROD_REGISTER", "ROXD_MEMORY", "ROXD_REGISTER"} -> 1
    [] OTHER -> 0

SizeSuffixLength(i, size) ==
  IF \/ i \in {"DBCC", "LEA", "MOVEQ", "PEA", "EXG", "SWAP", "LINK", "STOP"}
     \/ size = "none"
  THEN 0
  ELSE 2

(* UnsignedHexToString and SignedHexToString of a number of digits. *)
UnsignedLength(digits) == 1 + digits
SignedLength(digits)   == 1 + UnsignedLength(digits)

(* Registers in twos make the longest list: d0-d1/d3-d4/d6-d7/a1-a2/a4-a5/a7. *)
ListLength == 32

OperandLength(operand) ==
  CASE operand.address \in {"data_register", "address_register", "status_register"} -> 2
    [] operand.address \in {"condition_code_register", "user_stack_pointer"} -> 3
    [] operand.address = "indirect" -> 4
    [] operand.address \in {"postincrement", "predecrement"} -> 5
    [] operand.address = "displacement" -> SignedLength(4) + 4
    [] operand.address = "index" -> SignedLength(2) + 9
    [] operand.address \in {"absolute_short", "absolute_long", "pc_displacement"} ->
         UnsignedLength(8) + 4
    [] operand.address = "pc_index" -> UnsignedLength(8) + 9
    [] operand.address = "immediate" ->
         1 + UnsignedLength(CASE operand.size = "longword" -> 8
                              [] operand.size = "word" -> 4
                              [] OTHER -> 3)
    [] operand.address \in {"branch", "embedded_address"} -> UnsignedLength(8)
    [] operand.address \in {"register_list", "register_list_reversed"} -> ListLength
    [] operand.address = "embedded" -> 1 + SignedLength(2)

(***************************************************************************)
(* The words an operand is read with.                                      *)
(***************************************************************************)

Special ==
  {"absolute_short", "absolute_long", "pc_displacement", "pc_index", "immediate", "branch",
   "register_list", "register_list_reversed"}

(* Mutant: long immediate data taken for a word. *)
TwoWordsAbsolute(operand) == operand.address = "absolute_long"

TwoWords(operand) ==
  \/ operand.address = "absolute_long"
  \/ operand.address \in {"immediate", "branch"} /\ operand.size = "longword"

(* How many words GetOperandName reads. *)
WordsOf(operand) ==
  CASE TwoWords(operand) -> 2
    [] ~TwoWords(operand) /\ operand.address \in Special \cup {"displacement", "index"} -> 1
    [] OTHER -> 0

(* Operands that are addresses relative to the program counter. *)
Relative == {"pc_displacement", "pc_index", "branch", "embedded_address"}

(* Mutant: the displacement added to the address after its word. *)
BaseAfterWord(operand, at) ==
  IF operand.address \in Relative THEN {at + 2 * WordsOf(operand)} ELSE {}

(* What is added to the displacement: the address before its word.         *)
BaseOf(operand, at) == IF operand.address \in Relative THEN {at} ELSE {}

(* RESET, TRAP and TRAPV end a listing too, although execution goes on.    *)
TerminatingInstructions ==
  {"BRA_SHORT", "BRA_WORD", "JMP", "RESET", "RTE", "RTR", "RTS", "TRAP", "TRAPV"}

(***************************************************************************)
(* The loop.                                                               *)
(***************************************************************************)

Blank ==
  [decoded |-> Decoded(0), start |-> 0, index |-> 0, words |-> <<>>, bases |-> {}]

Init ==
  /\ position = 0 /\ lines = 0 /\ line = Blank
  /\ phase = "opcode"

ReadOpcode ==
  /\ phase = "opcode"
  /\ \E raw \in Opcodes :
       LET d     == Decoded(raw)
           index == AddressLength + NameLength(d.instruction)
                      + SuffixLength(d.opcode, d.instruction)
                      + SizeSuffixLength(d.instruction, d.size)
       IN  line' = [Blank EXCEPT !.decoded = d, !.start = position,
                                 !.index = IF index < OperandsColumn THEN OperandsColumn ELSE index]
  /\ position' = position + 2
  /\ phase' = "source"
  /\ UNCHANGED lines

(* The reader has no more words. *)
ReadEnd ==
  /\ phase = "opcode"
  /\ position' = position + 2
  /\ phase' = "returned"
  /\ UNCHANGED <<lines, line>>

(* GetOperandName. *)
GetOperandName(operand) ==
  LET comma == IF phase = "destination" /\ line.decoded.operands.source.address # "none"
               THEN 1 ELSE 0
  IN  /\ position' = position + 2 * WordsOf(operand)
      /\ line' = [line EXCEPT !.index = @ + comma + OperandLength(operand),
                              !.words = @ \o [n \in 1 .. WordsOf(operand) |-> operand.address],
                              !.bases = @ \cup BaseOf(operand, position - line.start)]

PrintOperand ==
  /\ phase \in {"source", "destination"}
  /\ LET operand == line.decoded.operands[phase]
     IN  IF operand.address = "none" THEN UNCHANGED <<position, line>>
         ELSE GetOperandName(operand)
  /\ phase' = IF phase = "source" THEN "destination" ELSE "print"
  /\ UNCHANGED lines

PrintLine ==
  /\ phase = "print"
  /\ lines' = lines + 1
  /\ phase' = IF \/ line.decoded.instruction \in TerminatingInstructions
                 \/ lines' = max_instructions
              THEN "returned"
              ELSE "opcode"
  /\ UNCHANGED <<position, line>>

Next == ReadOpcode \/ ReadEnd \/ PrintOperand \/ PrintLine

Spec == Init /\ [][Next]_vars

(***************************************************************************)
(* Properties: a listing and an execution of the same words agree.         *)
(***************************************************************************)

(* What the interpreter does with the opcode of the line. *)
opcode      == line.decoded.opcode
instruction == line.decoded.instruction
Source      == SourceOperand(opcode, instruction)
Destination == DestinationOperand(opcode, instruction)

InterpreterWords ==
  ExtensionWords(Source.address, Source.size) \o ExtensionWords(Destination.address, Destination.size)

(* A branch is from the last word of the instruction, a short one from the *)
(* end of its opcode.                                                      *)
BranchWord  == {"BRA_WORD", "BSR_WORD", "BCC_WORD", "DBCC"}
BranchShort == {"BRA_SHORT", "BSR_SHORT", "BCC_SHORT"}

InterpreterBases ==
  {2 * n : n \in {m \in DOMAIN InterpreterWords :
                    \/ InterpreterWords[m] \in {"pc_displacement", "pc_index"}
                    \/ m = Len(InterpreterWords) /\ instruction \in BranchWord}}
    \cup IF instruction \in BranchShort THEN {2} ELSE {}

(* To the interpreter a branch displacement and a register list are data.  *)
AsRead(word) ==
  IF \/ instruction \in BranchWord /\ word = "branch"
     \/ instruction = "MOVEM" /\ word \in {"register_list", "register_list_reversed"}
  THEN "immediate" ELSE word

WordsRead == [n \in DOMAIN line.words |-> AsRead(line.words[n])]

(* Opcodes of which the two read different words. *)
ReservedMode == "reserved" \in {Source.address, Destination.address}

ImmediateAddress == \E operand \in {Source, Destination} : operand.address = "immediate" /\ operand.size = 0

ImmediateOfSize3 ==
  GetSize(instruction) = "standard" /\ opcode.bits_6_and_7 = 3 /\ Source.address = "immediate"

MovemListSecond ==
  instruction = "MOVEM" /\ MovesToRegisters(opcode)
    /\ Primary(opcode) \in {"displacement", "index", "absolute_short", "absolute_long",
                            "pc_displacement", "pc_index", "immediate"}

Divergent == ReservedMode \/ ImmediateAddress \/ ImmediateOfSize3 \/ MovemListSecond

(* For every opcode, the disassembler reads the words the interpreter      *)
(* reads, as many, in the same order and for the same purpose, although    *)
(* each has tables of its own; the exceptions are these and no others.     *)
WordsAsExecuted == phase = "print" => (WordsRead = InterpreterWords <=> ~Divergent)

(* An address relative to the program counter is shown relative to the     *)
(* address the interpreter uses, wherever its word is in the instruction.  *)
TargetsAsExecuted == phase = "print" /\ ~Divergent => line.bases = InterpreterBases

Bytes(size) == CASE size = "longword" -> 4 [] size = "word" -> 2 [] size = "byte" -> 1 [] OTHER -> 0

HasRegister(address) ==
  address \in {"data_register", "address_register", "indirect", "postincrement", "predecrement",
               "displacement", "index"}

ShownAs(operand, shown) ==
  /\ shown.address = operand.address /\ Bytes(shown.size) = operand.size
  /\ HasRegister(operand.address) => shown.register = operand.register

(* Each operand that the interpreter decodes is shown in its place, with   *)
(* its mode, register and size; MOVEM may have them the other way around,  *)
(* its list and the displacement of a branch are immediate data.           *)
OperandsAsExecuted ==
  phase = "print" /\ ~ReservedMode /\ ~ImmediateOfSize3 =>
    LET shown == line.decoded.operands
    IN  /\ Source.address # "none" =>
             CASE instruction \in BranchWord ->
                    "branch" \in {shown.source.address, shown.destination.address}
               [] instruction = "MOVEM" ->
                    AsRead((IF MovesToRegisters(opcode) THEN shown.destination ELSE shown.source).address)
                      = "immediate"
               [] OTHER -> ShownAs(Source, shown.source)
        /\ Destination.address # "none" =>
             ShownAs(Destination, IF \/ instruction = "MOVEM" /\ MovesToRegisters(opcode)
                                     \/ instruction = "MOVEP" /\ Bits(opcode.raw, 7, 1) = 0
                                  THEN shown.source ELSE shown.destination)

(* The size in an instruction's name is the one it operates with.  Where   *)
(* the operands differ it is that of the source; of MOVEM, whose list is a *)
(* word, that of what it moves; size field 3 has no name.                  *)
SizesAsExecuted ==
  phase = "print" /\ GetSize(instruction) # "none" =>
    LET size == OperationSize(opcode, GetSize(instruction))
    IN  CASE instruction \in {"DIVS", "DIVU", "MULS", "MULU", "ADDA", "SUBA", "CMPA"} ->
               Bytes(line.decoded.size) = Source.size
          [] instruction = "MOVEM" ->
               Bytes(line.decoded.size) = IF Bits(opcode.raw, 6, 1) = 1 THEN 4 ELSE 2
          [] GetSize(instruction) = "standard" /\ opcode.bits_6_and_7 = 3 ->
               line.decoded.size = "none"
          [] OTHER -> Bytes(line.decoded.size) = size

(* The line and its terminator fit their buffer. *)
LineFits == line.index + 1 <= BufferSize
==============================================================================
