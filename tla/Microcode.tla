------------------------------ MODULE Microcode ------------------------------
(***************************************************************************)
(* One instruction, step by step: the case of microcode.c that its opcode  *)
(* selects, which the generator made of the tables of                      *)
(* InstructionProperties, and the functions of clown68000.c it calls.      *)
(*                                                                         *)
(* Operands are known by where they are and by the parity of their         *)
(* address, their values are not kept.  A choice the code makes on a value *)
(* is a choice of the model; a condition code is known by how it was last  *)
(* written.  Registers, memory and the bus are in Clown68000.              *)
(***************************************************************************)
EXTENDS OperandLayout

CONSTANTS
  Opcodes,      \* the opcodes fetched
  BitCounts,    \* how many bits of a word are set: registers of MOVEM,
                \* cycles of MULU, MULS, DIVU, DIVS
  ShiftCounts   \* a data register modulo 64

ASSUME OpcodesAssumption == Opcodes \subseteq AllOpcodes
ASSUME CountsAssumption == BitCounts \subseteq 0..16 /\ ShiftCounts \subseteq 0..63

VARIABLES
  opcode,       \* stuff.opcode
  instruction,  \* what DecodeOpcode returned
  steps,        \* the steps of its microcode left to run
  stuff         \* Stuff, and what the instruction did so far

vars == <<opcode, instruction, steps, stuff>>

MaxDuration == 168        \* DIVS that does not overflow, absolute long operand
ExceptionDuration == 30   \* what DoInterrupt adds

ConditionCodes == {"C", "V", "Z", "N", "X"}

(* An operand: nothing yet, else a register or memory at an odd or an even
   address; "status_register" and "condition_code_register" are types too. *)
Undecoded == [type |-> "none", size |-> 0, odd |-> FALSE, immediate |-> FALSE]

(* "start", "clear", "set" or "computed" is what is known of a condition code:
   as the instruction found it, constant, or a result. *)
Start ==
  [supervisor |-> FALSE, operation_size |-> 1, source |-> Undecoded,
   destination |-> Undecoded,
   cycles |-> 4,            \* cycles_left_in_instruction
   extension |-> 0,         \* bytes of extension words passed
   written |-> {},          \* fields of Stuff this instruction has written
   stale |-> {},            \* fields it read before it wrote them
   codes |-> [c \in ConditionCodes |-> "start"],
   frames |-> <<>>,         \* the condition codes in the frames pushed
   system |-> {},           \* what it changed of the system state
   outcome |-> "running"]   \* else how it ended: "fault", "exception",
                            \* "halted" or "crash"

(***************************************************************************)
(* Steps of the C functions.  One with a choice gives a set of outcomes.   *)
(***************************************************************************)

Reads(m, fields)  == [m EXCEPT !.stale = @ \cup (fields \ m.written)]
Writes(m, fields) == [m EXCEPT !.written = @ \cup fields]
Computes(m, from, to) == Writes(Reads(m, from), to)

Timed(m, n) == [m EXCEPT !.cycles = @ + n]
Took(m, n)  == [m EXCEPT !.cycles = n]

Sets(m, codes, how) ==
  [m EXCEPT !.codes = [c \in ConditionCodes |-> IF c \in codes THEN how ELSE m.codes[c]]]

Ends(m, how) == [m EXCEPT !.outcome = how]

(* What comes next runs unless the step before it left by longjmp. *)
Then(outcomes, Step(_)) ==
  UNION {IF m.outcome = "running" THEN Step(m) ELSE {m} : m \in outcomes}

(* A word or a long word at an odd address is a group 0 exception. *)
Access(m, odd) == {IF odd THEN Ends(m, "fault") ELSE m}

(* A7, or another register the program loaded, is even or odd. *)
AccessRegister(m) == {m, Ends(m, "fault")}

(* The frame goes on the supervisor's stack; with an odd one it halts. *)
DoInterrupt(m) ==
  {[Timed(m, ExceptionDuration) EXCEPT !.frames = Append(@, m.codes)], Ends(m, "halted")}

Group1Or2Exception(m) == Then(DoInterrupt(m), LAMBDA e : {Ends(e, "exception")})

JumpTo(m, odd) == Access(m, odd)

SetStatusRegister(m) ==
  [Sets(m, ConditionCodes, "computed") EXCEPT !.system = @ \cup {"status_register"}]

(***************************************************************************)
(* Addressing.                                                             *)
(***************************************************************************)

AddressCycles(address, size) ==
  LET word == CASE address \in {"indirect", "postincrement", "immediate"} -> 4
                [] address = "predecrement" -> 6
                [] address \in {"displacement", "pc_displacement", "absolute_short"} -> 8
                [] address \in {"index", "pc_index"} -> 10
                [] address = "absolute_long" -> 12
                [] OTHER -> 0
  IN  IF word # 0 /\ size = 4 THEN word + 4 ELSE word

IsRegister(address) == address \in {"data_register", "address_register"}

(* DecodeAddressMode.  Immediate data follows the program counter, which   *)
(* is even; the parity of a byte's address is not looked at.  With size 0  *)
(* a register is its whole value, on builds where a shift by 32 is one by  *)
(* 0, or nothing; either may be odd or even.                               *)
Decoded(size, address) ==
  {[type |-> IF IsRegister(address) THEN "register" ELSE "memory",
    size |-> size, odd |-> odd, immediate |-> address = "immediate"] :
      odd \in IF \/ size = 1 \/ address = "immediate"
                 \/ IsRegister(address) /\ size # 0
              THEN {FALSE} ELSE BOOLEAN}

Addressed(m, size, address) ==
  IF IsRegister(address) THEN m
  ELSE [Timed(m, AddressCycles(address, size)) EXCEPT
          !.extension = @ + 2 * Len(ExtensionWords(address, size))]

DecodeSource(m, size, address) ==
  {[Writes(Addressed(m, size, address), {"source_mode"}) EXCEPT !.source = mode] :
     mode \in Decoded(size, address)}

DecodeDestination(m, size, address) ==
  {[Writes(Addressed(m, size, address), {"destination_mode"}) EXCEPT !.destination = mode] :
     mode \in Decoded(size, address)}

(* GetValueUsingDecodedAddressMode. *)
Value(m, mode, field) ==
  Then(Access(m, mode.type = "memory" /\ mode.size \in {2, 4} /\ mode.odd),
       LAMBDA n : {Writes(n, {field})})

(***************************************************************************)
(* Instruction durations.                                                  *)
(***************************************************************************)

SingleOperandInstructionExecutionTimeWordOnly(m, register_word, memory_word) ==
  Timed(Reads(m, {"destination_mode"}),
        IF m.destination.type = "register" THEN register_word ELSE memory_word)

SingleOperandInstructionExecutionTime(m, register_word, memory_word, register_longword, memory_longword) ==
  LET n == Reads(m, {"operation_size"})
  IN  IF m.operation_size = 4
      THEN SingleOperandInstructionExecutionTimeWordOnly(n, register_longword, memory_longword)
      ELSE SingleOperandInstructionExecutionTimeWordOnly(n, register_word, memory_word)

SingleOperandInstructionExecutionTimeCommon(m) ==
  SingleOperandInstructionExecutionTime(m, 0, 4, 2, 8)

ADDXSUBXExecutionTime(m) == SingleOperandInstructionExecutionTime(m, 0, 2, 4, 6)

(* The source is a register, or at the address four bytes before the       *)
(* program counter: as long immediate data is, as shorter data is not, and *)
(* as any other operand may happen to be.  A mode left by an earlier       *)
(* instruction may be any.                                                 *)
SourceDelays(m) ==
  IF "source_mode" \notin m.written THEN {0, 2}
  ELSE CASE m.source.type = "register" -> {2}
         [] m.source.type = "memory" /\ m.source.immediate ->
              {IF m.source.size = 4 THEN 2 ELSE 0}
         [] m.source.type = "memory" /\ ~m.source.immediate -> {0, 2}

StandardInstructionExecutionTime(m) ==
  LET n == SingleOperandInstructionExecutionTimeCommon(m)
  IN  CASE m.destination.type = "register" /\ m.operation_size = 4 ->
             {Timed(Reads(n, {"source_mode"}), delay) : delay \in SourceDelays(m)}
        [] m.destination.type \in {"condition_code_register", "status_register"} ->
             {Timed(n, 8)}
        [] OTHER -> {n}

StandardInstructionExecutionTimeQuick(o, m) ==
  IF \/ Primary(o) = "address_register"
     \/ m.operation_size = 4 /\ m.destination.type = "register"
  THEN Timed(m, 2)
  ELSE m

(* LEA, PEA, JMP, JSR and MOVEM have times of their own for an address. *)
AddressTime(o, short, long, index) ==
  CASE Primary(o) \in {"displacement", "pc_displacement", "absolute_short"} -> short
    [] Primary(o) = "absolute_long" -> long
    [] Primary(o) \in {"index", "pc_index"} -> index
    [] OTHER -> 0

ABCDSBCDExecutionTime(o, m) ==
  Took(m, IF PairAddress(o) = "predecrement" THEN 18 ELSE 6)

(* Mutant: four cycles a bit. *)
ShiftTimeDoubled(m, count) == Timed(m, 2 + 4 * count)

ShiftRotateInstructionExecutionTimeRegister(m, count) ==
  Timed(m, 2 + 2 * count + IF m.operation_size = 4 THEN 2 ELSE 0)

(***************************************************************************)
(* Actions, named in GetAction.                                            *)
(***************************************************************************)

Operands == {"source_value", "destination_value"}
Result   == {"result_value"}

(* OR, AND, EOR, ADD, SUB. *)
Action_Binary(m) == StandardInstructionExecutionTime(Computes(m, Operands, Result))

Action_CMP(m) ==
  Timed(Computes(m, Operands \cup {"operation_size"}, Result),
        IF m.operation_size = 4 THEN 2 ELSE 0)

Action_CMPI(m) ==
  LET n == Computes(m, Operands \cup {"operation_size", "destination_mode"}, Result)
  IN  IF m.operation_size = 4 /\ m.destination.type = "register" THEN Timed(n, 2) ELSE n

(* ADDA and SUBA, of a word or a long word. *)
Action_ToAddress(o, m) ==
  IF o.bit_8 THEN Action_Binary(m)
  ELSE LET n == Computes(m, {"source_value", "source_mode"}, {"source_value"})
       IN  Action_Binary(IF m.source.type = "register" THEN n ELSE Timed(n, 2))

(* ADDQ and SUBQ: the operand is in the opcode. *)
Action_Quick(o, m) ==
  {StandardInstructionExecutionTimeQuick(o, n) :
     n \in Action_Binary(Writes(m, {"source_value"}))}

Action_Bxxx(m) ==
  Sets(Computes(m, Operands \cup {"msb_bit_index"}, {"source_value"}), {"Z"}, "computed")

Action_BTST(o, m) ==
  LET n == Action_Bxxx(m)
  IN  IF m.operation_size = 4 \/ Primary(o) = "immediate" THEN Timed(n, 2) ELSE n

(* BCHG, BCLR and BSET: of a long word, the bit is below 16 or not. *)
Action_ChangeBit(m, low, high) ==
  {Timed(Computes(Action_Bxxx(m), Operands, Result), n) :
     n \in IF m.operation_size = 4 THEN {4 + low, 4 + high} ELSE {4}}

Action_MOVEP(o, m) ==
  Timed(Reads(m, {"destination_value"}), IF o.bits_6_and_7 \in {0, 2} THEN 4 ELSE 12)

Action_MOVEA(m) == Computes(m, {"source_value", "msb_bit_index"}, Result)

Action_MOVECommon(m) == Computes(m, {"source_value"}, Result)

(* Part of the time of a move was counted with its addresses. *)
Action_MOVE(o, m) ==
  LET n == Reads(Action_MOVECommon(m), {"source_mode", "destination_mode"})
  IN  CASE m.source.type = "status_register" ->
             Timed(n, IF m.destination.type = "register" THEN 2 ELSE 4)
        [] /\ m.source.type # "status_register"
           /\ m.destination.type \in {"status_register", "condition_code_register"} -> Timed(n, 8)
        [] /\ m.source.type # "status_register"
           /\ m.destination.type \notin {"status_register", "condition_code_register"}
           /\ o.secondary_address_mode = 4 -> Timed(n, -2)
        [] OTHER -> n

Action_LINK(m) ==
  Then(AccessRegister(m), LAMBDA n : {Timed(Reads(n, {"source_value"}), 8)})

Action_UNLK(m) == Then(AccessRegister(m), LAMBDA n : {Timed(n, 8)})

(* NEGX, NEG and NOT. *)
Action_Unary(m) ==
  SingleOperandInstructionExecutionTimeCommon(Computes(m, {"destination_value"}, Result))

Action_CLR(m) == SingleOperandInstructionExecutionTimeCommon(Writes(m, Result))

(* EXT and SWAP. *)
Action_Rearrange(m) == Computes(m, {"destination_value"}, Result)

Action_PEA(o, m) ==
  Then(AccessRegister(m),
       LAMBDA n : {Took(Reads(n, {"source_value"}), 12 + AddressTime(o, 4, 8, 8))})

Action_TAS(m) ==
  SingleOperandInstructionExecutionTimeWordOnly(
    Sets(Computes(m, {"destination_value"}, Result), {"N", "Z"}, "computed"), 0, 6)

Action_TRAP(m) == DoInterrupt(Writes(m, {"source_value"}))

Action_MOVE_USP(m) == [m EXCEPT !.system = @ \cup {"user_stack_pointer"}]

Action_STOP(m) ==
  [Timed(SetStatusRegister(Reads(m, {"source_value"})), -4) EXCEPT !.system = @ \cup {"stopped"}]

(* Target addresses popped from the stack. *)
PopJump(m) == Then(AccessRegister(m), AccessRegister)

Action_RTE(m) ==
  Then(Then(Then(AccessRegister(m), LAMBDA n : {SetStatusRegister(n)}), AccessRegister),
       LAMBDA n : {Timed(n, 16)})

Action_RTS(m) == Then(PopJump(m), LAMBDA n : {Timed(n, 12)})

Action_TRAPV(m) == {m} \cup DoInterrupt(m)

Action_RTR(m) ==
  Then(PopJump(Sets(m, ConditionCodes, "computed")), LAMBDA n : {Timed(n, 16)})

Action_JMP(o, m) ==
  Then(JumpTo(Reads(m, {"source_value"}), m.source.odd),
       LAMBDA n : {Took(n, 8 + AddressTime(o, 2, 4, 6))})

Action_JSR(o, m) ==
  Then(Then(Action_JMP(o, m), AccessRegister), LAMBDA n : {Timed(n, 8)})

Action_LEA(o, m) == Took(Action_MOVECommon(m), 4 + AddressTime(o, 4, 8, 8))

(* The registers follow each other in memory: all accesses are odd, or none. *)
Action_MOVEM(o, m) ==
  LET to_register == Bits(o.raw, 10, 1) = 1
      each == IF Bits(o.raw, 6, 1) = 1 THEN 8 ELSE 4
      n == Took(Reads(m, Operands), 8 + (IF to_register THEN 4 ELSE 0) + AddressTime(o, 4, 8, 6))
  IN  {IF count > 0 /\ m.destination.odd
       THEN Ends(Timed(n, each), "fault")
       ELSE Timed(n, count * each) : count \in BitCounts}

(* Mutant: the codes cleared after the exception. *)
CodesClearedLate(m) ==
  Then({m} \cup DoInterrupt(m) \cup DoInterrupt(Sets(m, {"N"}, "set")),
       LAMBDA e : {Timed(Sets(Reads(e, {"source_value"}), {"C", "V", "Z"}, "clear"), 6)})

(* Out of bounds below, above, or not. *)
Action_CHK(m) ==
  LET n     == Sets(m, {"C", "V", "Z", "N"}, "clear")
      above == Reads(n, {"source_value"})
  IN  Then({above} \cup DoInterrupt(above) \cup DoInterrupt(Sets(n, {"N"}, "set")),
           LAMBDA e : {Timed(e, 6)})

(* IsOpcodeConditionTrue. *)
Conditions(o) ==
  CASE Bits(o.raw, 8, 4) = 0 -> {TRUE}
    [] Bits(o.raw, 8, 4) = 1 -> {FALSE}
    [] OTHER -> BOOLEAN

Action_SCC(o, m) ==
  {SingleOperandInstructionExecutionTimeWordOnly(Writes(m, Result), IF true THEN 2 ELSE 0, 4) :
     true \in Conditions(o)}

(* The displacement is in the opcode. *)
Action_BRA_SHORT(o, m) ==
  Then(JumpTo(m, o.raw % 2 = 1), LAMBDA n : {Timed(n, 6)})

Action_BRA_WORD(m) ==
  Then(AccessRegister(Reads(m, {"source_value"})), LAMBDA n : {Timed(n, 2)})

(* BRA, with its displacement in the opcode or after it. *)
Branch(o, m, short) == IF short THEN Action_BRA_SHORT(o, m) ELSE Action_BRA_WORD(m)

Action_BSR(o, m, short) ==
  Then(Then(AccessRegister(m), LAMBDA n : Branch(o, n, short)), LAMBDA n : {Timed(n, 8)})

Action_BCC(o, m, short) ==
  UNION {IF true THEN Branch(o, m, short) ELSE {Timed(m, 4)} : true \in Conditions(o)}

(* Count down and branch, or count past zero. *)
Action_DBCC(o, m) ==
  UNION {IF true THEN {Timed(m, 4)} ELSE Action_BRA_WORD(m) \cup {Timed(m, 6)} :
           true \in Conditions(o)}

(* The frame of a division by zero is pushed before the codes are cleared  *)
(* for the last time.                                                      *)
Action_DIV(m, is_signed) ==
  LET n        == Sets(Computes(m, Operands, Result), {"C"}, "clear")
      by_zero  == Sets(n, {"N", "Z", "V"}, "clear")
      overflow == Sets(Sets(n, {"V", "N"}, "set"), {"Z"}, "clear")
      fits     == Sets(Sets(n, {"N", "Z"}, "computed"), {"V"}, "clear")
      bits     == BitCounts \ {16}
      prepared == IF is_signed THEN {6 + 6, 6 + 8} ELSE {6}
      divided  == IF is_signed
                  THEN {12 + 104 + 2 * b + s : b \in bits, s \in {0, 2}}
                         \cup {14 + 104 + 2 * b + s : b \in bits, s \in {2, 4}}
                  ELSE {6 + 66 + 2 * (a + b) : a \in bits, b \in bits}
  IN  DoInterrupt(by_zero)
        \cup {Timed(overflow, t) : t \in prepared \cup IF is_signed THEN divided ELSE {}}
        \cup {Timed(fits, t) : t \in divided}

Action_MUL(m) ==
  {Timed(Computes(m, Operands, Result), 34 + 2 * operations) : operations \in BitCounts}

(* ADDX and SUBX. *)
Action_Extended(m) == ADDXSUBXExecutionTime(Computes(m, Operands, Result))

(* SBCD corrects the result of a SUBX, ABCD that of an ADDX and an ADD,    *)
(* with new operands, and each sets the carry itself.                      *)
Corrected(m) == Sets(Writes(Computes(m, Operands, Result), Operands), {"C"}, "computed")

Action_SBCD(o, m) == ABCDSBCDExecutionTime(o, Corrected(m))

Action_ABCD(o, m) == ABCDSBCDExecutionTime(o, Corrected(Action_Extended(m)))

Action_NBCD(m) ==
  SingleOperandInstructionExecutionTimeWordOnly(
    Corrected(Computes(m, {"destination_value"}, Operands)), 2, 4)

(* ASD, LSD, ROD and ROXD. *)
Shifted(m, extended) ==
  Sets(Computes(m, {"destination_value", "msb_bit_index"}, Result),
       IF extended THEN {"C", "V", "X"} ELSE {"C", "V"}, "computed")

Action_ShiftMemory(m, extended) == Timed(Shifted(m, extended), 4)

Action_ShiftRegister(o, m, extended) ==
  LET counts == IF Bits(o.raw, 5, 1) = 1 THEN ShiftCounts
                ELSE {IF o.secondary_register = 0 THEN 8 ELSE o.secondary_register}
  IN  {ShiftRotateInstructionExecutionTimeRegister(Shifted(m, extended), count) : count \in counts}

(* The actions that have one outcome. *)
Action_Simple(o, action, m) ==
  CASE action \in {"CMP", "CMPA"} -> Action_CMP(m)
    [] action = "CMPM" -> Computes(m, Operands, Result)
    [] action = "CMPI" -> Action_CMPI(m)
    [] action = "BTST" -> Action_BTST(o, m)
    [] action = "MOVEP" -> Action_MOVEP(o, m)
    [] action = "MOVEA" -> Action_MOVEA(m)
    [] action = "MOVE" -> Action_MOVE(o, m)
    [] action \in {"NEGX", "NEG", "NOT"} -> Action_Unary(m)
    [] action = "CLR" -> Action_CLR(m)
    [] action \in {"EXT", "SWAP"} -> Action_Rearrange(m)
    [] action = "TAS" -> Action_TAS(m)
    [] action = "MOVE_USP" -> Action_MOVE_USP(m)
    [] action = "RESET" -> Timed(m, 128)
    [] action = "STOP" -> Action_STOP(m)
    [] action = "LEA" -> Action_LEA(o, m)
    [] action = "TST" -> Action_MOVECommon(m)
    [] action = "MOVEQ" -> Writes(m, Result)
    [] action = "SBCD" -> Action_SBCD(o, m)
    [] action = "ABCD" -> Action_ABCD(o, m)
    [] action = "NBCD" -> Action_NBCD(m)
    [] action \in {"ADDX", "SUBX"} -> Action_Extended(m)
    [] action = "EXG" -> Timed(m, 2)
    [] action \in {"ASD_MEMORY", "LSD_MEMORY", "ROXD_MEMORY"} -> Action_ShiftMemory(m, TRUE)
    [] action = "ROD_MEMORY" -> Action_ShiftMemory(m, FALSE)
    [] action = "NOP" -> m

Action(o, action, m) ==
  CASE action \in {"OR", "AND", "EOR", "ADD", "SUB"} -> Action_Binary(m)
    [] action \in {"ADDA", "SUBA"} -> Action_ToAddress(o, m)
    [] action \in {"ADDQ", "SUBQ"} -> Action_Quick(o, m)
    [] action \in {"BCHG", "BSET"} -> Action_ChangeBit(m, -2, 0)
    [] action = "BCLR" -> Action_ChangeBit(m, 0, 2)
    [] action = "LINK" -> Action_LINK(m)
    [] action = "UNLK" -> Action_UNLK(m)
    [] action = "PEA" -> Action_PEA(o, m)
    [] action \in {"ILLEGAL", "UNIMPLEMENTED_1", "UNIMPLEMENTED_2"} -> Group1Or2Exception(m)
    [] action = "TRAP" -> Action_TRAP(m)
    [] action = "TRAPV" -> Action_TRAPV(m)
    [] action = "RTE" -> Action_RTE(m)
    [] action = "RTS" -> Action_RTS(m)
    [] action = "RTR" -> Action_RTR(m)
    [] action = "JMP" -> Action_JMP(o, m)
    [] action = "JSR" -> Action_JSR(o, m)
    [] action = "MOVEM" -> Action_MOVEM(o, m)
    [] action = "CHK" -> Action_CHK(m)
    [] action = "SCC" -> Action_SCC(o, m)
    [] action = "DBCC" -> Action_DBCC(o, m)
    [] action = "BRA_SHORT" -> Action_BRA_SHORT(o, m)
    [] action = "BRA_WORD" -> Action_BRA_WORD(m)
    [] action \in {"BSR_SHORT", "BSR_WORD"} -> Action_BSR(o, m, action = "BSR_SHORT")
    [] action \in {"BCC_SHORT", "BCC_WORD"} -> Action_BCC(o, m, action = "BCC_SHORT")
    [] action \in {"DIVS", "DIVU"} -> Action_DIV(m, action = "DIVS")
    [] action \in {"MULS", "MULU"} -> Action_MUL(m)
    [] action \in {"ASD_REGISTER", "LSD_REGISTER", "ROXD_REGISTER"} ->
         Action_ShiftRegister(o, m, TRUE)
    [] action = "ROD_REGISTER" -> Action_ShiftRegister(o, m, FALSE)
    [] OTHER -> {Action_Simple(o, action, m)}

(***************************************************************************)
(* The microcode of an instruction: the generator's steps, those that      *)
(* apply to it, in this order.                                             *)
(***************************************************************************)

(* Mutant: the condition codes before the write that may fault. *)
StagesCodesFirst ==
  <<"supervisor_check", "size", "source_address_mode", "read_source",
    "destination_address_mode", "read_destination", "action",
    "condition_codes", "write_destination">>

Stages ==
  <<"supervisor_check", "size", "source_address_mode", "read_source",
    "destination_address_mode", "read_destination", "action",
    "write_destination", "condition_codes">>

(* Where a step is in that order. *)
Position ==
  [s \in {Stages[n] : n \in 1..9} |-> CHOOSE n \in 1..9 : Stages[n] = s]

Instructions == {DecodeOpcode(raw) : raw \in Opcodes}

(* The tables, row by row. *)
Properties ==
  [i \in Instructions |->
     [privileged           |-> IsPrivileged(i),
      size                 |-> GetSize(i),
      source_read          |-> IsSourceOperandRead(i),
      source               |-> GetSourceOperand(i),
      destination_read     |-> IsDestinationOperandRead(i),
      destination_written  |-> IsDestinationOperandWritten(i),
      destination          |-> GetDestinationOperand(i),
      action               |-> GetAction(i),
      modifiers            |-> [C |-> GetCarryModifier(i), V |-> GetOverflowModifier(i),
                                Z |-> GetZeroModifier(i), N |-> GetNegativeModifier(i),
                                X |-> GetExtendModifier(i)]]]

Unmodified == {"unaffected", "undefined"}

Applies(p, s) ==
  CASE s = "supervisor_check" -> p.privileged
    [] s = "size" -> p.size # "none"
    [] s \in {"source_address_mode", "read_source"} -> p.source_read
    [] s = "destination_address_mode" -> p.destination_read \/ p.destination_written
    [] s = "read_destination" -> p.destination_read
    [] s = "write_destination" -> p.destination_written
    [] s = "action" -> TRUE
    [] s = "condition_codes" -> \E c \in ConditionCodes : p.modifiers[c] \notin Unmodified

(* microcode.c: the steps of each case. *)
Cases ==
  [i \in Instructions |-> {s \in DOMAIN Position : Applies(Properties[i], s)}]

Init ==
  /\ opcode = SplitOpcode(0) /\ instruction = "none"
  /\ steps = {}
  /\ stuff = Start

Fetch ==
  /\ instruction = "none"
  /\ \E raw \in Opcodes :
       /\ opcode' = SplitOpcode(raw)
       /\ instruction' = DecodeOpcode(raw)
       /\ steps' = Cases[DecodeOpcode(raw)]
  /\ stuff' = Start

Done == instruction # "none" /\ steps = {}

At(step) == step \in steps /\ \A s \in steps : Position[step] <= Position[s]

(* This step of the microcode ends with m. *)
Continue(m) ==
  /\ stuff' = m
  /\ steps' = IF m.outcome = "running" THEN {s \in steps : ~At(s)} ELSE {}
  /\ UNCHANGED <<opcode, instruction>>

(* The mode the processor is in matters to this step only. *)
SupervisorCheck ==
  /\ At("supervisor_check")
  /\ \/ Continue([stuff EXCEPT !.supervisor = TRUE])
     \/ \E m \in Group1Or2Exception(stuff) : Continue(m)

SetSize ==
  /\ At("size")
  /\ Continue([Writes(stuff, {"operation_size", "msb_bit_index"})
                 EXCEPT !.operation_size = OperationSize(opcode, Properties[instruction].size)])

SourceAddressMode ==
  LET rule == Properties[instruction].source
      m == IF rule \in SizedSources THEN Reads(stuff, {"operation_size"}) ELSE stuff
      outcomes ==
        CASE rule = "none" -> {stuff}
          [] rule = "status_register" ->
               {[Writes(stuff, {"source_mode"}) EXCEPT !.source.type = rule]}
          [] OTHER -> DecodeSource(m, SourceSize(opcode, rule, m.operation_size),
                                   SourceAddress(opcode, rule))
  IN  /\ At("source_address_mode")
      /\ \E n \in outcomes : Continue(n)

ReadSource ==
  /\ At("read_source")
  /\ \E m \in Value(Reads(stuff, {"source_mode"}), stuff.source, "source_value") : Continue(m)

DestinationAddressMode ==
  LET rule == Properties[instruction].destination
      m == IF rule \in SizedDestinations THEN Reads(stuff, {"operation_size"}) ELSE stuff
      outcomes ==
        CASE rule = "none" -> {stuff}
          [] rule \in {"condition_code_register", "status_register"} ->
               {[Writes(stuff, {"destination_mode"}) EXCEPT !.destination.type = rule]}
          [] OTHER -> DecodeDestination(m, DestinationSize(rule, m.operation_size),
                                        DestinationAddress(opcode, rule))
  IN  /\ At("destination_address_mode")
      /\ \E n \in outcomes : Continue(n)

ReadDestination ==
  /\ At("read_destination")
  /\ \E m \in Value(Reads(stuff, {"destination_mode"}), stuff.destination, "destination_value") :
       Continue(m)

DoAction ==
  /\ At("action")
  /\ \E m \in Action(opcode, Properties[instruction].action, stuff) : Continue(m)

(* SetValueUsingDecodedAddressMode.  There is no function that writes an   *)
(* operand of size 0: the call is one of a null pointer.                   *)
WriteDestination ==
  LET n == Reads(stuff, {"destination_mode", "result_value"})
      mode == stuff.destination
      outcomes ==
        CASE mode.type = "memory" /\ mode.size = 0 -> {Ends(n, "crash")}
          [] mode.type = "memory" /\ mode.size # 0 -> Access(n, mode.size # 1 /\ mode.odd)
          [] mode.type = "status_register" -> {SetStatusRegister(n)}
          [] mode.type = "condition_code_register" -> {Sets(n, ConditionCodes, "computed")}
          [] OTHER -> {n}
  IN  /\ At("write_destination")
      /\ \E m \in outcomes : Continue(m)

(* What the modifier of a condition code reads. *)
ModifierReads(modifier) ==
  CASE modifier \in {"standard_carry", "standard_borrow", "add", "sub"} ->
         {"source_value", "destination_value", "result_value", "msb_bit_index"}
    [] modifier = "neg" -> {"destination_value", "result_value", "msb_bit_index"}
    [] modifier \in {"clear_if_nonzero_unaffected_otherwise", "set_if_zero_clear_otherwise",
                     "set_if_negative_clear_otherwise"} -> {"result_value", "msb_bit_index"}
    [] OTHER -> {}

UpdateConditionCodes ==
  LET modifiers == Properties[instruction].modifiers
      read == UNION {ModifierReads(modifiers[c]) : c \in ConditionCodes}
      code(c) == CASE modifiers[c] \in Unmodified -> stuff.codes[c]
                   [] modifiers[c] \in {"clear", "cleared"} -> "clear"
                   [] OTHER -> "computed"
  IN  /\ At("condition_codes")
      /\ Continue([Reads(stuff, read) EXCEPT !.codes = [c \in ConditionCodes |-> code(c)]])

(* The next instruction starts over: of what this one leaves in Stuff, it  *)
(* is only known that it may be anything (SourceDelays).                   *)
Retire ==
  /\ Done
  /\ opcode' = SplitOpcode(0) /\ instruction' = "none" /\ stuff' = Start
  /\ UNCHANGED steps

Next ==
  \/ Fetch
  \/ SupervisorCheck
  \/ SetSize
  \/ SourceAddressMode
  \/ ReadSource
  \/ DestinationAddressMode
  \/ ReadDestination
  \/ DoAction
  \/ WriteDestination
  \/ UpdateConditionCodes
  \/ Retire

Spec == Init /\ [][Next]_vars

(***************************************************************************)
(* Properties.                                                             *)
(***************************************************************************)

(* Five tables and the actions agree: no step of any instruction reads a   *)
(* field of Stuff before a step of the same instruction has written it.    *)
(* ADDQ and SUBQ of a long word to a register do, see NoSourceNeeded.      *)
DefinedBeforeUse ==
  stuff.stale # {} =>
    /\ stuff.stale = {"source_mode"}
    /\ GetAction(instruction) \in {"ADDQ", "SUBQ"}
    /\ stuff.operation_size = 4 /\ stuff.destination.type = "register"

(* instruction-properties.c, of ADDAQ, SUBAQ, ADDQ, SUBQ and TRAP:         *)
(* "Doesn't need an address mode for its source."                          *)
NoSourceNeeded == GetSourceOperand(instruction) = "none" => "source_mode" \notin stuff.stale

(* An instruction that an address error stops leaves the condition codes   *)
(* alone: its flags are updated after its last access, or its last access  *)
(* is one that an earlier one vouches for.  RTE and RTR have loaded theirs *)
(* when their target turns out to be odd.                                  *)
FaultKeepsConditionCodes ==
  stuff.outcome = "fault" /\ instruction \notin {"RTE", "RTR"} => stuff.codes = Start.codes

(* An instruction pushes at most one frame, and the condition codes saved  *)
(* in it are those the instruction ends with, although microcode goes on   *)
(* after the exception of CHK and of a division by zero.                   *)
FramesHoldFinalCodes ==
  /\ Len(stuff.frames) <= 1
  /\ \A n \in DOMAIN stuff.frames : stuff.frames[n] = stuff.codes

(* No opcode changes the status register, the user stack pointer or the    *)
(* stopped state in user mode.                                             *)
UserKeepsSystem == ~stuff.supervisor => stuff.system = {}

(* How long an instruction takes, before its exception: what Clown68000    *)
(* assumes of its Durations and Extensions.                                *)
TimingHolds ==
  Done =>
    /\ stuff.cycles - ExceptionDuration * Len(stuff.frames) \in 4..MaxDuration
    /\ stuff.cycles % 2 = 0
    /\ stuff.extension \in {0, 2, 4, 6, 8}

(* The null function that writes an address operand is never called.       *)
OperandsWritable == stuff.outcome # "crash"

(* clown68000.c, where PEA, JSR, JMP, LEA and MOVEM decode their operand:  *)
(* "0 is a special value that means to obtain the address rather than the  *)
(* data at that address."  There is no address when it is a register.      *)
AddressOperandsInMemory ==
  \A mode \in {stuff.source, stuff.destination} : mode.type = "register" => mode.size # 0

==============================================================================
