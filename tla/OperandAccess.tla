----------------------------- MODULE OperandAccess -----------------------------
(***************************************************************************)
(* How an instruction gets at its operands: each is decoded once, which    *)
(* may move an address register and takes words behind the opcode, and is  *)
(* then read, written, or read and written back.  Source before            *)
(* destination, so that an instruction that names one register twice sees  *)
(* it move between the two.                                                *)
(***************************************************************************)
EXTENDS Storage, OperandLayout

CONSTANTS
  DataValues,      \* what the data register may hold
  BaseValues,      \* what the address register may hold
  StackValues,     \* what the stack pointer may hold, even
  Programs,        \* what memory may hold
  Start            \* the address of the instruction

ASSUME OperandAccessAssumption ==
  /\ DataValues \subseteq LongRange /\ BaseValues \subseteq LongRange
  /\ StackValues \subseteq LongRange /\ \A a \in StackValues : ~Odd(a)
  /\ Programs \subseteq Memories
  /\ Start \in LongRange /\ ~Odd(Start)

VARIABLES
  next_word,           \* the program counter
  instruction,         \* kind, size and the two operands
  stage,               \* source, destination, write, done, fault
  source_value,
  destination_value,
  destination_place,   \* destination_decoded_address_mode: where it is
  pushed               \* what this instruction is to pop, and its source operand, if any

accessVars == <<registers, memory, next_word, instruction, stage, source_value,
                destination_value, destination_place, start, pushed>>

(* A data register, an address register, and A7. *)
AddressRegisters == {"A", "SP"}
OperandRegisters == {"D"} \cup AddressRegisters

Masked(value, size) == value % Values(size)

(* The instructions: what they do with their operands is all that matters. *)
Kinds == {"move", "movea", "lea", "modify", "compare"}

ReadsDestination(kind) == kind \in {"modify", "compare"}
WritesDestination(kind) == kind # "compare"

DataModes == {"indirect", "postincrement", "predecrement", "displacement", "index",
              "absolute_short", "absolute_long"}

(* An operand; with an index, the extension word also names a register and *)
(* how much of it is taken.                                                *)
Operands ==
  {[address |-> mode, register |-> r, index |-> "D", long_index |-> FALSE] :
     mode \in DataModes \ {"index", "absolute_short", "absolute_long"}, r \in AddressRegisters}
  \cup {[address |-> mode, register |-> "A", index |-> "D", long_index |-> FALSE] :
          mode \in {"absolute_short", "absolute_long", "pc_displacement", "immediate"}}
  \cup {[address |-> mode, register |-> "A", index |-> i, long_index |-> l] :
          mode \in {"index", "pc_index"}, i \in {"D", "SP"}, l \in BOOLEAN}
  \cup {[address |-> "data_register", register |-> "D", index |-> "D", long_index |-> FALSE]}
  \cup {[address |-> "address_register", register |-> r, index |-> "D", long_index |-> FALSE] :
          r \in AddressRegisters}

SensibleOperands(i) ==
  /\ i.source.address = "address_register" => i.size # 1 /\ i.kind # "lea"
  /\ CASE i.kind \in {"movea", "lea"} -> i.destination.address = "address_register"
       [] i.kind \in {"move", "modify"} ->
            i.destination.address \in DataModes \cup {"data_register"}
       [] i.kind = "compare" ->
            i.source.address = "postincrement" /\ i.destination.address = "postincrement"
  /\ i.kind = "movea" => i.size # 1
  /\ i.kind = "lea" =>
       /\ i.size = 4
       /\ i.source.address \notin {"postincrement", "predecrement", "data_register", "immediate"}
  /\ i.kind = "modify" =>
       \/ i.source.address \in {"data_register", "immediate"}
       \/ i.source.address = "predecrement" /\ i.destination.address = "predecrement"

Instructions ==
  {i \in [kind : Kinds, size : {1, 2, 4}, source : Operands, destination : Operands] :
     SensibleOperands(i)}

Nowhere == [type |-> "register", register |-> "D", address |-> 0]

AccessInit ==
  /\ \E d \in DataValues, a \in BaseValues, s \in StackValues :
       registers = [r \in OperandRegisters |-> CASE r = "D" -> d [] r = "A" -> a [] r = "SP" -> s]
  /\ memory \in Programs
  /\ next_word = Start
  /\ instruction \in Instructions
  /\ stage = "source"
  /\ source_value = 0 /\ destination_value = 0
  /\ destination_place = Nowhere
  /\ start = [registers |-> registers, memory |-> memory]
  /\ pushed = <<>>

(***************************************************************************)
(* Decoding.  The program counter is behind the opcode, or behind the      *)
(* extension words of the source.                                          *)
(***************************************************************************)

(* The stack pointer moves by two bytes instead of one. *)
Step(register, size) == IF register = "SP" /\ size = 1 THEN 2 ELSE size

(* DecodeMemoryAddressMode, as it moves the register. *)
Moved(regs, operand, size) ==
  LET r == operand.register
  IN  CASE operand.address = "predecrement"  -> [regs EXCEPT ![r] = Wrap(@ - Step(r, size))]
        [] operand.address = "postincrement" -> [regs EXCEPT ![r] = Wrap(@ + Step(r, size))]
        [] OTHER -> regs

(* A byte that follows the opcode is the second of its word. *)
ImmediateAt(pc, size) == IF size = 1 THEN pc + 1 ELSE pc

IndexValue(regs, operand) ==
  IF operand.long_index THEN regs[operand.index]
                        ELSE SignExtendWord(regs[operand.index] % WordValues)

(* Mutant: the register has moved in either case. *)
RegisterPlaceMoved(operand, base, size) ==
  CASE operand.address = "predecrement"  -> base - Step(operand.register, size)
    [] operand.address = "postincrement" -> base + Step(operand.register, size)
    [] OTHER -> base

(* The register after it moved down, or before it moves up. *)
RegisterPlace(operand, base, size) ==
  IF operand.address = "predecrement" THEN base - Step(operand.register, size) ELSE base

(* DecodeMemoryAddressMode, where it leads to.  regs are the registers     *)
(* before they move.                                                       *)
PlaceOf(regs, pc, operand, size) ==
  LET word == ReadWord(memory, pc)
      base == IF operand.address \in {"pc_displacement", "pc_index"}
              THEN pc ELSE regs[operand.register]
  IN  Wrap(CASE operand.address = "absolute_short" -> SignExtendWord(word)
             [] operand.address = "absolute_long"  -> ReadLongWord(memory, pc)
             [] operand.address = "immediate"      -> ImmediateAt(pc, size)
             [] operand.address \in {"indirect", "postincrement", "predecrement"} ->
                  RegisterPlace(operand, base, size)
             [] operand.address \in {"displacement", "pc_displacement"} ->
                  base + SignExtendWord(word)
             [] OTHER -> base + IndexValue(regs, operand) + SignExtendByte(word % ByteValues))

IsRegisterMode(operand) == operand.address \in {"data_register", "address_register"}

(* DecodeAddressMode.  The size of a source whose address is wanted is 0.  *)
Decoded(regs, pc, operand, size) ==
  IF IsRegisterMode(operand)
  THEN [type |-> "register", register |-> operand.register, address |-> 0]
  ELSE [type |-> "memory", register |-> operand.register,
        address |-> PlaceOf(regs, pc, operand, size)]

ImmediateBytes(size) == IF size = 1 THEN 2 ELSE size

(* What DecodeMemoryAddressMode adds to the program counter. *)
ExtensionBytes(operand, size) ==
  CASE operand.address = "immediate" -> ImmediateBytes(size)
    [] operand.address = "absolute_long" -> 4
    [] operand.address \in {"absolute_short", "displacement", "index",
                            "pc_displacement", "pc_index"} -> 2
    [] OTHER -> 0

(* Words and longwords at odd addresses raise an exception. *)
Refused(place, size) == place.type = "memory" /\ size \in {2, 4} /\ Odd(place.address)

(* The read functions. *)
ReadSized(from, address, size) ==
  CASE size = 0 -> address
    [] size = 1 -> ReadByte(from, address)
    [] size = 2 -> ReadWord(from, address)
    [] size = 4 -> ReadLongWord(from, address)

(* GetValueUsingDecodedAddressMode. *)
GetValue(regs, place, size) ==
  IF place.type = "register" THEN Masked(regs[place.register], size)
                             ELSE ReadSized(memory, place.address, size)

(***************************************************************************)
(* The stages of an instruction.                                           *)
(***************************************************************************)

SourceSizeOf(i) == IF i.kind = "lea" THEN 0 ELSE i.size

(* DecodeSource and ReadSource, after the opcode was fetched. *)
Source ==
  LET size == SourceSizeOf(instruction)
      operand == instruction.source
      pc == Wrap(next_word + 2)
      place == Decoded(registers, pc, operand, size)
  IN  /\ stage = "source"
      /\ registers' = Moved(registers, operand, size)
      /\ next_word' = Wrap(pc + ExtensionBytes(operand, size))
      /\ IF Refused(place, size)
         THEN stage' = "fault" /\ UNCHANGED source_value
         ELSE stage' = "destination" /\ source_value' = GetValue(registers, place, size)
      /\ UNCHANGED <<memory, instruction, destination_value, destination_place, start, pushed>>

(* An address register is written as a whole. *)
DestinationSizeOf(i) == IF i.kind = "movea" THEN 4 ELSE i.size

(* DecodeDestination and ReadDestination. *)
Destination ==
  LET size == DestinationSizeOf(instruction)
      operand == instruction.destination
      place == Decoded(registers, next_word, operand, size)
  IN  /\ stage = "destination"
      /\ registers' = Moved(registers, operand, size)
      /\ next_word' = Wrap(next_word + ExtensionBytes(operand, size))
      /\ destination_place' = place
      /\ IF ReadsDestination(instruction.kind)
         THEN IF Refused(place, size)
              THEN stage' = "fault" /\ UNCHANGED destination_value
              ELSE stage' = "write" /\ destination_value' = GetValue(registers, place, size)
         ELSE stage' = "write" /\ UNCHANGED destination_value
      /\ UNCHANGED <<memory, instruction, source_value, start, pushed>>

(* What an instruction makes of its operands. *)
Result ==
  CASE instruction.kind = "modify" -> Wrap(destination_value + source_value)
    [] instruction.kind = "movea" /\ instruction.size = 2 -> SignExtendWord(source_value)
    [] OTHER -> source_value

(* SetValueUsingDecodedAddressMode: a register keeps its upper part. *)
Replaced(value, size) == value - Masked(value, size) + Masked(Result, size)

(* WriteDestination, at the place that was decoded, not decoded again. *)
Write ==
  LET size == DestinationSizeOf(instruction)
      place == destination_place
  IN  /\ stage = "write" /\ WritesDestination(instruction.kind)
      /\ IF Refused(place, size)
         THEN stage' = "fault" /\ UNCHANGED <<registers, memory>>
         ELSE /\ stage' = "done"
              /\ IF place.type = "register"
                 THEN /\ registers' = [registers EXCEPT ![place.register] = Replaced(@, size)]
                      /\ UNCHANGED memory
                 ELSE /\ memory' =
                           CASE size = 1 -> WriteByte(memory, place.address, Masked(Result, 1))
                             [] size = 2 -> WriteWord(memory, place.address, Result)
                             [] size = 4 -> WriteLongWord(memory, place.address, Result)
                      /\ UNCHANGED registers
      /\ UNCHANGED <<next_word, instruction, source_value, destination_value,
                     destination_place, start, pushed>>

Compared ==
  /\ stage = "write" /\ ~WritesDestination(instruction.kind)
  /\ stage' = "done"
  /\ UNCHANGED <<registers, memory, next_word, instruction, source_value,
                 destination_value, destination_place, start, pushed>>

(* A program that pushed a value takes it back into the data register. *)
PopPushed ==
  /\ stage = "done" /\ pushed = <<>>
  /\ instruction.kind = "move" /\ instruction.destination.address = "predecrement"
  /\ instruction' =
       [instruction EXCEPT
          !.source = [instruction.destination EXCEPT !.address = "postincrement"],
          !.destination = [address |-> "data_register", register |-> "D",
                           index |-> "D", long_index |-> FALSE]]
  /\ stage' = "source" /\ pushed' = <<[value |-> source_value, source |-> instruction.source]>>
  /\ UNCHANGED <<registers, memory, next_word, source_value, destination_value,
                 destination_place, start>>

AccessNext == Source \/ Destination \/ Write \/ Compared \/ PopPushed

AccessSpec == AccessInit /\ [][AccessNext]_accessVars

(***************************************************************************)
(* Properties.                                                             *)
(***************************************************************************)

First(s) == stage = s /\ pushed = <<>>

(* How far the operands of this instruction move a register. *)
Movement(operand, register, size) ==
  IF operand.register # register THEN 0
  ELSE CASE operand.address = "predecrement"  -> -Step(register, size)
         [] operand.address = "postincrement" -> Step(register, size)
         [] OTHER -> 0

LoadedRegister(register) ==
  /\ WritesDestination(instruction.kind)
  /\ instruction.destination.address \in {"data_register", "address_register"}
  /\ instruction.destination.register = register

(* A register moves once for each operand that moves it, however often     *)
(* that operand is accessed; the register that is written keeps nothing of *)
(* its movement.                                                           *)
RegistersMoveOnce ==
  First("done") =>
    \A r \in OperandRegisters : ~LoadedRegister(r) =>
      registers[r] =
        Wrap(start.registers[r] + Movement(instruction.source, r, SourceSizeOf(instruction))
                                + Movement(instruction.destination, r, instruction.size))

(* Where a destination in memory was, to one who looks afterwards: at the  *)
(* register that was decremented, below the one that was incremented.      *)
Afterwards(operand, size) ==
  CASE operand.address \in {"predecrement", "indirect"} -> registers[operand.register]
    [] operand.address = "postincrement" ->
         Wrap(registers[operand.register] - Step(operand.register, size))

Bytes(address, size) == {Wrap(address + k) % (2 * MemoryWords) : k \in 0 .. size - 1}

(* A result goes where the destination was read, and to its bytes alone.   *)
WrittenWhereRead ==
  First("done") /\ instruction.kind \in {"move", "modify"}
    /\ instruction.destination.address \in {"indirect", "postincrement", "predecrement"} =>
      LET at == Afterwards(instruction.destination, instruction.size)
          old == ReadSized(start.memory, at, instruction.size)
          added == IF instruction.kind = "modify" THEN old ELSE 0
      IN  /\ ReadSized(memory, at, instruction.size) = Masked(source_value + added, instruction.size)
          /\ \A b \in 0 .. 2 * MemoryWords - 1 : b \notin Bytes(at, instruction.size) =>
               ReadByte(memory, b) = ReadByte(start.memory, b)

(* The next instruction is behind the words of both operands, in the       *)
(* layout that the microcode and the disassembler are compared with.       *)
EndsBehindOperands ==
  First("done") =>
    next_word =
      Wrap(Start + 2
             + 2 * Len(ExtensionWords(instruction.source.address, instruction.size))
             + 2 * Len(ExtensionWords(instruction.destination.address, instruction.size)))

(* When an operand is refused, memory is as it was, but the registers have *)
(* moved for the operands up to that one: a handler that starts the        *)
(* instruction again moves them again.                                     *)
FaultAfterMoving ==
  First("fault") =>
    /\ memory = start.memory
    /\ LET once == Movement(instruction.source, "A", instruction.size)
           twice == once + Movement(instruction.destination, "A", instruction.size)
           refused == IF destination_place = Nowhere THEN once ELSE twice
       IN  registers["A"] = Wrap(start.registers["A"] + refused)

(* What was pushed is what is popped, and the pointer is where it was:     *)
(* also when the pointer itself is pushed, with its value before.          *)
PopUndoesPush ==
  stage = "done" /\ pushed # <<>> =>
    /\ Masked(registers["D"], instruction.size) = Masked(pushed[1].value, instruction.size)
    /\ \A r \in AddressRegisters :
         registers[r] = Wrap(start.registers[r] + Movement(pushed[1].source, r, instruction.size))

(* An operand moves its register once, however often it is accessed, and   *)
(* is written where it was read; words follow one another behind the       *)
(* opcode; what is pushed is popped; a refused operand has moved already.  *)
OperandsAccessed ==
  /\ RegistersMoveOnce /\ WrittenWhereRead /\ EndsBehindOperands
  /\ FaultAfterMoving /\ PopUndoesPush
================================================================================
