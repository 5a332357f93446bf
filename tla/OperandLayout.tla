---------------------------- MODULE OperandLayout ----------------------------
(***************************************************************************)
(* Where the interpreter finds the operands of an instruction: its size,   *)
(* the addressing modes of source and destination, and the words that      *)
(* follow the opcode for them.  Microcode runs on these definitions; the   *)
(* disassembler, which has tables of its own, is compared with them.       *)
(***************************************************************************)
EXTENDS Opcode, InstructionProperties, Sequences

(* Mutant: MOVE without its odd size field. *)
OperationSizeMoveStandard(o, rule) ==
  CASE rule = "byte" -> 1
    [] rule = "word" -> 2
    [] rule = "longword" -> 4
    [] rule = "longword_register_byte_memory" -> IF o.primary_address_mode = 0 THEN 4 ELSE 1
    [] rule = "move" -> <<1, 1, 2, 4>>[Bits(o.raw, 12, 2) + 1]
    [] rule = "ext" -> IF Bits(o.raw, 6, 1) = 1 THEN 4 ELSE 2
    [] rule = "standard" -> <<1, 2, 4, 4>>[o.bits_6_and_7 + 1]

(* The SetSize functions. *)
OperationSize(o, rule) ==
  CASE rule = "byte" -> 1
    [] rule = "word" -> 2
    [] rule = "longword" -> 4
    [] rule = "longword_register_byte_memory" ->
         IF o.primary_address_mode = 0 THEN 4 ELSE 1
    [] rule = "move" -> <<1, 1, 4, 2>>[Bits(o.raw, 12, 2) + 1]
    [] rule = "ext" -> IF Bits(o.raw, 6, 1) = 1 THEN 4 ELSE 2
    [] rule = "standard" -> <<1, 2, 4, 4>>[o.bits_6_and_7 + 1]

(* The register form of a pair operation, or its memory form. *)
PairAddress(o) == IF Bits(o.raw, 3, 1) = 1 THEN "predecrement" ELSE "data_register"

(* The rules whose operand has the size of the operation. *)
SizedSources ==
  {"immediate_data", "data_register_secondary", "bcd_x",
   "data_register_secondary_or_primary_address_mode",
   "address_register_primary_postincrement", "primary_address_mode"}

SizedDestinations ==
  {"data_register_primary", "data_register_secondary", "address_register_secondary",
   "secondary_address_mode", "bcd_x", "data_register_secondary_or_primary_address_mode",
   "address_register_secondary_postincrement", "primary_address_mode"}

(* The DecodeSource functions.  Size 0 stands for the address of the       *)
(* operand instead of its value.                                           *)
SourceAddress(o, rule) ==
  CASE rule \in {"immediate_data", "immediate_data_byte", "immediate_data_word"} -> "immediate"
    [] rule = "data_register_secondary" -> "data_register"
    [] rule = "bcd_x" -> PairAddress(o)
    [] rule = "data_register_secondary_or_primary_address_mode" ->
         IF o.bit_8 THEN "data_register" ELSE Primary(o)
    [] rule = "address_register_primary_postincrement" -> "postincrement"
    [] OTHER -> Primary(o)

SourceSize(o, rule, size) ==
  CASE rule \in SizedSources -> size
    [] rule = "immediate_data_byte" -> 1
    [] rule \in {"immediate_data_word", "primary_address_mode_word"} -> 2
    [] rule = "primary_address_mode_sized" -> IF o.bit_8 THEN 4 ELSE 2
    [] rule = "memory_address_primary" -> 0

SourceRegister(o, rule) ==
  IF \/ rule = "data_register_secondary"
     \/ rule = "data_register_secondary_or_primary_address_mode" /\ o.bit_8
  THEN o.secondary_register
  ELSE o.primary_register

(* The DecodeDestination functions. *)
DestinationAddress(o, rule) ==
  CASE rule \in {"data_register_primary", "data_register_secondary"} -> "data_register"
    [] rule \in {"address_register_secondary", "address_register_secondary_full"} ->
         "address_register"
    [] rule = "secondary_address_mode" -> Secondary(o)
    [] rule = "bcd_x" -> PairAddress(o)
    [] rule = "data_register_secondary_or_primary_address_mode" ->
         IF o.bit_8 THEN Primary(o) ELSE "data_register"
    [] rule = "address_register_secondary_postincrement" -> "postincrement"
    [] rule = "movep" -> "displacement"
    [] OTHER -> Primary(o)

DestinationSize(rule, size) ==
  CASE rule \in SizedDestinations -> size
    [] rule = "address_register_secondary_full" -> 4
    [] rule \in {"movem", "movep"} -> 0

DestinationRegister(o, rule) ==
  IF \/ rule \in {"data_register_primary", "primary_address_mode", "movem", "movep"}
     \/ rule = "data_register_secondary_or_primary_address_mode" /\ o.bit_8
  THEN o.primary_register
  ELSE o.secondary_register

(* The operands an instruction has, the source first. *)
Operand(address, register, size) ==
  [address |-> address, register |-> register, size |-> size]

NoOperand(address) == Operand(address, 0, 0)

SourceOperand(o, i) ==
  LET rule == GetSourceOperand(i)
  IN  CASE ~IsSourceOperandRead(i) -> NoOperand("none")
        [] IsSourceOperandRead(i) /\ rule = "status_register" -> NoOperand(rule)
        [] OTHER ->
             LET size == IF rule \in SizedSources THEN OperationSize(o, GetSize(i)) ELSE 0
             IN  Operand(SourceAddress(o, rule), SourceRegister(o, rule), SourceSize(o, rule, size))

DestinationOperand(o, i) ==
  LET rule == GetDestinationOperand(i)
  IN  CASE ~IsDestinationOperandRead(i) /\ ~IsDestinationOperandWritten(i) -> NoOperand("none")
        [] rule \in {"condition_code_register", "status_register"} -> NoOperand(rule)
        [] OTHER ->
             LET size == IF rule \in SizedDestinations THEN OperationSize(o, GetSize(i)) ELSE 0
             IN  Operand(DestinationAddress(o, rule), DestinationRegister(o, rule),
                         DestinationSize(rule, size))

(* The words after the opcode that an operand takes, named for its mode. *)
ExtensionWords(address, size) ==
  LET count == CASE address = "immediate" -> <<0, 1, 1, 1, 2>>[size + 1]
                 [] address = "absolute_long" -> 2
                 [] address \in {"absolute_short", "displacement", "index",
                                 "pc_displacement", "pc_index"} -> 1
                 [] OTHER -> 0
  IN  [n \in 1 .. count |-> address]

==============================================================================
