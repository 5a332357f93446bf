------------------------------ MODULE MCPrograms ------------------------------
(***************************************************************************)
(* Programs of several instructions, each in behaviours of its own:        *)
(*   loop         a loop of DBcc: words of six bits and longwords of       *)
(*                twelve, counts on both sides of one word, and of two;    *)
(*   lock         a lock shared with handlers of two levels and of the one *)
(*                that cannot be masked;                                   *)
(*   subroutines  calls and frames on a stack that begins at address 0, so *)
(*                that its first item is at the end of the address space;  *)
(*   operands     instructions with all pairs of addressing modes, whose   *)
(*                registers point to both ends of memory, to even and odd  *)
(*                addresses; the words behind the opcode are a small       *)
(*                number, one below zero and one whose byte is below zero; *)
(*   transfers    MOVEM and MOVEP with all lists, modes and sizes, at even *)
(*                addresses and at an odd one, one of them so low that     *)
(*                predecrement goes below zero.                            *)
(* Those that do not run stay in one of their initial states.              *)
(***************************************************************************)
EXTENDS LoopCounter, Semaphore, Subroutines, OperandAccess, RegisterTransfers

VARIABLE running   \* one of the five

MCFirsts == {0, 1, 2, 62, 63, 64, 65, 126, 127, 128, 130}

(* Memories for operands, with two values of the words behind the opcode. *)
MCContents ==
  {[w \in 0 .. MemoryWords - 1 |->
      IF w = 9 THEN one ELSE IF w \in {10, 11} THEN two ELSE (37 * w + 11) % 64] :
     one \in {4, 61}, two \in {6, 31}}

MCRegisters == [r \in 0 .. 2 * Group - 1 |-> (911 * r + 1705) % 4096]
MCMemory    == [w \in 0 .. MemoryWords - 1 |-> (37 * w + 11) % 64]

loopVars == vars

(***************************************************************************)
(* The first states.                                                       *)
(***************************************************************************)

LoopIdle ==
  /\ program_counter = Body /\ first = 0 /\ data_register = 0
  /\ displacement = Displacement(DBcc, Body)
  /\ condition = FALSE /\ carry = FALSE /\ fault = FALSE /\ iterations = 0

LockIdle == LockInit /\ lock = {}

CallsIdle ==
  /\ next_instruction \in Code /\ condition_codes \in CCR
  /\ A6 = OuterFrame /\ A7 = Base /\ address_error = FALSE /\ items = <<>>
  /\ \A a \in Code : next_instruction <= a
  /\ \A c \in CCR : condition_codes <= c

AccessIdle ==
  /\ next_word = Start /\ instruction = "none" /\ stage = "none"
  /\ source_value = 0 /\ destination_value = 0 /\ destination_place = Nowhere
  /\ pushed = <<>>

BlocksIdle ==
  /\ phase = "none"
  /\ transfer = [to_register |-> FALSE, longword |-> FALSE, mode |-> "indirect",
                 base |-> Group, list |-> {}]
  /\ i = 0 /\ address = 0 /\ accesses = <<>>
  /\ undone = Nothing

NoRegisters == registers = <<>> /\ start = <<>>

MCInit ==
  \/ /\ running = "loop" /\ Init
     /\ LockIdle /\ CallsIdle /\ AccessIdle /\ BlocksIdle /\ NoRegisters /\ memory = <<>>
  \/ /\ running = "lock" /\ LockInit
     /\ LoopIdle /\ CallsIdle /\ AccessIdle /\ BlocksIdle /\ NoRegisters /\ memory = <<>>
  \/ /\ running = "subroutines" /\ CallInit
     /\ LoopIdle /\ LockIdle /\ AccessIdle /\ BlocksIdle /\ NoRegisters
  \/ /\ running = "operands" /\ AccessInit
     /\ LoopIdle /\ LockIdle /\ CallsIdle /\ BlocksIdle
  \/ /\ running = "transfers" /\ TransferInit
     /\ LoopIdle /\ LockIdle /\ CallsIdle /\ AccessIdle

(***************************************************************************)
(* The steps.                                                              *)
(***************************************************************************)

callsOnly    == <<next_instruction, A6, A7, condition_codes, address_error, items>>
accessOnly   == <<next_word, instruction, stage, source_value, destination_value,
                  destination_place, pushed>>
transferOnly == <<phase, transfer, i, address, accesses, undone>>
storage      == <<registers, memory, start>>

allVars == <<running, loopVars, lockVars, callsOnly, accessOnly, transferOnly, storage>>

LoopStep ==
  /\ running = "loop" /\ Next
  /\ UNCHANGED <<running, lockVars, callsOnly, accessOnly, transferOnly, storage>>

LockStep ==
  /\ running = "lock" /\ LockNext
  /\ UNCHANGED <<running, loopVars, callsOnly, accessOnly, transferOnly, storage>>

CallStep ==
  /\ running = "subroutines" /\ CallNext
  /\ UNCHANGED <<running, loopVars, lockVars, registers, start, accessOnly, transferOnly>>

AccessStep ==
  /\ running = "operands" /\ AccessNext
  /\ UNCHANGED <<running, loopVars, lockVars, callsOnly, transferOnly>>

TransferStep ==
  /\ running = "transfers" /\ TransferNext
  /\ UNCHANGED <<running, loopVars, lockVars, callsOnly, accessOnly>>

MCNext == LoopStep \/ LockStep \/ CallStep \/ AccessStep \/ TransferStep

MCSpec == MCInit /\ [][MCNext]_allVars
==============================================================================
