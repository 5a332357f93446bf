--------------------------- MODULE RegisterTransfers ---------------------------
(***************************************************************************)
(* MOVEM and MOVEP: the instructions that move registers to and from       *)
(* memory piece by piece.  MOVEM goes over the bits of a list, one step    *)
(* for each; MOVEP moves the bytes of a data register to every other byte. *)
(***************************************************************************)
EXTENDS Storage, RegisterNumbers, FiniteSets

CONSTANTS
  InitialRegisters,   \* what the registers hold at first, but for the base
  InitialMemory,      \* what memory holds at first
  Addresses           \* where transfers begin

ASSUME TransfersAssumption ==
  /\ GroupAssumption /\ 4 * Group <= MemoryWords
  /\ InitialRegisters \in [Registers -> LongRange]
  /\ InitialMemory \in Memories
  /\ Addresses \subseteq LongRange

VARIABLES
  phase,       \* idle, moving, done, fault
  transfer,    \* the instruction: direction, size, addressing mode, base and list
  i,           \* the bit of the list that is next
  address,     \* memory_address
  accesses,    \* the words accessed by this instruction, in order
  undone       \* the transfer that this one undoes, or Nothing

transferVars == <<registers, memory, phase, transfer, i, address, accesses, start, undone>>

Bases == {r \in Registers : ~IsDataRegister(r)}

Transfers ==
  [to_register : BOOLEAN, longword : BOOLEAN,
   mode : {"indirect", "postincrement", "predecrement", "movep"}, base : Bases,
   list : SUBSET Registers]

(* MOVEP has no list: it moves one data register. *)
IsMOVEP == transfer.mode = "movep"

SensibleTransfer(t) == t.mode = "movep" => \E r \in Registers : IsDataRegister(r) /\ t.list = {r}

Nothing == [to_register |-> FALSE]

Predecrement == transfer.mode = "predecrement"

TransferInit ==
  /\ \E base \in Bases, a \in Addresses :
       /\ registers = [InitialRegisters EXCEPT ![base] = a]
       /\ transfer \in {t \in Transfers : t.base = base /\ SensibleTransfer(t)}
  /\ memory = InitialMemory
  /\ phase = "idle"
  /\ i = 0 /\ address = 0 /\ accesses = <<>>
  /\ start = [registers |-> registers, memory |-> memory]
  /\ undone = Nothing

(***************************************************************************)
(* MOVEM                                                                   *)
(***************************************************************************)

Begin ==
  /\ phase = "idle" /\ ~IsMOVEP
  /\ phase' = "moving"
  /\ i' = 0 /\ accesses' = <<>>
  /\ address' = registers[transfer.base]
  /\ start' = [registers |-> registers, memory |-> memory]
  /\ UNCHANGED <<registers, memory, transfer, undone>>

Size == IF transfer.longword THEN 4 ELSE 2

address_delta == IF Predecrement THEN -Size ELSE Size

(* The words of one register, in the order of their accesses.              *)
Words(at) ==
  CASE ~transfer.longword -> <<at>>
    [] transfer.longword /\ Predecrement /\ ~transfer.to_register -> <<at + 2, at>>
    [] OTHER -> <<at, at + 2>>

(* Where the next register is.  Reading takes no notice of predecrement,   *)
(* with which MOVEM to registers has no sense.                             *)
Place ==
  IF Predecrement /\ ~transfer.to_register THEN address + address_delta ELSE address

Loaded(at) ==
  IF transfer.longword THEN ReadLongWord(memory, at) ELSE SignExtendWord(ReadWord(memory, at))

Stored(at, value) ==
  IF transfer.longword THEN WriteLongWord(memory, at, value) ELSE WriteWord(memory, at, value)

Moving == phase = "moving" /\ i \in Registers

Skip ==
  /\ Moving /\ i \notin transfer.list
  /\ i' = i + 1
  /\ UNCHANGED <<registers, memory, phase, transfer, address, accesses, start, undone>>

(* The first access raises the exception. *)
Fault ==
  /\ Moving /\ i \in transfer.list /\ Odd(Place)
  /\ phase' = "fault"
  /\ UNCHANGED <<registers, memory, transfer, i, address, accesses, start, undone>>

Move ==
  /\ Moving /\ i \in transfer.list /\ ~Odd(Place)
  /\ IF transfer.to_register
     THEN /\ registers' = [registers EXCEPT ![i] = Loaded(Place)]
          /\ UNCHANGED memory
     ELSE /\ memory' = Stored(Place, registers[MovedRegister(i, Predecrement)])
          /\ UNCHANGED registers
  /\ accesses' = accesses \o Words(Place)
  /\ address' = Wrap(address + address_delta)
  /\ i' = i + 1
  /\ UNCHANGED <<phase, transfer, start, undone>>

(* The base register is written last, after it may have been loaded. *)
WrittenBack == transfer.mode # "indirect"

End ==
  /\ phase = "moving" /\ i \notin Registers
  /\ registers' = IF WrittenBack THEN [registers EXCEPT ![transfer.base] = address]
                                 ELSE registers
  /\ phase' = "done"
  /\ UNCHANGED <<memory, transfer, i, address, accesses, start, undone>>

(***************************************************************************)
(* MOVEP                                                                   *)
(***************************************************************************)

(* Every other byte. *)
Lane(at, k) == at + 2 * k

(* Two bytes of the value, the higher first. *)
ReadPair(at) == ReadByte(memory, Lane(at, 0)) * ByteValues + ReadByte(memory, Lane(at, 1))

WritePair(m, at, word) ==
  WriteByte(WriteByte(m, Lane(at, 0), word \div ByteValues), Lane(at, 1), word % ByteValues)

MOVEP ==
  /\ phase = "idle" /\ IsMOVEP
  /\ LET at == registers[transfer.base]
         r == CHOOSE q \in transfer.list : TRUE
         high == registers[r] \div WordValues
         low == registers[r] % WordValues
     IN  IF transfer.to_register
         THEN /\ registers' = [registers EXCEPT ![r] =
                   IF transfer.longword THEN ReadPair(at) * WordValues + ReadPair(Lane(at, 2))
                                        ELSE high * WordValues + ReadPair(at)]
              /\ UNCHANGED memory
         ELSE /\ memory' = IF transfer.longword
                           THEN WritePair(WritePair(memory, at, high), Lane(at, 2), low)
                           ELSE WritePair(memory, at, low)
              /\ UNCHANGED registers
  /\ start' = [registers |-> registers, memory |-> memory]
  /\ phase' = "done"
  /\ UNCHANGED <<transfer, i, address, accesses, undone>>

(***************************************************************************)
(* A program that saved registers on a stack uses them and restores them.  *)
(***************************************************************************)

Restore ==
  /\ phase = "done" /\ undone = Nothing
  /\ ~transfer.to_register /\ (Predecrement \/ IsMOVEP)
  /\ registers' = [r \in Registers |-> IF r = transfer.base THEN registers[r] ELSE 0]
  /\ transfer' =
       IF IsMOVEP
       THEN [transfer EXCEPT !.to_register = TRUE]
       ELSE [transfer EXCEPT !.to_register = TRUE, !.mode = "postincrement",
                             !.list = {2 * Group - 1 - r : r \in transfer.list}]
  /\ undone' = [transfer |-> transfer, registers |-> start.registers]
  /\ phase' = "idle"
  /\ accesses' = <<>>
  /\ UNCHANGED <<memory, i, address, start>>

TransferNext == Begin \/ Skip \/ Fault \/ Move \/ End \/ MOVEP \/ Restore

TransferSpec == TransferInit /\ [][TransferNext]_transferVars

(***************************************************************************)
(* Properties.                                                             *)
(***************************************************************************)

(* Registers of the list below this one. *)
Before(r) == Cardinality({q \in transfer.list : q < r})

(* The registers of a list with predecrement are counted from the last.    *)
Listed(r) ==
  IF Predecrement /\ ~transfer.to_register THEN 2 * Group - 1 - r \in transfer.list
                                           ELSE r \in transfer.list

ListedBefore(r) == Cardinality({q \in Registers : q < r /\ Listed(q)})

Lowest ==
  IF Predecrement THEN registers[transfer.base] ELSE start.registers[transfer.base]

(* Whatever the mode, the registers stored lie in memory in their order,   *)
(* the lowest first, with the values they had before, the base included;   *)
(* and no other word is changed.                                           *)
LaidOutInOrder ==
  phase = "done" /\ ~transfer.to_register /\ ~IsMOVEP =>
    LET At(r) == Wrap(Lowest + Size * ListedBefore(r))
        Touched == {WordIndex(accesses[k]) : k \in DOMAIN accesses}
    IN  /\ \A r \in Registers : Listed(r) =>
             IF transfer.longword
             THEN ReadLongWord(memory, At(r)) = start.registers[r]
             ELSE ReadWord(memory, At(r)) = start.registers[r] % WordValues
        /\ \A w \in (0 .. MemoryWords - 1) \ Touched : memory[w] = start.memory[w]
        /\ Len(accesses) = (Size \div 2) * Cardinality(transfer.list)

(* The registers loaded come from memory in their order, and no others     *)
(* change; with postincrement the base ends behind the last word, even     *)
(* when it was itself loaded.                                              *)
LoadedInOrder ==
  phase = "done" /\ transfer.to_register /\ ~Predecrement /\ ~IsMOVEP =>
    /\ memory = start.memory
    /\ \A r \in Registers :
         LET at == Wrap(start.registers[transfer.base] + Size * Before(r))
         IN  registers[r] =
               CASE r = transfer.base /\ transfer.mode = "postincrement" ->
                      Wrap(start.registers[r] + Size * Cardinality(transfer.list))
                 [] r \in transfer.list /\ ~(r = transfer.base /\ transfer.mode = "postincrement") ->
                      Loaded(at)
                 [] OTHER -> start.registers[r]

(* A save with predecrement and a restore with postincrement of the mirror *)
(* image of its list leave the stack pointer as it was, and the registers  *)
(* of the list, or their sign-extended low words; the same for MOVEP,      *)
(* without the extension.                                                  *)
RestoreUndoesSave ==
  undone # Nothing /\ phase = "done" =>
    /\ registers[transfer.base] = undone.registers[transfer.base]
    /\ \A r \in transfer.list \ {transfer.base} :
         registers[r] =
           CASE transfer.longword -> undone.registers[r]
             [] ~transfer.longword /\ IsMOVEP -> undone.registers[r] % WordValues
             [] OTHER -> SignExtendWord(undone.registers[r] % WordValues)

(* MOVEP leaves the bytes between its own alone, and all of memory when it *)
(* loads; a word leaves the upper half of the register.                    *)
LanesApart ==
  phase = "done" /\ IsMOVEP =>
    LET at == start.registers[transfer.base]
        Own == {Wrap(Lane(at, k)) % (2 * MemoryWords) : k \in 0 .. Size - 1}
    IN  /\ \A b \in 0 .. 2 * MemoryWords - 1 :
             b \notin Own \/ transfer.to_register =>
               ReadByte(memory, b) = ReadByte(start.memory, b)
        /\ \A r \in Registers : registers[r] \div WordValues # start.registers[r] \div WordValues =>
             transfer.to_register /\ transfer.longword /\ r \in transfer.list

(* The bus sees one word after another, upwards or, with predecrement,     *)
(* downwards, without a word twice.                                        *)
AccessesInOrder ==
  ~(Predecrement /\ transfer.to_register) =>
    \A k \in 1 .. Len(accesses) - 1 :
      Wrap(accesses[k + 1]) = Wrap(accesses[k] + IF Predecrement THEN -2 ELSE 2)

(* An odd address is found before anything has changed.                    *)
FaultTouchesNothing ==
  phase = "fault" =>
    registers = start.registers /\ memory = start.memory /\ accesses = <<>>

(* MOVEM and MOVEP lay registers out in their order and get them back, for *)
(* any list, mode, size and base, the base in the list too; an odd address *)
(* is found before anything has changed.                                   *)
TransfersKept ==
  /\ LaidOutInOrder /\ LoadedInOrder /\ RestoreUndoesSave
  /\ LanesApart /\ AccessesInOrder /\ FaultTouchesNothing
================================================================================
