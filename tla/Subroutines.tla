------------------------------ MODULE Subroutines ------------------------------
(***************************************************************************)
(* The instructions for subroutines, on a stack in memory: BSR and JSR,    *)
(* RTS and RTR, LINK and UNLK, PEA, and the moves with which a program     *)
(* uses the stack besides.  Which of them a program executes is its own    *)
(* affair, as long as it takes from the stack what it has put there; items *)
(* remembers that, for the properties and the refinement mapping.          *)
(***************************************************************************)
EXTENDS Storage

CONSTANTS
  Code,        \* where there are instructions
  Targets,     \* where jumps and calls lead to
  Base,        \* the stack pointer at first
  OuterFrame,  \* the frame pointer at first
  Data,        \* values pushed
  CCR,         \* condition codes: the low part of the status register
  System,      \* the upper part of the status register
  MaxItems     \* bound: items on the stack

SizeOf(kind) == IF kind = "codes" THEN 2 ELSE 4

(* The frame that is there at first is not where the stack will grow.      *)
ASSUME SubroutinesAssumption ==
  /\ \A a \in Code : a \in LongRange /\ ~Odd(a)
  /\ \A a \in Targets : a \in LongRange /\ (~Odd(a) => a \in Code)
  /\ Base \in LongRange /\ ~Odd(Base) /\ OuterFrame \in LongRange
  /\ Data \subseteq LongRange
  /\ CCR \subseteq ByteRange /\ System \in ByteRange
  /\ MaxItems \in Nat /\ MaxItems * 2 < MemoryWords
  /\ \A bytes \in 1 .. 4 * MaxItems : OuterFrame # Wrap(Base - bytes)

VARIABLES
  next_instruction,   \* the program counter
  A6,                 \* the frame pointer
  A7,                 \* the stack pointer
  condition_codes,    \* CONDITION_CODE_REGISTER_MASK of the status register
  address_error,      \* ProgramCounterChanged found an odd program counter
  items               \* auxiliary: what is on the stack, the top first: for
                      \* each its kind, and the bytes from it to the bottom

callVars == <<next_instruction, memory, A6, A7, condition_codes, address_error, items>>

CallInit ==
  /\ next_instruction \in Targets \cap Code
  /\ memory = [w \in 0 .. MemoryWords - 1 |-> 0]
  /\ A6 = OuterFrame /\ A7 = Base
  /\ condition_codes \in CCR /\ address_error = FALSE
  /\ items = <<>>

(* The next instruction is executed: it has this many bytes. *)
Fetched(length) == ~address_error /\ next_instruction \in Code /\ next_instruction + length \in Code

Behind(length) == next_instruction + length

(* Mutant: the stack pointer moves after the write. *)
PushedAfter(value) ==
  /\ A7' = Wrap(A7 - 4)
  /\ memory' = WriteLongWordBackwards(memory, A7, value)

(* DecrementAddressRegister and WriteLongWordBackwards. *)
Pushed(value) ==
  /\ A7' = Wrap(A7 - 4)
  /\ memory' = WriteLongWordBackwards(memory, Wrap(A7 - 4), value)

Room(count) == Len(items) + count <= MaxItems

Kept(count) == SubSeq(items, count + 1, Len(items))

On(kind) == items # <<>> /\ items[1].kind = kind

(* The items with one more, and with a frame and its local variables.      *)
Stacked(kind) ==
  LET bytes == IF items = <<>> THEN 0 ELSE items[1].bytes
  IN  <<[kind |-> kind, bytes |-> bytes + SizeOf(kind)]>> \o items

StackedFrame(locals) ==
  LET framed == Stacked("frame")
  IN  [k \in 1 .. locals |->
        [kind |-> "local", bytes |-> framed[1].bytes + (locals + 1 - k) * SizeOf("local")]] \o framed

(***************************************************************************)
(* Calls and returns.                                                      *)
(***************************************************************************)

JMP ==
  /\ Fetched(0)
  /\ next_instruction' \in Targets
  /\ address_error' = Odd(next_instruction')
  /\ UNCHANGED <<memory, A6, A7, condition_codes, items>>

(* The jump is tested before the return address is pushed. *)
PushedByJSR(target) == ~Odd(target)

JSR ==
  \E length \in {2, 4, 6}, target \in Targets :
    /\ Fetched(length) /\ Room(1)
    /\ next_instruction' = target
    /\ address_error' = Odd(target)
    /\ IF PushedByJSR(target)
       THEN Pushed(Behind(length)) /\ items' = Stacked("return")
       ELSE UNCHANGED <<memory, A7, items>>
    /\ UNCHANGED <<A6, condition_codes>>

(* BSR pushes before it branches. *)
BSR ==
  \E length \in {2, 4}, target \in Targets :
    /\ Fetched(length) /\ Room(1)
    /\ Pushed(Behind(length))
    /\ next_instruction' = target
    /\ address_error' = Odd(target)
    /\ items' = Stacked("return")
    /\ UNCHANGED <<A6, condition_codes>>

RTS ==
  /\ Fetched(0) /\ On("return")
  /\ next_instruction' = ReadLongWord(memory, A7)
  /\ address_error' = Odd(ReadLongWord(memory, A7))
  /\ A7' = Wrap(A7 + 4)
  /\ items' = Kept(1)
  /\ UNCHANGED <<memory, A6, condition_codes>>

(* MOVE SR,-(A7), by which a program prepares for RTR. *)
MOVE_SR ==
  /\ Fetched(2) /\ Room(1)
  /\ A7' = Wrap(A7 - 2)
  /\ memory' = WriteWord(memory, Wrap(A7 - 2), System * ByteValues + condition_codes)
  /\ next_instruction' = Behind(2)
  /\ items' = Stacked("codes")
  /\ UNCHANGED <<A6, condition_codes, address_error>>

(* The codes are the low byte of a word. *)
CodesOf(address) == ReadByte(memory, address + 1)

RTR ==
  /\ Fetched(0) /\ On("codes") /\ Len(items) > 1 /\ items[2].kind = "return"
  /\ condition_codes' = CodesOf(A7)
  /\ next_instruction' = ReadLongWord(memory, Wrap(A7 + 2))
  /\ address_error' = Odd(ReadLongWord(memory, Wrap(A7 + 2)))
  /\ A7' = Wrap(A7 + 6)
  /\ items' = Kept(2)
  /\ UNCHANGED <<memory, A6>>

(***************************************************************************)
(* Frames.                                                                 *)
(***************************************************************************)

(* LINK A6,#-4 * locals. *)
LINK ==
  \E locals \in 0 .. 2 :
    /\ Fetched(4) /\ Room(1 + locals)
    /\ memory' = WriteLongWordBackwards(memory, Wrap(A7 - 4), A6)
    /\ A6' = Wrap(A7 - 4)
    /\ A7' = Wrap(A7 - 4 - 4 * locals)
    /\ next_instruction' = Behind(4)
    /\ items' = StackedFrame(locals)
    /\ UNCHANGED <<condition_codes, address_error>>

(* The address of an item. *)
ItemAddress(k) == Wrap(Base - (IF k \in DOMAIN items THEN items[k].bytes ELSE 0))

IsFrame(k) == k \in DOMAIN items /\ items[k].kind = "frame" /\ ItemAddress(k) = A6

Framed == \E k \in DOMAIN items : IsFrame(k)

FrameItem == CHOOSE k \in DOMAIN items : IsFrame(k)

(* Mutant: the stack pointer is left at the frame. *)
AboveFrame(address) == address

BelowFrame(address) == Wrap(address + 4)

UNLK ==
  /\ Fetched(2) /\ Framed
  /\ A7' = BelowFrame(A6)
  /\ A6' = ReadLongWord(memory, A6)
  /\ next_instruction' = Behind(2)
  /\ items' = Kept(FrameItem)
  /\ UNCHANGED <<memory, condition_codes, address_error>>

(* MOVE.L #value,-4(A6), for a frame with local variables. *)
Assign ==
  \E value \in Data :
    /\ Fetched(6) /\ Framed /\ FrameItem > 1 /\ items[FrameItem - 1].kind = "local"
    /\ memory' = WriteLongWord(memory, Wrap(A6 - 4), value)
    /\ next_instruction' = Behind(6)
    /\ condition_codes' \in CCR
    /\ UNCHANGED <<A6, A7, address_error, items>>

(***************************************************************************)
(* Values.                                                                 *)
(***************************************************************************)

PEA ==
  \E value \in Data :
    /\ Fetched(4) /\ Room(1)
    /\ Pushed(value)
    /\ next_instruction' = Behind(4)
    /\ items' = Stacked("data")
    /\ UNCHANGED <<A6, condition_codes, address_error>>

(* MOVE.L (A7)+,Dn. *)
Pop ==
  /\ Fetched(2) /\ On("data")
  /\ A7' = Wrap(A7 + 4)
  /\ next_instruction' = Behind(2)
  /\ condition_codes' \in CCR
  /\ items' = Kept(1)
  /\ UNCHANGED <<memory, A6, address_error>>

CallNext ==
  JMP \/ JSR \/ BSR \/ RTS \/ MOVE_SR \/ RTR \/ LINK \/ UNLK \/ Assign \/ PEA \/ Pop

CallSpec == CallInit /\ [][CallNext]_callVars

(***************************************************************************)
(* Properties.                                                             *)
(***************************************************************************)

(* A program that has taken everything from the stack finds its pointers   *)
(* as they were, whatever calls and frames there have been.                *)
Balanced == items = <<>> => A7 = Base /\ A6 = OuterFrame

(* The stack pointer is where the items say: it moves by what they hold,   *)
(* across the end of the address space too.                                *)
PointerAtTop == A7 = ItemAddress(1)

PointersReturn == Balanced /\ PointerAtTop

(* The frame with this address, counted from the bottom of the stack. *)
Depth(address) ==
  IF \E k \in DOMAIN items : ItemAddress(k) = address
  THEN Len(items) + 1 - CHOOSE k \in DOMAIN items : ItemAddress(k) = address
  ELSE 0

Value(k) ==
  CASE items[k].kind = "codes" -> ReadByte(memory, ItemAddress(k) + 1)
    [] items[k].kind = "frame" -> Depth(ReadLongWord(memory, ItemAddress(k)))
    [] items[k].kind \notin {"codes", "frame"} -> ReadLongWord(memory, ItemAddress(k))

Abstract == INSTANCE Procedures WITH
  Addresses <- Code,
  Longs <- LongRange,
  Codes <- CCR,
  program_counter <- next_instruction,
  codes <- condition_codes,
  fault <- address_error,
  stack <- [k \in DOMAIN items |-> [kind |-> items[k].kind, value |-> Value(k)]],
  frame <- Depth(A6)

(* The words of memory are the items of the abstract stack: calls return   *)
(* behind themselves, frames are found again, and no instruction changes   *)
(* an item that is not its own.                                            *)
ImplementsProcedures == Abstract!Spec
================================================================================
