----------------------------- MODULE Clown68000 -----------------------------
(***************************************************************************)
(* The execution loop of the interpreter, Clown68000_DoCycles, with the    *)
(* parts of the processor it turns on: the program counter, the status     *)
(* register's system byte, the two banked stack pointers, exceptions and   *)
(* their frames, the pending interrupt and its latch, the cycle count.     *)
(*                                                                         *)
(* What the 68000 program does is not modelled: each iteration executes    *)
(* some instruction, whichever the bus delivers, and an instruction is     *)
(* known by what it does to the parts above.  The bus is the host's        *)
(* read/write callbacks: words outside Ram read as anything in Longs or    *)
(* StatusWords, and a callback may call Clown68000_Interrupt or set        *)
(* terminate_early.  Both are read at the head of the loop only, so one    *)
(* action for a whole instruction loses no interleaving.                   *)
(***************************************************************************)
EXTENDS Integers

CONSTANTS
  AddressSpace,   \* number of values of an address register, 2^32 in the code
  BusSpace,       \* number of addresses the bus tells apart, 2^24 in the code
  Ram,            \* the even bus addresses that read back what was written
  Longs,          \* long words the rest of the bus delivers: vectors, targets
  StackPointers,  \* values a program gives to A7 or to the USP
  StatusWords,    \* status registers a program loads
  Levels,         \* interrupt levels the host requests
  Durations,      \* cycles an instruction takes, or has taken when it faults
  Extensions,     \* bytes of extension words after the opcode
  Budgets         \* the cycles_to_do the host asks for

(* The bits of the status register above the condition codes. *)
StatusRegister == [trace : BOOLEAN, supervisor : BOOLEAN, mask : 0..7]

Addresses == 0 .. AddressSpace - 1

MaxDuration == 168   \* DIVS that does not overflow, absolute long operand

ASSUME AddressSpaceAssumption ==
  AddressSpace \in Nat /\ AddressSpace > 16 /\ AddressSpace % 2 = 0
(* Three words in a row are three words of the bus. *)
ASSUME BusAssumption ==
  /\ BusSpace \in 6 .. AddressSpace /\ AddressSpace % BusSpace = 0
  /\ Ram \subseteq {a \in 0 .. BusSpace - 1 : a % 2 = 0}
  /\ Longs \subseteq Addresses
  /\ StackPointers \subseteq Addresses
  /\ StatusWords \subseteq StatusRegister
ASSUME HostAssumption ==
  Levels \subseteq 0..7 /\ Budgets \subseteq Nat
ASSUME TimingAssumption ==
  Durations \subseteq 1..MaxDuration /\ Extensions \subseteq {0, 2, 4, 6, 8}

VARIABLES
  state,              \* Clown68000_State
  pending_interrupt,  \* its pending_interrupt, which the host writes
  memory,             \* the words of Ram
  phase,              \* where DoCycles is: "host" when it is not running,
                      \* "loop" at the loop's test, "poll" after the instruction
  latched,            \* the loop's copy of pending_interrupt
  cycles_left,        \* stuff.cycles_left_in_instruction
  cycles_done,        \* stuff.cycles_done, then the value returned
  cycles_to_do,       \* the argument of the call
  terminate_early     \* stuff.terminate_early

vars == <<state, pending_interrupt, memory, phase, latched, cycles_left,
          cycles_done, cycles_to_do, terminate_early>>

(***************************************************************************)
(* Words and addresses.                                                    *)
(***************************************************************************)

(* A word of Ram is half of a saved program counter, a saved status        *)
(* register, or some other data.                                           *)
High(long)   == [half |-> "high", value |-> long]
Low(long)    == [half |-> "low", value |-> long]
Saved(sr)    == [half |-> "status", value |-> sr]
Data         == [half |-> "data", value |-> 0]

Words == {Data} \cup {High(a) : a \in Addresses} \cup {Low(a) : a \in Addresses}
           \cup {Saved(sr) : sr \in StatusRegister}

State ==
  [a7 : Addresses, supervisor_stack_pointer : Addresses,
   user_stack_pointer : Addresses, program_counter : Addresses,
   trace : BOOLEAN, supervisor : BOOLEAN, mask : 0..7,
   halted : BOOLEAN, stopped : BOOLEAN]

IsOdd(a) == a % 2 = 1

(* Registers are 32 bits wide: sums and differences wrap. *)
Increment(a, n) == IF a + n < AddressSpace THEN a + n ELSE a + n - AddressSpace

(* Mutant: a register wider than 32 bits, without the mask. *)
DecrementUnmasked(a, n) == a - n

Decrement(a, n) == IF a >= n THEN a - n ELSE a - n + AddressSpace

(* The bus sees the low bits of an address only. *)
Bus(a) == a % BusSpace

WriteWords(mem, where, word) ==
  [a \in Ram |-> IF \E b \in where : Bus(b) = a THEN word ELSE mem[a]]

WriteLong(mem, a, long) ==
  WriteWords(WriteWords(mem, {Increment(a, 2)}, Low(long)), {a}, High(long))

(* What a long word, and a status register, read from the bus may be. *)
ReadLong(mem, a) ==
  LET first == Bus(a)
      second == Bus(Increment(a, 2))
  IN  IF /\ first \in Ram /\ second \in Ram
         /\ mem[first].half = "high" /\ mem[second].half = "low"
         /\ mem[first].value = mem[second].value
      THEN {mem[first].value}
      ELSE Longs

ReadStatus(mem, a) ==
  IF Bus(a) \in Ram /\ mem[Bus(a)].half = "status"
  THEN {mem[Bus(a)].value}
  ELSE StatusWords

(***************************************************************************)
(* The C functions, on a record m of what they change: the processor       *)
(* state, the memory, the instruction's cycles so far, and whether they    *)
(* left the instruction by longjmp.                                        *)
(***************************************************************************)

SetSupervisorMode(s, supervisor_mode) ==
  CASE supervisor_mode /\ ~s.supervisor ->
         [s EXCEPT !.supervisor = TRUE,
                   !.user_stack_pointer = s.a7,
                   !.a7 = s.supervisor_stack_pointer]
    [] ~supervisor_mode /\ s.supervisor ->
         [s EXCEPT !.supervisor = FALSE,
                   !.supervisor_stack_pointer = s.a7,
                   !.a7 = s.user_stack_pointer]
    [] OTHER -> s

(* Mutant: the stack pointers are not exchanged. *)
SetStatusRegisterUnbanked(s, sr) ==
  [s EXCEPT !.trace = sr.trace, !.supervisor = sr.supervisor, !.mask = sr.mask]

SetStatusRegister(s, sr) ==
  [SetSupervisorMode(s, sr.supervisor) EXCEPT
     !.trace = sr.trace, !.supervisor = sr.supervisor, !.mask = sr.mask]

LoadStatus(m, sr) == [m EXCEPT !.state = SetStatusRegister(@, sr)]

SystemByte(s) == [trace |-> s.trace, supervisor |-> s.supervisor, mask |-> s.mask]

AddCycles(m, n) == IF m.longjmp THEN m ELSE [m EXCEPT !.cycles = @ + n]

Halt(m) == [m EXCEPT !.state.halted = TRUE, !.longjmp = TRUE]

(* The address error of an odd stack ends in Group0Exception with A7 odd,  *)
(* which halts.  A7 stays odd or even through the pushes, so the first     *)
(* write is the only one that can fault.                                   *)
DoInterrupt(m, handler) ==
  LET entered == SetSupervisorMode([m.state EXCEPT !.trace = FALSE], TRUE)
      pc_at   == Decrement(entered.a7, 4)
      sr_at   == Decrement(pc_at, 2)
  IN  IF IsOdd(pc_at)
      THEN Halt([m EXCEPT !.state = [entered EXCEPT !.a7 = pc_at]])
      ELSE [m EXCEPT
              !.state  = [entered EXCEPT !.a7 = sr_at, !.program_counter = handler],
              !.memory = WriteWords(WriteLong(@, pc_at, m.state.program_counter),
                                    {sr_at}, Saved(SystemByte(m.state))),
              !.cycles = @ + 30]

(* The address and bus error frame has four more words: the instruction    *)
(* register, the access address and the function code.                     *)
Group0Exception(m, handler) ==
  IF IsOdd(m.state.a7)
  THEN Halt(m)
  ELSE LET e == DoInterrupt(m, handler)
           sp == e.state.a7
       IN  IF e.longjmp
           THEN e
           ELSE [e EXCEPT !.state.a7 = Decrement(sp, 8),
                          !.memory = WriteWords(@, {Decrement(sp, n) : n \in {2, 4, 6, 8}}, Data),
                          !.longjmp = TRUE]

(* Mutant: the program counter stays past the instruction. *)
Group1Or2ExceptionPast(m, starting_program_counter, handler) ==
  [DoInterrupt(m, handler) EXCEPT !.longjmp = TRUE]

(* setjmp's case 2: the program counter goes back to the instruction. *)
Group1Or2Exception(m, starting_program_counter, handler) ==
  [DoInterrupt([m EXCEPT !.state.program_counter = starting_program_counter], handler)
     EXCEPT !.longjmp = TRUE]

ProgramCounterChanged(m, handler) ==
  IF IsOdd(m.state.program_counter) THEN Group0Exception(m, handler) ELSE m

PushLong(m, long, handler) ==
  LET sp == Decrement(m.state.a7, 4)
      moved == [m EXCEPT !.state.a7 = sp]
  IN  IF IsOdd(sp)
      THEN Group0Exception(moved, handler)
      ELSE [moved EXCEPT !.memory = WriteLong(@, sp, long)]

JumpTo(m, target, handler) ==
  ProgramCounterChanged([m EXCEPT !.state.program_counter = target], handler)

(* A return address popped from the stack, jumped to. *)
PopJump(m, target, handler) ==
  IF IsOdd(m.state.a7)
  THEN Group0Exception(m, handler)
  ELSE JumpTo([m EXCEPT !.state.a7 = Increment(@, 4)], target, handler)

(***************************************************************************)
(* The host, between and around the calls.                                 *)
(***************************************************************************)

(* A bus access may request an interrupt, withdraw it, or end the call. *)
BusCallbacks ==
  /\ pending_interrupt' \in Levels \cup {pending_interrupt}
  /\ terminate_early' \in {terminate_early, TRUE}

NoBusCallbacks == UNCHANGED <<pending_interrupt, terminate_early>>

ResetState(s, sp, pc) ==
  [SetSupervisorMode([s EXCEPT !.halted = FALSE, !.stopped = FALSE,
                               !.trace = FALSE, !.mask = 7], TRUE)
     EXCEPT !.a7 = sp, !.program_counter = pc]

(* A zeroed Clown68000_State, the state a host starts from. *)
Zeroed ==
  [a7 |-> 0, supervisor_stack_pointer |-> 0, user_stack_pointer |-> 0,
   program_counter |-> 0, trace |-> FALSE, supervisor |-> FALSE, mask |-> 0,
   halted |-> FALSE, stopped |-> FALSE]

Init ==
  /\ \E sp \in StackPointers, pc \in Longs : state = ResetState(Zeroed, sp, pc)
  /\ memory = [a \in Ram |-> Data]
  /\ pending_interrupt = 0
  /\ phase = "host"
  /\ latched = 0
  /\ cycles_left = 0 /\ cycles_done = 0 /\ cycles_to_do = 0
  /\ terminate_early = FALSE

Reset(sp, pc) ==
  /\ phase = "host"
  /\ state' = ResetState(state, sp, pc)
  /\ pending_interrupt' = 0
  /\ UNCHANGED <<memory, phase, latched, cycles_left, cycles_done, cycles_to_do,
                 terminate_early>>

Interrupt(level) ==
  /\ phase = "host"
  /\ pending_interrupt' = level
  /\ UNCHANGED <<state, memory, phase, latched, cycles_left, cycles_done,
                 cycles_to_do, terminate_early>>

(* A halted processor uses up the budget at once. *)
DoCycles(budget) ==
  /\ phase = "host"
  /\ cycles_to_do' = budget
  /\ IF state.halted
     THEN cycles_done' = budget /\ UNCHANGED <<phase, cycles_left, terminate_early>>
     ELSE /\ phase' = "loop"
          /\ cycles_left' = 0 /\ cycles_done' = 0 /\ terminate_early' = FALSE
  /\ UNCHANGED <<state, pending_interrupt, memory, latched>>

(* Mutant: the last iteration's cycles are added after the test. *)
LoopContinuesUncounted == cycles_done < cycles_to_do /\ ~terminate_early

LoopContinues == cycles_done + cycles_left < cycles_to_do /\ ~terminate_early

Return ==
  /\ phase = "loop" /\ ~LoopContinues
  /\ phase' = "host"
  /\ cycles_done' = cycles_done + cycles_left
  /\ cycles_left' = 0
  /\ UNCHANGED <<state, pending_interrupt, memory, latched, cycles_to_do,
                 terminate_early>>

(***************************************************************************)
(* One iteration of the loop: the instruction.                             *)
(***************************************************************************)

(* Mutant: no latch, the interrupt is the one requested at the end. *)
LatchLate(m) == IF m.longjmp THEN 0 ELSE pending_interrupt'

Latch(m) == IF m.longjmp THEN 0 ELSE pending_interrupt

(* The head of the loop, then m, what the instruction comes to.  After a   *)
(* longjmp the loop's test is next and the interrupt is not looked at.     *)
Iterate(m) ==
  /\ phase = "loop" /\ LoopContinues
  /\ cycles_done' = cycles_done + cycles_left
  /\ state' = m.state /\ memory' = m.memory /\ cycles_left' = m.cycles
  /\ phase' = IF m.longjmp THEN "loop" ELSE "poll"
  /\ latched' = Latch(m)
  /\ UNCHANGED cycles_to_do

(* Mutant: the cycles of the iteration before are not cleared. *)
NowUncleared(cycles) ==
  [state |-> state, memory |-> memory, cycles |-> cycles_left + cycles, longjmp |-> FALSE]

Now(cycles) ==
  [state |-> state, memory |-> memory, cycles |-> cycles, longjmp |-> FALSE]

(* The opcode is fetched with its extension words. *)
Fetched(extension, cycles) ==
  [Now(cycles) EXCEPT !.state.program_counter = Increment(@, 2 + extension)]

(* The addressing modes and the operation have left sp in A7. *)
Addressed(extension, cycles, sp) ==
  [Fetched(extension, cycles) EXCEPT !.state.a7 = sp]

(* Mutant: a stopped processor goes on. *)
ExecuteAnyway(m) ==
  /\ ~IsOdd(state.program_counter)
  /\ BusCallbacks
  /\ Iterate(m)

Execute(m) ==
  /\ ~state.stopped /\ ~IsOdd(state.program_counter)
  /\ BusCallbacks
  /\ Iterate(m)

(* Mutant: waiting takes no time. *)
StoppedForFree ==
  /\ state.stopped
  /\ NoBusCallbacks
  /\ Iterate(Now(0))

(* A stopped processor only waits: the bus is idle. *)
Stopped ==
  /\ state.stopped
  /\ NoBusCallbacks
  /\ Iterate(Now(4))

(* With either stack odd the processor halts before any bus access. *)
FetchAddressError(handler) ==
  /\ ~state.stopped /\ IsOdd(state.program_counter)
  /\ LET m == Group0Exception(Now(4), handler)
     IN  /\ IF m.cycles = 4 THEN NoBusCallbacks ELSE BusCallbacks
         /\ Iterate(m)

(* Any instruction that falls through to the next: it may load A7 and      *)
(* write words of memory.  RESET is one of them.                           *)
Ordinary(extension, duration, sp, written) ==
  Execute([Addressed(extension, duration, sp) EXCEPT
             !.memory = WriteWords(@, written, Data)])

(* A word or long access at an odd address, once the addressing modes have *)
(* moved A7.                                                               *)
DataAddressError(extension, duration, sp, handler) ==
  Execute(Group0Exception(Addressed(extension, duration, sp), handler))

(* JMP, and BRA, Bcc and DBcc when they branch. *)
Jump(duration, target, handler) ==
  Execute(JumpTo(Fetched(0, duration), target, handler))

(* The jump is done, and may fault, before the push. *)
JSR(extension, duration, target, handler) ==
  LET m == Fetched(extension, duration)
      jumped == JumpTo(m, target, handler)
  IN  Execute(IF jumped.longjmp THEN jumped
              ELSE PushLong(jumped, m.state.program_counter, handler))

(* The push is done before the branch, which may fault. *)
BSR(extension, duration, target, handler) ==
  LET m == Fetched(extension, duration)
      pushed == PushLong(m, m.state.program_counter, handler)
  IN  Execute(IF pushed.longjmp THEN pushed ELSE JumpTo(pushed, target, handler))

RTS(handler) ==
  \E target \in ReadLong(memory, state.a7) :
    Execute(AddCycles(PopJump(Fetched(0, 4), target, handler), 12))

(* Mutant: the condition codes are popped as a byte. *)
RTRByte(handler) ==
  LET sp == Increment(state.a7, 1)
  IN  \E target \in ReadLong(memory, sp) :
        Execute(AddCycles(PopJump(Addressed(0, 4, sp), target, handler), 16))

(* The condition codes are a byte read, which never faults. *)
RTR(handler) ==
  LET sp == Increment(state.a7, 2)
  IN  \E target \in ReadLong(memory, sp) :
        Execute(AddCycles(PopJump(Addressed(0, 4, sp), target, handler), 16))

RTE(handler) ==
  LET sp == Increment(state.a7, 2)
      popped(sr) == LoadStatus(Addressed(0, 4, Increment(sp, 4)), sr)
  IN  /\ state.supervisor
      /\ \E sr \in ReadStatus(memory, state.a7), target \in ReadLong(memory, sp) :
           Execute(IF IsOdd(state.a7)
                   THEN Group0Exception(Fetched(0, 4), handler)
                   ELSE AddCycles(JumpTo(popped(sr), target, handler), 16))

(* TRAP, and TRAPV, CHK and a division by zero when they trap. *)
Trap(extension, duration, sp, handler) ==
  Execute(DoInterrupt(Addressed(extension, duration, sp), handler))

(* ILLEGAL and the unimplemented opcodes. *)
IllegalInstruction(handler) ==
  Execute(Group1Or2Exception(Fetched(0, 4), state.program_counter, handler))

(* SupervisorCheck, the first microcode of every privileged instruction. *)
PrivilegeViolation(handler) ==
  /\ ~state.supervisor
  /\ Execute(Group1Or2Exception(Fetched(0, 4), state.program_counter, handler))

(* MOVE, ANDI, EORI and ORI to SR; MOVE may pop its source or predecrement *)
(* A7 for it.                                                              *)
WriteStatusRegister(extension, duration, sp, sr) ==
  /\ state.supervisor
  /\ Execute(LoadStatus(Addressed(extension, duration, sp), sr))

STOP(sr) ==
  /\ state.supervisor
  /\ Execute([LoadStatus(Fetched(2, 4), sr) EXCEPT !.state.stopped = TRUE])

MoveToUSP(sp) ==
  /\ state.supervisor
  /\ Execute([Fetched(0, 4) EXCEPT !.state.user_stack_pointer = sp])

(* MOVE USP,A7; with another register it is an Ordinary instruction. *)
MoveFromUSP ==
  /\ state.supervisor
  /\ Execute([Fetched(0, 4) EXCEPT !.state.a7 = state.user_stack_pointer])

(***************************************************************************)
(* The rest of the iteration: the interrupt latched at its head.           *)
(***************************************************************************)

(* Mutant: level 7 can be masked. *)
InterruptAcceptedMaskable(level) == level > state.mask

InterruptAccepted(level) == level = 7 \/ level > state.mask

(* Mutant: the interrupt does not end STOP. *)
StillStopped == Now(cycles_left)

Woken == [Now(cycles_left) EXCEPT !.state.stopped = FALSE]

(* The acknowledge callback may change the request again. *)
ProcessInterrupt(handler) ==
  /\ phase = "poll" /\ InterruptAccepted(latched)
  /\ LET m == DoInterrupt(Woken, handler)
     IN  IF m.longjmp
         THEN /\ state' = m.state /\ cycles_left' = m.cycles /\ memory' = m.memory
              /\ NoBusCallbacks
         ELSE /\ state' = [m.state EXCEPT !.mask = latched]
              /\ cycles_left' = m.cycles + 14
              /\ memory' = m.memory
              /\ BusCallbacks
  /\ phase' = "loop" /\ latched' = 0
  /\ UNCHANGED <<cycles_done, cycles_to_do>>

NoInterrupt ==
  /\ phase = "poll" /\ ~InterruptAccepted(latched)
  /\ phase' = "loop" /\ latched' = 0
  /\ UNCHANGED <<state, pending_interrupt, memory, cycles_left, cycles_done,
                 cycles_to_do, terminate_early>>

(***************************************************************************)
(* The specification.                                                      *)
(***************************************************************************)

Host ==
  \/ \E sp \in StackPointers, pc \in Longs : Reset(sp, pc)
  \/ \E level \in Levels : Interrupt(level)
  \/ \E budget \in Budgets : DoCycles(budget)

Loaded == StackPointers \cup {state.a7}

(* Instructions that end in one way only. *)
Simple ==
  \/ \E extension \in Extensions, duration \in Durations :
       \/ \E sp \in Loaded, written \in SUBSET Ram :
            Ordinary(extension, duration, sp, written)
       \/ \E sp \in {state.a7, Increment(state.a7, 2), Decrement(state.a7, 2)},
              sr \in StatusWords :
            WriteStatusRegister(extension, duration, sp, sr)
  \/ \E sr \in StatusWords : STOP(sr)
  \/ \E sp \in Loaded : MoveToUSP(sp)
  \/ MoveFromUSP

(* Instructions that may enter a handler. *)
Exceptional ==
  \E handler \in Longs :
    \/ \E extension \in Extensions, duration \in Durations :
         \/ \E sp \in Loaded : DataAddressError(extension, duration, sp, handler)
         \/ \E sp \in Loaded : Trap(extension, duration, sp, handler)
         \/ \E target \in Longs : JSR(extension, duration, target, handler)
         \/ \E target \in Longs : BSR(extension, duration, target, handler)
    \/ \E duration \in Durations, target \in Longs : Jump(duration, target, handler)
    \/ RTS(handler)
    \/ RTR(handler)
    \/ RTE(handler)
    \/ IllegalInstruction(handler)
    \/ PrivilegeViolation(handler)
    \/ FetchAddressError(handler)

Instruction == Simple \/ Exceptional \/ Stopped

Poll ==
  \/ \E handler \in Longs : ProcessInterrupt(handler)
  \/ NoInterrupt

Running == Instruction \/ Poll \/ Return

Next == Host \/ Running

Spec == Init /\ [][Next]_vars

(* The emulator's own steps do happen: DoCycles is a function, called on   *)
(* the host's thread, and runs to its return.  The host is a loop around   *)
(* it.                                                                     *)
Fairness ==
  /\ WF_vars(Running)
  /\ WF_vars(\E budget \in Budgets : DoCycles(budget))

(***************************************************************************)
(* Properties.                                                             *)
(***************************************************************************)

TypeOK ==
  /\ state \in State
  /\ pending_interrupt \in 0..7
  /\ memory \in [Ram -> Words]
  /\ phase \in {"host", "loop", "poll"}
  /\ latched \in 0..7
  /\ cycles_left \in Nat
  /\ cycles_done \in Nat
  /\ cycles_to_do \in Nat
  /\ terminate_early \in BOOLEAN

(* stuff.cycles_left_in_instruction is a cc_u8f, eight bits where the      *)
(* build uses the fast types of <stdint.h>: an instruction, the exception  *)
(* it raises and the interrupt that follows it add up in it.               *)
CyclesFitByte == cycles_left <= 255

(* DoCycles returns what it ran: short of the budget only when a callback  *)
(* ended the call, past it by less than one iteration.                     *)
CyclesReturned ==
  phase = "host" =>
    /\ terminate_early \/ cycles_done >= cycles_to_do
    /\ cycles_done > cycles_to_do => cycles_done - cycles_to_do < 255

(* The banking in SetSupervisorMode, and all that goes through it, keeps   *)
(* the promise of Privilege.                                               *)
Banks == INSTANCE Privilege WITH
  running    <- phase # "host",
  supervisor <- state.supervisor,
  mask       <- state.mask,
  trace      <- state.trace,
  system     <- IF state.supervisor THEN state.a7 ELSE state.supervisor_stack_pointer,
  user       <- IF state.supervisor THEN state.user_stack_pointer ELSE state.a7

PrivilegeKept == Banks!Spec

(* A stopped processor executes nothing: until an interrupt or a reset     *)
(* starts it again its state and the memory stay as STOP left them.        *)
StoppedWaits ==
  [][state.stopped /\ state'.stopped => UNCHANGED <<state, memory>>]_vars

(* A host and a program that load even stack pointers only never see the  *)
(* processor halt: whatever faults, both stacks stay even in both banks.   *)
EvenStacksNeverHalt ==
  (\A sp \in StackPointers : ~IsOdd(sp)) => ~state.halted

(* "Then the CPU halts": only a reset makes a halted processor move.       *)
HaltIsFinal ==
  [][state.halted => state' = state \/ ~state'.halted]_vars

(* "During group 0 exception processing": a fault before the processor has *)
(* entered the handler, in supervisor mode, does not halt it.              *)
HaltsInExceptionProcessing ==
  [][~state.halted /\ state'.halted => state'.supervisor]_vars

(* Every call returns: each iteration of the loop, the stopped one too,    *)
(* adds cycles.                                                            *)
CallReturns == phase # "host" ~> phase = "host"

(* STOP waits for an interrupt, and one that stays requested ends it.      *)
(* Not that of a processor that halted earlier in the same call: the call  *)
(* goes on and may execute STOP, but no later one looks at an interrupt.   *)
StopEnds ==
  state.stopped /\ ~state.halted /\ pending_interrupt = 7
    ~> ~state.stopped \/ pending_interrupt # 7

InterruptEntered == phase = "poll" /\ phase' = "loop" /\ cycles_left' # cycles_left

LeftByException == phase = "loop" /\ phase' = "loop"

(* A request that stays up is served again and again, unless instructions  *)
(* that end in an exception keep the loop from looking at it.              *)
RequestServed ==
  <>[](pending_interrupt = 7 /\ ~state.halted) =>
    []<><<InterruptEntered>>_vars \/ []<><<LeftByException>>_vars
=============================================================================
