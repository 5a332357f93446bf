# Clown68000 in TLA+

A verification development for the Clown68000 emulator of the Motorola 68000
(`source/` in this repository): TLA+ modules translated from the C code,
configurations that model-check them with TLC, and proofs that TLAPS checks.

To check a module: `tlc -config MCPrivilege.cfg MCClown68000`; the table of runs
below names the others. To check the proofs: `tlapm` on the modules named
`..._proofs.tla`, listed under "What is proved".

## The system

Clown68000 is a library. A host owns a `Clown68000_State` and a table of
callbacks (the bus, an interrupt acknowledge), and calls three functions on one
thread: `Clown68000_Reset`, `Clown68000_Interrupt` and `Clown68000_DoCycles`.
The callbacks run inside `DoCycles` and may call `Clown68000_Interrupt` and set
`terminate_early`. There are no threads; the orders that matter are those of
callbacks against the loop's reads, and of `longjmp` against everything else.

| Component | Where | State | Operations |
|---|---|---|---|
| Execution loop | `clown68000.c` 2360-2473 | `Clown68000_State`, `Stuff` (cycles, starting program counter, jump buffer) | `Reset`, `Interrupt`, `DoCycles`; inside it the latch of the pending interrupt, fetch, `STOP`, interrupt entry |
| Supervisor mode and exceptions | `clown68000.c` 249-354, 787-794, 1424-1549 | supervisor bit, mask, trace bit, A7 and its two banked copies, `halted`, `stopped` | `SetSupervisorMode`, `DoInterrupt`, `Group0Exception`, `Group1Or2Exception`, `SetStatusRegister`, RTE, RTR, RTS, TRAP, STOP, MOVE USP |
| Opcode decoder | `common/opcode.c` | none (a function of the opcode) | `GetInstruction`, `DecodeOpcode` |
| Microcode and its generator | `microcode-generator/*.c`, its output `microcode.c` | fields of `Stuff` between the steps of an instruction | one case per instruction, a fixed order of steps (check privilege, set size, decode source, read, decode destination, read, action, write, condition codes) |
| Memory access | `clown68000.c` 104-247 | none: the host's memory | `ReadByte` ... `WriteLongWordBackwards` over the bus callbacks |
| Addressing modes | `clown68000.c` 357-592, 851-1005 | `DecodedAddressMode`, address registers, program counter | `DecodeMemoryAddressMode`, `GetValue...`, `SetValue...` |
| Block transfers | `clown68000.c` 1267-1311, 1625-1787 | registers, memory, an index and an address | MOVEP, MOVEM |
| Subroutines and loops | `clown68000.c` 1344-1422, 1516-1624, 1819-1903 | program counter, A6, A7, the stack in memory, a counter | JMP, JSR, BSR, RTS, RTR, LINK, UNLK, PEA, Bcc, BRA, DBcc |
| Arithmetic and condition codes | `clown68000.c` 1007-1342, 1905-2338 | `Stuff` values, the condition codes | one `Action_` per instruction, one `Action_` per flag |
| Timing | `clown68000.c` 594-785 | `cycles_left_in_instruction` | per-instruction helpers |
| Disassembler | `source/disassembler/` | a reading position, an opcode with its operands, a line | `Clown68000_Disassemble`: `DecodeOpcode` with tables of its own, `GetOperandName`, the list of registers |

How they interact: `DoCycles` decodes an opcode, the microcode case of its
instruction calls the steps in `clown68000.c`, each of which may fault, and a
fault leaves the instruction by `longjmp` to the head of `DoCycles`.

What is hard, and what each part must get right, is the list `hazards` of
`PROJECT.json`, each at its line. In short:

* *Stack banking*: four ways to change the supervisor bit, three to leave an
  instruction, two banked stack pointers. A program in user mode must never
  reach the supervisor's stack, mask or trace bit; a handler's RTE must put
  everything back.
* *The latch*: an interrupt is looked at after an instruction, but the request
  looked at is the one seen before it.
* *Progress*: a call returns only if every iteration of the loop counts cycles,
  and the count is kept in eight bits.
* *Halting*: a double fault stops the processor; when it does, and when not.
* *Operands*: the same register named twice moves in between; a fault leaves it
  moved; long words go over a bus of words, in an order, across the end of the
  address space.
* *Numbers from bits*: carries and overflows are found in top bits, quotients in
  two stages, decimal corrections in single bits of a binary result.
* *Tables that must agree*: the generator's, the microcode made of them, and those
  of the disassembler, for 65536 opcodes.
* *Programs*: flags and stack carry a meaning from one instruction to the next (X
  and Z over long numbers, frames on a stack, the two halves of DBcc's counter, a
  lock tested and set).

## The modules

### Clown68000

The execution loop and the parts of the processor it turns on. Its variables
are those of the code:

| Variable | Code |
|---|---|
| `state` | `Clown68000_State`: A7, the two banked stack pointers, program counter, the status register's trace, supervisor and mask bits, `halted`, `stopped` |
| `pending_interrupt` | `state->pending_interrupt`, apart because the host and its callbacks write it |
| `memory` | the even bus addresses in `Ram`; each word is half of a saved program counter, a saved status register or data |
| `phase` | where `DoCycles` is: not running (`host`), at the loop's condition (`loop`), at the interrupt test (`poll`) |
| `latched` | the local `pending_interrupt` (2424) |
| `cycles_left`, `cycles_done`, `cycles_to_do`, `terminate_early` | the fields of `Stuff` and the argument |

`Reset`, `Interrupt` and `DoCycles` are the host's actions; `Return` is the
loop's exit. One iteration of the loop is two actions: an instruction, and
`ProcessInterrupt` or `NoInterrupt`. Nothing else reads `pending_interrupt` or
`terminate_early` in between, so an instruction may be one action although it
makes many bus accesses.

An instruction is known by what it does to the state above. `Ordinary` stands
for all instructions that only compute, move data or push and pop with ordinary
addressing (they may leave any stack pointer the program loads in A7, and write
any words of `Ram`). The others have an action each: those that jump, push
return addresses, change the status register or enter a handler. The C
functions they call (`DoInterrupt`, `Group0Exception`, ...) are operators of the
same name on a record of what they change; `longjmp` is a field of that record.
Which instruction runs, with which extension words, for how many cycles, is any
choice: the model's runs contain all programs' runs.

The condition codes, D0-D7 and A0-A6 are left out here. `Durations` is bounded by
`MaxDuration` (168, DIVS that does not overflow with an absolute long operand),
the assumption `TimingAssumption`; `Microcode` shows that the instructions keep
to it.

### Privilege

The abstract specification of the supervisor bit: a program in user mode owns
its own stack pointer and nothing else; exception entry pushes one frame on the
system stack and never lowers the mask; leaving supervisor mode does not touch
the user's stack. `Clown68000` implements it under the mapping `Banks`
(`system` is A7 in supervisor mode and the banked copy otherwise).

### Opcode, InstructionProperties

Two pure modules. `Opcode` is the decoder, `DecodeOpcode` with one operator per
line (top four bits) of the opcode map. `InstructionProperties` has the thirteen
tables the microcode generator works from, one operator per function of
`instruction-properties.c`: how an instruction's size is found, where its
operands are, which of them it reads and writes, what becomes of each condition
code, whether it is privileged.

### Microcode

One instruction from its fetch to its end, for every opcode. `steps` is the set of
steps left of the instruction's case in `microcode.c`; the constant function `Cases`
makes these cases of the tables as the generator does, and a step is taken when no
step left comes before it, `Position` being the order of the calls in the
generator's loop. There is an action per step, and an operator per
`Action_` function of `clown68000.c` (functions that differ in arithmetic only
share one).

`stuff` stands for the C structure of that name. Operands are kept as what the
control depends on: register or memory, size, odd or even. Values are not kept.
A choice the code makes on a value (a branch taken, a divisor of zero, the bits
of a multiplier) is a choice of the model, and a condition code is known by how
it was last written. Four fields of `stuff` only record what happened: which
fields of the structure this instruction has written and which it read before
that, what it changed of the system state, and the condition codes in the frames
it pushed. The memory and the registers themselves are `Clown68000`'s; the two
modules meet in `TimingHolds`. What operands an opcode has, and how many words
each takes, is `OperandLayout`, which the disassembler and `OperandAccess` are
compared with.

### MicrocodeFile, Generator

`Generator` is the program that prints `microcode.c`: which rounds of its loop an
instruction's label is printed in, the order of the `EmitInstruction...` calls, and
what each prints for an entry of the tables. A case is the sequence of functions it
calls.
`MicrocodeFile` is the other side, the cases of the file that is checked in and
compiled, transcribed one by one; the run shows they are the same, so that
`Microcode`, made of the tables, is the microcode that is built.

### Bus, Storage, OperandAccess

`Bus` has the eight functions that read and write memory: words in a bus narrower
than a register, bytes as halves of words, long words as two words upwards or
downwards. It is parameterised by the number of values of a byte and the number
of words of memory; the modules below share it. `Storage` declares what they work
on: the memory, the registers, and both as they were before.

`OperandAccess` is an instruction with two operands and their values: the
destination is decoded, read, changed and written back after the source, with the
registers, the extension words in memory and the program counter. An odd address
stops it. A second instruction may pop what the first pushed.

### RegisterNumbers, RegisterTransfers

MOVEM as its loop, an action for each bit of the list, and MOVEP. The registers
are in two groups, as in the code; `Restore` is the program that saved registers
on a stack, used them and gets them back. `RegisterNumbers` says which register a
bit of a list stands for, for MOVEM and for the disassembler's list.

### Procedures, Subroutines

`Procedures` is the abstract specification of the instructions a compiler makes
calls of: a stack of items (return addresses, saved codes, frames with local
variables, values), where a call pushes the address behind itself, a return goes
there, and leaving a procedure drops its frame and finds the one before it.
`Subroutines` is what the code does, on a memory that wraps. Its auxiliary
variable `items`, which no action reads to compute anything but itself and to
keep the program one that takes what it has put, tells of each item on the stack
what it is and how many bytes there are from it to the stack's bottom; the mapping
reads the items' values from memory. The frame there is at first
(`OuterFrame`) is assumed not to be where the stack will grow: a frame pushed at its
address would be taken for it, which the proof of the refinement noticed.

### LoopCounter

DBcc, Bcc and BRA in the loop compilers put around DBcc to count all 32 bits of a
register (`CLR.W`, `SUBQ.L`, `BCC`). The program is external; the instructions
are the code's, with the order in which DBcc tests its target and writes its
counter.

### Flags, ConditionCodes, LongArithmetic

`Flags` has the condition code functions (carry, overflow, zero, negative,
extend) on operands of any size, a power of two with the top bit `SignBit`, and the
sixteen conditions. `ConditionCodes` executes ADD, SUB, CMP, NEG and their
relatives on any operands. `LongArithmetic` is a program that runs ADDX, SUBX
or NEGX over the parts of two long numbers; the numbers are kept beside, to compare.

### Operation, LongNumbers, Shift, WordArithmetic, Decimal

`Operation` declares what the modules of arithmetic have in common of an
instruction's execution, and `LongNumbers` the numbers that `LongArithmetic` and
`Decimal` go over part by part. `Shift`: each shift and rotate as the code's loop over
single bits, with `weight` (2 to the number of steps done) to compare.
`WordArithmetic`: MULU, MULS, DIVU, DIVS and CHK with absolute values, signs put
back, overflow found in two stages and the loops that imitate the processor's for
its time. `Decimal`: ABCD, SBCD
and NBCD by their binary result and the bits that select the corrections, over
one byte after another. Of the corrected result of ABCD and SBCD, the second of
the two tests for C never matters when the operands are decimal digits.

### Semaphore

TAS, BSET, BCLR, CLR, Scc and the branches, used by a program and its interrupt
handlers to guard something. The programs are external. Interrupts come between
any two instructions, nested, whenever their level is above the mask: more than
`Clown68000` allows, which looks at a request seen one instruction earlier. A
handler that finds the lock taken gives up, since the one it interrupted cannot
go on.

### Disassembler, RegisterList

`Disassembler` reads an opcode, decodes it with the tables of
`disassembler/opcode.c`, prints the source operand and then the destination (each
may read words) and prints the line. `line` holds what the properties compare:
the operands as decoded, the words read and for what, the positions that targets
are relative to, and how long the text is at most; the text is left out. The data
of the words does not matter to the control and is not kept. `RegisterList` is the
loop in a loop that prints MOVEM's registers as ranges; its property
`ShowsMovedRegisters` is that these are the registers MOVEM moves, in ranges that
cannot be joined.

### InterruptLatency, ExceptionFrames

`Clown68000` with a history variable each: how long ago the interrupt request
changed; which exception frames no step has written over, with the context they
hold. The variables are read by the properties only.

### MC modules

`MCClown68000`, `MCInterruptLatency`, `MCExceptionFrames` give the constants
values and state constraints; `MCMicrocode` and `MCDisassembler` give their
modules all 65536 opcodes. These two and the others below also bring modules
together that share nothing: such modules are explored side by side in one run. A
first state chooses one of them, the others stay in one of their own first states,
and the reachable states are those of each module by itself. `ShiftsCompute`,
`ShiftCodes`, `WordsCompute`, `DurationsMeasured`, `DecimalCorrect`, `PointersReturn`,
`OperandsAccessed` and `TransfersKept` are conjunctions of the properties of a module:

| MC module | Brings together | Properties |
|---|---|---|
| `MCMicrocode` | `Microcode`; what `Generator` prints, against `MicrocodeFile` | `EmittedAsCheckedIn` |
| `MCDisassembler` | `Disassembler`, `RegisterList` | theirs |
| `MCArithmetic` | `ConditionCodes`, `LongArithmetic`, `Shift`, `WordArithmetic`, `Decimal` | theirs |
| `MCPrograms` | `LoopCounter`, `Semaphore`, `Subroutines`, `OperandAccess`, `RegisterTransfers` | theirs |

`MCArithmetic` also leaves out some combinations of the condition codes of the first
state that the instructions do not look at.
`ShortSpec` and `HandlersSpec` are sub-programs:
next-state relations made of the actions of `Clown68000`, with fewer
instructions, for the runs that cannot afford all of them.

### Mutants

A definition commented "Mutant" is what a plausible bug would make of the
definition after it (a dropped guard, an unmasked register, a missing bank
exchange). None is used by the specification. Replacing the definition by its
mutant makes TLC find the property listed with it in `PROJECT.json` violated:
the property does depend on that line of the code.

## What the runs show

| Run | Shows | Bounds |
|---|---|---|
| `MCPrivilege` | `TypeOK`; `PrivilegeKept` (refinement of `Privilege`); `StoppedWaits` | 64 addresses; even and odd stack pointers (40, 41), even and odd vectors and targets (0, 3); traced user and untraced system status; levels 0 and 4 against masks 2, 0, 4 and 7; the constraint `PrivilegeWindow` keeps the stacks within what one nested exception uses below a loaded pointer and the program short |
| `MCLiveness` | `CallReturns`, `StopEnds`, `RequestServed` under `ShortSpec` | no constraint (a cut would hide a behaviour without end): 18 addresses, so that stack pointers wrap after three frames; an even and an odd stack pointer (6, 7), the odd one for a processor that halts in the middle of a call; a program that stops, faults, traps, returns and jumps |
| `MCInterruptLatency` | `CyclesFitByte`, `CyclesReturned`, `EvenStacksNeverHalt`, `OneInstructionLatency` | the shortest and the longest instruction (1 and 168 cycles), levels 0, 4 and 7, two frames deep |
| `MCExceptionFrames` | `ReturnResumes` | room for two nested frames in memory, the interplay of traps, faults, interrupts, RTE and mode changes |
| `MCMicrocode` | `DefinedBeforeUse`, `FaultKeepsConditionCodes`, `FramesHoldFinalCodes`, `UserKeepsSystem`, `TimingHolds`, `OperandsWritable`, `EmittedAsCheckedIn` | all 65536 opcodes, so nothing about them is bounded; the counts that durations depend on have their least and greatest values (bits of a word: 0, 15, 16; shifts: 0, 63), and durations grow with them; all instructions of the generator |
| `MCDisassembler` | `WordsAsExecuted`, `TargetsAsExecuted`, `OperandsAsExecuted`, `SizesAsExecuted`, `LineFits`, `ShowsMovedRegisters` | all 65536 opcodes, one line each: lines have only the reading position in common. Two groups of five registers, all 1024 lists, in both orders: runs of every length at either end and across the groups |
| `MCArithmetic` | `CodesMeanOverflow`, `ConditionsAreRelations`, `ChainComputes`, `ChainCodes` | operands of four bits, all values, any codes before; chains of two such parts |
| | `ShiftsCompute`, `ShiftCodes` | operands of four bits, all values, counts from 0 to 10, more than twice round |
| | `WordsCompute`, `DurationsMeasured` | words of four bits, long words of eight, all values |
| | `DecimalCorrect` | any two bytes of two digits; three bytes of the digits 00, 09, 10, 45, 99: every combination of carries |
| `MCPrograms` | `LoopsCount` | bytes of three bits, hence words of 64 values; counts around 0, 1, 2 and 3 times that |
| | `OneInside`, `TakenWhileHeld` | a program and up to three nested handlers; levels 1, 4 and 7, the last of which no mask holds back; bit numbers 7 and 31, the same bit of a byte |
| | `PointersReturn`, `ImplementsProcedures` | three places for instructions, an even and an odd target, at most three items on a stack that starts at address 0 and so wraps with the first push: a frame, its local variable and a call in it |
| | `OperandsAccessed` | all pairs of addressing modes and three sizes; a data register, an address register and the stack pointer; bytes of three bits and 16 words of memory; even and odd addresses, and ones that wrap at either end |
| | `TransfersKept` | two data and two address registers, all lists, all bases and modes; an even, an odd and a wrapping address |
| `MCHaltIsFinal` | violated, see below | as `MCPrivilege` |
| `MCHaltsInExceptionProcessing` | violated, see below | as `MCPrivilege` |
| `MCNoSourceNeeded` | violated, see below | as `MCMicrocode` |
| `MCAddressOperands` | violated, see below | as `MCMicrocode` |

The bounds reach what makes these properties hard: both banks, odd and even
stacks in each, faults inside exception entry, requests that change during an
instruction, an acknowledge callback that changes the request. Addresses matter
through oddness, wrapping and equality only, and each of these has values in
every instance. Deadlock is checked where nothing may stop: the loop always has a
next step, and every step of a microcode case has an outcome. A listing, a single
instruction and a program of several end, so the runs of listings, arithmetic and
programs allow it.

The properties of `Microcode` in words: no step uses a field of `Stuff` that its
instruction has not set (one exception, below); an instruction that an address
error stops has not changed the condition codes, RTE and RTR excepted; at most
one frame is pushed, and the codes in it are those the instruction ends with,
although the microcode of CHK and of a division goes on after the exception; no
opcode reaches the status register, the user stack pointer or STOP in user mode;
durations are even, between 4 and 168 cycles without the exception's 30, with at
most 8 bytes of extension words; the null write function of an address operand
is not called.

Small operands are enough for arithmetic because every definition is written for
any width, `SignBit` and `Modulus` being constants: nothing in them knows how many
bits there are, and with four bits there are both signs, the extremes and numbers
that are neither. What is proved of them (below) is proved for every width.

Of the disassembler: the interpreter and the listing agree on words, operands and
targets for all opcodes but those in `Divergent`: reserved modes; immediate
operands of LEA, JMP and their like, which the interpreter takes from nowhere;
size 3 where a size is expected; and MOVEM to registers, where the list follows
the opcode but is printed, and so read, after the words of the other operand.
Modes added for lists and immediate addresses, which `disassembler/opcode.h` 51 says
never occur in opcodes, do: the mode and register fields go into the operand as they
are. A listing ends after jumps and returns, and also after RESET, TRAP and TRAPV,
after which execution goes on.

`OperandsAccessed` includes what a handler finds after an address error: the
registers of the refused operand have moved, so an instruction restarted would move
them twice. MOVEM has changed nothing then (`TransfersKept`), JSR has not pushed
(`ImplementsProcedures`, whose wild calls leave the stack; BSR has), and DBcc has
counted one time less than it looped (`LoopsCount`).

### Fairness

`WF_vars(Running)`: `DoCycles` is a C function on the host's thread, it runs
until it returns. `WF_vars(DoCycles)`: the host calls it again and again, the
main loop of an emulator. Nothing is assumed about interrupts, the program or
the callbacks.

The other modules state safety only.

### Findings

* The comment at `clown68000.c` 332 says that the CPU halts when a fault
  happens during group 0 exception processing. `halted` is tested at the entry
  of `DoCycles` (2395), not by its loop (2421): until the call returns, the
  halted processor executes instructions and takes interrupts
  (`HaltIsFinal`). If one of them is STOP, the processor
  is halted and stopped when the call returns, and only a reset ends that:
  `StopEnds` is about processors that have not halted.
* The test below the same comment (333) looks at the A7 of the mode the fault
  happens in. A user program with an odd stack pointer halts the processor at
  its first address error, although no exception is being processed and the
  stack an exception would use is even (`HaltsInExceptionProcessing`).
  `EvenStacksNeverHalt` says what the host can rely on instead.
* ADDQ and SUBQ with a long word in a register (an address register always)
  take two cycles more or less depending on the source address mode of an
  earlier instruction, or on uninitialised memory when there was none in this
  call. Their tables say they need no source address mode
  (`instruction-properties.c` 787), but `StandardInstructionExecutionTime` looks
  at it (`clown68000.c` 723) (`NoSourceNeeded`).
* Size 0 stands for the address of an operand (`clown68000.c` 872). The decoder
  accepts PEA, JMP, JSR, LEA and others with a register there, which has no
  address; the mask computed for it (520) is a shift by 32 bits, which C does
  not define (`AddressOperandsInMemory`). The model lets the operand be anything.

## What is proved

`Clown68000_proofs` proves, for every address space, memory, set of vectors,
stack pointers, status words, levels, durations and budgets that satisfy the
named assumptions of `Clown68000`:

| Theorem | States |
|---|---|
| `TypeCorrect` | `Spec => []TypeOK` |
| `CyclesFit` | `Spec => []CyclesFitByte` |
| `CyclesAccounted` | `Spec => []CyclesReturned` |
| `NeverHalts` | `Spec => []EvenStacksNeverHalt` |
| `PrivilegeHolds` | `Spec => PrivilegeKept` |
| `StopHolds` | `Spec => StoppedWaits` |

The inductive invariant is `Inv == TypeOK /\ CycleBounds /\ EvenInvariant`.
`CyclesFitByte` alone is not inductive: the interrupt adds 44 cycles to what
the instruction has used, so `CycleBounds` bounds `cycles_left` at each phase
(by an instruction and its exception before the interrupt test, by all three
after it) and ties `cycles_done` to the budget while the loop runs. Nor is
`EvenStacksNeverHalt`: `EvenInvariant` says that all three stack pointers are
even when the program loads only even ones.

The argument: every instruction ends in one of a few forms (`Result`) of the
record the C functions return (lemma `InstructionEnds`); lemmas about
`DoInterrupt`, `Group0Exception`, `PushLong` and so on give, for each, the type,
the cycles, the parity of the stacks and the step of `Privilege` it makes. The
refinement needs the invariant only for types: a step of the loop is a user
step, a supervisor step, exception entry or a departure from supervisor mode,
by cases on the supervisor bit before and after it.

`StopHolds` needs types only. `BusAssumption` asks for six bus addresses at least:
an exception frame is six bytes, and on a 68000 none wraps onto itself.

### Histories

Also in `Clown68000_proofs`, of `InterruptLatency` and `ExceptionFrames` and under
the same assumptions:

| Theorem | States |
|---|---|
| `LatencyHolds` | `ObservedSpec => []OneInstructionLatency` |
| `FramesReturn` | `FramedSpec => []ReturnResumes` |

For the first the invariant is about the interrupt test: a request that is new
there is not the one latched. For the second it is `FramesHeld`: of each frame that
no step has written over, memory holds the three words, at even addresses, the
context they were pushed for. The frame of an exception is held when it has been
pushed (which takes the six bytes of `BusAssumption`), the writes of a step leave the
frames that are kept, and RTE reads one of them or none.

### Microcode

`OperandLayout_proofs` has lemmas about the decoder and the tables, for every one
of the 65536 opcodes: it decodes to an instruction that has a name, size 3 occurs
with immediate operands only, MOVE never has size 0. `Microcode_proofs` rests on
them, for every subset of the opcodes and any counts in the ranges of
the module's assumptions:

| Theorem | States |
|---|---|
| `DefinedHolds` | `Spec => []DefinedBeforeUse` |
| `FaultHolds` | `Spec => []FaultKeepsConditionCodes` |
| `FramesHold` | `Spec => []FramesHoldFinalCodes` |
| `UserHolds` | `Spec => []UserKeepsSystem` |
| `WritableHolds` | `Spec => []OperandsWritable` |
| `TimingIsBounded` | `Spec => []TimingHolds` |

None of these is inductive. The invariant says that the steps left are the last
ones of the instruction's case, and for each step done what it has put into
`stuff`: the operands are those `OperandLayout` computes, fields are written when
the step that writes them is no longer left, nothing but operands and timing has
changed before the action, and behind it the frame, the system state and the codes
are what the action of this instruction leaves. Lemmas about the tables say which
steps a case has: an instruction that needs a field has the step that writes it
before.

### Disassembler

`Disassembler_proofs`, for groups of registers of any size and for every subset of
the opcodes and listings of any length:

| Theorem | States |
|---|---|
| `RegistersShown` | `ListSpec => []ShowsMovedRegisters` |
| `LinesFit` | `Spec => []LineFits` |
| `SizesShown`, `OperandsShown` | `Spec => []SizesAsExecuted`, `[]OperandsAsExecuted` |
| `WordsShown`, `TargetsShown` | `Spec => []WordsAsExecuted`, `[]TargetsAsExecuted` |

For the list, the invariant of the two loops: between ranges, the registers shown
are those listed below the index; inside one, its first register has been shown
and all up to the index are listed, so that it is as long as it can be.

For the lines, `LineInv` says for each phase which words have been read, which
positions targets are relative to, that the position is behind these words, and
the column reached at most. What remains is about tables: for each instruction,
an operand of the interpreter and one that is shown are `Ordinary`, which is one of
four things (nothing is read for either; they are the same; an address of immediate
data, for which only the disassembler reads a word; a mode that does not exist),
but for branches, MOVEM, MOVEP and immediate data of size 3, which are compared one
by one. The first two kinds make the words of both agree, the last two never do.

### Arithmetic

`Arithmetic_proofs`, for operands of every size (any positive `SignBit`), and
numbers of any number of parts (`Parts = 0`) or of a given one:

| Theorem | States |
|---|---|
| `CodesTyped`, `OverflowsFound`, `BranchesCompare` | `Spec => []TypeOK`, `[]CodesMeanOverflow`, `[]ConditionsAreRelations` |
| `ChainTyped`, `ChainsCompute`, `ChainsCoded` | `ChainSpec => []ChainTypeOK`, `[]ChainComputes`, `[]ChainCodes` |
| `ChainsZero`, `ChainsSigned` | the two parts of `ChainCodes`: Z, and V with N |

The lemmas say what the top bits tell: for each of carry and overflow, that the
formula over three top bits holds exactly when the sum, difference or negative
does not fit. They are linear arithmetic by cases on the top bits. For the chains,
`ChainComputes` is inductive with the types: if the parts so far and X make up the
long result, so do they with one more part. `ChainSigned` needs the operands' own
top parts beside it.

### Shifts and rotations

Also in `Arithmetic_proofs`, for operands of every size and every set of counts:

| Theorem | States |
|---|---|
| `ShiftsHold` | `ShiftSpec => []ShiftsCompute`; its parts `ShiftsScale`, `RotationsTurn` by `ShiftsAreProducts`, `RotationsHold` |
| `ShiftCodesHold` | `ShiftSpec => []ShiftCodes`; its parts `LastBitLeaves`, `OverflowRemembered` by `LastBitHolds`, `OverflowHolds` |

Each property speaks of every iteration of the loop and all but one are inductive
together: one more bit doubles the weight, and lemmas say what doubling and halving do
to products, quotients and remainders. V needs `SignedKept` beside it: as long as the
signed product fits, the result is that product, which is why one sign after the other
tells of the whole. The proof found that `LastBitLeaves` had been
written as a CASE with guards that overlap, so that it had no one meaning; it is a
conjunction now.

### Products, quotients, CHK

Also there, for words of every size:

| Theorem | States |
|---|---|
| `WordsHold` | `WordSpec => []WordsCompute`, of these parts: |
| `ProductsHold` | `WordSpec => []ProductCorrect` |
| `QuotientsHold`, `QuotientOverflowHolds` | `WordSpec => []QuotientCorrect`, `[]OverflowExact` |
| `ChecksHold` | `WordSpec => []CheckTrapsOutside` |

The argument is about numbers, the invariant `WordInv` only carries the first overflow
test to the second. The absolute value of a word with its sign is the number the word
stands for (`WordNumbers`), also of the most negative word, whose absolute value is
one too many for its size. The product of two such fits in a longword either way. A
division has one quotient whose remainder is smaller than the divisor and has the
dividend's sign (`QuotientOfSigns`, `OneQuotient`): that of the absolute values with
its sign. The first test, made before the division, passes exactly if the quotient
has no more bits than a word (`FirstTest`, `QuotientLimit`), and both pass exactly if
some word is the quotient (`TestsAreExact`).

### Durations of DIVU and MULS

| Theorem | States |
|---|---|
| `DurationsHold` | `WordSpec => []DurationsMeasured`, for words of every size |

The loop that imitates the processor decides on one bit of the quotient after the
other. Its invariant, `Measured`, is that of long division: the bits decided, as a
number, times the divisor above a word, and what is left to be divided make up the
dividend shifted by the rounds so far; a 0 decided has taken four cycles, a 1 none or
two. A quotient below `Modulus` ends with all bits decided but the lowest, which the loop does not
look at (`AllDecided`, from the quotient being one). The count of bits is that
of a set: twice a number has its bits one place higher (`BitsDoubled`), one more
has bit 0 besides (`CountDoubled`). MULS counts, in the source doubled, the
places where a bit differs from the one above it (`PatternsCounted`). Powers of two
enter as the numbers of subsets of a set (`Subsets`, `PowerDouble`), the only way
to them without an induction over a formula.

### Decimal arithmetic

Also in `Arithmetic_proofs`, for numbers of any number of bytes:

| Theorem | States |
|---|---|
| `DecimalsHold` | `DecimalSpec => []DecimalCorrect`, of these parts: |
| `DecimalResults`, `DecimalsCompute`, `DecimalsZero` | `DecimalSpec => []ResultsAreDecimal`, `[]DecimalComputes`, `[]DecimalZero` |

Lemmas about one byte do the work: for decimal operands, the bits that select the
corrections of ABCD and SBCD tell which digits are too large or have borrowed, by
cases on the digits' sums; so the corrected result is decimal and, with X,
the sum or difference. The chain is then that of ADDX and SUBX, by
hundreds.

### Loops

`Programs_proofs`, of `LoopCounter`, for words of any width and every count:

| Theorem | States |
|---|---|
| `LoopTyped`, `LoopSums`, `LoopsCounted` | `Spec => []TypeOK`, `[]CountedAtEachPlace`, `[]LoopsCount` |

What is wanted holds where the loop is left only. The invariant
`CountedAtEachPlace` says for each instruction what the iterations and the
register add up to: the same between DBcc and the body, one more behind the body,
a whole word more after the low half has run out.

### Locks

Also in `Programs_proofs`, of `Semaphore`, for any levels, bit numbers and depth of nesting:

| Theorem | States |
|---|---|
| `LockTyped`, `MutualExclusion`, `LockGivenBack`, `ProgramNeverWaits` | `LockSpec => []LockTypeOK`, `[]OneInside`, `[]TakenWhileHeld`, `[]LostToInterrupted` |

`OneInside` is not inductive: between the test and the branch, one holds the lock
by its condition codes alone, perhaps in the frame of an interrupt. The invariant
is that at most one holds it (`OneHolds`), in either way, and that the lock's bit
says whether one does. An interrupt changes neither, as the frame keeps the codes
and the place.

### Memory

`Bus_proofs`, for a memory of any number of words whose number of addresses divides
the long words:

| Theorem | States |
|---|---|
| `LongWritten` | a long word written anywhere, upwards or downwards, changes the two words it lies in and no other |
| `LongReadBack` | it is read where it was written, and where the address wraps to the same place |

Beside them there are lemmas about bytes and words, addresses that wrap, and which
words a range of addresses touches. The three sections below rest on them.

### Procedures

Also in `Programs_proofs`, of `Subroutines`, for stacks of any depth, wherever they
begin and whether they wrap or not:

| Theorem | States |
|---|---|
| `StackHolds` | `CallSpec => []CallInv` |
| `PointersHold` | `CallSpec => []PointersReturn` |
| `ProceduresImplemented` | `CallSpec => ImplementsProcedures` |

The refinement says that a return goes behind its call, and an implementation that
reads the stack from memory can only do so if memory still holds what was put there.
So `CallInv` says: the items lie one directly below the other, and fewer than fill
the memory, so that no two share a word, wrapped or not; the words of each hold what
its kind allows (a return address is one in `Code`); every frame holds the address
of the frame before it, and A6 that of the last. What is pushed leaves the words of
the others alone (`LongWritten`), hence their values; a pop drops the first. UNLK
finds the frame by A6 alone, and the chain of frames says which item that is. The
assumptions this takes, each in its module: there is room for `MaxItems` items
(`MaxItems * 2 < MemoryWords`), and the outer frame is not in that room.

### Operands

`Operands_proofs`, of `OperandAccess`, for registers and addresses of any width, any
programs in memory and all pairs of addressing modes:

| Theorem | States |
|---|---|
| `AccessHolds` | `AccessSpec => []AccessInv` |
| `OperandsRight` | `AccessSpec => []OperandsAccessed` |

`AccessInv` follows the stages of an instruction: how far each register has moved
and how many words have been read when an operand has been decoded, which value is
held until it is written, where the destination is. The second instruction (the pop
of what was pushed) rests on memory: until it reads, the place below the stack pointer
holds the value.

### Block transfers

Also in `Operands_proofs`, of `RegisterTransfers`, for groups of registers of any
size, all lists and addresses:

| Theorem | States |
|---|---|
| `TransfersHold` | `TransferSpec => []TransferInv` |
| `TransfersRight` | `TransferSpec => []TransfersKept` |

`TransferInv` says of the loop where it is in the list: the address has moved by as
many registers as are in the list below the index, each of those is moved, to memory
or from it, and the others are not; for registers saved, each is at its own place,
counted from the base. These places do not meet (`4 * Group <= MemoryWords`, as on a
68000, where sixteen registers are a small part of memory). The counts are
cardinalities of parts of the list; one more register is one more element.

### Not proved

Left to TLC:

* the liveness properties, which are out of the prover's reach (it proves nothing
  under fairness);
* `EmittedAsCheckedIn`, which compares two transcriptions: there is nothing in it
  but cases, and TLC looks at all of them.

## Plan

Done: the execution loop with its stacks and exceptions, their abstract
specification and its proof; the decoder, the tables, the microcode and its
generator; operands, transfers, subroutines and their abstract specification;
arithmetic; the disassembler. All safety properties of all modules are proved but
the comparison of the generator's output.

Open:

1. Composition: `Microcode` as the instructions of `Clown68000`, each case shown
   to be one of the loop's instruction actions.
2. RTE with `Subroutines`' stack, so that handlers and procedures share one.

## What is not modelled

* The values of AND, OR, EOR, NOT, EXT, SWAP, EXG, MOVEQ and BCHG: one operator of
  C each. Their operands, steps, condition code functions and cycles are in
  `Microcode`.
* One module with everything: `Clown68000` and `Microcode` let values be choices,
  and the modules of values run one instruction, or one program, without the loop.
* MOVEM.W into a data register leaves a sign extension that is wider than 32 bits
  where C's type is; every later use masks it, and the model keeps 32 bits.
* The reads of the bus during a call see the host's memory as the callbacks give
  it; `Clown68000` lets any word of `Ram` change in an instruction but not at
  the host's will between the words of a frame.
* `Clown68000_Reset` passes a `Stuff` whose cycle count and `terminate_early` are
  not set to the bus callbacks of its two reads. No callback of the library
  looks at them, and what a host's would do is unknown.
* The comparison of the last word with the prefetched one in
  `StandardInstructionExecutionTime` is a choice.
* Printing: the text of the disassembler apart from its length, `emit.c`, the
  error callback, and `disassembler/main.c`, which reads a file and calls the
  disassembler.
* Build files; builds where `setjmp` does not keep local variables in memory.
