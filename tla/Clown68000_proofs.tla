-------------------------- MODULE Clown68000_proofs --------------------------
(***************************************************************************)
(* Theorems about Clown68000, alone and with its two observers: the age of *)
(* the interrupt request, and the frames of the exceptions it has entered. *)
(* The module of the observers' specifications adds their variables; the   *)
(* first part needs none of them.                                          *)
(***************************************************************************)
EXTENDS InterruptLatency, ExceptionFrames, TLAPS

(***************************************************************************)
(* Types.                                                                  *)
(***************************************************************************)

Machine ==
  [state : State, memory : [Ram -> Words], cycles : Nat, longjmp : BOOLEAN]

(* Registers keep their width. *)
LEMMA AddressArithmetic ==
  ASSUME NEW a \in Addresses, NEW n \in 0..16
  PROVE  Increment(a, n) \in Addresses /\ Decrement(a, n) \in Addresses
BY AddressSpaceAssumption DEF Addresses, Increment, Decrement

(* Writing a word keeps the memory a memory. *)
LEMMA WriteWordsType ==
  ASSUME NEW mem \in [Ram -> Words], NEW word \in Words, NEW where
  PROVE  WriteWords(mem, where, word) \in [Ram -> Words]
BY DEF WriteWords

LEMMA WriteLongType ==
  ASSUME NEW mem \in [Ram -> Words], NEW long \in Addresses, NEW a
  PROVE  WriteLong(mem, a, long) \in [Ram -> Words]
<1>1. Low(long) \in Words /\ High(long) \in Words
  BY DEF Words
<1>2. QED
  BY <1>1, WriteWordsType DEF WriteLong

(* Banking moves addresses between registers. *)
LEMMA SetSupervisorModeType ==
  ASSUME NEW s \in State, NEW b \in BOOLEAN
  PROVE  SetSupervisorMode(s, b) \in State
BY DEF SetSupervisorMode, State

LEMMA SetStatusRegisterType ==
  ASSUME NEW s \in State, NEW sr \in StatusRegister
  PROVE  SetStatusRegister(s, sr) \in State
<1>1. sr.supervisor \in BOOLEAN /\ sr.trace \in BOOLEAN /\ sr.mask \in 0..7
  BY DEF StatusRegister
<1>2. SetSupervisorMode(s, sr.supervisor) \in State
  BY <1>1, SetSupervisorModeType
<1>3. QED
  BY <1>1, <1>2 DEF SetStatusRegister, State

LEMMA HaltType ==
  ASSUME NEW m \in Machine
  PROVE  Halt(m) \in Machine
BY DEF Halt, Machine, State

LEMMA DoInterruptType ==
  ASSUME NEW m \in Machine, NEW handler \in Addresses
  PROVE  DoInterrupt(m, handler) \in Machine
<1> DEFINE untraced == [m.state EXCEPT !.trace = FALSE]
           entered == SetSupervisorMode(untraced, TRUE)
           pc_at   == Decrement(entered.a7, 4)
           sr_at   == Decrement(pc_at, 2)
           pushed  == WriteLong(m.memory, pc_at, m.state.program_counter)
<1>1. entered \in State
  <2>1. untraced \in State
    BY DEF Machine, State
  <2>2. QED
    BY <2>1, SetSupervisorModeType
<1>2. pc_at \in Addresses /\ sr_at \in Addresses
  <2>1. entered.a7 \in Addresses
    BY <1>1 DEF State
  <2> HIDE DEF entered
  <2>2. pc_at \in Addresses
    BY <2>1, AddressArithmetic
  <2> HIDE DEF pc_at
  <2>3. sr_at \in Addresses
    BY <2>2, AddressArithmetic
  <2>4. QED
    BY <2>2, <2>3
<1>3. CASE IsOdd(pc_at)
  <2>1. [m EXCEPT !.state = [entered EXCEPT !.a7 = pc_at]] \in Machine
    BY <1>1, <1>2 DEF Machine, State
  <2>2. QED
    BY <1>3, <2>1, HaltType DEF DoInterrupt
<1>4. CASE ~IsOdd(pc_at)
  <2> DEFINE s   == [entered EXCEPT !.a7 = sr_at, !.program_counter = handler]
             mem == WriteWords(pushed, {sr_at}, Saved(SystemByte(m.state)))
             c   == m.cycles + 30
  <2>1. s \in State
    BY <1>1, <1>2 DEF State
  <2>2. mem \in [Ram -> Words]
    <3>1. pushed \in [Ram -> Words]
      BY WriteLongType DEF Machine, State
    <3>2. Saved(SystemByte(m.state)) \in Words
      BY DEF Machine, State, SystemByte, StatusRegister, Words
    <3>3. QED
      BY <3>1, <3>2, WriteWordsType
  <2>3. c \in Nat
    BY DEF Machine
  <2>4. DoInterrupt(m, handler) = [m EXCEPT !.state = s, !.memory = mem, !.cycles = c]
    BY <1>4 DEF DoInterrupt, Machine
  <2> HIDE DEF s, mem, c
  <2>5. [m EXCEPT !.state = s, !.memory = mem, !.cycles = c] \in Machine
    BY <2>1, <2>2, <2>3 DEF Machine
  <2>6. QED
    BY <2>4, <2>5, Zenon
<1>5. QED
  BY <1>3, <1>4

LEMMA Group0ExceptionType ==
  ASSUME NEW m \in Machine, NEW handler \in Addresses
  PROVE  Group0Exception(m, handler) \in Machine
<1> DEFINE e == DoInterrupt(m, handler)
           sp == e.state.a7
<1>1. e \in Machine
  BY DoInterruptType
<1>2. CASE IsOdd(m.state.a7) \/ e.longjmp
  BY <1>1, <1>2, HaltType DEF Group0Exception
<1>3. CASE ~(IsOdd(m.state.a7) \/ e.longjmp)
  <2>1. Decrement(sp, 8) \in Addresses
    <3>1. sp \in Addresses
      BY <1>1 DEF Machine, State
    <3> HIDE DEF sp
    <3>2. QED
      BY <3>1, AddressArithmetic
  <2>2. WriteWords(e.memory, {Decrement(sp, n) : n \in {2, 4, 6, 8}}, Data) \in [Ram -> Words]
    BY <1>1, WriteWordsType DEF Machine, Words
  <2>3. QED
    BY <1>1, <1>3, <2>1, <2>2 DEF Group0Exception, Machine, State
<1>4. QED
  BY <1>2, <1>3

(***************************************************************************)
(* What an operation does to the two stacks and the system byte.           *)
(***************************************************************************)

System(s) == IF s.supervisor THEN s.a7 ELSE s.supervisor_stack_pointer
User(s)   == IF s.supervisor THEN s.user_stack_pointer ELSE s.a7

(* t differs from s in neither. *)
Same(s, t) ==
  /\ t.supervisor = s.supervisor /\ t.mask = s.mask /\ t.trace = s.trace
  /\ System(t) = System(s) /\ User(t) = User(s)

(* t has moved the stack of the mode s is in, at most. *)
OwnStack(s, t) ==
  /\ t.supervisor = s.supervisor /\ t.mask = s.mask /\ t.trace = s.trace
  /\ s.supervisor => User(t) = User(s)
  /\ ~s.supervisor => System(t) = System(s)

(* t has entered a handler from s. *)
EntersHandler(s, t) ==
  /\ t.supervisor = TRUE /\ t.trace = FALSE /\ t.mask = s.mask
  /\ User(t) = User(s)
  /\ \E n \in Banks!EntryMoves : System(t) = Banks!Moved(System(s), n)

MayEnter(s, t) == Same(s, t) \/ EntersHandler(s, t)

(* All three stack registers are even. *)
EvenStacks(s) ==
  /\ ~IsOdd(s.a7) /\ ~IsOdd(s.user_stack_pointer)
  /\ ~IsOdd(s.supervisor_stack_pointer)

(* Moves by an even distance keep an address even. *)
LEMMA EvenArithmetic ==
  ASSUME NEW a \in Addresses, NEW n \in {2, 4, 6, 8}
  PROVE  /\ IsOdd(Increment(a, n)) <=> IsOdd(a)
         /\ IsOdd(Decrement(a, n)) <=> IsOdd(a)
BY AddressSpaceAssumption DEF Addresses, Increment, Decrement, IsOdd

LEMMA FrameMoves ==
  ASSUME NEW a \in Addresses
  PROVE  /\ Decrement(a, 4) = Banks!Moved(a, -4)
         /\ Decrement(Decrement(a, 4), 2) = Banks!Moved(a, -6)
         /\ Decrement(Decrement(Decrement(a, 4), 2), 8) = Banks!Moved(a, -14)
         /\ Increment(Increment(a, 2), 4) = Banks!Moved(a, 6)
BY AddressSpaceAssumption DEF Addresses, Increment, Decrement, Banks!Moved

LEMMA SetSupervisorModeEffect ==
  ASSUME NEW s \in State, NEW b \in BOOLEAN, NEW t, t = SetSupervisorMode(s, b)
  PROVE  /\ t.supervisor = b
         /\ t.mask = s.mask /\ t.trace = s.trace /\ t.halted = s.halted
         /\ System(t) = System(s) /\ User(t) = User(s)
         /\ EvenStacks(s) => EvenStacks(t)
BY DEF SetSupervisorMode, State, System, User, EvenStacks

(* Entering a handler: the frame goes on the system stack. *)
LEMMA DoInterruptEffect ==
  ASSUME NEW m \in Machine, NEW handler \in Addresses,
         NEW r, r = DoInterrupt(m, handler)
  PROVE  /\ EntersHandler(m.state, r.state)
         /\ r.cycles \in {m.cycles, m.cycles + 30}
         /\ ~r.longjmp => System(r.state) = Banks!Moved(System(m.state), -6)
         /\ ~r.longjmp => r.state.a7 = Decrement(Decrement(System(m.state), 4), 2)
         /\ EvenStacks(m.state) => /\ EvenStacks(r.state)
                                   /\ r.state.halted = m.state.halted
                                   /\ r.longjmp = m.longjmp
<1> DEFINE untraced == [m.state EXCEPT !.trace = FALSE]
           entered == SetSupervisorMode(untraced, TRUE)
           pc_at   == Decrement(entered.a7, 4)
           sr_at   == Decrement(pc_at, 2)
<1>1. /\ untraced \in State
      /\ System(untraced) = System(m.state) /\ User(untraced) = User(m.state)
      /\ untraced.mask = m.state.mask /\ untraced.trace = FALSE
      /\ untraced.halted = m.state.halted
      /\ EvenStacks(m.state) => EvenStacks(untraced)
  BY DEF Machine, State, System, User, EvenStacks
<1>e. entered = SetSupervisorMode(untraced, TRUE)
  OBVIOUS
<1> HIDE DEF untraced, entered
<1>2. /\ entered.supervisor = TRUE /\ entered.trace = FALSE
      /\ entered.mask = m.state.mask /\ entered.halted = m.state.halted
      /\ System(entered) = System(m.state) /\ User(entered) = User(m.state)
      /\ EvenStacks(m.state) => EvenStacks(entered)
  <2>1. /\ entered.supervisor = TRUE
        /\ entered.mask = untraced.mask /\ entered.trace = untraced.trace
        /\ entered.halted = untraced.halted
        /\ System(entered) = System(untraced) /\ User(entered) = User(untraced)
        /\ EvenStacks(untraced) => EvenStacks(entered)
    BY <1>1, <1>e, SetSupervisorModeEffect
  <2>2. QED
    BY <1>1, <2>1
<1>3. entered \in State
  BY <1>1, <1>e, SetSupervisorModeType
<1>4. entered.a7 \in Addresses /\ entered.a7 = System(m.state)
  BY <1>2, <1>3 DEF State, System
<1>5. CASE IsOdd(pc_at)
  <2> DEFINE moved == [entered EXCEPT !.a7 = pc_at]
  <2>h. r = Halt([m EXCEPT !.state = moved])
    BY <1>5 DEF DoInterrupt, entered, untraced
  <2>1. r.state = [moved EXCEPT !.halted = TRUE] /\ r.cycles = m.cycles /\ r.longjmp = TRUE
    BY <2>h DEF Halt, Machine
  <2>2. /\ r.state.supervisor = TRUE /\ r.state.trace = FALSE
        /\ r.state.mask = m.state.mask
        /\ System(r.state) = pc_at /\ User(r.state) = User(m.state)
    BY <1>2, <1>3, <2>1 DEF State, System, User
  <2>3. pc_at = Banks!Moved(System(m.state), -4)
    BY <1>4, FrameMoves
  <2>4. EvenStacks(m.state) => FALSE
    BY <1>2, <1>4, <1>5, EvenArithmetic DEF EvenStacks
  <2>5. QED
    BY <2>1, <2>2, <2>3, <2>4 DEF EntersHandler, Banks!EntryMoves
<1>6. CASE ~IsOdd(pc_at)
  <2>1. /\ r.state = [entered EXCEPT !.a7 = sr_at, !.program_counter = handler]
        /\ r.cycles = m.cycles + 30 /\ r.longjmp = m.longjmp
    BY <1>6 DEF DoInterrupt, Machine, entered, untraced
  <2>2. /\ r.state.supervisor = TRUE /\ r.state.trace = FALSE
        /\ r.state.mask = m.state.mask /\ r.state.halted = m.state.halted
        /\ r.state.a7 = sr_at
        /\ System(r.state) = sr_at /\ User(r.state) = User(m.state)
        /\ r.state.user_stack_pointer = entered.user_stack_pointer
        /\ r.state.supervisor_stack_pointer = entered.supervisor_stack_pointer
    BY <1>2, <1>3, <2>1 DEF State, System, User
  <2>3. sr_at = Banks!Moved(System(m.state), -6)
    BY <1>4, FrameMoves
  <2>4. ~IsOdd(sr_at)
    <3>1. Decrement(entered.a7, 4) \in Addresses
      BY <1>4, AddressArithmetic
    <3> HIDE DEF pc_at
    <3>2. pc_at \in Addresses
      BY <3>1 DEF pc_at
    <3>3. QED
      BY <1>6, <3>2, EvenArithmetic
  <2>5. EvenStacks(m.state) => EvenStacks(r.state)
    BY <1>2, <2>2, <2>4 DEF EvenStacks
  <2>6. QED
    BY <1>4, <2>1, <2>2, <2>3, <2>5 DEF EntersHandler, Banks!EntryMoves
<1>7. QED
  BY <1>5, <1>6

(* Either the processor halts where it is, or the longer frame is pushed. *)
LEMMA Group0ExceptionEffect ==
  ASSUME NEW m \in Machine, NEW handler \in Addresses,
         NEW r, r = Group0Exception(m, handler)
  PROVE  /\ MayEnter(m.state, r.state)
         /\ r.cycles \in {m.cycles, m.cycles + 30}
         /\ r.longjmp
         /\ EvenStacks(m.state) => /\ EvenStacks(r.state)
                                   /\ r.state.halted = m.state.halted
<1> DEFINE e == DoInterrupt(m, handler)
           sp == e.state.a7
<1>1. e \in Machine
  BY DoInterruptType
<1>2. /\ EntersHandler(m.state, e.state)
      /\ e.cycles \in {m.cycles, m.cycles + 30}
      /\ ~e.longjmp => sp = Decrement(Decrement(System(m.state), 4), 2)
      /\ EvenStacks(m.state) => /\ EvenStacks(e.state)
                                /\ e.state.halted = m.state.halted
  BY DoInterruptEffect
<1>3. CASE IsOdd(m.state.a7)
  <2>1. r = [m EXCEPT !.state.halted = TRUE, !.longjmp = TRUE]
    BY <1>3 DEF Group0Exception, Halt
  <2>2. Same(m.state, r.state) /\ r.cycles = m.cycles /\ r.longjmp
    BY <2>1 DEF Machine, State, Same, System, User
  <2>3. QED
    BY <1>3, <2>2 DEF MayEnter, EvenStacks
<1>4. CASE ~IsOdd(m.state.a7) /\ e.longjmp
  BY <1>2, <1>4 DEF Group0Exception, MayEnter
<1>5. CASE ~IsOdd(m.state.a7) /\ ~e.longjmp
  <2>1. /\ r.state = [e.state EXCEPT !.a7 = Decrement(sp, 8)]
        /\ r.cycles = e.cycles /\ r.longjmp
    BY <1>1, <1>5 DEF Group0Exception, Machine
  <2>2. e.state.supervisor = TRUE /\ e.state \in State
    BY <1>1, <1>2 DEF EntersHandler, Machine
  <2>3. /\ r.state.supervisor = TRUE /\ r.state.trace = e.state.trace
        /\ r.state.mask = e.state.mask /\ r.state.halted = e.state.halted
        /\ r.state.a7 = Decrement(sp, 8)
        /\ System(r.state) = Decrement(sp, 8) /\ User(r.state) = User(e.state)
        /\ r.state.user_stack_pointer = e.state.user_stack_pointer
        /\ r.state.supervisor_stack_pointer = e.state.supervisor_stack_pointer
    BY <2>1, <2>2 DEF State, System, User
  <2>4. System(m.state) \in Addresses /\ sp \in Addresses
    BY <2>2 DEF Machine, State, System
  <2>5. System(r.state) = Banks!Moved(System(m.state), -14)
    BY <1>2, <1>5, <2>3, <2>4, FrameMoves
  <2>6. EntersHandler(m.state, r.state)
    BY <1>2, <2>3, <2>5 DEF EntersHandler, Banks!EntryMoves
  <2>7. EvenStacks(e.state) => EvenStacks(r.state)
    <3> HIDE DEF sp
    <3>1. IsOdd(Decrement(sp, 8)) <=> IsOdd(sp)
      BY <2>4, EvenArithmetic
    <3> USE DEF sp
    <3>2. QED
      BY <2>3, <3>1 DEF EvenStacks
  <2>8. QED
    BY <1>2, <2>1, <2>3, <2>6, <2>7 DEF MayEnter
<1>6. QED
  BY <1>3, <1>4, <1>5

(* Reads from Ram give back values of the right kind. *)
LEMMA ReadType ==
  ASSUME NEW mem \in [Ram -> Words], NEW a
  PROVE  ReadLong(mem, a) \subseteq Addresses /\ ReadStatus(mem, a) \subseteq StatusRegister
<1>1. \A w \in Words : /\ w.half = "high" => w.value \in Addresses
                       /\ w.half = "status" => w.value \in StatusRegister
  BY DEF Words, Data, High, Low, Saved
<1>2. QED
  BY <1>1, BusAssumption DEF ReadLong, ReadStatus

(* A jump changes neither stack, unless its target is odd. *)
LEMMA JumpToEffect ==
  ASSUME NEW m \in Machine, NEW target \in Addresses, NEW handler \in Addresses,
         NEW r, r = JumpTo(m, target, handler)
  PROVE  /\ r \in Machine
         /\ MayEnter(m.state, r.state)
         /\ r.cycles \in {m.cycles, m.cycles + 30}
         /\ ~r.longjmp => (r.cycles = m.cycles /\ Same(m.state, r.state))
         /\ EvenStacks(m.state) => /\ EvenStacks(r.state)
                                   /\ r.state.halted = m.state.halted
<1> DEFINE j == [m EXCEPT !.state.program_counter = target]
<1>1. /\ j \in Machine /\ j.cycles = m.cycles
      /\ Same(m.state, j.state) /\ j.state.halted = m.state.halted
      /\ EvenStacks(m.state) => EvenStacks(j.state)
  BY DEF Machine, State, Same, System, User, EvenStacks
<1>2. r = IF IsOdd(j.state.program_counter) THEN Group0Exception(j, handler) ELSE j
  BY DEF JumpTo, ProgramCounterChanged
<1> HIDE DEF j
<1>3. CASE r = j
  BY <1>1, <1>3 DEF MayEnter
<1>4. CASE r = Group0Exception(j, handler)
  <2>1. r \in Machine
    BY <1>1, <1>4, Group0ExceptionType
  <2>2. /\ MayEnter(j.state, r.state)
        /\ r.cycles \in {j.cycles, j.cycles + 30}
        /\ r.longjmp
        /\ EvenStacks(j.state) => EvenStacks(r.state) /\ r.state.halted = j.state.halted
    BY <1>1, <1>4, Group0ExceptionEffect
  <2>3. QED
    BY <1>1, <2>1, <2>2 DEF MayEnter, Same, EntersHandler
<1>5. QED
  BY <1>2, <1>3, <1>4

(* From s, an instruction that works on its own stack and may then enter a *)
(* handler ends in u.                                                      *)
Works(s, u) ==
  \/ OwnStack(s, u)
  \/ s.supervisor /\ u.supervisor /\ User(u) = User(s)
  \/ /\ ~s.supervisor /\ u.supervisor /\ ~u.trace /\ u.mask = s.mask
     /\ \E n \in Banks!EntryMoves : System(u) = Banks!Moved(System(s), n)

LEMMA OwnThenEnter ==
  ASSUME NEW s \in State, NEW t \in State, NEW u \in State,
         OwnStack(s, t), MayEnter(t, u)
  PROVE  Works(s, u)
BY DEF State, OwnStack, MayEnter, Same, EntersHandler, Works

(* r is m after a push, or a pop and a jump. *)
Stacked(m, r) ==
  /\ Works(m.state, r.state)
  /\ r.cycles \in {m.cycles, m.cycles + 30}
  /\ ~r.longjmp => r.cycles = m.cycles
  /\ EvenStacks(m.state) => EvenStacks(r.state) /\ r.state.halted = m.state.halted

Pushed(m, r) == Stacked(m, r) /\ (~r.longjmp => OwnStack(m.state, r.state))

LEMMA PushLongEffect ==
  ASSUME NEW m \in Machine, NEW long \in Addresses, NEW handler \in Addresses,
         NEW r, r = PushLong(m, long, handler)
  PROVE  r \in Machine /\ Pushed(m, r)
<1> DEFINE sp    == Decrement(m.state.a7, 4)
           moved == [m EXCEPT !.state.a7 = sp]
           mem   == WriteLong(m.memory, sp, long)
<1>1. /\ sp \in Addresses
      /\ IsOdd(sp) <=> IsOdd(m.state.a7)
  <2>1. m.state.a7 \in Addresses
    BY DEF Machine, State
  <2> DEFINE a == m.state.a7
  <2> HIDE DEF a
  <2>2. Decrement(a, 4) \in Addresses
    BY <2>1, AddressArithmetic DEF a
  <2>3. IsOdd(Decrement(a, 4)) <=> IsOdd(a)
    BY <2>1, EvenArithmetic DEF a
  <2>4. QED
    BY <2>2, <2>3 DEF a
<1>2. mem \in [Ram -> Words]
  BY WriteLongType DEF Machine
<1>e. r = IF IsOdd(sp) THEN Group0Exception(moved, handler)
          ELSE [moved EXCEPT !.memory = mem]
  BY DEF PushLong, Machine
<1> HIDE DEF sp, mem
<1>3. /\ moved \in Machine /\ moved.cycles = m.cycles
      /\ OwnStack(m.state, moved.state) /\ moved.state.halted = m.state.halted
      /\ EvenStacks(m.state) => EvenStacks(moved.state)
  BY <1>1 DEF Machine, State, OwnStack, System, User, EvenStacks
<1>4. m.state \in State /\ moved.state \in State
  BY <1>3 DEF Machine
<1> HIDE DEF moved
<1>5. CASE ~IsOdd(sp)
  <2>1. [moved EXCEPT !.memory = mem] \in Machine
    BY <1>2, <1>3 DEF Machine
  <2>2. r \in Machine /\ r.state = moved.state /\ r.cycles = moved.cycles
    BY <1>3, <1>5, <1>e, <2>1 DEF Machine
  <2>3. QED
    BY <1>3, <2>2 DEF Works, Stacked, Pushed
<1>6. CASE IsOdd(sp)
  <2>1. r = Group0Exception(moved, handler)
    BY <1>6, <1>e
  <2>2. r \in Machine
    BY <1>3, <2>1, Group0ExceptionType
  <2>3. /\ MayEnter(moved.state, r.state)
        /\ r.cycles \in {moved.cycles, moved.cycles + 30}
        /\ r.longjmp
        /\ EvenStacks(moved.state) =>
             EvenStacks(r.state) /\ r.state.halted = moved.state.halted
    BY <1>3, <2>1, Group0ExceptionEffect
  <2>4. Works(m.state, r.state)
    <3>1. r.state \in State
      BY <2>2 DEF Machine
    <3>2. QED
      BY <1>3, <1>4, <2>3, <3>1, OwnThenEnter
  <2>5. QED
    BY <1>3, <2>2, <2>3, <2>4 DEF Stacked, Pushed
<1>7. QED
  BY <1>5, <1>6

LEMMA PopJumpEffect ==
  ASSUME NEW m \in Machine, NEW target \in Addresses, NEW handler \in Addresses,
         NEW r, r = PopJump(m, target, handler)
  PROVE  r \in Machine /\ Stacked(m, r)
<1> DEFINE a      == m.state.a7
           sp     == Increment(a, 4)
           popped == [m EXCEPT !.state.a7 = sp]
<1>e. r = IF IsOdd(a) THEN Group0Exception(m, handler) ELSE JumpTo(popped, target, handler)
  BY DEF PopJump, Machine
<1>1. CASE IsOdd(a)
  <2>1. r = Group0Exception(m, handler)
    BY <1>1, <1>e
  <2>2. r \in Machine
    BY <2>1, Group0ExceptionType
  <2>3. /\ MayEnter(m.state, r.state)
        /\ r.cycles \in {m.cycles, m.cycles + 30}
        /\ r.longjmp
        /\ EvenStacks(m.state) => EvenStacks(r.state) /\ r.state.halted = m.state.halted
    BY <2>1, Group0ExceptionEffect
  <2>4. m.state \in State /\ r.state \in State /\ OwnStack(m.state, m.state)
    BY <2>2 DEF Machine, State, OwnStack
  <2>5. QED
    BY <2>2, <2>3, <2>4, OwnThenEnter DEF Stacked
<1>2. CASE ~IsOdd(a)
  <2>1. r = JumpTo(popped, target, handler)
    BY <1>2, <1>e
  <2>2. sp \in Addresses /\ ~IsOdd(sp)
    <3>1. a \in Addresses
      BY DEF Machine, State
    <3> HIDE DEF a
    <3>2. Increment(a, 4) \in Addresses
      BY <3>1, AddressArithmetic
    <3>3. IsOdd(Increment(a, 4)) <=> IsOdd(a)
      BY <3>1, EvenArithmetic
    <3>4. QED
      BY <1>2, <3>2, <3>3
  <2> HIDE DEF sp
  <2>3. /\ popped \in Machine /\ popped.cycles = m.cycles
        /\ OwnStack(m.state, popped.state) /\ popped.state.halted = m.state.halted
        /\ EvenStacks(m.state) => EvenStacks(popped.state)
    BY <2>2 DEF Machine, State, OwnStack, System, User, EvenStacks
  <2> HIDE DEF popped
  <2>4. /\ r \in Machine
        /\ MayEnter(popped.state, r.state)
        /\ r.cycles \in {popped.cycles, popped.cycles + 30}
        /\ ~r.longjmp => r.cycles = popped.cycles
        /\ EvenStacks(popped.state) =>
             EvenStacks(r.state) /\ r.state.halted = popped.state.halted
    BY <2>1, <2>3, JumpToEffect
  <2>5. m.state \in State /\ popped.state \in State /\ r.state \in State
    BY <2>3, <2>4 DEF Machine
  <2>6. QED
    BY <2>3, <2>4, <2>5, OwnThenEnter DEF Stacked
<1>3. QED
  BY <1>1, <1>2

(***************************************************************************)
(* What an instruction comes to.                                           *)
(***************************************************************************)

(* The mode the processor is in, and what it may leave of the stacks:      *)
(* Privilege's Run, on the state.                                          *)
BankStep(s, u) ==
  \/ /\ ~s.supervisor /\ ~u.supervisor
     /\ u.mask = s.mask /\ u.trace = s.trace /\ System(u) = System(s)
  \/ /\ s.supervisor /\ u.supervisor
     /\ System(u) = System(s) \/ User(u) = User(s)
  \/ /\ ~s.supervisor /\ u.supervisor /\ ~u.trace /\ u.mask >= s.mask
     /\ \E n \in Banks!EntryMoves : System(u) = Banks!Moved(System(s), n)
  \/ /\ s.supervisor /\ ~u.supervisor /\ User(u) = User(s)
     /\ \E n \in Banks!LeaveMoves : System(u) = Banks!Moved(System(s), n)

EvenProgram == \A sp \in StackPointers : ~IsOdd(sp)

MaxCycles == MaxDuration + 30

Result(m) ==
  /\ m \in Machine
  /\ BankStep(state, m.state)
  /\ m.cycles \in 1..MaxCycles
  /\ EvenProgram /\ EvenStacks(state) =>
       EvenStacks(m.state) /\ m.state.halted = state.halted

LEMMA WorksIsBankStep ==
  ASSUME NEW s \in State, NEW u \in State, Works(s, u)
  PROVE  BankStep(s, u)
BY DEF State, Works, OwnStack, BankStep

LEMMA FetchedEffect ==
  ASSUME TypeOK, NEW extension \in {0, 2, 4, 6, 8}, NEW c \in Nat,
         NEW m, m = Fetched(extension, c)
  PROVE  /\ m \in Machine /\ m.cycles = c /\ ~m.longjmp
         /\ Same(state, m.state) /\ m.state.halted = state.halted
         /\ m.state.a7 = state.a7 /\ m.memory = memory
         /\ m.state.user_stack_pointer = state.user_stack_pointer
         /\ EvenStacks(state) => EvenStacks(m.state)
<1> DEFINE pc == Increment(state.program_counter, 2 + extension)
<1>1. pc \in Addresses
  <2>1. state.program_counter \in Addresses /\ 2 + extension \in 0..16
    BY DEF TypeOK, State
  <2>2. QED
    BY <2>1, AddressArithmetic
<1> HIDE DEF pc
<1>2. m = [Now(c) EXCEPT !.state.program_counter = pc]
  BY DEF Fetched, Now, pc
<1> DEFINE s == [state EXCEPT !.program_counter = pc]
<1>3. /\ m.state = s /\ m.memory = memory /\ m.cycles = c /\ ~m.longjmp
      /\ m \in [state : {s}, memory : {memory}, cycles : {c}, longjmp : {FALSE}]
  BY <1>2 DEF Now
<1>4. /\ s \in State /\ s.a7 = state.a7 /\ s.halted = state.halted
      /\ s.supervisor = state.supervisor /\ s.stopped = state.stopped
      /\ s.user_stack_pointer = state.user_stack_pointer
      /\ s.supervisor_stack_pointer = state.supervisor_stack_pointer
      /\ s.mask = state.mask /\ s.trace = state.trace
  BY <1>1 DEF TypeOK, State
<1> HIDE DEF s
<1>5. m \in Machine
  BY <1>3, <1>4 DEF Machine, TypeOK
<1>6. QED
  BY <1>3, <1>4, <1>5 DEF Same, System, User, EvenStacks

(* An instruction that has moved its stack pointer. *)
LEMMA AddressedEffect ==
  ASSUME TypeOK, NEW extension \in {0, 2, 4, 6, 8}, NEW c \in Nat, NEW sp \in Addresses,
         NEW m, m = Addressed(extension, c, sp)
  PROVE  /\ m \in Machine /\ m.cycles = c /\ ~m.longjmp
         /\ OwnStack(state, m.state) /\ m.state.halted = state.halted
         /\ m.state.a7 = sp /\ m.memory = memory
         /\ EvenStacks(state) /\ ~IsOdd(sp) => EvenStacks(m.state)
<1> DEFINE f == Fetched(extension, c)
<1>1. /\ f \in Machine /\ f.cycles = c /\ ~f.longjmp
      /\ Same(state, f.state) /\ f.state.halted = state.halted
      /\ f.memory = memory
      /\ EvenStacks(state) => EvenStacks(f.state)
  BY FetchedEffect
<1> HIDE DEF f
<1>2. m = [f EXCEPT !.state.a7 = sp]
  BY DEF Addressed, f
<1> DEFINE g == [f EXCEPT !.state.a7 = sp]
<1>g. g \in Machine
  BY <1>1 DEF Machine, State
<1>h. /\ g.cycles = f.cycles /\ (g.longjmp <=> f.longjmp) /\ g.memory = f.memory
      /\ g.state = [f.state EXCEPT !.a7 = sp]
  BY <1>1 DEF Machine
<1>e. m = g
  BY <1>2
<1> HIDE DEF g
<1>3. /\ m \in Machine /\ m.cycles = f.cycles /\ (m.longjmp <=> f.longjmp)
      /\ m.memory = f.memory /\ m.state = [f.state EXCEPT !.a7 = sp]
  BY <1>g, <1>h, <1>e
<1>4. /\ m.state.a7 = sp /\ m.state.halted = f.state.halted
      /\ m.state.supervisor = f.state.supervisor
      /\ m.state.user_stack_pointer = f.state.user_stack_pointer
      /\ m.state.supervisor_stack_pointer = f.state.supervisor_stack_pointer
      /\ m.state.mask = f.state.mask /\ m.state.trace = f.state.trace
  BY <1>1, <1>3 DEF Machine, State
<1>5. OwnStack(state, m.state)
  BY <1>1, <1>4 DEF Same, OwnStack, System, User
<1>6. QED
  BY <1>1, <1>3, <1>4, <1>5 DEF EvenStacks

LEMMA WorksResult ==
  ASSUME TypeOK, NEW r \in Machine, Works(state, r.state), r.cycles \in 1..MaxCycles,
         EvenProgram /\ EvenStacks(state) =>
           EvenStacks(r.state) /\ r.state.halted = state.halted
  PROVE  Result(r)
<1>1. state \in State /\ r.state \in State
  BY DEF TypeOK, Machine
<1>2. BankStep(state, r.state)
  BY <1>1, WorksIsBankStep
<1>3. QED
  BY <1>2 DEF Result

(* m is the instruction so far, r what it comes to if it enters a handler. *)
LEMMA EntryResult ==
  ASSUME TypeOK,
         NEW m \in Machine, OwnStack(state, m.state), m.cycles \in 1..MaxDuration,
         EvenProgram /\ EvenStacks(state) =>
           EvenStacks(m.state) /\ m.state.halted = state.halted,
         NEW r \in Machine, MayEnter(m.state, r.state),
         r.cycles \in {m.cycles, m.cycles + 30},
         EvenStacks(m.state) => EvenStacks(r.state) /\ r.state.halted = m.state.halted
  PROVE  Result(r)
<1>1. state \in State /\ m.state \in State /\ r.state \in State
  BY DEF TypeOK, Machine
<1>2. Works(state, r.state)
  BY <1>1, OwnThenEnter
<1>3. r.cycles \in 1..MaxCycles
  BY DEF MaxCycles, MaxDuration
<1>4. QED
  BY <1>2, <1>3, WorksResult

LEMMA OrdinaryResult ==
  ASSUME TypeOK, NEW extension \in {0, 2, 4, 6, 8}, NEW c \in 1..MaxDuration,
         NEW sp \in Addresses, EvenProgram /\ EvenStacks(state) => ~IsOdd(sp),
         NEW written,
         NEW r, r = [Addressed(extension, c, sp) EXCEPT !.memory = WriteWords(@, written, Data)]
  PROVE  Result(r)
<1> DEFINE m   == Addressed(extension, c, sp)
           mem == WriteWords(m.memory, written, Data)
<1>1. /\ m \in Machine /\ m.cycles = c
      /\ OwnStack(state, m.state) /\ m.state.halted = state.halted
      /\ EvenStacks(state) /\ ~IsOdd(sp) => EvenStacks(m.state)
  <2>1. c \in Nat
    BY DEF MaxDuration
  <2>2. QED
    BY <2>1, AddressedEffect
<1>2. r = [m EXCEPT !.memory = mem]
  BY <1>1 DEF Machine
<1> HIDE DEF m
<1>3. mem \in [Ram -> Words]
  BY <1>1, WriteWordsType DEF Machine, Words
<1> HIDE DEF mem
<1>4. [m EXCEPT !.memory = mem] \in Machine
  BY <1>1, <1>3 DEF Machine
<1>5. r \in Machine /\ r.state = m.state /\ r.cycles = c
  BY <1>1, <1>2, <1>4 DEF Machine
<1>6. c \in 1..MaxCycles /\ Works(state, r.state)
  BY <1>1, <1>5 DEF MaxCycles, MaxDuration, Works
<1>7. QED
  BY <1>1, <1>5, <1>6, WorksResult

LEMMA DataAddressErrorResult ==
  ASSUME TypeOK, NEW extension \in {0, 2, 4, 6, 8}, NEW c \in 1..MaxDuration,
         NEW sp \in Addresses, EvenProgram /\ EvenStacks(state) => ~IsOdd(sp),
         NEW handler \in Addresses,
         NEW r, r = Group0Exception(Addressed(extension, c, sp), handler)
  PROVE  Result(r)
<1> DEFINE m == Addressed(extension, c, sp)
<1>1. /\ m \in Machine /\ m.cycles = c
      /\ OwnStack(state, m.state) /\ m.state.halted = state.halted
      /\ EvenStacks(state) /\ ~IsOdd(sp) => EvenStacks(m.state)
  <2>1. c \in Nat
    BY DEF MaxDuration
  <2>2. QED
    BY <2>1, AddressedEffect
<1>2. r = Group0Exception(m, handler)
  OBVIOUS
<1> HIDE DEF m
<1>3. r \in Machine
  BY <1>1, <1>2, Group0ExceptionType
<1>4. /\ MayEnter(m.state, r.state)
      /\ r.cycles \in {m.cycles, m.cycles + 30}
      /\ EvenStacks(m.state) => EvenStacks(r.state) /\ r.state.halted = m.state.halted
  BY <1>1, <1>2, Group0ExceptionEffect
<1>5. QED
  BY <1>1, <1>3, <1>4, EntryResult

LEMMA TrapResult ==
  ASSUME TypeOK, NEW extension \in {0, 2, 4, 6, 8}, NEW c \in 1..MaxDuration,
         NEW sp \in Addresses, EvenProgram /\ EvenStacks(state) => ~IsOdd(sp),
         NEW handler \in Addresses,
         NEW r, r = DoInterrupt(Addressed(extension, c, sp), handler)
  PROVE  Result(r)
<1> DEFINE m == Addressed(extension, c, sp)
<1>1. /\ m \in Machine /\ m.cycles = c
      /\ OwnStack(state, m.state) /\ m.state.halted = state.halted
      /\ EvenStacks(state) /\ ~IsOdd(sp) => EvenStacks(m.state)
  <2>1. c \in Nat
    BY DEF MaxDuration
  <2>2. QED
    BY <2>1, AddressedEffect
<1>2. r = DoInterrupt(m, handler)
  OBVIOUS
<1> HIDE DEF m
<1>3. r \in Machine
  BY <1>1, <1>2, DoInterruptType
<1>4. /\ EntersHandler(m.state, r.state)
      /\ r.cycles \in {m.cycles, m.cycles + 30}
      /\ EvenStacks(m.state) => EvenStacks(r.state) /\ r.state.halted = m.state.halted
  BY <1>1, <1>2, DoInterruptEffect
<1>5. MayEnter(m.state, r.state)
  BY <1>4 DEF MayEnter
<1>6. QED
  BY <1>1, <1>3, <1>4, <1>5, EntryResult

LEMMA JumpResult ==
  ASSUME TypeOK, NEW c \in 1..MaxDuration,
         NEW target \in Addresses, NEW handler \in Addresses,
         NEW r, r = JumpTo(Fetched(0, c), target, handler)
  PROVE  Result(r)
<1> DEFINE m == Fetched(0, c)
<1>1. /\ m \in Machine /\ m.cycles = c
      /\ Same(state, m.state) /\ m.state.halted = state.halted
      /\ EvenStacks(state) => EvenStacks(m.state)
  <2>1. c \in Nat
    BY DEF MaxDuration
  <2>2. QED
    BY <2>1, FetchedEffect
<1>2. r = JumpTo(m, target, handler)
  OBVIOUS
<1> HIDE DEF m
<1>3. /\ r \in Machine /\ MayEnter(m.state, r.state)
      /\ r.cycles \in {m.cycles, m.cycles + 30}
      /\ EvenStacks(m.state) => EvenStacks(r.state) /\ r.state.halted = m.state.halted
  BY <1>1, <1>2, JumpToEffect
<1>4. OwnStack(state, m.state)
  BY <1>1 DEF Same, OwnStack
<1>5. QED
  BY <1>1, <1>3, <1>4, EntryResult

LEMMA JSRResult ==
  ASSUME TypeOK, NEW extension \in {0, 2, 4, 6, 8}, NEW c \in 1..MaxDuration,
         NEW target \in Addresses, NEW handler \in Addresses,
         NEW m, m = Fetched(extension, c),
         NEW j, j = JumpTo(m, target, handler),
         NEW r, r = IF j.longjmp THEN j ELSE PushLong(j, m.state.program_counter, handler)
  PROVE  Result(r)
<1>1. /\ m \in Machine /\ m.cycles = c
      /\ Same(state, m.state) /\ m.state.halted = state.halted
      /\ EvenStacks(state) => EvenStacks(m.state)
  <2>1. c \in Nat
    BY DEF MaxDuration
  <2>2. QED
    BY <2>1, FetchedEffect
<1>2. /\ j \in Machine /\ MayEnter(m.state, j.state)
      /\ j.cycles \in {m.cycles, m.cycles + 30}
      /\ ~j.longjmp => (j.cycles = m.cycles /\ Same(m.state, j.state))
      /\ EvenStacks(m.state) => EvenStacks(j.state) /\ j.state.halted = m.state.halted
  BY <1>1, JumpToEffect
<1>3. CASE j.longjmp
  <2>1. OwnStack(state, m.state)
    BY <1>1 DEF Same, OwnStack
  <2>2. QED
    BY <1>1, <1>2, <1>3, <2>1, EntryResult
<1>4. CASE ~j.longjmp
  <2>1. r = PushLong(j, m.state.program_counter, handler)
    BY <1>4
  <2>2. m.state.program_counter \in Addresses
    BY <1>1 DEF Machine, State
  <2>3. r \in Machine /\ Pushed(j, r)
    BY <1>2, <2>1, <2>2, PushLongEffect
  <2>4. Works(state, r.state)
    BY <1>1, <1>2, <1>4, <2>3 DEF Pushed, Stacked, Same, OwnStack, Works
  <2>5. r.cycles \in 1..MaxCycles
    BY <1>1, <1>2, <1>4, <2>3 DEF Pushed, Stacked, MaxCycles, MaxDuration
  <2>6. EvenStacks(state) => EvenStacks(r.state) /\ r.state.halted = state.halted
    BY <1>1, <1>2, <2>3 DEF Pushed, Stacked
  <2>7. QED
    BY <2>3, <2>4, <2>5, <2>6, WorksResult
<1>5. QED
  BY <1>3, <1>4

LEMMA BSRResult ==
  ASSUME TypeOK, NEW extension \in {0, 2, 4, 6, 8}, NEW c \in 1..MaxDuration,
         NEW target \in Addresses, NEW handler \in Addresses,
         NEW m, m = Fetched(extension, c),
         NEW p, p = PushLong(m, m.state.program_counter, handler),
         NEW r, r = IF p.longjmp THEN p ELSE JumpTo(p, target, handler)
  PROVE  Result(r)
<1>1. /\ m \in Machine /\ m.cycles = c
      /\ Same(state, m.state) /\ m.state.halted = state.halted
      /\ EvenStacks(state) => EvenStacks(m.state)
  <2>1. c \in Nat
    BY DEF MaxDuration
  <2>2. QED
    BY <2>1, FetchedEffect
<1>2. m.state.program_counter \in Addresses
  BY <1>1 DEF Machine, State
<1>3. p \in Machine /\ Pushed(m, p)
  BY <1>1, <1>2, PushLongEffect
<1>4. CASE p.longjmp
  <2>1. r \in Machine /\ Works(state, r.state)
    BY <1>1, <1>3, <1>4 DEF Pushed, Stacked, Same, OwnStack, Works
  <2>2. r.cycles \in 1..MaxCycles
    BY <1>1, <1>3, <1>4 DEF Pushed, Stacked, MaxCycles, MaxDuration
  <2>3. EvenStacks(state) => EvenStacks(r.state) /\ r.state.halted = state.halted
    BY <1>1, <1>3, <1>4 DEF Pushed, Stacked
  <2>4. QED
    BY <2>1, <2>2, <2>3, WorksResult
<1>5. CASE ~p.longjmp
  <2>1. r = JumpTo(p, target, handler)
    BY <1>5
  <2>2. /\ r \in Machine /\ MayEnter(p.state, r.state)
        /\ r.cycles \in {p.cycles, p.cycles + 30}
        /\ EvenStacks(p.state) => EvenStacks(r.state) /\ r.state.halted = p.state.halted
    BY <1>3, <2>1, JumpToEffect
  <2>3. OwnStack(state, p.state)
    BY <1>1, <1>3, <1>5 DEF Pushed, Same, OwnStack
  <2>4. p.cycles \in 1..MaxDuration
    BY <1>1, <1>3, <1>5 DEF Pushed, Stacked
  <2>5. EvenStacks(state) => EvenStacks(p.state) /\ p.state.halted = state.halted
    BY <1>1, <1>3 DEF Pushed, Stacked
  <2>6. QED
    BY <1>3, <2>2, <2>3, <2>4, <2>5, EntryResult
<1>6. QED
  BY <1>4, <1>5

(* RTS and RTR: the stack pointer is sp when the return address is popped. *)
LEMMA ReturnResult ==
  ASSUME TypeOK, NEW sp \in Addresses, IsOdd(sp) => IsOdd(state.a7),
         NEW n \in {12, 16},
         NEW target \in Addresses, NEW handler \in Addresses,
         NEW r, r = AddCycles(PopJump(Addressed(0, 4, sp), target, handler), n)
  PROVE  Result(r)
<1> DEFINE m == Addressed(0, 4, sp)
           p == PopJump(m, target, handler)
<1>1. /\ m \in Machine /\ m.cycles = 4
      /\ OwnStack(state, m.state) /\ m.state.halted = state.halted
      /\ EvenStacks(state) /\ ~IsOdd(sp) => EvenStacks(m.state)
  BY AddressedEffect
<1> HIDE DEF m
<1>2. p = PopJump(m, target, handler) /\ r = AddCycles(p, n)
  BY DEF m
<1> HIDE DEF p
<1>3. p \in Machine /\ Stacked(m, p)
  BY <1>1, <1>2, PopJumpEffect
<1>4. /\ r \in Machine /\ r.state = p.state
      /\ r.cycles \in {p.cycles, 4 + n}
  <2>1. [p EXCEPT !.cycles = p.cycles + n] \in Machine
    BY <1>3 DEF Machine
  <2>2. QED
    BY <1>1, <1>2, <1>3, <2>1 DEF Stacked, AddCycles, Machine
<1>5. Works(state, r.state)
  BY <1>1, <1>3, <1>4 DEF Stacked, OwnStack, Works
<1>6. r.cycles \in 1..MaxCycles
  BY <1>1, <1>3, <1>4 DEF Stacked, MaxCycles, MaxDuration
<1>7. EvenStacks(state) => EvenStacks(r.state) /\ r.state.halted = state.halted
  BY <1>1, <1>3, <1>4 DEF Stacked, EvenStacks
<1>8. QED
  BY <1>4, <1>5, <1>6, <1>7, WorksResult

LEMMA SetStatusRegisterEffect ==
  ASSUME NEW s \in State, NEW sr \in StatusRegister,
         NEW t, t = SetStatusRegister(s, sr)
  PROVE  /\ System(t) = System(s) /\ User(t) = User(s)
         /\ t.halted = s.halted
         /\ EvenStacks(s) => EvenStacks(t)
<1> DEFINE b == SetSupervisorMode(s, sr.supervisor)
<1>1. sr.supervisor \in BOOLEAN
  BY DEF StatusRegister
<1>2. /\ b.supervisor = sr.supervisor /\ b.halted = s.halted
      /\ System(b) = System(s) /\ User(b) = User(s)
      /\ EvenStacks(s) => EvenStacks(b)
  BY <1>1, SetSupervisorModeEffect
<1>3. b \in State
  BY <1>1, SetSupervisorModeType
<1> HIDE DEF b
<1>4. t = [b EXCEPT !.trace = sr.trace, !.supervisor = sr.supervisor, !.mask = sr.mask]
  BY DEF SetStatusRegister, b
<1>5. /\ t.a7 = b.a7 /\ t.user_stack_pointer = b.user_stack_pointer
      /\ t.supervisor_stack_pointer = b.supervisor_stack_pointer
      /\ t.supervisor = sr.supervisor /\ t.halted = b.halted
  BY <1>3, <1>4 DEF State
<1>6. QED
  BY <1>2, <1>5 DEF System, User, EvenStacks

(* m has loaded a status register; r may have faulted after it. *)
StatusLoaded(m, r) ==
  /\ state.supervisor
  /\ User(m.state) = User(state)
  /\ \E n \in Banks!LeaveMoves : System(m.state) = Banks!Moved(System(state), n)
  /\ MayEnter(m.state, r.state)

LEMMA StatusResult ==
  ASSUME TypeOK, NEW m \in Machine, NEW r \in Machine, StatusLoaded(m, r)
  PROVE  BankStep(state, r.state)
<1>1. state \in State /\ m.state \in State /\ r.state \in State
  BY DEF TypeOK, Machine
<1>2. CASE Same(m.state, r.state)
  BY <1>1, <1>2 DEF StatusLoaded, Same, BankStep, State
<1>3. CASE EntersHandler(m.state, r.state)
  BY <1>1, <1>3 DEF StatusLoaded, EntersHandler, BankStep, State
<1>4. QED
  BY <1>2, <1>3 DEF StatusLoaded, MayEnter

(* An instruction that loads the status register, with its stack at sp. *)
LoadsStatus(sp, sr, m) ==
  /\ m \in Machine /\ ~m.longjmp
  /\ User(m.state) = User(state) /\ System(m.state) = sp
  /\ m.state.halted = state.halted
  /\ EvenStacks(state) /\ ~IsOdd(sp) => EvenStacks(m.state)

LEMMA LoadsStatusEffect ==
  ASSUME TypeOK, state.supervisor, NEW extension \in {0, 2, 4, 6, 8}, NEW c \in Nat,
         NEW sp \in Addresses, NEW sr \in StatusRegister,
         NEW m, m = LoadStatus(Addressed(extension, c, sp), sr)
  PROVE  LoadsStatus(sp, sr, m) /\ m.cycles = c
<1> DEFINE a == Addressed(extension, c, sp)
           u == SetStatusRegister(a.state, sr)
<1>1. /\ a \in Machine /\ a.cycles = c /\ ~a.longjmp
      /\ OwnStack(state, a.state) /\ a.state.halted = state.halted
      /\ a.state.a7 = sp
      /\ EvenStacks(state) /\ ~IsOdd(sp) => EvenStacks(a.state)
  BY AddressedEffect
<1> HIDE DEF a
<1>2. a.state \in State
  BY <1>1 DEF Machine
<1>3. /\ System(u) = System(a.state) /\ User(u) = User(a.state)
      /\ u.halted = a.state.halted
      /\ EvenStacks(a.state) => EvenStacks(u)
  BY <1>2, SetStatusRegisterEffect
<1>4. u \in State
  BY <1>2, SetStatusRegisterType
<1>5. m = [a EXCEPT !.state = u]
  BY <1>1 DEF a, LoadStatus, Machine
<1> HIDE DEF u
<1>6. [a EXCEPT !.state = u] \in Machine
  BY <1>1, <1>4 DEF Machine
<1>7. /\ m \in Machine /\ m.state = u /\ m.cycles = c /\ ~m.longjmp
  BY <1>1, <1>5, <1>6 DEF Machine
<1>8. System(a.state) = sp /\ User(a.state) = User(state)
  BY <1>1 DEF OwnStack, System
<1>9. QED
  BY <1>1, <1>3, <1>7, <1>8 DEF LoadsStatus

LEMMA WriteStatusRegisterResult ==
  ASSUME TypeOK, state.supervisor,
         NEW extension \in {0, 2, 4, 6, 8}, NEW c \in 1..MaxDuration,
         NEW sp \in {state.a7, Increment(state.a7, 2), Decrement(state.a7, 2)},
         NEW sr \in StatusRegister,
         NEW r, r = LoadStatus(Addressed(extension, c, sp), sr)
  PROVE  Result(r)
<1> DEFINE a7 == state.a7
<1>1. /\ a7 \in Addresses /\ System(state) = a7
      /\ EvenStacks(state) => ~IsOdd(a7)
  BY DEF TypeOK, State, System, EvenStacks
<1> HIDE DEF a7
<1>2. Increment(a7, 2) \in Addresses /\ Decrement(a7, 2) \in Addresses
  BY <1>1, AddressArithmetic
<1>3. /\ IsOdd(Increment(a7, 2)) <=> IsOdd(a7)
      /\ IsOdd(Decrement(a7, 2)) <=> IsOdd(a7)
  BY <1>1, EvenArithmetic
<1>4. /\ a7 = Banks!Moved(a7, 0)
      /\ Increment(a7, 2) = Banks!Moved(a7, 2)
      /\ Decrement(a7, 2) = Banks!Moved(a7, -2)
  BY <1>1, AddressSpaceAssumption DEF Addresses, Increment, Decrement, Banks!Moved
<1>5. /\ sp \in Addresses
      /\ EvenStacks(state) => ~IsOdd(sp)
      /\ \E n \in Banks!LeaveMoves : sp = Banks!Moved(System(state), n)
  BY <1>1, <1>2, <1>3, <1>4 DEF a7, Banks!LeaveMoves
<1>6. LoadsStatus(sp, sr, r) /\ r.cycles = c
  <2>1. c \in Nat
    BY DEF MaxDuration
  <2>2. QED
    BY <1>5, <2>1, LoadsStatusEffect
<1>7. BankStep(state, r.state)
  <2>1. r \in Machine /\ StatusLoaded(r, r)
    BY <1>5, <1>6 DEF LoadsStatus, StatusLoaded, MayEnter, Same
  <2>2. QED
    BY <2>1, StatusResult
<1>8. c \in 1..MaxCycles
  BY DEF MaxCycles, MaxDuration
<1>9. QED
  BY <1>5, <1>6, <1>7, <1>8 DEF LoadsStatus, Result

LEMMA RTEResult ==
  ASSUME TypeOK, state.supervisor, ~IsOdd(state.a7),
         NEW sr \in StatusRegister, NEW target \in Addresses, NEW handler \in Addresses,
         NEW sp, sp = Increment(Increment(state.a7, 2), 4),
         NEW r, r = AddCycles(JumpTo(LoadStatus(Addressed(0, 4, sp), sr), target, handler), 16)
  PROVE  Result(r)
<1> DEFINE a7 == state.a7
           m  == LoadStatus(Addressed(0, 4, sp), sr)
           j  == JumpTo(m, target, handler)
<1>1. a7 \in Addresses /\ System(state) = a7
  BY DEF TypeOK, State, System
<1>2. sp = Increment(Increment(a7, 2), 4) /\ ~IsOdd(a7)
  OBVIOUS
<1> HIDE DEF a7
<1>3. /\ sp \in Addresses /\ ~IsOdd(sp)
      /\ sp = Banks!Moved(System(state), 6)
  <2> DEFINE mid == Increment(a7, 2)
  <2>1. mid \in Addresses
    BY <1>1, AddressArithmetic
  <2>2. ~IsOdd(mid)
    BY <1>1, <1>2, EvenArithmetic
  <2>3. sp = Increment(mid, 4) /\ Increment(mid, 4) = Banks!Moved(a7, 6)
    BY <1>1, <1>2, FrameMoves
  <2> HIDE DEF mid
  <2>4. Increment(mid, 4) \in Addresses
    BY <2>1, AddressArithmetic
  <2>5. IsOdd(Increment(mid, 4)) <=> IsOdd(mid)
    BY <2>1, EvenArithmetic
  <2>6. QED
    BY <1>1, <2>2, <2>3, <2>4, <2>5
<1>4. LoadsStatus(sp, sr, m) /\ m.cycles = 4
  BY <1>3, LoadsStatusEffect
<1> HIDE DEF m
<1>5. m \in Machine
  BY <1>4 DEF LoadsStatus
<1>6. j = JumpTo(m, target, handler) /\ r = AddCycles(j, 16)
  BY DEF m
<1> HIDE DEF j
<1>7. /\ j \in Machine /\ MayEnter(m.state, j.state)
      /\ j.cycles \in {m.cycles, m.cycles + 30}
      /\ ~j.longjmp => (j.cycles = m.cycles /\ Same(m.state, j.state))
      /\ EvenStacks(m.state) => EvenStacks(j.state) /\ j.state.halted = m.state.halted
  BY <1>5, <1>6, JumpToEffect
<1>8. /\ r \in Machine /\ r.state = j.state
      /\ r.cycles \in {j.cycles, j.cycles + 16}
  <2>1. [j EXCEPT !.cycles = j.cycles + 16] \in Machine
    BY <1>7 DEF Machine
  <2>2. QED
    BY <1>6, <1>7, <2>1 DEF AddCycles, Machine
<1>9. BankStep(state, r.state)
  <2>1. StatusLoaded(m, j)
    BY <1>3, <1>4, <1>7 DEF LoadsStatus, StatusLoaded, Banks!LeaveMoves
  <2>2. QED
    BY <1>5, <1>7, <1>8, <2>1, StatusResult
<1>10. r.cycles \in 1..MaxCycles
  BY <1>4, <1>7, <1>8 DEF MaxCycles, MaxDuration
<1>11. EvenStacks(state) => EvenStacks(r.state) /\ r.state.halted = state.halted
  BY <1>3, <1>4, <1>7, <1>8 DEF LoadsStatus
<1>12. QED
  BY <1>8, <1>9, <1>10, <1>11 DEF Result

(* The address error of an RTE with its stack odd, and of a fetch. *)
LEMMA FaultResult ==
  ASSUME TypeOK, NEW m \in Machine, Same(state, m.state),
         m.state.halted = state.halted,
         EvenStacks(state) => EvenStacks(m.state),
         m.cycles = 4, NEW handler \in Addresses,
         NEW r, r = Group0Exception(m, handler)
  PROVE  Result(r)
<1>1. r \in Machine
  BY Group0ExceptionType
<1>2. /\ MayEnter(m.state, r.state)
      /\ r.cycles \in {m.cycles, m.cycles + 30}
      /\ EvenStacks(m.state) => EvenStacks(r.state) /\ r.state.halted = m.state.halted
  BY Group0ExceptionEffect
<1>3. OwnStack(state, m.state) /\ m.cycles \in 1..MaxDuration
  BY DEF Same, OwnStack, MaxDuration
<1>4. QED
  BY <1>1, <1>2, <1>3, EntryResult

LEMMA NowEffect ==
  ASSUME TypeOK, NEW c \in Nat, NEW m, m = Now(c)
  PROVE  m \in Machine /\ m.state = state /\ m.cycles = c /\ ~m.longjmp /\ m.memory = memory
BY DEF TypeOK, Now, Machine

(* Illegal instructions and privilege violations. *)
LEMMA Group1Or2Result ==
  ASSUME TypeOK, NEW handler \in Addresses,
         NEW r, r = Group1Or2Exception(Fetched(0, 4), state.program_counter, handler)
  PROVE  Result(r)
<1> DEFINE f == Fetched(0, 4)
           m == [f EXCEPT !.state.program_counter = state.program_counter]
           d == DoInterrupt(m, handler)
<1>1. /\ f \in Machine /\ f.cycles = 4
      /\ Same(state, f.state) /\ f.state.halted = state.halted
      /\ EvenStacks(state) => EvenStacks(f.state)
  BY FetchedEffect
<1> HIDE DEF f
<1>2. state.program_counter \in Addresses
  BY DEF TypeOK, State
<1>3. m \in Machine /\ m.cycles = 4
  BY <1>1, <1>2 DEF Machine, State
<1>4. /\ m.state.a7 = f.state.a7 /\ m.state.halted = f.state.halted
      /\ m.state.supervisor = f.state.supervisor
      /\ m.state.user_stack_pointer = f.state.user_stack_pointer
      /\ m.state.supervisor_stack_pointer = f.state.supervisor_stack_pointer
      /\ m.state.mask = f.state.mask /\ m.state.trace = f.state.trace
  BY <1>1 DEF Machine, State
<1>5. r = [d EXCEPT !.longjmp = TRUE]
  BY DEF Group1Or2Exception, f
<1>6. d = DoInterrupt(m, handler)
  OBVIOUS
<1> HIDE DEF m, d
<1>7. d \in Machine
  BY <1>3, <1>6, DoInterruptType
<1>8. /\ EntersHandler(m.state, d.state)
      /\ d.cycles \in {m.cycles, m.cycles + 30}
      /\ EvenStacks(m.state) => EvenStacks(d.state) /\ d.state.halted = m.state.halted
  BY <1>3, <1>6, DoInterruptEffect
<1>9. r \in Machine /\ r.state = d.state /\ r.cycles = d.cycles
  <2>1. [d EXCEPT !.longjmp = TRUE] \in Machine
    BY <1>7 DEF Machine
  <2>2. QED
    BY <1>5, <1>7, <2>1 DEF Machine
<1>10. /\ OwnStack(state, m.state) /\ m.cycles \in 1..MaxDuration
       /\ MayEnter(m.state, r.state)
       /\ EvenStacks(state) => EvenStacks(m.state)
  BY <1>1, <1>3, <1>4, <1>8, <1>9 DEF Same, OwnStack, System, User, MayEnter, EvenStacks, MaxDuration
<1>11. QED
  BY <1>1, <1>3, <1>4, <1>8, <1>9, <1>10, EntryResult

LEMMA LoadsStatusInPlace ==
  ASSUME TypeOK, state.supervisor, NEW sr \in StatusRegister,
         NEW extension \in {0, 2, 4, 6, 8}, NEW c \in Nat,
         NEW f, f = Fetched(extension, c), NEW m, m = LoadStatus(f, sr)
  PROVE  LoadsStatus(state.a7, sr, m) /\ m.cycles = c
<1> DEFINE u == SetStatusRegister(f.state, sr)
<1>1. /\ f \in Machine /\ f.cycles = c /\ ~f.longjmp
      /\ Same(state, f.state) /\ f.state.halted = state.halted
      /\ EvenStacks(state) => EvenStacks(f.state)
  BY FetchedEffect
<1>2. f.state \in State
  BY <1>1 DEF Machine
<1>3. /\ System(u) = System(f.state) /\ User(u) = User(f.state)
      /\ u.halted = f.state.halted
      /\ EvenStacks(f.state) => EvenStacks(u)
  BY <1>2, SetStatusRegisterEffect
<1>4. u \in State
  BY <1>2, SetStatusRegisterType
<1>5. m = [f EXCEPT !.state = u]
  BY <1>1 DEF LoadStatus, Machine
<1> HIDE DEF u
<1>6. [f EXCEPT !.state = u] \in Machine
  BY <1>1, <1>4 DEF Machine
<1>7. m \in Machine /\ m.state = u /\ m.cycles = c /\ ~m.longjmp
  BY <1>1, <1>5, <1>6 DEF Machine
<1>8. System(f.state) = state.a7 /\ User(f.state) = User(state)
  BY <1>1 DEF Same, System
<1>9. QED
  BY <1>1, <1>3, <1>7, <1>8 DEF LoadsStatus

LEMMA STOPResult ==
  ASSUME TypeOK, state.supervisor, NEW sr \in StatusRegister,
         NEW l, LoadsStatus(state.a7, sr, l), l.cycles = 4,
         NEW r, r = [l EXCEPT !.state.stopped = TRUE]
  PROVE  Result(r)
<1> DEFINE s == [l.state EXCEPT !.stopped = TRUE]
<1>1. /\ l \in Machine /\ l.state \in State
      /\ User(l.state) = User(state) /\ System(l.state) = state.a7
      /\ l.state.halted = state.halted
      /\ EvenStacks(state) => EvenStacks(l.state)
  BY DEF LoadsStatus, Machine, EvenStacks
<1>2. /\ s \in State /\ s.a7 = l.state.a7 /\ s.halted = l.state.halted
      /\ s.supervisor = l.state.supervisor
      /\ s.user_stack_pointer = l.state.user_stack_pointer
      /\ s.supervisor_stack_pointer = l.state.supervisor_stack_pointer
  BY <1>1 DEF State
<1>3. r = [l EXCEPT !.state = s]
  BY <1>1 DEF Machine
<1> HIDE DEF s
<1>4. /\ System(s) = state.a7 /\ User(s) = User(state)
      /\ s.halted = state.halted
      /\ EvenStacks(state) => EvenStacks(s)
  BY <1>1, <1>2 DEF System, User, EvenStacks
<1>5. r \in Machine /\ r.state = s /\ r.cycles = 4
  <2>1. [l EXCEPT !.state = s] \in Machine
    BY <1>1, <1>2 DEF Machine
  <2>2. QED
    BY <1>1, <1>3, <2>1 DEF Machine
<1>6. BankStep(state, r.state)
  <2>1. state.a7 \in Addresses /\ System(state) = state.a7
    BY DEF TypeOK, State, System
  <2>2. state.a7 = Banks!Moved(state.a7, 0)
    BY <2>1, AddressSpaceAssumption DEF Addresses, Banks!Moved
  <2>3. StatusLoaded(r, r)
    BY <1>4, <1>5, <2>1, <2>2 DEF StatusLoaded, MayEnter, Same, Banks!LeaveMoves
  <2>4. QED
    BY <1>5, <2>3, StatusResult
<1>7. 4 \in 1..MaxCycles
  BY DEF MaxCycles, MaxDuration
<1>8. QED
  BY <1>4, <1>5, <1>6, <1>7 DEF Result

(* The moves between the USP and a register. *)
LEMMA MoveToUSPResult ==
  ASSUME TypeOK, NEW f \in Machine, Same(state, f.state), f.cycles = 4,
         EvenStacks(state) => EvenStacks(f.state),
         f.state.halted = state.halted,
         state.supervisor,
         NEW sp \in Addresses, EvenProgram /\ EvenStacks(state) => ~IsOdd(sp),
         NEW r, r = [f EXCEPT !.state.user_stack_pointer = sp]
  PROVE  Result(r)
<1> DEFINE s == [f.state EXCEPT !.user_stack_pointer = sp]
<1>1. f.state \in State
  BY DEF Machine
<1>2. /\ s \in State /\ s.a7 = f.state.a7 /\ s.halted = f.state.halted
      /\ s.supervisor = f.state.supervisor /\ s.user_stack_pointer = sp
      /\ s.supervisor_stack_pointer = f.state.supervisor_stack_pointer
  BY <1>1 DEF State
<1>3. r = [f EXCEPT !.state = s]
  BY DEF Machine
<1> HIDE DEF s
<1>4. r \in Machine /\ r.state = s /\ r.cycles = 4
  <2>1. [f EXCEPT !.state = s] \in Machine
    BY <1>2 DEF Machine
  <2>2. QED
    BY <1>3, <2>1 DEF Machine
<1>5. BankStep(state, s)
  BY <1>2 DEF Same, BankStep, System
<1>6. EvenProgram /\ EvenStacks(state) => EvenStacks(s)
  BY <1>2 DEF EvenStacks
<1>7. 4 \in 1..MaxCycles
  BY DEF MaxCycles, MaxDuration
<1>8. QED
  BY <1>2, <1>4, <1>5, <1>6, <1>7 DEF Result

LEMMA MoveFromUSPResult ==
  ASSUME TypeOK, NEW f \in Machine, Same(state, f.state), f.cycles = 4,
         EvenStacks(state) => EvenStacks(f.state),
         f.state.halted = state.halted,
         state.supervisor,
         NEW r, r = [f EXCEPT !.state.a7 = state.user_stack_pointer]
  PROVE  Result(r)
<1> DEFINE usp == state.user_stack_pointer
           s   == [f.state EXCEPT !.a7 = usp]
<1>1. f.state \in State /\ usp \in Addresses
  BY DEF Machine, TypeOK, State
<1>2. EvenStacks(state) => ~IsOdd(usp)
  BY DEF EvenStacks
<1>3. r = [f EXCEPT !.state = s]
  BY DEF Machine
<1> HIDE DEF usp
<1>4. /\ s \in State /\ s.a7 = usp /\ s.halted = f.state.halted
      /\ s.supervisor = f.state.supervisor
      /\ s.user_stack_pointer = f.state.user_stack_pointer
      /\ s.supervisor_stack_pointer = f.state.supervisor_stack_pointer
  BY <1>1 DEF State
<1> HIDE DEF s
<1>5. r \in Machine /\ r.state = s /\ r.cycles = 4
  <2>1. [f EXCEPT !.state = s] \in Machine
    BY <1>4 DEF Machine
  <2>2. QED
    BY <1>3, <2>1 DEF Machine
<1>6. BankStep(state, s)
  BY <1>4 DEF Same, BankStep, User
<1>7. EvenStacks(state) => EvenStacks(s)
  BY <1>2, <1>4 DEF EvenStacks
<1>8. 4 \in 1..MaxCycles
  BY DEF MaxCycles, MaxDuration
<1>9. QED
  BY <1>4, <1>5, <1>6, <1>7, <1>8 DEF Result

(* A stopped processor only spends cycles. *)
LEMMA StoppedResult ==
  ASSUME TypeOK, NEW r, r = Now(4)
  PROVE  Result(r)
<1>1. r \in Machine /\ r.state = state /\ r.cycles = 4
  BY NowEffect
<1>2. BankStep(state, state)
  BY DEF BankStep, TypeOK, State
<1>3. 4 \in 1..MaxCycles
  BY DEF MaxCycles, MaxDuration
<1>4. QED
  BY <1>1, <1>2, <1>3 DEF Result

(***************************************************************************)
(* Every disjunct of Instruction.                                          *)
(***************************************************************************)

Ends(m) == Result(m) /\ Iterate(m)

(* Callbacks are the only writers of the request and of terminate_early. *)
LEMMA CallbackTypes ==
  ASSUME TypeOK, BusCallbacks \/ NoBusCallbacks
  PROVE  pending_interrupt' \in 0..7 /\ terminate_early' \in BOOLEAN
BY HostAssumption DEF TypeOK, BusCallbacks, NoBusCallbacks

LEMMA LoadedType ==
  ASSUME TypeOK, NEW sp \in Loaded
  PROVE  sp \in Addresses /\ (EvenProgram /\ EvenStacks(state) => ~IsOdd(sp))
BY BusAssumption DEF TypeOK, State, Loaded, EvenProgram, EvenStacks

LEMMA ParameterTypes ==
  /\ Durations \subseteq 1..MaxDuration /\ Extensions \subseteq {0, 2, 4, 6, 8}
  /\ Longs \subseteq Addresses /\ StatusWords \subseteq StatusRegister
BY TimingAssumption, BusAssumption

(* An iteration that ends in a result. *)
Ended ==
  /\ \E m : Ends(m)
  /\ pending_interrupt' \in 0..7 /\ terminate_early' \in BOOLEAN

LEMMA ExecuteEnds ==
  ASSUME TypeOK, NEW m, Result(m), Execute(m)
  PROVE  Ended
BY CallbackTypes DEF Execute, Ends, Ended

LEMMA SimpleEnds ==
  ASSUME TypeOK, Simple
  PROVE  Ended
<1>1. ASSUME NEW extension \in Extensions, NEW duration \in Durations,
             NEW sp \in Loaded, NEW written, Ordinary(extension, duration, sp, written)
      PROVE  Ended
  <2> DEFINE r == [Addressed(extension, duration, sp) EXCEPT
                     !.memory = WriteWords(@, written, Data)]
  <2>1. Result(r)
    BY <1>1, LoadedType, ParameterTypes, OrdinaryResult
  <2>2. Execute(r)
    BY <1>1 DEF Ordinary
  <2> HIDE DEF r
  <2>3. QED
    BY <2>1, <2>2, ExecuteEnds
<1>2. ASSUME NEW extension \in Extensions, NEW duration \in Durations,
             NEW sp \in {state.a7, Increment(state.a7, 2), Decrement(state.a7, 2)},
             NEW sr \in StatusWords, WriteStatusRegister(extension, duration, sp, sr)
      PROVE  Ended
  <2> DEFINE r == LoadStatus(Addressed(extension, duration, sp), sr)
  <2>1. state.supervisor /\ Execute(r)
    BY <1>2 DEF WriteStatusRegister
  <2>2. Result(r)
    BY <2>1, ParameterTypes, WriteStatusRegisterResult
  <2> HIDE DEF r
  <2>3. QED
    BY <2>1, <2>2, ExecuteEnds
<1>3. ASSUME NEW sr \in StatusWords, STOP(sr)
      PROVE  Ended
  <2> DEFINE f == Fetched(2, 4)
             l == LoadStatus(f, sr)
             r == [l EXCEPT !.state.stopped = TRUE]
  <2>1. state.supervisor /\ Execute(r)
    BY <1>3 DEF STOP
  <2>2. sr \in StatusRegister
    BY ParameterTypes
  <2>3. LoadsStatus(state.a7, sr, l) /\ l.cycles = 4
    <3>1. 2 \in {0, 2, 4, 6, 8} /\ 4 \in Nat
      OBVIOUS
    <3>2. QED
      BY <2>1, <2>2, <3>1, LoadsStatusInPlace
  <2>4. r = [l EXCEPT !.state.stopped = TRUE]
    OBVIOUS
  <2> HIDE DEF l, r
  <2>5. Result(r)
    BY <2>1, <2>2, <2>3, <2>4, STOPResult
  <2>6. QED
    BY <2>1, <2>5, ExecuteEnds
<1>4. ASSUME NEW sp \in Loaded, MoveToUSP(sp)
      PROVE  Ended
  <2> DEFINE f == Fetched(0, 4)
             r == [f EXCEPT !.state.user_stack_pointer = sp]
  <2>1. state.supervisor /\ Execute(r)
    BY <1>4 DEF MoveToUSP
  <2>2. /\ f \in Machine /\ f.cycles = 4
        /\ Same(state, f.state) /\ f.state.halted = state.halted
        /\ EvenStacks(state) => EvenStacks(f.state)
    BY FetchedEffect
  <2> HIDE DEF f
  <2>3. Result(r)
    BY <2>1, <2>2, LoadedType, MoveToUSPResult
  <2> HIDE DEF r
  <2>4. QED
    BY <2>1, <2>3, ExecuteEnds
<1>5. ASSUME MoveFromUSP
      PROVE  Ended
  <2> DEFINE f == Fetched(0, 4)
             r == [f EXCEPT !.state.a7 = state.user_stack_pointer]
  <2>1. state.supervisor /\ Execute(r)
    BY <1>5 DEF MoveFromUSP
  <2>2. /\ f \in Machine /\ f.cycles = 4
        /\ Same(state, f.state) /\ f.state.halted = state.halted
        /\ EvenStacks(state) => EvenStacks(f.state)
    BY FetchedEffect
  <2> HIDE DEF f
  <2>3. Result(r)
    BY <2>1, <2>2, MoveFromUSPResult
  <2> HIDE DEF r
  <2>4. QED
    BY <2>1, <2>3, ExecuteEnds
<1>6. QED
  BY <1>1, <1>2, <1>3, <1>4, <1>5 DEF Simple

(* The three returns read what they return to from the memory. *)
LEMMA ReturnEnds ==
  ASSUME TypeOK, NEW handler \in Addresses, RTS(handler) \/ RTR(handler) \/ RTE(handler)
  PROVE  Ended
<1>1. /\ state.a7 \in Addresses /\ memory \in [Ram -> Words]
      /\ 2 \in 0..16 /\ 2 \in {2, 4, 6, 8}
  BY DEF TypeOK, State
<1>2. /\ Increment(state.a7, 2) \in Addresses
      /\ IsOdd(Increment(state.a7, 2)) <=> IsOdd(state.a7)
  <2> DEFINE a == state.a7
  <2>1. a \in Addresses
    BY <1>1
  <2> HIDE DEF a
  <2>2. Increment(a, 2) \in Addresses
    BY <1>1, <2>1, AddressArithmetic
  <2>3. IsOdd(Increment(a, 2)) <=> IsOdd(a)
    BY <1>1, <2>1, EvenArithmetic
  <2>4. QED
    BY <2>2, <2>3 DEF a
<1>3. CASE RTS(handler)
  <2>1. PICK target \in ReadLong(memory, state.a7) :
          Execute(AddCycles(PopJump(Fetched(0, 4), target, handler), 12))
    BY <1>3 DEF RTS
  <2> DEFINE r == AddCycles(PopJump(Fetched(0, 4), target, handler), 12)
  <2>2. target \in Addresses
    BY <1>1, ReadType
  <2>3. Fetched(0, 4) = Addressed(0, 4, state.a7)
    BY DEF Fetched, Addressed, Now, TypeOK, State
  <2>4. r = AddCycles(PopJump(Addressed(0, 4, state.a7), target, handler), 12)
    BY <2>3
  <2> HIDE DEF r
  <2>5. Result(r)
    BY <1>1, <2>2, <2>4, ReturnResult
  <2>6. Execute(r)
    BY <2>1 DEF r
  <2>7. QED
    BY <2>5, <2>6, ExecuteEnds
<1>4. CASE RTR(handler)
  <2> DEFINE sp == Increment(state.a7, 2)
  <2>1. PICK target \in ReadLong(memory, sp) :
          Execute(AddCycles(PopJump(Addressed(0, 4, sp), target, handler), 16))
    BY <1>4 DEF RTR
  <2>2. sp \in Addresses /\ (IsOdd(sp) => IsOdd(state.a7))
    BY <1>2
  <2> HIDE DEF sp
  <2> DEFINE r == AddCycles(PopJump(Addressed(0, 4, sp), target, handler), 16)
  <2>3. target \in Addresses
    BY <1>1, ReadType
  <2>4. Result(r)
    BY <2>2, <2>3, ReturnResult
  <2>5. Execute(r)
    BY <2>1
  <2> HIDE DEF r
  <2>6. QED
    BY <2>4, <2>5, ExecuteEnds
<1>5. CASE RTE(handler)
  <2> DEFINE sp == Increment(state.a7, 2)
  <2>1. state.supervisor
    BY <1>5 DEF RTE
  <2>2. PICK sr \in ReadStatus(memory, state.a7), target \in ReadLong(memory, sp) :
          Execute(IF IsOdd(state.a7)
                  THEN Group0Exception(Fetched(0, 4), handler)
                  ELSE AddCycles(JumpTo(LoadStatus(Addressed(0, 4, Increment(sp, 4)), sr),
                                        target, handler), 16))
    BY <1>5 DEF RTE
  <2>3. sr \in StatusRegister /\ target \in Addresses
    BY <1>1, ReadType
  <2>4. CASE IsOdd(state.a7)
    <3> DEFINE f == Fetched(0, 4)
               r == Group0Exception(f, handler)
    <3>1. Execute(r)
      BY <2>2, <2>4
    <3>2. /\ f \in Machine /\ f.cycles = 4
          /\ Same(state, f.state) /\ f.state.halted = state.halted
          /\ EvenStacks(state) => EvenStacks(f.state)
      BY FetchedEffect
    <3> HIDE DEF f
    <3>3. Result(r)
      BY <3>2, FaultResult
    <3> HIDE DEF r
    <3>4. QED
      BY <3>1, <3>3, ExecuteEnds
  <2>5. CASE ~IsOdd(state.a7)
    <3> DEFINE r == AddCycles(JumpTo(LoadStatus(Addressed(0, 4, Increment(sp, 4)), sr),
                                     target, handler), 16)
    <3>1. Execute(r)
      BY <2>2, <2>5
    <3>2. Result(r)
      BY <2>1, <2>3, <2>5, RTEResult
    <3> HIDE DEF r
    <3>3. QED
      BY <3>1, <3>2, ExecuteEnds
  <2>6. QED
    BY <2>4, <2>5
<1>6. QED
  BY <1>3, <1>4, <1>5

LEMMA FetchAddressErrorEnds ==
  ASSUME TypeOK, NEW handler \in Addresses, FetchAddressError(handler)
  PROVE  Ended
<1> DEFINE m == Now(4)
           r == Group0Exception(m, handler)
<1>1. m \in Machine /\ m.state = state /\ m.cycles = 4
  BY NowEffect
<1>2. Iterate(r) /\ (BusCallbacks \/ NoBusCallbacks)
  BY DEF FetchAddressError
<1>3. Same(state, m.state) /\ m.state.halted = state.halted
  BY <1>1 DEF Same
<1> HIDE DEF m
<1>4. Result(r)
  BY <1>1, <1>3, FaultResult
<1> HIDE DEF r
<1>5. QED
  BY <1>2, <1>4, CallbackTypes DEF Ends, Ended

LEMMA ExceptionalEnds ==
  ASSUME TypeOK, Exceptional
  PROVE  Ended
<1>1. ASSUME NEW handler \in Longs, NEW extension \in Extensions,
             NEW duration \in Durations, NEW sp \in Loaded,
             DataAddressError(extension, duration, sp, handler)
      PROVE  Ended
  <2> DEFINE r == Group0Exception(Addressed(extension, duration, sp), handler)
  <2>1. Result(r)
    BY <1>1, LoadedType, ParameterTypes, DataAddressErrorResult
  <2>2. Execute(r)
    BY <1>1 DEF DataAddressError
  <2> HIDE DEF r
  <2>3. QED
    BY <2>1, <2>2, ExecuteEnds
<1>2. ASSUME NEW handler \in Longs, NEW extension \in Extensions,
             NEW duration \in Durations, NEW sp \in Loaded,
             Trap(extension, duration, sp, handler)
      PROVE  Ended
  <2> DEFINE r == DoInterrupt(Addressed(extension, duration, sp), handler)
  <2>1. Result(r)
    BY <1>2, LoadedType, ParameterTypes, TrapResult
  <2>2. Execute(r)
    BY <1>2 DEF Trap
  <2> HIDE DEF r
  <2>3. QED
    BY <2>1, <2>2, ExecuteEnds
<1>3. ASSUME NEW handler \in Longs, NEW extension \in Extensions,
             NEW duration \in Durations, NEW target \in Longs,
             JSR(extension, duration, target, handler)
      PROVE  Ended
  <2> DEFINE m == Fetched(extension, duration)
             j == JumpTo(m, target, handler)
             r == IF j.longjmp THEN j ELSE PushLong(j, m.state.program_counter, handler)
  <2>1. Result(r)
    BY <1>3, ParameterTypes, JSRResult
  <2>2. Execute(r)
    BY <1>3 DEF JSR
  <2> HIDE DEF r
  <2>3. QED
    BY <2>1, <2>2, ExecuteEnds
<1>4. ASSUME NEW handler \in Longs, NEW extension \in Extensions,
             NEW duration \in Durations, NEW target \in Longs,
             BSR(extension, duration, target, handler)
      PROVE  Ended
  <2> DEFINE m == Fetched(extension, duration)
             p == PushLong(m, m.state.program_counter, handler)
             r == IF p.longjmp THEN p ELSE JumpTo(p, target, handler)
  <2>1. Result(r)
    BY <1>4, ParameterTypes, BSRResult
  <2>2. Execute(r)
    BY <1>4 DEF BSR
  <2> HIDE DEF r
  <2>3. QED
    BY <2>1, <2>2, ExecuteEnds
<1>5. ASSUME NEW handler \in Longs, NEW duration \in Durations, NEW target \in Longs,
             Jump(duration, target, handler)
      PROVE  Ended
  <2> DEFINE r == JumpTo(Fetched(0, duration), target, handler)
  <2>1. Result(r)
    BY <1>5, ParameterTypes, JumpResult
  <2>2. Execute(r)
    BY <1>5 DEF Jump
  <2> HIDE DEF r
  <2>3. QED
    BY <2>1, <2>2, ExecuteEnds
<1>6. ASSUME NEW handler \in Longs, RTS(handler) \/ RTR(handler) \/ RTE(handler)
      PROVE  Ended
  <2>1. handler \in Addresses
    BY ParameterTypes
  <2>2. QED
    BY <1>6, <2>1, ReturnEnds
<1>7. ASSUME NEW handler \in Longs,
             IllegalInstruction(handler) \/ PrivilegeViolation(handler)
      PROVE  Ended
  <2> DEFINE r == Group1Or2Exception(Fetched(0, 4), state.program_counter, handler)
  <2>1. Result(r)
    BY ParameterTypes, Group1Or2Result
  <2>2. Execute(r)
    BY <1>7 DEF IllegalInstruction, PrivilegeViolation
  <2> HIDE DEF r
  <2>3. QED
    BY <2>1, <2>2, ExecuteEnds
<1>8. ASSUME NEW handler \in Longs, FetchAddressError(handler)
      PROVE  Ended
  <2>1. handler \in Addresses
    BY ParameterTypes
  <2>2. QED
    BY <1>8, <2>1, FetchAddressErrorEnds
<1>9. QED
  BY <1>1, <1>2, <1>3, <1>4, <1>5, <1>6, <1>7, <1>8 DEF Exceptional

LEMMA StoppedEnds ==
  ASSUME TypeOK, Stopped
  PROVE  Ended
<1> DEFINE r == Now(4)
<1>1. Result(r)
  BY StoppedResult
<1>2. Iterate(r) /\ NoBusCallbacks
  BY DEF Stopped
<1> HIDE DEF r
<1>3. QED
  BY <1>1, <1>2, CallbackTypes DEF Ends, Ended

LEMMA InstructionEnds ==
  ASSUME TypeOK, Instruction
  PROVE  Ended
BY SimpleEnds, ExceptionalEnds, StoppedEnds DEF Instruction

(* The interrupt, taken between two instructions. *)
LEMMA InterruptEnds ==
  ASSUME TypeOK, NEW handler \in Addresses, ProcessInterrupt(handler)
  PROVE  /\ TypeOK'
         /\ BankStep(state, state')
         /\ cycles_left' <= cycles_left + 44
         /\ EvenStacks(state) => EvenStacks(state') /\ state'.halted = state.halted
<1> DEFINE n == Now(cycles_left)
           s == [state EXCEPT !.stopped = FALSE]
           i == [n EXCEPT !.state = s]
           d == DoInterrupt(i, handler)
           t == [d.state EXCEPT !.mask = latched]
<1>1. n \in Machine /\ n.cycles = cycles_left /\ n.state = state
  BY NowEffect DEF TypeOK
<1>e. i = [n EXCEPT !.state = s]
  OBVIOUS
<1>f. d = DoInterrupt(i, handler)
  OBVIOUS
<1>2. /\ s \in State /\ Same(state, s) /\ s.halted = state.halted
      /\ EvenStacks(state) => EvenStacks(s)
  BY DEF TypeOK, State, Same, System, User, EvenStacks
<1>p. /\ phase' = "loop" /\ latched' = 0 /\ cycles_done' = cycles_done
      /\ cycles_to_do' = cycles_to_do
      /\ latched = 7 \/ latched > state.mask
      /\ memory' = d.memory
      /\ \/ d.longjmp /\ state' = d.state /\ cycles_left' = d.cycles /\ NoBusCallbacks
         \/ ~d.longjmp /\ state' = t /\ cycles_left' = d.cycles + 14 /\ BusCallbacks
  <2>1. i = [Now(cycles_left) EXCEPT !.state.stopped = FALSE]
    BY <1>1
  <2>2. QED
    BY <2>1 DEF ProcessInterrupt, InterruptAccepted, Woken
<1> HIDE DEF n, s
<1>3. i \in Machine /\ i.state = s /\ i.cycles = cycles_left
  <2>1. [n EXCEPT !.state = s] \in Machine
    BY <1>1, <1>2 DEF Machine
  <2>2. QED
    BY <1>1, <1>e, <2>1 DEF Machine
<1> HIDE DEF i
<1>4. d \in Machine
  BY <1>3, <1>f, DoInterruptType
<1>5. /\ EntersHandler(i.state, d.state)
      /\ d.cycles \in {i.cycles, i.cycles + 30}
      /\ EvenStacks(i.state) => EvenStacks(d.state) /\ d.state.halted = i.state.halted
  BY <1>3, <1>f, DoInterruptEffect
<1> HIDE DEF d
<1>6. latched \in 0..7 /\ d.state \in State
  BY <1>4 DEF TypeOK, Machine
<1>7. /\ t \in State /\ t.a7 = d.state.a7 /\ t.halted = d.state.halted
      /\ t.supervisor = d.state.supervisor /\ t.trace = d.state.trace
      /\ t.user_stack_pointer = d.state.user_stack_pointer
      /\ t.supervisor_stack_pointer = d.state.supervisor_stack_pointer
      /\ t.mask = latched
  BY <1>6 DEF State
<1> HIDE DEF t
<1>8. EntersHandler(state, d.state)
  BY <1>2, <1>3, <1>5 DEF Same, EntersHandler
<1>9. state \in State
  BY DEF TypeOK
<1>10. BankStep(state, d.state)
  BY <1>6, <1>8, <1>9 DEF EntersHandler, BankStep, State
<1>11. BankStep(state, t)
  <2>1. /\ t.supervisor = TRUE /\ t.trace = FALSE /\ User(t) = User(state)
        /\ \E k \in Banks!EntryMoves : System(t) = Banks!Moved(System(state), k)
    BY <1>7, <1>8 DEF EntersHandler, System, User
  <2>2. t.mask >= state.mask
    BY <1>p, <1>6, <1>7, <1>9 DEF State
  <2>3. QED
    BY <1>9, <2>1, <2>2 DEF BankStep, State
<1>12. EvenStacks(t) <=> EvenStacks(d.state)
  BY <1>7 DEF EvenStacks
<1>13. state' \in State /\ BankStep(state, state')
  BY <1>p, <1>6, <1>7, <1>10, <1>11
<1>14. EvenStacks(state) => EvenStacks(state') /\ state'.halted = state.halted
  <2>1. EvenStacks(state) => EvenStacks(d.state) /\ d.state.halted = state.halted
    BY <1>2, <1>3, <1>5
  <2>2. CASE state' = d.state
    BY <2>1, <2>2
  <2>3. CASE state' = t
    BY <1>7, <1>12, <2>1, <2>3
  <2>4. QED
    BY <1>p, <2>2, <2>3
<1>15. cycles_left' \in Nat /\ cycles_left' <= cycles_left + 44
  BY <1>p, <1>3, <1>5 DEF TypeOK
<1>16. memory' \in [Ram -> Words]
  BY <1>p, <1>4 DEF Machine
<1>17. pending_interrupt' \in 0..7 /\ terminate_early' \in BOOLEAN
  BY <1>p, CallbackTypes
<1>18. TypeOK'
  BY <1>p, <1>13, <1>15, <1>16, <1>17 DEF TypeOK
<1>19. QED
  BY <1>13, <1>14, <1>15, <1>18

(* t is s after a reset, its banks and its system byte. *)
HasReset(s, sp, t) ==
  /\ t.supervisor = TRUE /\ t.mask = 7 /\ t.trace = FALSE
  /\ System(t) = sp /\ User(t) = User(s)

LEMMA ResetEnds ==
  ASSUME NEW s \in State, NEW sp \in Addresses, NEW pc \in Addresses,
         NEW t, t = ResetState(s, sp, pc)
  PROVE  /\ t \in State
         /\ HasReset(s, sp, t)
         /\ ~t.halted
         /\ EvenStacks(s) /\ ~IsOdd(sp) => EvenStacks(t)
<1> DEFINE q == [s EXCEPT !.halted = FALSE, !.stopped = FALSE,
                          !.trace = FALSE, !.mask = 7]
           b == SetSupervisorMode(q, TRUE)
<1>a. q \in State
  <2>1. [s EXCEPT !.halted = FALSE, !.stopped = FALSE] \in State
    BY DEF State
  <2>2. ASSUME NEW u \in State, NEW off \in BOOLEAN, NEW level \in 0..7
        PROVE  [u EXCEPT !.trace = off, !.mask = level] \in State
    BY DEF State
  <2>3. FALSE \in BOOLEAN /\ 7 \in 0..7
    OBVIOUS
  <2>4. [[s EXCEPT !.halted = FALSE, !.stopped = FALSE]
            EXCEPT !.trace = FALSE, !.mask = 7] \in State
    BY <2>1, <2>2, <2>3
  <2>5. QED
    BY <2>4
<1>1. /\ q.mask = 7 /\ ~q.trace /\ ~q.halted
      /\ q.a7 = s.a7 /\ q.supervisor = s.supervisor
      /\ q.user_stack_pointer = s.user_stack_pointer
      /\ q.supervisor_stack_pointer = s.supervisor_stack_pointer
  BY DEF State
<1>e. b = SetSupervisorMode(q, TRUE) /\ t = [b EXCEPT !.a7 = sp, !.program_counter = pc]
  BY DEF ResetState
<1> HIDE DEF q, b
<1>2. b \in State
  BY <1>a, <1>1, <1>e, SetSupervisorModeType
<1>3. /\ b.supervisor = TRUE /\ b.mask = q.mask /\ b.trace = q.trace
      /\ b.halted = q.halted
      /\ User(b) = User(q)
      /\ EvenStacks(q) => EvenStacks(b)
  BY <1>a, <1>1, <1>e, SetSupervisorModeEffect
<1>4. /\ t \in State /\ t.a7 = sp /\ t.supervisor = b.supervisor
      /\ t.mask = b.mask /\ t.trace = b.trace /\ t.halted = b.halted
      /\ t.user_stack_pointer = b.user_stack_pointer
      /\ t.supervisor_stack_pointer = b.supervisor_stack_pointer
  BY <1>2, <1>e DEF State
<1>5. User(q) = User(s) /\ (EvenStacks(s) => EvenStacks(q))
  BY <1>1 DEF User, EvenStacks
<1>6. QED
  BY <1>1, <1>3, <1>4, <1>5 DEF HasReset, System, User, EvenStacks

(***************************************************************************)
(* The inductive invariant.                                                *)
(***************************************************************************)

CycleBounds ==
  /\ phase = "poll" => cycles_left \in 1..MaxCycles /\ cycles_done < cycles_to_do
  /\ phase = "loop" =>
       /\ cycles_left <= MaxCycles + 44
       /\ cycles_done < cycles_to_do \/ (cycles_done = 0 /\ cycles_left = 0)
  /\ phase = "host" => cycles_left = 0 /\ CyclesReturned

EvenInvariant == EvenProgram => EvenStacks(state) /\ ~state.halted

Inv == TypeOK /\ CycleBounds /\ EvenInvariant

LEMMA InitInv == Init => Inv
<1> SUFFICES ASSUME Init PROVE Inv
  OBVIOUS
<1>1. PICK sp \in StackPointers, pc \in Longs : state = ResetState(Zeroed, sp, pc)
  BY DEF Init
<1>2. sp \in Addresses /\ pc \in Addresses /\ (EvenProgram => ~IsOdd(sp))
  BY BusAssumption DEF EvenProgram
<1>3. 0 \in Addresses /\ ~IsOdd(0)
  BY AddressSpaceAssumption DEF Addresses, IsOdd
<1>4. Zeroed \in State /\ EvenStacks(Zeroed)
  BY <1>3 DEF Zeroed, State, EvenStacks
<1>5. state \in State /\ ~state.halted /\ (EvenProgram => EvenStacks(state))
  BY <1>1, <1>2, <1>4, ResetEnds
<1>6. memory \in [Ram -> Words]
  BY DEF Init, Words
<1>7. TypeOK
  <2>1. pending_interrupt = 0 /\ latched = 0 /\ phase = "host" /\ terminate_early = FALSE
    BY DEF Init
  <2>2. cycles_left = 0 /\ cycles_done = 0 /\ cycles_to_do = 0
    BY DEF Init
  <2>3. /\ pending_interrupt \in 0..7 /\ latched \in 0..7
        /\ phase \in {"host", "loop", "poll"}
    BY <2>1
  <2>4. terminate_early \in BOOLEAN
    BY <2>1
  <2>5. cycles_left \in Nat /\ cycles_done \in Nat /\ cycles_to_do \in Nat
    BY <2>2
  <2>6. QED
    BY <1>5, <1>6, <2>3, <2>4, <2>5, Zenon DEF TypeOK
<1>8. CycleBounds
  BY DEF Init, CycleBounds, CyclesReturned
<1>9. QED
  BY <1>5, <1>7, <1>8 DEF Inv, EvenInvariant

LEMMA InstructionInv ==
  ASSUME Inv, Instruction
  PROVE  Inv'
<1>1. TypeOK
  BY DEF Inv
<1>2. Ended
  BY <1>1, InstructionEnds
<1>3. PICK m : Result(m) /\ Iterate(m)
  BY <1>2 DEF Ended, Ends
<1>4. pending_interrupt' \in 0..7 /\ terminate_early' \in BOOLEAN
  BY <1>2 DEF Ended
<1>5. /\ m.state \in State /\ m.memory \in [Ram -> Words]
      /\ m.cycles \in Nat /\ m.longjmp \in BOOLEAN
  BY <1>3 DEF Result, Machine
<1>6. /\ phase = "loop" /\ cycles_done + cycles_left < cycles_to_do
      /\ cycles_done' = cycles_done + cycles_left /\ cycles_to_do' = cycles_to_do
      /\ state' = m.state /\ memory' = m.memory /\ cycles_left' = m.cycles
      /\ phase' \in {"loop", "poll"} /\ latched' \in {0, pending_interrupt}
  BY <1>3 DEF Iterate, LoopContinues, Latch
<1>7. TypeOK'
  BY <1>1, <1>4, <1>5, <1>6 DEF TypeOK
<1>8. CycleBounds'
  <2>1. m.cycles \in 1..MaxCycles
    BY <1>3 DEF Result
  <2>2. QED
    BY <1>1, <1>6, <2>1 DEF TypeOK, CycleBounds, MaxCycles, MaxDuration
<1>9. EvenInvariant'
  <2>1. EvenProgram /\ EvenStacks(state) =>
          EvenStacks(m.state) /\ m.state.halted = state.halted
    BY <1>3 DEF Result
  <2>2. EvenProgram => EvenStacks(state') /\ ~state'.halted
    BY <1>6, <2>1 DEF Inv, EvenInvariant
  <2>3. QED
    BY <2>2 DEF EvenInvariant, EvenProgram, EvenStacks
<1>10. QED
  BY <1>7, <1>8, <1>9 DEF Inv

LEMMA PollInv ==
  ASSUME Inv, Poll
  PROVE  Inv'
<1>1. ASSUME NEW handler \in Longs, ProcessInterrupt(handler)
      PROVE  Inv'
  <2>1. handler \in Addresses /\ TypeOK
    BY ParameterTypes DEF Inv
  <2>2. /\ TypeOK'
        /\ cycles_left' <= cycles_left + 44
        /\ EvenStacks(state) => EvenStacks(state') /\ state'.halted = state.halted
    BY <1>1, <2>1, InterruptEnds
  <2>3. /\ phase = "poll" /\ phase' = "loop"
        /\ cycles_done' = cycles_done /\ cycles_to_do' = cycles_to_do
    BY <1>1 DEF ProcessInterrupt
  <2>4. CycleBounds'
    BY <2>1, <2>2, <2>3 DEF Inv, TypeOK, CycleBounds, MaxCycles, MaxDuration
  <2>5. EvenProgram => EvenStacks(state') /\ ~state'.halted
    BY <2>2 DEF Inv, EvenInvariant
  <2>6. EvenInvariant'
    BY <2>5 DEF EvenInvariant, EvenProgram, EvenStacks
  <2>7. QED
    BY <2>2, <2>4, <2>6 DEF Inv
<1>2. ASSUME NoInterrupt
      PROVE  Inv'
  BY <1>2 DEF Inv, NoInterrupt, TypeOK, CycleBounds, MaxCycles, MaxDuration,
              EvenInvariant, EvenProgram, EvenStacks
<1>3. QED
  BY <1>1, <1>2 DEF Poll

LEMMA HostInv ==
  ASSUME Inv, Host
  PROVE  Inv'
<1>1. ASSUME NEW sp \in StackPointers, NEW pc \in Longs, Reset(sp, pc)
      PROVE  Inv'
  <2>1. sp \in Addresses /\ pc \in Addresses /\ (EvenProgram => ~IsOdd(sp))
    BY BusAssumption DEF EvenProgram
  <2>2. state \in State /\ state' = ResetState(state, sp, pc)
    BY <1>1 DEF Inv, TypeOK, Reset
  <2>3. /\ state' \in State /\ ~state'.halted
        /\ EvenStacks(state) /\ ~IsOdd(sp) => EvenStacks(state')
    BY <2>1, <2>2, ResetEnds
  <2>4. TypeOK' /\ CycleBounds'
    BY <1>1, <2>3 DEF Inv, Reset, TypeOK, CycleBounds, CyclesReturned
  <2>5. EvenProgram => EvenStacks(state') /\ ~state'.halted
    BY <2>1, <2>3 DEF Inv, EvenInvariant
  <2>6. EvenInvariant'
    BY <2>5 DEF EvenInvariant, EvenProgram, EvenStacks
  <2>7. QED
    BY <2>4, <2>6 DEF Inv
<1>2. ASSUME NEW level \in Levels, Interrupt(level)
      PROVE  Inv'
  BY <1>2, HostAssumption DEF Inv, Interrupt, TypeOK, CycleBounds, CyclesReturned,
                              EvenInvariant, EvenProgram, EvenStacks
<1>3. ASSUME NEW budget \in Budgets, DoCycles(budget)
      PROVE  Inv'
  <2>1. budget \in Nat
    BY HostAssumption
  <2>2. TypeOK'
    <3>1. /\ state' = state /\ pending_interrupt' = pending_interrupt
          /\ memory' = memory /\ latched' = latched /\ cycles_to_do' = budget
      BY <1>3 DEF DoCycles
    <3>2. \/ /\ cycles_done' = budget /\ phase' = phase
             /\ cycles_left' = cycles_left /\ terminate_early' = terminate_early
          \/ /\ cycles_done' = 0 /\ phase' = "loop"
             /\ cycles_left' = 0 /\ terminate_early' = FALSE
      BY <1>3 DEF DoCycles
    <3>3. /\ cycles_done' \in Nat /\ cycles_left' \in Nat
          /\ phase' \in {"host", "loop", "poll"}
      BY <2>1, <3>2 DEF Inv, TypeOK
    <3>4. terminate_early' \in BOOLEAN
      BY <3>2 DEF Inv, TypeOK
    <3>5. QED
      BY <2>1, <3>1, <3>3, <3>4 DEF Inv, TypeOK
  <2>3. CycleBounds'
    BY <1>3, <2>1 DEF Inv, DoCycles, TypeOK, CycleBounds, CyclesReturned,
                      MaxCycles, MaxDuration
  <2>4. state' = state
    BY <1>3 DEF DoCycles
  <2>5. EvenInvariant'
    BY <2>4 DEF Inv, EvenInvariant, EvenProgram, EvenStacks
  <2>6. QED
    BY <2>2, <2>3, <2>5 DEF Inv
<1>4. QED
  BY <1>1, <1>2, <1>3 DEF Host

LEMMA NextInv == Inv /\ [Next]_vars => Inv'
<1> SUFFICES ASSUME Inv, [Next]_vars PROVE Inv'
  OBVIOUS
<1>1. CASE Return
  BY <1>1 DEF Inv, Return, LoopContinues, TypeOK, CycleBounds, CyclesReturned,
              MaxCycles, MaxDuration, EvenInvariant, EvenProgram, EvenStacks
<1>2. CASE UNCHANGED vars
  BY <1>2 DEF vars, Inv, TypeOK, CycleBounds, CyclesReturned, EvenInvariant,
              EvenProgram, EvenStacks
<1>3. QED
  BY <1>1, <1>2, HostInv, InstructionInv, PollInv DEF Next, Running

(***************************************************************************)
(* Every step is one of Privilege's.                                       *)
(***************************************************************************)

LEMMA InitBanks == Init => Banks!Init
<1> SUFFICES ASSUME Init PROVE Banks!Init
  OBVIOUS
<1>1. PICK sp \in StackPointers, pc \in Longs : state = ResetState(Zeroed, sp, pc)
  BY DEF Init
<1>2. sp \in Addresses /\ pc \in Addresses
  BY BusAssumption
<1>3. 0 \in Addresses
  BY AddressSpaceAssumption DEF Addresses
<1>4. Zeroed \in State
  BY <1>3 DEF Zeroed, State
<1>5. /\ state \in State
      /\ state.supervisor = TRUE /\ state.mask = 7 /\ state.trace = FALSE
  BY <1>1, <1>2, <1>4, ResetEnds DEF HasReset
<1>6. phase = "host"
  BY DEF Init
<1>7. System(state) \in Addresses /\ User(state) \in Addresses
  BY <1>5 DEF State, System, User
<1>8. QED
  BY <1>5, <1>6, <1>7 DEF Banks!Init, System, User, Addresses, Banks!Addresses

LEMMA BankStepRuns ==
  ASSUME state \in State, state' \in State, BankStep(state, state'),
         phase # "host", phase' # "host"
  PROVE  Banks!Run
<1>1. /\ System(state') \in Addresses /\ User(state') \in Addresses
      /\ state'.mask \in 0..7 /\ state'.trace \in BOOLEAN
      /\ state.mask \in 0..7
      /\ state.supervisor \in BOOLEAN /\ state'.supervisor \in BOOLEAN
  BY DEF State, System, User
<1>2. CASE ~state.supervisor /\ ~state'.supervisor
  <2>1. Banks!UserStep
    BY <1>1, <1>2 DEF BankStep, Banks!UserStep, System, User, Addresses, Banks!Addresses
  <2>2. QED
    BY <2>1 DEF Banks!Run
<1>3. CASE state.supervisor /\ state'.supervisor
  <2>1. Banks!SupervisorStep
    BY <1>1, <1>3 DEF BankStep, Banks!SupervisorStep, System, User, Addresses, Banks!Addresses
  <2>2. QED
    BY <2>1 DEF Banks!Run
<1>4. CASE ~state.supervisor /\ state'.supervisor
  <2>1. state'.trace = FALSE /\ state'.mask \in state.mask .. 7
    BY <1>1, <1>4 DEF BankStep
  <2>2. Banks!EnterException
    BY <1>1, <1>4, <2>1
       DEF BankStep, Banks!EnterException, System, User, Addresses, Banks!Addresses
  <2>3. QED
    BY <2>2 DEF Banks!Run
<1>5. CASE state.supervisor /\ ~state'.supervisor
  <2>1. Banks!LeaveSupervisor
    BY <1>1, <1>5 DEF BankStep, Banks!LeaveSupervisor, System, User
  <2>2. QED
    BY <2>1 DEF Banks!Run
<1>6. QED
  BY <1>1, <1>2, <1>3, <1>4, <1>5

LEMMA ResetIsReset ==
  ASSUME state \in State, phase = "host", phase' = phase,
         NEW sp \in Addresses, NEW pc \in Addresses,
         state' = ResetState(state, sp, pc)
  PROVE  Banks!Reset
<1> DEFINE t == ResetState(state, sp, pc)
<1>1. state' = t
  OBVIOUS
<1>2. HasReset(state, sp, t)
  BY ResetEnds
<1> HIDE DEF t
<1>3. QED
  BY <1>1, <1>2 DEF HasReset, Banks!Reset, System, User, Addresses, Banks!Addresses

LEMMA NextBanks == Inv /\ [Next]_vars => [Banks!Next]_(Banks!vars)
<1> SUFFICES ASSUME Inv, [Next]_vars PROVE [Banks!Next]_(Banks!vars)
  OBVIOUS
<1>1. Inv' /\ TypeOK /\ state \in State /\ state' \in State
  BY NextInv DEF Inv, TypeOK
<1>2. ASSUME BankStep(state, state'), phase # "host", phase' # "host"
      PROVE  Banks!Next
  BY <1>1, <1>2, BankStepRuns DEF Banks!Next
<1>3. ASSUME state' = state, phase' = phase
      PROVE  UNCHANGED Banks!vars
  BY <1>3 DEF Banks!vars
<1>4. ASSUME state' = state, (phase = "host") # (phase' = "host")
      PROVE  Banks!Next
  BY <1>4 DEF Banks!Next, Banks!StartOrStop
<1>5. CASE Instruction
  <2>1. PICK m : Result(m) /\ Iterate(m)
    BY <1>1, <1>5, InstructionEnds DEF Ended, Ends
  <2>2. BankStep(state, state')
    BY <2>1 DEF Result, Iterate
  <2>3. phase = "loop" /\ phase' \in {"loop", "poll"}
    BY <2>1 DEF Iterate
  <2>4. QED
    BY <1>2, <2>2, <2>3
<1>6. ASSUME NEW handler \in Longs, ProcessInterrupt(handler)
      PROVE  Banks!Next
  <2>1. handler \in Addresses
    BY ParameterTypes
  <2>2. BankStep(state, state')
    BY <1>1, <1>6, <2>1, InterruptEnds
  <2>3. phase = "poll" /\ phase' = "loop"
    BY <1>6 DEF ProcessInterrupt
  <2>4. QED
    BY <1>2, <2>2, <2>3
<1>7. CASE NoInterrupt
  <2>1. state' = state /\ phase = "poll" /\ phase' = "loop"
    BY <1>7 DEF NoInterrupt
  <2>2. UNCHANGED Banks!vars
    BY <2>1 DEF Banks!vars
  <2>3. QED
    BY <2>2
<1>8. CASE Return
  <2>1. state' = state /\ phase = "loop" /\ phase' = "host"
    BY <1>8 DEF Return
  <2>2. QED
    BY <1>4, <2>1
<1>9. ASSUME NEW sp \in StackPointers, NEW pc \in Longs, Reset(sp, pc)
      PROVE  Banks!Next
  <2>1. /\ phase = "host" /\ phase' = phase
        /\ state' = ResetState(state, sp, pc)
    BY <1>9 DEF Reset
  <2>2. sp \in Addresses /\ pc \in Addresses
    BY BusAssumption
  <2>3. Banks!Reset
    BY <1>1, <2>1, <2>2, ResetIsReset
  <2>4. QED
    BY <2>3 DEF Banks!Next
<1>10. ASSUME NEW level \in Levels, Interrupt(level)
       PROVE  UNCHANGED Banks!vars
  <2>1. state' = state /\ phase' = phase
    BY <1>10 DEF Interrupt
  <2>2. QED
    BY <1>3, <2>1
<1>11. ASSUME NEW budget \in Budgets, DoCycles(budget)
       PROVE  [Banks!Next]_(Banks!vars)
  <2>1. state' = state /\ phase = "host" /\ (phase' = phase \/ phase' = "loop")
    BY <1>11 DEF DoCycles
  <2>2. QED
    BY <1>3, <1>4, <2>1
<1>12. CASE UNCHANGED vars
  BY <1>3, <1>12 DEF vars
<1>13. QED
  BY <1>5, <1>6, <1>7, <1>8, <1>9, <1>10, <1>11, <1>12
     DEF Next, Host, Running, Poll

(***************************************************************************)
(* A stopped processor.                                                    *)
(***************************************************************************)

(* Of the instructions, only the wait runs on a stopped processor.         *)
LEMMA StoppedOnlyWaits ==
  ASSUME Instruction, state.stopped
  PROVE  Stopped
<1>1. ASSUME NEW m, Execute(m)
      PROVE  FALSE
  BY <1>1 DEF Execute
<1>2. ~Simple
  BY <1>1 DEF Simple, Ordinary, WriteStatusRegister, STOP, MoveToUSP, MoveFromUSP
<1>3. ASSUME NEW handler, RTS(handler) \/ RTR(handler) \/ RTE(handler)
      PROVE  FALSE
  BY <1>1, <1>3 DEF RTS, RTR, RTE
<1>4. ASSUME NEW handler, FetchAddressError(handler)
      PROVE  FALSE
  BY <1>4 DEF FetchAddressError
<1>5. ~Exceptional
  BY <1>1, <1>3, <1>4
     DEF Exceptional, DataAddressError, Trap, JSR, BSR, Jump, IllegalInstruction,
         PrivilegeViolation
<1>6. QED
  BY <1>2, <1>5 DEF Instruction

(* Entering a handler neither stops a processor nor starts it.             *)
LEMMA DoInterruptStopped ==
  ASSUME NEW m \in Machine, NEW handler
  PROVE  DoInterrupt(m, handler).state.stopped = m.state.stopped
<1> DEFINE untraced == [m.state EXCEPT !.trace = FALSE]
           entered == SetSupervisorMode(untraced, TRUE)
           pc_at   == Decrement(entered.a7, 4)
           sr_at   == Decrement(pc_at, 2)
<1>1. untraced \in State /\ untraced.stopped = m.state.stopped
  BY DEF Machine, State
<1>e. entered = SetSupervisorMode(untraced, TRUE)
  OBVIOUS
<1> HIDE DEF untraced, entered
<1>2. entered \in State
  BY <1>1, <1>e, SetSupervisorModeType
<1>3. entered.stopped = m.state.stopped
  BY <1>1, <1>e DEF SetSupervisorMode, State
<1>4. CASE IsOdd(pc_at)
  <2> DEFINE moved == [entered EXCEPT !.a7 = pc_at]
  <2>1. DoInterrupt(m, handler) = Halt([m EXCEPT !.state = moved])
    BY <1>4 DEF DoInterrupt, entered, untraced
  <2>2. moved.stopped = m.state.stopped
    BY <1>2, <1>3 DEF State
  <2> HIDE DEF moved
  <2>3. DoInterrupt(m, handler).state = [moved EXCEPT !.halted = TRUE]
    BY <2>1 DEF Halt, Machine
  <2>4. [moved EXCEPT !.halted = TRUE].stopped = moved.stopped
    OBVIOUS
  <2>5. QED
    BY <2>2, <2>3, <2>4
<1>5. CASE ~IsOdd(pc_at)
  <2>1. DoInterrupt(m, handler).state =
          [entered EXCEPT !.a7 = sr_at, !.program_counter = handler]
    BY <1>5 DEF DoInterrupt, Machine, entered, untraced
  <2> HIDE DEF sr_at
  <2>2. [entered EXCEPT !.a7 = sr_at, !.program_counter = handler].stopped = entered.stopped
    BY <1>2 DEF State
  <2>3. QED
    BY <1>3, <2>1, <2>2
<1>6. QED
  BY <1>4, <1>5

(* An interrupt ends STOP, also when it halts the processor.               *)
LEMMA InterruptWakes ==
  ASSUME TypeOK, NEW handler, ProcessInterrupt(handler)
  PROVE  ~state'.stopped
<1> DEFINE s == [state EXCEPT !.stopped = FALSE]
           i == Woken
           d == DoInterrupt(i, handler)
<1>1. s \in State /\ s.stopped = FALSE
  BY DEF TypeOK, State
<1>2. i \in Machine /\ i.state.stopped = FALSE
  BY <1>1 DEF Woken, Now, Machine, TypeOK
<1> HIDE DEF i
<1>3. d.state.stopped = FALSE
  BY <1>2, DoInterruptStopped
<1>4. state' = d.state \/ state' = [d.state EXCEPT !.mask = latched]
  BY DEF ProcessInterrupt, i
<1> HIDE DEF d
<1>5. [d.state EXCEPT !.mask = latched].stopped = d.state.stopped
  OBVIOUS
<1>6. QED
  BY <1>3, <1>4, <1>5

LEMMA ResetStarts ==
  ASSUME NEW s \in State, NEW sp, NEW pc
  PROVE  ~ResetState(s, sp, pc).stopped
<1> DEFINE q == [s EXCEPT !.halted = FALSE, !.stopped = FALSE,
                          !.trace = FALSE, !.mask = 7]
           b == SetSupervisorMode(q, TRUE)
<1>1. q.stopped = FALSE
  BY DEF State
<1>2. /\ [q EXCEPT !.supervisor = TRUE,
                   !.user_stack_pointer = q.a7,
                   !.a7 = q.supervisor_stack_pointer].stopped = q.stopped
  BY DEF State
<1>3. ResetState(s, sp, pc) = [b EXCEPT !.a7 = sp, !.program_counter = pc]
  BY DEF ResetState
<1>4. b.stopped = q.stopped
  BY <1>2 DEF SetSupervisorMode
<1> HIDE DEF b
<1>5. [b EXCEPT !.a7 = sp, !.program_counter = pc].stopped = b.stopped
  OBVIOUS
<1>6. QED
  BY <1>1, <1>3, <1>4, <1>5

LEMMA NextStoppedWaits ==
  ASSUME TypeOK, Next, state.stopped, state'.stopped
  PROVE  UNCHANGED <<state, memory>>
<1>1. CASE Instruction
  <2>1. Stopped
    BY <1>1, StoppedOnlyWaits
  <2>2. QED
    BY <2>1 DEF Stopped, Iterate, Now
<1>2. CASE Poll
  <2>1. NoInterrupt
    BY <1>2, InterruptWakes DEF Poll
  <2>2. QED
    BY <2>1 DEF NoInterrupt
<1>3. CASE Return
  BY <1>3 DEF Return
<1>4. CASE Host
  <2>1. ASSUME NEW sp, NEW pc, Reset(sp, pc)
        PROVE  FALSE
    BY <2>1, ResetStarts DEF Reset, TypeOK
  <2>2. QED
    BY <1>4, <2>1 DEF Host, Interrupt, DoCycles
<1>5. QED
  BY <1>1, <1>2, <1>3, <1>4 DEF Next, Running

(***************************************************************************)
(* The theorems.                                                           *)
(***************************************************************************)

LEMMA Invariant == Spec => []Inv
BY InitInv, NextInv, PTL DEF Spec

(* The registers keep their width, the mask its three bits and the memory  *)
(* its words, whatever program runs.                                       *)
THEOREM TypeCorrect == Spec => []TypeOK
BY Invariant, PTL DEF Inv

(* An instruction, the exception it raises and the interrupt after it fit  *)
(* the eight bits of stuff.cycles_left_in_instruction.                     *)
THEOREM CyclesFit == Spec => []CyclesFitByte
<1>1. Inv => CyclesFitByte
  BY DEF Inv, TypeOK, CycleBounds, CyclesFitByte, MaxCycles, MaxDuration
<1>2. QED
  BY <1>1, Invariant, PTL

(* Clown68000_DoCycles returns what it ran: no less than it was asked,     *)
(* unless a callback ended the call, and less than one iteration more.     *)
THEOREM CyclesAccounted == Spec => []CyclesReturned
<1>1. Inv => CyclesReturned
  BY DEF Inv, CycleBounds, CyclesReturned
<1>2. QED
  BY <1>1, Invariant, PTL

(* A program and a host that load even stack pointers never see the        *)
(* processor halt.                                                         *)
THEOREM NeverHalts == Spec => []EvenStacksNeverHalt
<1>1. Inv => EvenStacksNeverHalt
  BY DEF Inv, EvenInvariant, EvenProgram, EvenStacksNeverHalt
<1>2. QED
  BY <1>1, Invariant, PTL

(* In user mode the system's stack, the interrupt mask and the trace bit   *)
(* are out of reach: they change by exception entry, reset and the         *)
(* supervisor's own instructions only, as Privilege says.                  *)
THEOREM PrivilegeHolds == Spec => PrivilegeKept
BY InitBanks, NextBanks, Invariant, PTL DEF Spec, PrivilegeKept, Banks!Spec

(* A processor that STOP has stopped executes nothing: as long as no       *)
(* interrupt and no reset starts it, its state and the memory stay.        *)
THEOREM StopHolds == Spec => StoppedWaits
<1>1. TypeOK /\ [Next]_vars => [state.stopped /\ state'.stopped => UNCHANGED <<state, memory>>]_vars
  BY NextStoppedWaits
<1>2. QED
  BY <1>1, TypeCorrect, PTL DEF Spec, StoppedWaits

(***************************************************************************)
(* The interrupt request.                                                  *)
(***************************************************************************)

(* A handler is entered with the stack even, in thirty cycles, or the      *)
(* processor halts where it is.                                            *)
LEMMA DoInterruptEnds ==
  ASSUME NEW m \in Machine, NEW handler \in Addresses, ~m.longjmp,
         NEW r, r = DoInterrupt(m, handler)
  PROVE  r.longjmp => r.cycles = m.cycles
<1> DEFINE entered == SetSupervisorMode([m.state EXCEPT !.trace = FALSE], TRUE)
           pc_at   == Decrement(entered.a7, 4)
           moved   == [m EXCEPT !.state = [entered EXCEPT !.a7 = pc_at]]
<1>1. CASE IsOdd(pc_at)
  <2>1. r = Halt(moved)
    BY <1>1 DEF DoInterrupt
  <2>2. moved.cycles = m.cycles
    BY DEF Machine
  <2> HIDE DEF moved
  <2>3. r.cycles = moved.cycles
    BY <2>1 DEF Halt
  <2>4. QED
    BY <2>2, <2>3
<1>2. CASE ~IsOdd(pc_at)
  BY <1>2 DEF DoInterrupt, Machine
<1>3. QED
  BY <1>1, <1>2

(* An interrupt that takes time has set the mask to its level.             *)
LEMMA EntrySetsMask ==
  ASSUME TypeOK, NEW handler \in Addresses, ProcessInterrupt(handler),
         cycles_left' # cycles_left
  PROVE  state'.mask = latched
<1> DEFINE d == DoInterrupt(Woken, handler)
<1>1. Woken \in Machine /\ Woken.cycles = cycles_left /\ ~Woken.longjmp
  <2>1. [state EXCEPT !.stopped = FALSE] \in State
    BY DEF TypeOK, State
  <2>2. QED
    BY <2>1 DEF Woken, Now, Machine, TypeOK
<1>2. d.longjmp => d.cycles = cycles_left
  BY <1>1, DoInterruptEnds
<1>3. d \in Machine
  BY <1>1, DoInterruptType
<1> HIDE DEF d
<1>4. ~d.longjmp /\ state' = [d.state EXCEPT !.mask = latched]
  BY <1>2 DEF ProcessInterrupt, d
<1>5. QED
  BY <1>3, <1>4 DEF Machine, State

(* Between an instruction and the look at the interrupt, a request that    *)
(* has changed since the iteration began is not the one in the latch.      *)
LatencyInv ==
  /\ age \in {0, 1}
  /\ phase = "poll" /\ age = 0 => latched # pending_interrupt

LEMMA NextLatencyInv ==
  ASSUME TypeOK, LatencyInv, ObservedNext
  PROVE  LatencyInv'
<1>1. age' \in {0, 1}
  BY DEF ObservedNext, LatencyInv
<1>2. CASE Instruction
  <2>1. PICK m : Iterate(m)
    BY <1>2, InstructionEnds DEF Ended, Ends
  <2>2. /\ phase = "loop" /\ phase' \in {"loop", "poll"}
        /\ phase' = "poll" => latched' = pending_interrupt
    BY <2>1 DEF Iterate, Latch
  <2>3. QED
    BY <1>1, <2>2 DEF ObservedNext, LatencyInv
<1>3. CASE ~Instruction
  <2>1. phase' # "poll"
    <3>1. CASE Poll
      BY <3>1 DEF Poll, ProcessInterrupt, NoInterrupt
    <3>2. CASE Return
      BY <3>2 DEF Return
    <3>3. CASE Host
      BY <3>3 DEF Host, Reset, Interrupt, DoCycles
    <3>4. QED
      BY <1>3, <3>1, <3>2, <3>3 DEF ObservedNext, Next, Running
  <2>2. QED
    BY <1>1, <2>1 DEF LatencyInv
<1>4. QED
  BY <1>2, <1>3

LEMMA NextLatency ==
  ASSUME TypeOK, LatencyInv, ObservedNext, InterruptEntered,
         state'.mask = pending_interrupt
  PROVE  age = 1
<1>1. PICK handler \in Longs : ProcessInterrupt(handler)
  <2>1. phase = "poll" /\ cycles_left' # cycles_left
    BY DEF InterruptEntered
  <2>2. ~Instruction
    <3>1. SUFFICES ASSUME Instruction PROVE FALSE
      OBVIOUS
    <3>2. PICK m : Iterate(m)
      BY <3>1, InstructionEnds DEF Ended, Ends
    <3>3. QED
      BY <2>1, <3>2 DEF Iterate
  <2>3. QED
    BY <2>1, <2>2
       DEF ObservedNext, Next, Running, Return, Poll, NoInterrupt, Host, Reset,
           Interrupt, DoCycles
<1>2. handler \in Addresses
  BY ParameterTypes
<1>3. state'.mask = latched
  BY <1>1, <1>2, EntrySetsMask DEF InterruptEntered
<1>4. QED
  BY <1>3 DEF LatencyInv, InterruptEntered

LEMMA ObservedInvariant == ObservedSpec => [](Inv /\ LatencyInv)
<1>1. ObservedInit => Inv /\ LatencyInv
  BY InitInv DEF ObservedInit, LatencyInv, Init
<1>2. Inv /\ LatencyInv /\ [ObservedNext]_observedVars => (Inv /\ LatencyInv)'
  <2> SUFFICES ASSUME Inv, LatencyInv, [ObservedNext]_observedVars
               PROVE  (Inv /\ LatencyInv)'
    OBVIOUS
  <2>1. CASE ObservedNext
    <3>1. Next /\ TypeOK
      BY <2>1 DEF ObservedNext, Inv
    <3>2. QED
      BY <2>1, <3>1, NextInv, NextLatencyInv
  <2>2. CASE UNCHANGED observedVars
    <3>1. UNCHANGED vars /\ age' = age
      BY <2>2 DEF observedVars
    <3>2. LatencyInv'
      BY <3>1 DEF LatencyInv, vars
    <3>3. QED
      BY <3>1, <3>2, NextInv
  <2>3. QED
    BY <2>1, <2>2
<1>3. QED
  BY <1>1, <1>2, PTL DEF ObservedSpec

(* A request made while an instruction executes is not served at the end   *)
(* of that instruction: the loop's copy of pending_interrupt lets one more *)
(* execute first, whatever the program and the host do.                    *)
THEOREM LatencyHolds == ObservedSpec => OneInstructionLatency
<1>1. Inv /\ LatencyInv /\ [ObservedNext]_observedVars =>
        [InterruptEntered /\ state'.mask = pending_interrupt => age = 1]_observedVars
  <2>1. Inv => TypeOK
    BY DEF Inv
  <2>2. QED
    BY <2>1, NextLatency
<1>2. QED
  BY <1>1, ObservedInvariant, PTL DEF ObservedSpec, OneInstructionLatency

(***************************************************************************)
(* The frames.                                                             *)
(***************************************************************************)

(* Addresses less than a bus apart are different addresses of the bus.     *)
LEMMA BusApart ==
  ASSUME NEW a \in Addresses, NEW n \in 1..5
  PROVE  Bus(Increment(a, n)) # Bus(a)
<1> DEFINE B == BusSpace
           b == Increment(a, n)
<1>1. B \in Nat /\ B > 5 /\ a \in Nat /\ n \in 1..5
  BY BusAssumption, AddressSpaceAssumption DEF Addresses
<1>2. PICK q \in Int : AddressSpace = B * q
  <2> DEFINE k == AddressSpace \div B
  <2>1. AddressSpace = B * k + (AddressSpace % B) /\ k \in Int
    BY BusAssumption, AddressSpaceAssumption
  <2>2. AddressSpace % B = 0
    BY BusAssumption
  <2> HIDE DEF k, B
  <2>3. AddressSpace = B * k
    BY <1>1, <2>1, <2>2
  <2>4. QED
    BY <2>1, <2>3
<1>3. b \in Nat /\ (b - a = n \/ b - a = n - B * q)
  <2>1. b \in Nat /\ (b = a + n \/ b = a + n - AddressSpace)
    BY AddressSpaceAssumption DEF Addresses, Increment
  <2> HIDE DEF b
  <2>2. QED
    BY <1>1, <1>2, <2>1
<1> HIDE DEF b, B
<1>4. /\ a = B * (a \div B) + (a % B) /\ a \div B \in Int
      /\ b = B * (b \div B) + (b % B) /\ b \div B \in Int
  BY <1>1, <1>3
<1>5. ASSUME a % B = b % B
      PROVE  FALSE
  <2> DEFINE d == b \div B - a \div B
  <2>1. d \in Int /\ b - a = B * d
    BY <1>1, <1>3, <1>4, <1>5
  <2> HIDE DEF d
  <2>2. n = B * d \/ n = B * (d + q)
    BY <1>1, <1>2, <1>3, <2>1
  <2>3. ASSUME NEW k \in Int, n = B * k
        PROVE  FALSE
    <3>1. CASE k <= 0
      BY <1>1, <2>3, <3>1
    <3>2. CASE k >= 1
      BY <1>1, <2>3, <3>2
    <3>3. QED
      BY <3>1, <3>2
  <2>4. d + q \in Int
    BY <1>2, <2>1
  <2>5. QED
    BY <2>1, <2>2, <2>3, <2>4
<1>6. QED
  BY <1>5 DEF Bus, B, b

(* The three words of a frame at `at', pushed from the stack at a.         *)
LEMMA FrameArithmetic ==
  ASSUME NEW a \in Addresses, NEW at, at = Decrement(a, 6)
  PROVE  /\ at \in Addresses
         /\ Decrement(a, 4) = Increment(at, 2)
         /\ Decrement(Decrement(a, 4), 2) = at
         /\ Increment(Increment(at, 2), 2) = Increment(at, 4)
         /\ Increment(Increment(at, 2), 4) = a
         /\ Increment(at, 2) \in Addresses /\ Increment(at, 4) \in Addresses
         /\ IsOdd(Increment(at, 2)) <=> IsOdd(at)
BY AddressSpaceAssumption DEF Addresses, Increment, Decrement, IsOdd

(* The frame of f lies in the memory mem as it was pushed.                 *)
FrameHeld(f, mem) ==
  /\ f.program_counter \in Addresses /\ f.status \in StatusRegister
  /\ f.system \in Addresses
  /\ ~IsOdd(f.at) /\ f.at = Decrement(f.system, 6)
  /\ Bus(f.at) \in Ram /\ mem[Bus(f.at)] = Saved(f.status)
  /\ Bus(Increment(f.at, 2)) \in Ram
  /\ mem[Bus(Increment(f.at, 2))] = High(f.program_counter)
  /\ Bus(Increment(f.at, 4)) \in Ram
  /\ mem[Bus(Increment(f.at, 4))] = Low(f.program_counter)

FramesHeld == \A f \in frames : FrameHeld(f, memory)

(* The context that DoInterrupt suspends is in the frame it pushes.        *)
LEMMA SuspendedHeld ==
  ASSUME NEW m \in Machine, NEW handler \in Addresses,
         NEW s \in State, s.program_counter = m.state.program_counter,
         SystemByte(s) = SystemByte(m.state), SystemStack(s) = System(m.state),
         NEW f \in Suspended(s)
  PROVE  FrameHeld(f, DoInterrupt(m, handler).memory)
<1> DEFINE a  == System(m.state)
           at == Decrement(a, 6)
           pc == m.state.program_counter
           sr == SystemByte(m.state)
           untraced == [m.state EXCEPT !.trace = FALSE]
           entered  == SetSupervisorMode(untraced, TRUE)
           mem == WriteWords(WriteLong(m.memory, Increment(at, 2), pc), {at}, Saved(sr))
<1>1. /\ a \in Addresses /\ pc \in Addresses /\ sr \in StatusRegister
  BY DEF Machine, State, System, SystemByte, StatusRegister
<1>2. /\ ~IsOdd(at) /\ {Bus(at), Bus(Increment(at, 2)), Bus(Increment(at, 4))} \subseteq Ram
      /\ f = [at |-> at, program_counter |-> pc, status |-> sr, system |-> a]
  BY DEF Suspended
<1>3. entered.a7 = a
  <2>1. untraced \in State /\ System(untraced) = a
    BY DEF Machine, State, System
  <2>e. entered = SetSupervisorMode(untraced, TRUE)
    OBVIOUS
  <2> HIDE DEF untraced, entered
  <2>2. entered \in State
    BY <2>1, <2>e, SetSupervisorModeType
  <2>3. entered.supervisor = TRUE /\ System(entered) = System(untraced)
    BY <2>1, <2>e, SetSupervisorModeEffect
  <2>4. QED
    BY <2>1, <2>2, <2>3 DEF System
<1> HIDE DEF a, pc, sr
<1>4. /\ at \in Addresses
      /\ Decrement(a, 4) = Increment(at, 2)
      /\ Decrement(Increment(at, 2), 2) = at
      /\ Increment(Increment(at, 2), 2) = Increment(at, 4)
      /\ Increment(at, 2) \in Addresses
      /\ IsOdd(Increment(at, 2)) <=> IsOdd(at)
  BY <1>1, FrameArithmetic
<1> HIDE DEF at
<1>5. DoInterrupt(m, handler).memory = mem
  BY <1>2, <1>3, <1>4 DEF DoInterrupt, Machine, pc, sr
<1>6. /\ Bus(Increment(at, 2)) # Bus(at) /\ Bus(Increment(at, 4)) # Bus(at)
      /\ Bus(Increment(at, 4)) # Bus(Increment(at, 2))
  <2>1. 2 \in 1..5 /\ 4 \in 1..5
    OBVIOUS
  <2>2. Bus(Increment(Increment(at, 2), 2)) # Bus(Increment(at, 2))
    BY <1>4, <2>1, BusApart
  <2>3. QED
    BY <1>4, <2>1, <2>2, BusApart
<1>7. /\ mem[Bus(at)] = Saved(sr)
      /\ mem[Bus(Increment(at, 2))] = High(pc)
      /\ mem[Bus(Increment(at, 4))] = Low(pc)
  BY <1>2, <1>4, <1>6 DEF WriteLong, WriteWords
<1>8. FrameHeld(f, mem)
  BY <1>1, <1>2, <1>7 DEF FrameHeld, at
<1>9. QED
  BY <1>5, <1>8

(* The step an exception is entered in pushes its frame.                   *)
LEMMA EnteredHeld ==
  ASSUME TypeOK, NEW s \in Entered, NEW f \in Suspended(s)
  PROVE  FrameHeld(f, memory')
<1>1. CASE s = state /\ \E handler \in Longs : ProcessInterrupt(handler)
  <2>1. PICK handler \in Longs : ProcessInterrupt(handler)
    BY <1>1
  <2>2. handler \in Addresses /\ s \in State
    BY <1>1, ParameterTypes DEF TypeOK
  <2>3. /\ Woken \in Machine /\ Woken.memory = memory
        /\ Woken.state = [state EXCEPT !.stopped = FALSE]
    <3>1. [state EXCEPT !.stopped = FALSE] \in State
      BY DEF TypeOK, State
    <3>2. QED
      BY <3>1 DEF Woken, Now, Machine, TypeOK
  <2>4. /\ s.program_counter = Woken.state.program_counter
        /\ SystemByte(s) = SystemByte(Woken.state)
        /\ SystemStack(s) = System(Woken.state)
    BY <1>1, <2>2, <2>3 DEF State, SystemByte, SystemStack, System
  <2>5. FrameHeld(f, DoInterrupt(Woken, handler).memory)
    BY <2>2, <2>3, <2>4, SuspendedHeld
  <2>6. memory' = DoInterrupt(Woken, handler).memory
    BY <2>1 DEF ProcessInterrupt
  <2>7. QED
    BY <2>5, <2>6
<1>2. CASE /\ s = state
           /\ \E handler \in Longs : IllegalInstruction(handler) \/ PrivilegeViolation(handler)
  <2> DEFINE g == Fetched(0, 4)
             m == [g EXCEPT !.state.program_counter = state.program_counter]
  <2>1. PICK handler \in Longs :
          Iterate(Group1Or2Exception(g, state.program_counter, handler))
    BY <1>2 DEF IllegalInstruction, PrivilegeViolation, Execute
  <2>2. handler \in Addresses /\ s \in State /\ state.program_counter \in Addresses
    BY <1>2, ParameterTypes DEF TypeOK, State
  <2>3. g \in Machine /\ Same(state, g.state)
    BY FetchedEffect
  <2> HIDE DEF g
  <2>4. m \in Machine /\ m.state = [g.state EXCEPT !.program_counter = state.program_counter]
    BY <2>2, <2>3 DEF Machine, State
  <2>5. /\ s.program_counter = m.state.program_counter
        /\ SystemByte(s) = SystemByte(m.state)
        /\ SystemStack(s) = System(m.state)
    <3>1. /\ m.state.program_counter = state.program_counter
          /\ SystemByte(m.state) = SystemByte(g.state) /\ System(m.state) = System(g.state)
      BY <2>3, <2>4 DEF Machine, State, SystemByte, System
    <3>2. QED
      BY <1>2, <2>3, <3>1 DEF Same, SystemByte, SystemStack, System
  <2>6. FrameHeld(f, DoInterrupt(m, handler).memory)
    BY <2>2, <2>4, <2>5, SuspendedHeld
  <2>7. memory' = DoInterrupt(m, handler).memory
    <3>1. memory' = [DoInterrupt(m, handler) EXCEPT !.longjmp = TRUE].memory
      BY <2>1 DEF Iterate, Group1Or2Exception
    <3>2. DoInterrupt(m, handler) \in Machine
      BY <2>2, <2>4, DoInterruptType
    <3>3. QED
      BY <3>1, <3>2 DEF Machine
  <2>8. QED
    BY <2>6, <2>7
<1>3. CASE \E x \in Extensions \X Loaded :
             /\ s = After(x[1], x[2])
             /\ \E duration \in Durations, handler \in Longs : Trap(x[1], duration, x[2], handler)
  <2>1. PICK extension \in Extensions, sp \in Loaded,
             duration \in Durations, handler \in Longs :
          s = After(extension, sp) /\ Trap(extension, duration, sp, handler)
    BY <1>3
  <2> DEFINE m == Addressed(extension, duration, sp)
  <2>2. /\ handler \in Addresses /\ extension \in {0, 2, 4, 6, 8}
        /\ duration \in Nat /\ sp \in Addresses
    BY ParameterTypes, LoadedType DEF MaxDuration
  <2>3. m \in Machine
    BY <2>2, AddressedEffect
  <2>4. m.state = s
    BY <2>1 DEF Addressed, Fetched, Now, After, TypeOK, State
  <2>5. memory' = DoInterrupt(m, handler).memory
    BY <2>1 DEF Trap, Execute, Iterate
  <2> HIDE DEF m
  <2>6. s \in State /\ SystemStack(s) = System(m.state)
    BY <2>3, <2>4 DEF Machine, SystemStack, System
  <2>7. FrameHeld(f, DoInterrupt(m, handler).memory)
    BY <2>2, <2>3, <2>4, <2>6, SuspendedHeld
  <2>8. QED
    BY <2>5, <2>7
<1>4. QED
  <2>1. \/ s = state /\ \E handler \in Longs :
             ProcessInterrupt(handler) \/ IllegalInstruction(handler) \/ PrivilegeViolation(handler)
        \/ \E x \in Extensions \X Loaded :
             /\ s = After(x[1], x[2])
             /\ \E duration \in Durations, handler \in Longs : Trap(x[1], duration, x[2], handler)
    BY DEF Entered
  <2>2. QED
    BY <1>1, <1>2, <1>3, <2>1

LEMMA NextFramesHeld ==
  ASSUME TypeOK, FramesHeld, FramedNext
  PROVE  FramesHeld'
<1> SUFFICES ASSUME NEW f \in frames'
             PROVE  FrameHeld(f, memory')
  BY DEF FramesHeld, FrameHeld
<1>1. CASE f \in Intact
  <2>1. FrameHeld(f, memory)
    BY <1>1 DEF FramesHeld, Intact
  <2>2. \A n \in {0, 2, 4} : memory'[Bus(Increment(f.at, n))] = memory[Bus(Increment(f.at, n))]
    BY <1>1 DEF Intact
  <2>3. f.at \in Addresses
    BY <2>1, FrameArithmetic DEF FrameHeld
  <2>4. Increment(f.at, 0) = f.at
    BY <2>3, AddressSpaceAssumption DEF Increment, Addresses
  <2>5. /\ memory'[Bus(f.at)] = memory[Bus(f.at)]
        /\ memory'[Bus(Increment(f.at, 2))] = memory[Bus(Increment(f.at, 2))]
        /\ memory'[Bus(Increment(f.at, 4))] = memory[Bus(Increment(f.at, 4))]
    BY <2>2, <2>4
  <2>6. QED
    BY <2>1, <2>5 DEF FrameHeld
<1>2. CASE \E s \in Entered : f \in Suspended(s)
  BY <1>2, EnteredHeld
<1>3. QED
  BY <1>1, <1>2 DEF FramedNext

(* An RTE to a frame that is held takes everything back from it.           *)
LEMMA ReturnTakesBack ==
  ASSUME TypeOK, NEW f, FrameHeld(f, memory), NEW handler \in Longs, RTE(handler),
         state.a7 = f.at, ~IsOdd(f.program_counter)
  PROVE  /\ SystemByte(state') = f.status
         /\ state'.program_counter = f.program_counter
         /\ SystemStack(state') = f.system
         /\ ~f.status.supervisor => state'.a7 = state.user_stack_pointer
<1> DEFINE a  == state.a7
           sp == Increment(a, 2)
           pc == f.program_counter
           sr == f.status
           g  == Addressed(0, 4, Increment(sp, 4))
           u  == SetStatusRegister(g.state, sr)
           p  == LoadStatus(g, sr)
           j  == [p EXCEPT !.state.program_counter = pc]
<1>1. /\ a \in Addresses /\ ~IsOdd(a)
      /\ Increment(sp, 2) = Increment(a, 4) /\ Increment(sp, 4) = f.system
      /\ f.system \in Addresses /\ pc \in Addresses /\ sr \in StatusRegister
  BY FrameArithmetic DEF FrameHeld
<1>2. ReadStatus(memory, a) = {sr} /\ ReadLong(memory, sp) = {pc}
  BY <1>1 DEF FrameHeld, ReadStatus, ReadLong, Saved, High, Low
<1>3. state.supervisor /\ Iterate(AddCycles(JumpTo(p, pc, handler), 16))
  BY <1>1, <1>2 DEF RTE, Execute
<1>4. /\ g \in Machine /\ ~g.longjmp /\ g.state.a7 = f.system
      /\ g.state.supervisor = TRUE
      /\ g.state.user_stack_pointer = state.user_stack_pointer
  <2>1. g \in Machine /\ ~g.longjmp /\ OwnStack(state, g.state) /\ g.state.a7 = f.system
    <3>1. g = Addressed(0, 4, f.system) /\ 0 \in {0, 2, 4, 6, 8} /\ 4 \in Nat
      BY <1>1
    <3> HIDE DEF g
    <3>2. QED
      BY <1>1, <3>1, AddressedEffect
  <2> HIDE DEF g
  <2>2. g.state \in State /\ state \in State
    BY <2>1 DEF Machine, TypeOK
  <2>3. QED
    BY <1>3, <2>1, <2>2 DEF OwnStack, User, State
<1> HIDE DEF g
<1>5. /\ g.state \in State /\ u \in State
      /\ u.trace = sr.trace /\ u.supervisor = sr.supervisor /\ u.mask = sr.mask
  <2>1. g.state \in State
    BY <1>4 DEF Machine
  <2>2. u \in State
    BY <1>1, <2>1, SetStatusRegisterType
  <2>3. SetSupervisorMode(g.state, sr.supervisor) \in State
    BY <1>1, <2>1, SetSupervisorModeType DEF StatusRegister
  <2>4. QED
    BY <2>1, <2>2, <2>3 DEF SetStatusRegister, State
<1>6. System(u) = f.system /\ User(u) = state.user_stack_pointer
  <2>1. System(u) = System(g.state) /\ User(u) = User(g.state)
    BY <1>1, <1>5, SetStatusRegisterEffect
  <2>2. QED
    BY <1>4, <2>1 DEF System, User
<1> HIDE DEF u
<1>7. state' = [u EXCEPT !.program_counter = pc]
  <2>1. p \in Machine /\ ~p.longjmp /\ p.state = u
    BY <1>4, <1>5 DEF LoadStatus, Machine, u
  <2> HIDE DEF p
  <2>2. ~j.longjmp /\ j.state = [u EXCEPT !.program_counter = pc] /\ j.state.program_counter = pc
    BY <1>5, <2>1 DEF Machine, State
  <2>3. JumpTo(p, pc, handler) = j
    BY <2>2 DEF JumpTo, ProgramCounterChanged
  <2> HIDE DEF j
  <2>4. state' = AddCycles(j, 16).state
    BY <1>3, <2>3 DEF Iterate
  <2>5. QED
    BY <2>2, <2>4 DEF AddCycles
<1>8. /\ state'.a7 = u.a7 /\ state'.supervisor = u.supervisor
      /\ state'.trace = u.trace /\ state'.mask = u.mask
      /\ state'.supervisor_stack_pointer = u.supervisor_stack_pointer
      /\ state'.user_stack_pointer = u.user_stack_pointer
      /\ state'.program_counter = pc
  BY <1>5, <1>7 DEF State
<1>9. SystemByte(state') = sr
  BY <1>1, <1>5, <1>8 DEF SystemByte, StatusRegister
<1>10. SystemStack(state') = f.system
  BY <1>6, <1>8 DEF SystemStack, System
<1>11. ~sr.supervisor => state'.a7 = state.user_stack_pointer
  BY <1>5, <1>6, <1>8 DEF User
<1>12. QED
  BY <1>8, <1>9, <1>10, <1>11

LEMMA FramedInvariant == FramedSpec => [](Inv /\ FramesHeld)
<1>1. FramedInit => Inv /\ FramesHeld
  BY InitInv DEF FramedInit, FramesHeld
<1>2. Inv /\ FramesHeld /\ [FramedNext]_framedVars => (Inv /\ FramesHeld)'
  <2> SUFFICES ASSUME Inv, FramesHeld, [FramedNext]_framedVars
               PROVE  (Inv /\ FramesHeld)'
    OBVIOUS
  <2>1. CASE FramedNext
    <3>1. Next /\ TypeOK
      BY <2>1 DEF FramedNext, Inv
    <3>2. QED
      BY <2>1, <3>1, NextInv, NextFramesHeld
  <2>2. CASE UNCHANGED framedVars
    <3>1. UNCHANGED vars /\ memory' = memory /\ frames' = frames
      BY <2>2 DEF framedVars, vars
    <3>2. FramesHeld'
      BY <3>1 DEF FramesHeld, FrameHeld
    <3>3. QED
      BY <3>1, <3>2, NextInv
  <2>3. QED
    BY <2>1, <2>2
<1>3. QED
  BY <1>1, <1>2, PTL DEF FramedSpec

(* An RTE to a frame nothing has written over resumes the program that was *)
(* suspended: its next instruction, its mode, mask and trace bit, and both *)
(* stacks, whatever happened in between and however deep the nesting.      *)
THEOREM FramesReturn == FramedSpec => ReturnResumes
<1> DEFINE Step ==
      \A f \in frames :
        /\ \E handler \in Longs : RTE(handler)
        /\ state.a7 = f.at /\ ~IsOdd(f.program_counter)
        => /\ SystemByte(state') = f.status
           /\ state'.program_counter = f.program_counter
           /\ SystemStack(state') = f.system
           /\ ~f.status.supervisor => state'.a7 = state.user_stack_pointer
<1>1. Inv /\ FramesHeld => Step
  BY ReturnTakesBack DEF Inv, FramesHeld
<1>2. FramedSpec => [][Step]_framedVars
  <2> HIDE DEF Step
  <2>1. Inv /\ FramesHeld /\ [FramedNext]_framedVars => [Step]_framedVars
    BY <1>1
  <2>2. QED
    BY <2>1, FramedInvariant, PTL DEF FramedSpec
<1>3. QED
  BY <1>2 DEF ReturnResumes
=============================================================================
