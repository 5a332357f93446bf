--------------------------- MODULE ExceptionFrames ---------------------------
(***************************************************************************)
(* Clown68000 with a record of the exceptions it has entered: for each     *)
(* frame that is still as it was pushed, what the program was about to do. *)
(***************************************************************************)
EXTENDS Clown68000

VARIABLE frames   \* the contexts, each with the address of its frame

framedVars == <<vars, frames>>

SystemStack(s) == IF s.supervisor THEN s.a7 ELSE s.supervisor_stack_pointer

(* The context s, suspended by an exception that does not fault. *)
Suspended(s) ==
  LET at == Decrement(SystemStack(s), 6)
  IN  IF IsOdd(at) \/ ~({Bus(at), Bus(Increment(at, 2)), Bus(Increment(at, 4))} \subseteq Ram)
      THEN {}
      ELSE {[at |-> at, program_counter |-> s.program_counter,
             status |-> SystemByte(s), system |-> SystemStack(s)]}

(* The frames no step has written over. *)
Intact ==
  {f \in frames : \A n \in {0, 2, 4} :
     LET a == Bus(Increment(f.at, n)) IN memory'[a] = memory[a]}

FramedInit == Init /\ frames = {}

After(extension, sp) ==
  [state EXCEPT !.program_counter = Increment(@, 2 + extension), !.a7 = sp]

(* The contexts the step has suspended. *)
Entered ==
  {s \in {state} : \E handler \in Longs :
     ProcessInterrupt(handler) \/ IllegalInstruction(handler) \/ PrivilegeViolation(handler)}
  \cup
  {After(e[1], e[2]) : e \in {x \in Extensions \X Loaded :
     \E duration \in Durations, handler \in Longs : Trap(x[1], duration, x[2], handler)}}

FramedNext ==
  /\ Next
  /\ frames' = Intact \cup UNION {Suspended(s) : s \in Entered}

(* An RTE to an intact frame resumes the program where the exception found *)
(* it: its next instruction, mode, mask and trace bit, and both stacks.    *)
(* (A saved program counter that is odd makes another exception.)          *)
ReturnResumes ==
  [][\A f \in frames :
       /\ \E handler \in Longs : RTE(handler)
       /\ state.a7 = f.at /\ ~IsOdd(f.program_counter)
       => /\ SystemByte(state') = f.status
          /\ state'.program_counter = f.program_counter
          /\ SystemStack(state') = f.system
          /\ ~f.status.supervisor => state'.a7 = state.user_stack_pointer]_framedVars

FramedSpec == FramedInit /\ [][FramedNext]_framedVars
=============================================================================
