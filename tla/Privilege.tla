------------------------------ MODULE Privilege ------------------------------
(***************************************************************************)
(* What the supervisor bit promises: a program in user mode owns its own   *)
(* stack pointer and nothing of the system's.  The system stack pointer,   *)
(* the interrupt mask and the trace bit change in supervisor mode, in a    *)
(* reset, and in exception entry, which pushes one frame and never lowers  *)
(* the mask.                                                               *)
(***************************************************************************)
EXTENDS Integers

CONSTANT AddressSpace   \* number of values of a stack pointer

VARIABLES
  running,       \* whether the host has given the processor cycles
  supervisor,    \* whether it is in supervisor mode
  mask,          \* the interrupt mask
  trace,         \* the trace bit
  system,        \* the supervisor's stack pointer
  user           \* the user's stack pointer

Addresses == 0 .. AddressSpace - 1

(* What exception entry does to the system stack: the frame of a group 1   *)
(* or 2 exception or an interrupt, the longer one of a group 0 exception,  *)
(* or the first push when the stack is odd and the processor halts.        *)
EntryMoves == {-6, -14, -4}

(* What an instruction that leaves supervisor mode does to it: nothing,    *)
(* RTE's frame, or the addressing mode of a MOVE to SR.                    *)
LeaveMoves == {0, 6, 2, -2}

Moved(sp, n) ==
  CASE sp + n < 0             -> sp + n + AddressSpace
    [] sp + n >= AddressSpace -> sp + n - AddressSpace
    [] OTHER                  -> sp + n

Init ==
  /\ running = FALSE
  /\ supervisor = TRUE /\ mask = 7 /\ trace = FALSE
  /\ system \in Addresses /\ user \in Addresses

(* The host starts and ends a run, and changes nothing else in it. *)
StartOrStop ==
  /\ running' = ~running
  /\ UNCHANGED <<supervisor, mask, trace, system, user>>

(* The host resets the processor between runs; the user's stack is kept. *)
Reset ==
  /\ ~running
  /\ supervisor' = TRUE /\ mask' = 7 /\ trace' = FALSE
  /\ system' \in Addresses
  /\ UNCHANGED <<running, user>>

(* A program in user mode works on its own stack. *)
UserStep ==
  /\ ~supervisor /\ supervisor' = FALSE
  /\ user' \in Addresses
  /\ UNCHANGED <<mask, trace, system>>

(* The supervisor changes what it likes and stays the supervisor.  Only a  *)
(* step that leaves its own stack alone (MOVE to USP) changes the user's.  *)
SupervisorStep ==
  /\ supervisor /\ supervisor' = TRUE
  /\ mask' \in 0..7 /\ trace' \in BOOLEAN
  /\ system' \in Addresses /\ user' \in Addresses
  /\ system' = system \/ user' = user

(* An exception: the instruction it interrupts may have moved the user's   *)
(* own stack pointer first.                                                *)
EnterException ==
  /\ ~supervisor /\ supervisor' = TRUE
  /\ trace' = FALSE
  /\ mask' \in mask..7
  /\ \E n \in EntryMoves : system' = Moved(system, n)
  /\ user' \in Addresses

LeaveSupervisor ==
  /\ supervisor /\ supervisor' = FALSE
  /\ mask' \in 0..7 /\ trace' \in BOOLEAN
  /\ \E n \in LeaveMoves : system' = Moved(system, n)
  /\ user' = user

Run ==
  /\ running /\ running' = TRUE
  /\ UserStep \/ SupervisorStep \/ EnterException \/ LeaveSupervisor

Next == StartOrStop \/ Reset \/ Run

vars == <<running, supervisor, mask, trace, system, user>>

Spec == Init /\ [][Next]_vars
=============================================================================
