---------------------------- MODULE MCClown68000 ----------------------------
(* Small instances of Clown68000 for TLC. *)
EXTENDS Clown68000

(* The user program runs traced, with every interrupt above 2 open; the    *)
(* system with all of them.                                                *)
UserStatus   == [trace |-> TRUE, supervisor |-> FALSE, mask |-> 2]
SystemStatus == [trace |-> FALSE, supervisor |-> TRUE, mask |-> 0]
ModeWords    == {UserStatus, SystemStatus}

NoRam == {}

(* Programs of a few instructions, and stack pointers that stay within     *)
(* what nested exceptions use below a loaded one.                          *)
Window(low, high) ==
  /\ state.program_counter < 4 \/ state.stopped
  /\ {state.a7, state.user_stack_pointer, state.supervisor_stack_pointer}
       \subseteq {0} \cup low .. high

PrivilegeWindow == Window(34, 42)

(***************************************************************************)
(* For liveness nothing may be cut off, so the program is a short one: at  *)
(* address 0 it stops, faults, traps, returns or jumps back.  A processor  *)
(* that halts with an odd stack goes on behind the instruction, until its  *)
(* call returns: it finds STOP or an illegal instruction there.            *)
(***************************************************************************)
AtZero ==
  /\ state.program_counter = 0
  /\ \/ \E sr \in StatusWords : STOP(sr)
     \/ \E handler \in Longs :
          \/ Jump(4, 0, handler)
          \/ IllegalInstruction(handler)
          \/ DataAddressError(0, 4, state.a7, handler)
          \/ Trap(0, 4, state.a7, handler)
          \/ RTE(handler)

BehindZero ==
  /\ state.program_counter # 0
  /\ \/ \E sr \in StatusWords : STOP(sr)
     \/ \E handler \in Longs : IllegalInstruction(handler)

ShortInstruction ==
  \/ AtZero
  \/ BehindZero
  \/ Stopped
  \/ \E handler \in Longs : FetchAddressError(handler)

ShortSpec ==
  /\ Init
  /\ [][Host \/ ShortInstruction \/ Poll \/ Return]_vars
  /\ WF_vars(ShortInstruction \/ Poll \/ Return)
  /\ WF_vars(\E budget \in Budgets : DoCycles(budget))
=============================================================================
