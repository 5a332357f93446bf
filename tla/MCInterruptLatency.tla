------------------------- MODULE MCInterruptLatency -------------------------
(* A small instance of InterruptLatency for TLC. *)
EXTENDS InterruptLatency

UserStatus   == [trace |-> FALSE, supervisor |-> FALSE, mask |-> 2]
SystemStatus == [trace |-> FALSE, supervisor |-> TRUE, mask |-> 4]
ModeWords    == {UserStatus, SystemStatus}

NoRam == {}

(* A program of two instructions, and room on the stack for two frames. *)
ShortRuns ==
  /\ state.program_counter < 4 \/ state.stopped
  /\ {state.a7, state.user_stack_pointer, state.supervisor_stack_pointer}
       \subseteq {0} \cup 34 .. 40
=============================================================================
