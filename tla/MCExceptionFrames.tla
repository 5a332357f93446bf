------------------------- MODULE MCExceptionFrames -------------------------
(* A small instance of ExceptionFrames for TLC. *)
EXTENDS ExceptionFrames

UserStatus   == [trace |-> TRUE, supervisor |-> FALSE, mask |-> 2]
SystemStatus == [trace |-> FALSE, supervisor |-> TRUE, mask |-> 0]
ModeWords    == {UserStatus, SystemStatus}

(* Room for two nested frames, at bus addresses below the registers' own. *)
TwoFrames == {18, 20, 22, 24, 26, 28, 30}

TwoFramesDeep ==
  /\ state.program_counter < 4
  /\ state.a7 \in {0} \cup 50 .. 64
  /\ state.supervisor_stack_pointer \in {0} \cup 50 .. 64
  /\ state.user_stack_pointer \in {0, 62}

(* A program that enters and leaves handlers: it traps and faults, returns *)
(* and changes mode; the host only gives it cycles, and requests  *)
(* interrupts from its callbacks.                                          *)
Handlers ==
  \/ \E sr \in StatusWords : WriteStatusRegister(0, 4, state.a7, sr)
  \/ \E handler \in Longs :
       \/ IllegalInstruction(handler)
       \/ PrivilegeViolation(handler)
       \/ FetchAddressError(handler)
       \/ Trap(0, 4, state.a7, handler)
       \/ DataAddressError(0, 4, state.a7, handler)
       \/ RTE(handler)

HandlersNext ==
  \/ \E budget \in Budgets : DoCycles(budget)
  \/ Handlers
  \/ Poll
  \/ Return

HandlersSpec ==
  /\ FramedInit
  /\ [][HandlersNext /\ frames' = Intact \cup UNION {Suspended(s) : s \in Entered}]_framedVars
=============================================================================
