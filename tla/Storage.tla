------------------------------- MODULE Storage -------------------------------
(***************************************************************************)
(* What instructions work on: registers, and the memory behind the bus.    *)
(* Modules of instructions extend this one and say which registers there   *)
(* are.                                                                    *)
(***************************************************************************)
EXTENDS Bus

VARIABLES
  registers,
  memory,
  start        \* registers and memory before, for the properties
==============================================================================
