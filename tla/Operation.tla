------------------------------- MODULE Operation -------------------------------
(***************************************************************************)
(* The execution of an instruction, or of one instruction over the parts   *)
(* of a number, as far as the modules of arithmetic have it in common.     *)
(***************************************************************************)
EXTENDS Flags

VARIABLES
  instruction,
  destination,   \* destination_value
  result,        \* result_value
  codes,         \* the condition codes
  before,        \* the codes before the first instruction, for the properties
  weight         \* of the next bit or part of a number, for the properties
================================================================================
