----------------------------- MODULE MCMicrocode -----------------------------
(***************************************************************************)
(* Every opcode there is, with the extremes of the counts that make up its *)
(* duration, next to the cases of microcode.c that the generator would     *)
(* print for it.                                                           *)
(***************************************************************************)
EXTENDS Microcode, Generator

MCBitCounts   == {0, 15, 16}
MCShiftCounts == {0, 63}

(* The microcode that is built is the microcode the generator would print: *)
(* no table, no name and no step was changed since in the one and not in   *)
(* the other, and each opcode that is decoded selects one case.            *)
EmittedAsCheckedIn ==
  instruction # "none" => CasesPrinted(instruction) = {MicrocodeCases[instruction]}
==============================================================================
