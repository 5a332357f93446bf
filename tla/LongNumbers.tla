------------------------------ MODULE LongNumbers ------------------------------
(***************************************************************************)
(* Numbers that are longer than an operand.  A program executes one        *)
(* instruction over their parts, from the lowest up; the numbers           *)
(* themselves are kept beside the processor, to compare.                   *)
(***************************************************************************)
EXTENDS Operation

CONSTANT Parts   \* how many parts at most; 0 for any number

ASSUME PartsAssumption == Parts \in Nat

VARIABLES
  number,        \* the destination, the parts so far
  other,         \* the source, the parts so far
  total,         \* the result, the parts so far
  part           \* how many parts there were

(* The number goes on. *)
AnotherPart == Parts # 0 => part < Parts

NoNumbers == number = 0 /\ other = 0 /\ total = 0 /\ weight = 1 /\ part = 0
================================================================================
