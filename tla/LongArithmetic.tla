---------------------------- MODULE LongArithmetic ----------------------------
(***************************************************************************)
(* Numbers longer than a register: a program clears X and sets Z, and then *)
(* runs ADDX, SUBX or NEGX over the parts of two numbers, from the lowest  *)
(* up.  X carries from one part to the next and Z is only ever cleared, so *)
(* that the codes are in the end those of the long numbers.                *)
(***************************************************************************)
EXTENDS ConditionCodes, LongNumbers

chainVars == <<codes, last, instruction, number, other, total, weight, part>>

ChainInit ==
  /\ Init /\ ~codes.X /\ codes.Z
  /\ instruction \in Extended
  /\ NoNumbers

ChainStep ==
  /\ AnotherPart
  /\ \E s \in Values, d \in Values :
       /\ Execute(instruction, s, d)
       /\ number' = number + d * weight
       /\ other' = other + s * weight
       /\ total' = total + last'.result * weight
  /\ weight' = weight * Modulus
  /\ part' = part + 1
  /\ UNCHANGED instruction

ChainSpec == ChainInit /\ [][ChainStep]_chainVars

(***************************************************************************)
(* Properties.                                                             *)
(***************************************************************************)

ChainTypeOK ==
  /\ codes \in Codes
  /\ instruction \in Extended
  /\ number \in Nat /\ other \in Nat /\ total \in Nat /\ part \in Nat
  /\ weight \in Nat \ {0}

(* The parts and X are the sum, the difference or the negative of the long *)
(* numbers, whatever their length.                                         *)
ChainComputes ==
  /\ instruction = "ADDX" => total + Bit(codes.X) * weight = number + other
  /\ instruction = "SUBX" => total - Bit(codes.X) * weight = number - other
  /\ instruction = "NEGX" => total - Bit(codes.X) * weight = 0 - number

(* Z is that of the whole result, not of its highest part.                 *)
ChainZero == codes.Z <=> total = 0

(* V and N, of the highest part, are those of the whole.                   *)
LongSigned(v) == IF 2 * v >= weight THEN v - weight ELSE v

LongRepresentable(n) == -weight <= 2 * n /\ 2 * n < weight

ChainSigned ==
  part > 0 =>
    /\ codes.N <=> 2 * total >= weight
    /\ codes.V <=>
         ~LongRepresentable(
            CASE instruction = "ADDX" -> LongSigned(number) + LongSigned(other)
              [] instruction = "SUBX" -> LongSigned(number) - LongSigned(other)
              [] instruction = "NEGX" -> 0 - LongSigned(number))

(* The codes that the last instruction of a chain leaves are those of the  *)
(* long numbers, although each instruction sees one part of them.          *)
ChainCodes == instruction \in Extended => ChainZero /\ ChainSigned
==============================================================================
