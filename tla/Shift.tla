--------------------------------- MODULE Shift ---------------------------------
(***************************************************************************)
(* The shift and rotate instructions.  The code moves the operand by one   *)
(* bit at a time and keeps C, V and X up to date as it goes; the module    *)
(* does the same, one step of the loop after another, and compares with    *)
(* the numbers that the whole shift stands for.                            *)
(***************************************************************************)
EXTENDS Operation

CONSTANT Counts   \* how far an operand may be shifted

ASSUME CountsAssumption == Counts \subseteq 0 .. 63

VARIABLES
  left,          \* bit 8 of the opcode
  count,         \* how far the operand is shifted
  i,             \* how far it is already
  done           \* the modifiers after the action have run

shiftVars == <<instruction, left, destination, count, i, result, codes, done, weight, before>>

Registers == {"ASD_REGISTER", "LSD_REGISTER", "ROD_REGISTER", "ROXD_REGISTER"}
Memory    == {"ASD_MEMORY", "LSD_MEMORY", "ROD_MEMORY", "ROXD_MEMORY"}

ShiftInstructions == Registers \cup Memory

ASD  == {"ASD_REGISTER", "ASD_MEMORY"}
LSD  == {"LSD_REGISTER", "LSD_MEMORY"}
ROD  == {"ROD_REGISTER", "ROD_MEMORY"}
ROXD == {"ROXD_REGISTER", "ROXD_MEMORY"}

(* C before the first bit.  ROXD has X in it. *)
CarryBefore(n, c) == n \in ROXD /\ c.X

(* The count: bits 9 to 11 of the opcode, where 0 stands for 8, or a       *)
(* register modulo 64; 1 in memory.                                        *)
ShiftInit ==
  /\ instruction \in ShiftInstructions
  /\ left \in BOOLEAN
  /\ destination \in Values
  /\ count \in IF instruction \in Memory THEN {1} ELSE Counts
  /\ i = 0 /\ result = destination /\ weight = 1 /\ done = FALSE
  /\ before \in Codes
  /\ codes = [before EXCEPT !.V = FALSE, !.C = CarryBefore(instruction, before)]

(* Mutant: ROD sets X as well. *)
ExtendAfterEach(n, carry, c) == carry

(* X after one more bit. *)
ExtendAfter(n, carry, c) == IF n \in ROD THEN c.X ELSE carry

(* Mutant: ROXD rotates the operand alone. *)
EnteringFromTop(n, v, c) == Bit(n \in ROD \cup ROXD /\ Negative(v))

(* The bit that one step to the left brings in at the right. *)
Entering(n, v, c) == Bit((n \in ROD /\ Negative(v)) \/ (n \in ROXD /\ c.X))

(* Mutant: V tells of the last bit only. *)
OverflowOfLastBit(n, d, r, c) == n \in ASD /\ Negative(r) # Negative(d)

(* ASL sets V when the sign changes, and never clears it. *)
OverflowAfter(n, d, r, c) == c.V \/ (n \in ASD /\ Negative(r) # Negative(d))

(* The loop goes on. *)
More == i < count

ShiftLeft ==
  /\ left /\ More
  /\ LET r == Wrapped(2 * result) + Entering(instruction, result, codes)
     IN  /\ result' = r
         /\ codes' = [codes EXCEPT !.C = Negative(result),
                                   !.X = ExtendAfter(instruction, Negative(result), codes),
                                   !.V = OverflowAfter(instruction, destination, r, codes)]
  /\ i' = i + 1 /\ weight' = 2 * weight
  /\ UNCHANGED <<instruction, left, destination, count, done, before>>

(* Mutant: LSR keeps the sign as ASR does. *)
EnteringAboveSign(n, d, v, c) ==
  \/ n \in ASD \cup LSD /\ Negative(d)
  \/ n \in ROD  /\ v % 2 = 1
  \/ n \in ROXD /\ c.X

(* Whether a step to the right brings in a one at the left. *)
EnteringAbove(n, d, v, c) ==
  \/ n \in ASD  /\ Negative(d)
  \/ n \in ROD  /\ v % 2 = 1
  \/ n \in ROXD /\ c.X

ShiftRight ==
  /\ ~left /\ More
  /\ result' = (result \div 2)
                 + SignBit * Bit(EnteringAbove(instruction, destination, result, codes))
  /\ codes' = [codes EXCEPT !.C = result % 2 = 1,
                            !.X = ExtendAfter(instruction, result % 2 = 1, codes)]
  /\ i' = i + 1 /\ weight' = 2 * weight
  /\ UNCHANGED <<instruction, left, destination, count, done, before>>

(* The microcode after the action. *)
Modify ==
  /\ ~More /\ ~done
  /\ done' = TRUE
  /\ codes' = Updated(instruction, 0, destination, result, codes)
  /\ UNCHANGED <<instruction, left, destination, count, i, result, weight, before>>

ShiftNext == ShiftLeft \/ ShiftRight \/ Modify

ShiftSpec == ShiftInit /\ [][ShiftNext]_shiftVars

(***************************************************************************)
(* Properties.                                                             *)
(***************************************************************************)

(* ASD and LSD multiply by the weight, or divide by it towards minus       *)
(* infinity, signed or unsigned, also by more bits than there are.         *)
ShiftsScale ==
  /\ instruction \in ASD \cup LSD /\ left => result = (destination * weight) % Modulus
  /\ instruction \in LSD /\ ~left => result = destination \div weight
  /\ instruction \in ASD /\ ~left => Signed(result) = Signed(destination) \div weight

(* A rotation by any number of bits multiplies or divides modulo the       *)
(* number that has all its bits set; with ROXD, X is the highest bit.      *)
Turned(from, to, m) ==
  /\ from = 0 <=> to = 0
  /\ IF left THEN (from * weight - to) % m = 0 ELSE (to * weight - from) % m = 0

RotationsTurn ==
  /\ instruction \in ROD => Turned(destination, result, Modulus - 1)
  /\ instruction \in ROXD =>
       Turned(destination + Bit(before.X) * Modulus, result + Bit(codes.X) * Modulus,
              2 * Modulus - 1)

(* C is the last bit that left the operand, or none; with ROXD it is X.    *)
(* X goes with it, except in ROD and for a count of 0.                     *)
LastBitLeaves ==
  /\ instruction \in ROXD => (codes.C <=> codes.X)
  /\ instruction \in ShiftInstructions \ ROXD /\ i = 0 => ~codes.C
  /\ instruction \in ROD /\ i > 0 =>
       (codes.C <=> IF left THEN result % 2 = 1 ELSE Negative(result))
  /\ instruction \in ASD \cup LSD /\ left /\ i > 0 =>
       (codes.C <=> ((destination * weight) \div Modulus) % 2 = 1)
  /\ instruction \in LSD /\ ~left /\ i > 0 =>
       (codes.C <=> ((2 * destination) \div weight) % 2 = 1)
  /\ instruction \in ASD /\ ~left /\ i > 0 =>
       (codes.C <=> ((2 * Signed(destination)) \div weight) % 2 = 1)
  /\ instruction \in ASD \cup LSD => (codes.X <=> IF i = 0 THEN before.X ELSE codes.C)
  /\ instruction \in ROD => (codes.X <=> before.X)

(* V after ASL tells that the signed product does not fit, even when the   *)
(* sign is right again in the end; all the others clear V.                 *)
OverflowRemembered ==
  instruction \in ShiftInstructions =>
    (codes.V <=> /\ instruction \in ASD /\ left
                 /\ ~Representable(Signed(destination) * weight))

(* The result is that of the whole shift or rotation, bit by bit.          *)
ShiftsCompute == ShiftsScale /\ RotationsTurn

(* So are C, X and V, whatever the bits before have left in them.          *)
ShiftCodes == LastBitLeaves /\ OverflowRemembered
===============================================================================
