--------------------------- MODULE RegisterNumbers ---------------------------
(***************************************************************************)
(* Registers as MOVEM counts them: the data registers, then the address    *)
(* registers; and the register that each bit of its list stands for.       *)
(***************************************************************************)
EXTENDS Integers

CONSTANT Group   \* how many data registers, and how many address registers

GroupAssumption == Group \in Nat \ {0}

Registers == 0 .. 2 * Group - 1

IsDataRegister(r) == r < Group

(* Mutant: the lists of -(An) read like all others. *)
MovedRegisterForward(bit, predecrement) == bit

(* The two loops of Action_MOVEM, one for each group; with predecrement    *)
(* they count down, from the last address register.                        *)
MovedRegister(bit, predecrement) ==
  IF ~predecrement THEN bit
  ELSE IF bit < Group THEN Group + (Group - 1 - bit)
  ELSE Group - 1 - (bit - Group)

==============================================================================
