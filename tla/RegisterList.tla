----------------------------- MODULE RegisterList -----------------------------
(***************************************************************************)
(* The list of registers that the disassembler shows for MOVEM: the loops  *)
(* of GetOperandName that go over the bits of the list and join neighbours *)
(* to ranges, the outer and the inner loop moving the same index.          *)
(***************************************************************************)
EXTENDS RegisterNumbers, Sequences

CONSTANT Lists   \* the sets of bits that occur

ASSUME ListsAssumption == GroupAssumption /\ \A list \in Lists : list \subseteq Registers

VARIABLES
  bits,       \* data
  reversed,   \* whether xor_mask is 15 rather than 0
  i,          \* the index of both loops
  inner,      \* in the inner loop
  ranges      \* the ranges printed, each as its first and last register

listVars == <<bits, reversed, i, inner, ranges>>

Last == 2 * Group - 1

(* i ^ xor_mask; the mask is all ones, so that it is a subtraction. *)
IsListed(register) == (IF reversed THEN Last - register ELSE register) \in bits

ListInit ==
  /\ bits \in Lists /\ reversed \in BOOLEAN
  /\ i = 0 /\ inner = FALSE /\ ranges = <<>>

Running == i <= Last

Skip ==
  /\ Running /\ ~inner /\ ~IsListed(i)
  /\ i' = i + 1
  /\ UNCHANGED <<bits, reversed, inner, ranges>>

(* A register without a neighbour: the index moves past the next one,      *)
(* which is not listed.                                                    *)
Single ==
  /\ Running /\ ~inner /\ IsListed(i)
  /\ ~(i + 1 <= Last /\ IsListed(i + 1))
  /\ ranges' = Append(ranges, <<i, i>>)
  /\ i' = i + 2
  /\ UNCHANGED <<bits, reversed, inner>>

StartRange ==
  /\ Running /\ ~inner /\ IsListed(i)
  /\ i + 1 <= Last /\ IsListed(i + 1)
  /\ ranges' = Append(ranges, <<i, i>>)
  /\ i' = i + 2
  /\ inner' = TRUE
  /\ UNCHANGED <<bits, reversed>>

ExtendRange ==
  /\ inner /\ Running /\ IsListed(i)
  /\ i' = i + 1
  /\ UNCHANGED <<bits, reversed, inner, ranges>>

(* Mutant: the last register of a range is the one after it. *)
EndRangeLate ==
  /\ inner /\ ~(Running /\ IsListed(i))
  /\ ranges' = [ranges EXCEPT ![Len(ranges)][2] = i]
  /\ inner' = FALSE
  /\ UNCHANGED <<bits, reversed, i>>

(* The index goes back by one for the name, and on again in the outer loop. *)
EndRange ==
  /\ inner /\ ~(Running /\ IsListed(i))
  /\ ranges' = [ranges EXCEPT ![Len(ranges)][2] = i - 1]
  /\ inner' = FALSE
  /\ UNCHANGED <<bits, reversed, i>>

ListNext == Skip \/ Single \/ StartRange \/ ExtendRange \/ EndRange

ListSpec == ListInit /\ [][ListNext]_listVars

(***************************************************************************)
(* Properties.                                                             *)
(***************************************************************************)

Finished == ~Running /\ ~inner

ShownRegisters == UNION {ranges[n][1] .. ranges[n][2] : n \in DOMAIN ranges}

(* The registers of the list are those the interpreter's MOVEM moves: the  *)
(* list is shown reversed exactly where MOVEM counts down.                 *)
ShownAsMoved ==
  Finished => ShownRegisters = {MovedRegister(bit, reversed) : bit \in bits}

(* Ranges ascend and do not touch: each register is shown once, and no     *)
(* range could be longer.                                                  *)
RangesApart ==
  \A n \in DOMAIN ranges :
    /\ ranges[n][1] <= ranges[n][2]
    /\ n > 1 => ranges[n - 1][2] + 1 < ranges[n][1]

(* The registers shown for MOVEM are those the interpreter moves, each of  *)
(* them once and in ranges that cannot be joined.                          *)
ShowsMovedRegisters == ShownAsMoved /\ RangesApart
==============================================================================
