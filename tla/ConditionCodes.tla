---------------------------- MODULE ConditionCodes ----------------------------
(***************************************************************************)
(* The condition codes after an addition, a subtraction or a negation.     *)
(* The code finds carry and overflow in the top bits of two operands and a *)
(* result; the bits below have no part in them.                            *)
(***************************************************************************)
EXTENDS Operation

VARIABLE last   \* the last instruction: what it was, found and left

vars == <<codes, last>>

(***************************************************************************)
(* The instructions.                                                       *)
(***************************************************************************)

Additions    == {"ADD", "ADDI", "ADDQ", "ADDX"}
Comparisons  == {"CMP", "CMPI", "CMPM"}
Subtractions == {"SUB", "SUBI", "SUBQ", "SUBX"} \cup Comparisons
Negations    == {"NEG", "NEGX"}
Extended     == {"ADDX", "SUBX", "NEGX"}
Tests        == {"MOVE", "TST"}

Arithmetic == Additions \cup Subtractions \cup Negations

(* Mutant: SUBX forgets the borrow. *)
ExtendOfADDXOnly(i, c) == Bit(i \in {"ADDX", "NEGX"} /\ c.X)

ExtendOf(i, c) == Bit(i \in Extended /\ c.X)

Result(i, s, d, x) ==
  CASE i \in Additions    -> Wrapped(d + s + x)
    [] i \in Subtractions -> Wrapped(d - s - x)
    [] i \in Negations    -> Wrapped(0 - d - x)
    [] i \in Tests        -> s

Execute(i, s, d) ==
  LET x == ExtendOf(i, codes)
      r == Result(i, s, d, x)
  IN  /\ last'  = [instruction |-> i, source |-> s, destination |-> d, extend |-> codes.X,
                   zero |-> codes.Z, result |-> r]
      /\ codes' = Updated(i, s, d, r, codes)

Nothing ==
  [instruction |-> "NOP", source |-> 0, destination |-> 0, extend |-> FALSE, zero |-> FALSE,
   result |-> 0]

Init == codes \in Codes /\ last = Nothing

Next ==
  \E i \in Arithmetic \cup Tests, s \in Values, d \in Values : Execute(i, s, d)

Spec == Init /\ [][Next]_vars

(***************************************************************************)
(* Properties.                                                             *)
(***************************************************************************)

TypeOK ==
  /\ codes \in Codes
  /\ last \in [instruction : Arithmetic \cup Tests \cup {"NOP"},
               source : Values, destination : Values, extend : BOOLEAN, zero : BOOLEAN,
               result : Values]

LastExtend == Bit(last.instruction \in Extended /\ last.extend)

(* C tells that the unsigned sum, difference or negative does not fit, V   *)
(* that the signed one does not, although the code looks at three bits     *)
(* only; X goes with C, except after comparisons and moves, which leave it. *)
CodesMeanOverflow ==
  LET i == last.instruction
      s == last.source
      d == last.destination
  IN  /\ i \in Additions =>
           /\ codes.C <=> d + s + LastExtend >= Modulus
           /\ codes.V <=> ~Representable(Signed(d) + Signed(s) + LastExtend)
      /\ i \in Subtractions =>
           /\ codes.C <=> d < s + LastExtend
           /\ codes.V <=> ~Representable(Signed(d) - Signed(s) - LastExtend)
      /\ i \in Negations =>
           /\ codes.C <=> d + LastExtend > 0
           /\ codes.V <=> ~Representable(0 - Signed(d) - LastExtend)
      /\ i \in Comparisons \cup Tests => (codes.X <=> last.extend)
      /\ i \in Arithmetic \ Comparisons => (codes.X <=> codes.C)

(* After a comparison each condition is the relation of the destination to *)
(* the source that it is named for, unsigned or signed; after MOVE or TST, *)
(* that of the operand to zero.                                            *)
ConditionsAreRelations ==
  last.instruction \in Comparisons \cup Tests =>
    LET s == IF last.instruction \in Tests THEN 0 ELSE last.source
        d == IF last.instruction \in Tests THEN last.source ELSE last.destination
        Holds(condition) == IsOpcodeConditionTrue(condition, codes)
    IN  /\ Holds(2)  <=> d > s                        \* higher
        /\ Holds(3)  <=> d <= s                       \* lower or same
        /\ Holds(4)  <=> d >= s                       \* carry clear: higher or same
        /\ Holds(5)  <=> d < s                        \* carry set: lower
        /\ Holds(6)  <=> d # s
        /\ Holds(7)  <=> d = s
        /\ Holds(12) <=> Signed(d) >= Signed(s)
        /\ Holds(13) <=> Signed(d) < Signed(s)
        /\ Holds(14) <=> Signed(d) > Signed(s)
        /\ Holds(15) <=> Signed(d) <= Signed(s)
==============================================================================
