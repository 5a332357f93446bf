-------------------------------- MODULE Flags --------------------------------
(***************************************************************************)
(* The modifiers of the condition codes, which the code finds in the top   *)
(* bits of two operands and a result, and the conditions that branches and *)
(* loops test.  Values are unsigned numbers of one operation size; the     *)
(* size is a constant, the weight of its most significant bit.             *)
(***************************************************************************)
EXTENDS Integers, InstructionProperties

CONSTANT SignBit   \* 2 to the power of msb_bit_index

ASSUME SignBitAssumption == SignBit \in Nat \ {0}

Modulus == 2 * SignBit

Values == 0 .. Modulus - 1

Codes == [C : BOOLEAN, V : BOOLEAN, Z : BOOLEAN, N : BOOLEAN, X : BOOLEAN]

(* The most significant bit. *)
Negative(v) == v >= SignBit

(* A sum or a difference of two values, as far as its bits are looked at.  *)
Wrapped(n) ==
  IF n >= Modulus THEN n - Modulus ELSE IF n < 0 THEN n + Modulus ELSE n

Bit(b) == IF b THEN 1 ELSE 0

(***************************************************************************)
(* The modifiers.                                                          *)
(***************************************************************************)

StandardCarry(s, d, r) ==
  \/ Negative(s) /\ Negative(d)
  \/ (Negative(s) \/ Negative(d)) /\ ~Negative(r)

(* Mutant: a borrow is a carry. *)
StandardBorrowAsCarry(s, d, r) == StandardCarry(s, d, r)

StandardBorrow(s, d, r) ==
  \/ Negative(s) /\ ~Negative(d)
  \/ (Negative(s) \/ ~Negative(d)) /\ Negative(r)

Carry(i, s, d, r, c) ==
  CASE GetCarryModifier(i) = "standard_carry"  -> StandardCarry(s, d, r)
    [] GetCarryModifier(i) = "standard_borrow" -> StandardBorrow(s, d, r)
    [] GetCarryModifier(i) = "neg"   -> Negative(d) \/ Negative(r)
    [] GetCarryModifier(i) = "clear" -> FALSE
    [] OTHER -> c.C

Overflow(i, s, d, r, c) ==
  CASE GetOverflowModifier(i) = "add" ->
         \/ Negative(s) /\ Negative(d) /\ ~Negative(r)
         \/ ~Negative(s) /\ ~Negative(d) /\ Negative(r)
    [] GetOverflowModifier(i) = "sub" ->
         \/ ~Negative(s) /\ Negative(d) /\ ~Negative(r)
         \/ Negative(s) /\ ~Negative(d) /\ Negative(r)
    [] GetOverflowModifier(i) = "neg" -> Negative(d) /\ Negative(r)
    [] GetOverflowModifier(i) = "cleared" -> FALSE
    [] OTHER -> c.V

(* Mutant: the extended instructions set Z like the others. *)
ZeroNotSticky(i, r, c) == r = 0

Zero(i, r, c) ==
  CASE GetZeroModifier(i) = "clear_if_nonzero_unaffected_otherwise" -> c.Z /\ r = 0
    [] GetZeroModifier(i) = "set_if_zero_clear_otherwise" -> r = 0
    [] OTHER -> c.Z

(* In the order of the microcode: X is a copy of the C just updated. *)
Updated(i, s, d, r, c) ==
  [C |-> Carry(i, s, d, r, c),
   V |-> Overflow(i, s, d, r, c),
   Z |-> Zero(i, r, c),
   N |-> IF GetNegativeModifier(i) = "set_if_negative_clear_otherwise" THEN Negative(r) ELSE c.N,
   X |-> IF GetExtendModifier(i) = "set_to_carry" THEN Carry(i, s, d, r, c) ELSE c.X]

(***************************************************************************)
(* The conditions, and the numbers that values stand for.                  *)
(***************************************************************************)

(* Mutant: the signed conditions without the overflow. *)
IsOpcodeConditionTrueNoOverflow(condition, c) ==
  CASE condition = 2 -> ~c.C /\ ~c.Z
    [] condition = 3 -> c.C \/ c.Z
    [] condition = 4 -> ~c.C
    [] condition = 5 -> c.C
    [] condition = 6 -> ~c.Z
    [] condition = 7 -> c.Z
    [] condition = 12 -> ~c.N
    [] condition = 14 -> ~c.Z /\ ~c.N
    [] condition = 15 -> c.Z \/ c.N
    [] OTHER -> c.N

(* IsOpcodeConditionTrue. *)
IsOpcodeConditionTrue(condition, c) ==
  CASE condition = 0  -> TRUE
    [] condition = 1  -> FALSE
    [] condition = 2  -> ~c.C /\ ~c.Z
    [] condition = 3  -> c.C \/ c.Z
    [] condition = 4  -> ~c.C
    [] condition = 5  -> c.C
    [] condition = 6  -> ~c.Z
    [] condition = 7  -> c.Z
    [] condition = 8  -> ~c.V
    [] condition = 9  -> c.V
    [] condition = 10 -> ~c.N
    [] condition = 11 -> c.N
    [] condition = 12 -> c.N <=> c.V
    [] condition = 13 -> ~(c.N <=> c.V)
    [] condition = 14 -> ~c.Z /\ (c.N <=> c.V)
    [] condition = 15 -> c.Z \/ ~(c.N <=> c.V)

Signed(v) == IF Negative(v) THEN v - Modulus ELSE v

Representable(n) == -SignBit <= n /\ n < SignBit
==============================================================================
