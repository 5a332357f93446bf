-------------------------------- MODULE Decimal --------------------------------
(***************************************************************************)
(* Binary-coded decimal numbers, two digits to a byte: ABCD, SBCD and      *)
(* NBCD, one byte after another as a program uses them, with X for the     *)
(* carry and Z for the whole number.  The code does a binary addition or   *)
(* subtraction, finds from single bits of it which digits went too far,    *)
(* and corrects these by six.                                              *)
(***************************************************************************)
EXTENDS LongNumbers

CONSTANT Digits   \* the pairs of digits that occur, as numbers below 100

ASSUME DigitsAssumption == Digits \subseteq 0 .. 99

decimalVars == <<instruction, codes, before, result, number, other, total, weight, part>>

DecimalInstructions == {"ABCD", "SBCD", "NBCD"}

(* The modifiers, of bytes. *)
Byte == INSTANCE Flags WITH SignBit <- 128

(* The bit of a given weight. *)
BitOf(v, w) == (v \div w) % 2 = 1

Extend == Byte!Bit(codes.X)

(* Mutant: a borrow from below is not passed on. *)
BorrowOutOfOperands(s, d, r, w) == BitOf(s, w) /\ ~BitOf(d, w)

(* The carry of one bit, and the borrow, from operands and result. *)
CarryOut(s, d, r, w) ==
  \/ BitOf(s, w) /\ BitOf(d, w)
  \/ (BitOf(s, w) \/ BitOf(d, w)) /\ ~BitOf(r, w)

BorrowOut(s, d, r, w) ==
  \/ BitOf(s, w) /\ ~BitOf(d, w)
  \/ (BitOf(s, w) \/ ~BitOf(d, w)) /\ BitOf(r, w)

(* Mutant: a digit from ten to fifteen is left as it is. *)
DigitTooLargeForBits(s, d, r, w) == CarryOut(s, d, r, w)

(* A digit, whose highest bit has this weight, exceeds fifteen or nine:    *)
(* for the latter, 66 hexadecimal is added to see what changes above it.   *)
DigitTooLarge(s, d, r, w) ==
  CarryOut(s, d, r, w) \/ BitOf(r + 102, 2 * w) # BitOf(r, 2 * w)

(* Six for each digit to correct. *)
Correction(low, high) == 6 * Byte!Bit(low) + 96 * Byte!Bit(high)

(* What an action leaves: source, destination, result and C. *)
ABCD(s, d) ==
  LET r == d + s + Extend
      c == Correction(DigitTooLarge(s, d, r, 8), DigitTooLarge(s, d, r, 128))
  IN  [source |-> c, destination |-> r, result |-> r + c,
       carry |-> BitOf(c, 64) \/ (BitOf(r, 128) /\ ~BitOf(r + c, 128))]

(* The borrow of the two subtractions together. *)
Borrow(c, r) == BitOf(c, 64) \/ (~BitOf(r, 128) /\ BitOf(r - c, 128))

SBCDCommon(s, d) ==
  LET r == d - s - Extend
      c == Correction(BorrowOut(s, d, r, 8), BorrowOut(s, d, r, 128))
  IN  [source |-> c, destination |-> r, result |-> r - c, carry |-> Borrow(c, r)]

(* NBCD makes its operand the source, and 0 the destination. *)
Action(i, s, d) ==
  CASE i = "ABCD" -> ABCD(s, d)
    [] i = "SBCD" -> SBCDCommon(s, d)
    [] i = "NBCD" -> SBCDCommon(d, 0)

(* What is written of a result, and tested of it. *)
Cut(v) == v % 256

(* The byte for a pair of digits, and the pair for a byte. *)
Packed(n) == 16 * (n \div 10) + (n % 10)

Unpacked(v) == 10 * (v \div 16) + (v % 16)

DecimalInit ==
  /\ codes \in Byte!Codes /\ before = codes
  /\ instruction \in DecimalInstructions
  /\ result = 0 /\ NoNumbers

(* The action, the write and the modifiers. *)
ExecuteDecimal(s, d) ==
  LET a == Action(instruction, Packed(s), Packed(d))
      r == Cut(a.result)
  IN  /\ result' = r
      /\ codes' = Byte!Updated(instruction, Cut(a.source), Cut(a.destination), r,
                               [codes EXCEPT !.C = a.carry])
      /\ total' = total + Unpacked(r) * weight

DecimalNext ==
  /\ AnotherPart
  /\ \E s \in Digits, d \in Digits :
       /\ ExecuteDecimal(s, d)
       /\ number' = number + d * weight
       /\ other' = other + s * weight
  /\ weight' = 100 * weight
  /\ part' = part + 1
  /\ UNCHANGED <<before, instruction>>

DecimalSpec == DecimalInit /\ [][DecimalNext]_decimalVars

(***************************************************************************)
(* Properties.                                                             *)
(***************************************************************************)

(* Every byte written is again a pair of digits.                           *)
ResultsAreDecimal == result % 16 <= 9 /\ result \div 16 <= 9

(* The bytes and X are the decimal sum, difference or negative of the      *)
(* whole numbers, with the X the first byte began with; C goes with X.     *)
DecimalComputes ==
  LET x  == Byte!Bit(codes.X)
      x0 == Byte!Bit(before.X)
  IN  /\ instruction = "ABCD" => total + x * weight = number + other + x0
      /\ instruction = "SBCD" => total - x * weight = number - other - x0
      /\ instruction = "NBCD" => total - x * weight = 0 - number - x0
      /\ part > 0 => (codes.C <=> codes.X)

(* Z survives only if all bytes of the result are zero.                    *)
DecimalZero == codes.Z <=> before.Z /\ total = 0

(* Chains of decimal instructions compute with decimal numbers.            *)
DecimalCorrect ==
  instruction \in DecimalInstructions => ResultsAreDecimal /\ DecimalComputes /\ DecimalZero
===============================================================================
