---------------------------- MODULE WordArithmetic ----------------------------
(***************************************************************************)
(* The instructions with a word for a source: MULU and MULS, DIVU and      *)
(* DIVS, and CHK.  The code multiplies and divides absolute values and     *)
(* puts the signs back, finds an overflow of the quotient in two stages,   *)
(* and imitates the shift-and-subtract division of the processor for the   *)
(* time it takes.                                                          *)
(*                                                                         *)
(* A word has one bit for each weight up to SignBit, a longword twice as   *)
(* many.                                                                   *)
(***************************************************************************)
EXTENDS Operation, FiniteSets

CONSTANT Width   \* of a word, in bits

ASSUME WidthAssumption == Width \in Nat \ {0} /\ Modulus = 2 ^ Width

(* The destination and the result are longwords. *)
VARIABLES
  source,        \* source_value, a word
  trap,          \* the vector of the exception raised, or 0
  phase,         \* start, duration (the loop of DIVU), quotient or done
  working,       \* working_dividend
  round,         \* how many rounds of that loop there were
  decided,       \* the bits that the loop has decided on, for the properties
  cycles         \* what the action adds to cycles_left_in_instruction

wordVars ==
  <<instruction, source, destination, result, codes, before, trap, phase, working, round,
    decided, cycles>>

operands == <<instruction, source, destination, before>>

LongModulus == Modulus * Modulus

Longs == 0 .. LongModulus - 1

(* The same modifiers, of longwords. *)
Long == INSTANCE Flags WITH SignBit <- SignBit * Modulus

IsSigned == instruction \in {"MULS", "DIVS"}

IsDivision == instruction \in {"DIVU", "DIVS"}

(* The low word. *)
Word(v) == v % Modulus

WordInstructions == {"MULU", "MULS", "DIVU", "DIVS", "CHK"}

WordInit ==
  /\ instruction \in WordInstructions
  /\ source \in Values /\ destination \in Longs
  /\ before \in Codes
  /\ codes = before /\ result = destination /\ trap = 0 /\ phase = "start"
  /\ working = 0 /\ decided = 0 /\ round = 0 /\ cycles = 0

(***************************************************************************)
(* Multiplication.                                                         *)
(***************************************************************************)

(* Mutant: the bit that a shift takes beyond the word is lost. *)
BitsOfWord(v) == {k \in 0 .. Width - 1 : (v \div 2 ^ k) % 2 = 1}

Bits(v) == {k \in 0 .. Width : (v \div 2 ^ k) % 2 = 1}

CountBitsSet(v) == Cardinality(Bits(v))

(* Patterns 10 and 01 in the source with a 0 below it: the pairs of bits   *)
(* whose upper one is even, and those whose lower one is.                  *)
Patterns ==
  LET shifted == 2 * source
      Differ(a, b) == (a \in Bits(shifted)) # (b \in Bits(shifted))
      Even == {k \in 0 .. Width : k % 2 = 0}
  IN  Cardinality({k \in Even \ {0} : Differ(k, k - 1)})
        + Cardinality({k \in Even \ {Width} : Differ(k, k + 1)})

AbsoluteWord(v) == IF IsSigned /\ Negative(v) THEN Modulus - v ELSE v

(* Mutant: MULU has a sign as well. *)
ProductNegativeAlways(s, d) == Negative(s) # Negative(d)

(* result_is_negative. *)
ProductNegative(s, d) == IsSigned /\ Negative(s) # Negative(d)

MULCommon ==
  /\ phase = "start" /\ instruction \in {"MULU", "MULS"}
  /\ LET product == AbsoluteWord(Word(destination)) * AbsoluteWord(source)
         r == IF ProductNegative(source, Word(destination)) /\ product # 0
              THEN LongModulus - product ELSE product
     IN  /\ result' = r
         /\ codes' = Long!Updated(instruction, source, destination, r, codes)
  /\ cycles' = 34 + 2 * (IF IsSigned THEN Patterns ELSE CountBitsSet(source))
  /\ phase' = "done"
  /\ UNCHANGED <<operands, trap, working, decided, round>>

(***************************************************************************)
(* Division.                                                               *)
(***************************************************************************)

SourceNegative == IsSigned /\ Negative(source)

DestinationNegative == IsSigned /\ Long!Negative(destination)

QuotientNegative == SourceNegative # DestinationNegative

AbsoluteSource == AbsoluteWord(source)

AbsoluteDestination ==
  IF DestinationNegative THEN LongModulus - destination ELSE destination

AbsoluteQuotient == AbsoluteDestination \div AbsoluteSource

(* The microcode after the action: no modifiers, but the write-back. *)
DivideByZero ==
  /\ phase = "start" /\ IsDivision /\ source = 0
  /\ codes' = [codes EXCEPT !.C = FALSE, !.N = FALSE, !.Z = FALSE, !.V = FALSE]
  /\ trap' = 5 /\ phase' = "done"
  /\ UNCHANGED <<operands, result, working, decided, round, cycles>>

(* Unsigned overflow detection. *)
FitsUnsigned == AbsoluteSource > AbsoluteDestination \div Modulus

(* Mutant: the same limit for both signs. *)
FitsSignedOneLimit == ~IsSigned \/ AbsoluteQuotient <= SignBit - 1

(* Signed overflow detection. *)
FitsSigned ==
  ~IsSigned \/ AbsoluteQuotient <= IF QuotientNegative THEN SignBit ELSE SignBit - 1

OverflowCodes == [codes EXCEPT !.C = FALSE, !.V = TRUE, !.N = TRUE, !.Z = FALSE]

Entry == IF ~IsSigned THEN 6 ELSE IF DestinationNegative THEN 14 ELSE 12

DivideTooLarge ==
  /\ phase = "start" /\ IsDivision /\ source # 0 /\ ~FitsUnsigned
  /\ codes' = OverflowCodes
  /\ cycles' = Entry /\ phase' = "done"
  /\ UNCHANGED <<operands, result, trap, working, decided, round>>

SignedDuration ==
  104 + (IF SourceNegative THEN 2 ELSE IF DestinationNegative THEN 4 ELSE 0)
      + 2 * (Width - 1 - CountBitsSet(AbsoluteQuotient \div 2))

StartDivision ==
  /\ phase = "start" /\ IsDivision /\ source # 0 /\ FitsUnsigned
  /\ working' = AbsoluteDestination
  /\ IF IsSigned THEN cycles' = Entry + SignedDuration /\ phase' = "quotient"
                 ELSE cycles' = Entry + 66 /\ phase' = "duration"
  /\ UNCHANGED <<operands, result, codes, trap, decided, round>>

(* Mutant: equality does not count as enough. *)
TooSmallOrEqual(v, divisor) == v <= divisor

TooSmall(v, divisor) == v < divisor

(* One round of the loop of DIVU. *)
DurationRound ==
  /\ phase = "duration" /\ round < Width - 1
  /\ LET shifted_divisor == AbsoluteSource * Modulus
         doubled == 2 * working
         high_bit_set == working >= SignBit * Modulus
         less == ~high_bit_set /\ TooSmall(doubled, shifted_divisor)
     IN  /\ working' = IF less THEN doubled ELSE doubled - shifted_divisor
         /\ cycles' = cycles + IF high_bit_set THEN 0 ELSE IF less THEN 4 ELSE 2
         /\ decided' = 2 * decided + Bit(~less)
  /\ round' = round + 1
  /\ UNCHANGED <<operands, result, codes, trap, phase>>

DurationEnd ==
  /\ phase = "duration" /\ round = Width - 1
  /\ phase' = "quotient"
  /\ UNCHANGED <<operands, result, codes, trap, working, decided, round, cycles>>

(* A negative of a word or a longword. *)
Minus(v, m) == IF v = 0 THEN 0 ELSE m - v

(* Mutant: quotient and remainder have the same sign. *)
RemainderNegativeAsQuotient == QuotientNegative

RemainderNegative == DestinationNegative

Divide ==
  /\ phase = "quotient" /\ FitsSigned
  /\ LET remainder == AbsoluteDestination % AbsoluteSource
         q == IF QuotientNegative THEN Minus(AbsoluteQuotient, Modulus) ELSE AbsoluteQuotient
         m == IF RemainderNegative THEN Minus(remainder, Modulus) ELSE remainder
     IN  /\ result' = q + m * Modulus
         /\ codes' = [codes EXCEPT !.C = FALSE, !.V = FALSE, !.N = Negative(q), !.Z = q = 0]
  /\ phase' = "done"
  /\ UNCHANGED <<operands, trap, working, decided, round, cycles>>

DivideOverflows ==
  /\ phase = "quotient" /\ ~FitsSigned
  /\ codes' = OverflowCodes
  /\ phase' = "done"
  /\ UNCHANGED <<operands, result, trap, working, decided, round, cycles>>

(***************************************************************************)
(* CHK: the destination is the register, read by the action itself.        *)
(***************************************************************************)

(* Exclusive or with the sign bit. *)
Flipped(v) == IF Negative(v) THEN v - SignBit ELSE v + SignBit

(* Mutant: the words are compared without signs. *)
AboveUnsigned(v, bound) == v > bound

Above(v, bound) == Flipped(v) > Flipped(bound)

CHK ==
  /\ phase = "start" /\ instruction = "CHK"
  /\ LET v == Word(destination)
     IN  /\ codes' = [codes EXCEPT !.C = FALSE, !.V = FALSE, !.Z = FALSE, !.N = Negative(v)]
         /\ trap' = IF Negative(v) \/ Above(v, source) THEN 6 ELSE 0
  /\ cycles' = 6 /\ phase' = "done"
  /\ UNCHANGED <<operands, result, working, decided, round>>

WordNext ==
  \/ MULCommon
  \/ DivideByZero \/ DivideTooLarge \/ StartDivision
  \/ DurationRound \/ DurationEnd
  \/ Divide \/ DivideOverflows
  \/ CHK

WordSpec == WordInit /\ [][WordNext]_wordVars

(***************************************************************************)
(* Properties.                                                             *)
(***************************************************************************)

(* A word as the instruction reads it. *)
Number(v) == IF IsSigned THEN Signed(v) ELSE v

LongNumber(v) == IF IsSigned THEN Long!Signed(v) ELSE v

Done == phase = "done" /\ trap = 0

(* The longword is the product of the two words, and N and Z are its own.  *)
ProductCorrect ==
  Done /\ instruction \in {"MULU", "MULS"} =>
    /\ LongNumber(result) = Number(Word(destination)) * Number(source)
    /\ codes.N <=> Long!Signed(result) < 0
    /\ codes.Z <=> result = 0
    /\ ~codes.C /\ ~codes.V

(* What the quotient leaves of the dividend is smaller than the divisor    *)
(* and has the sign of the dividend.                                       *)
IsQuotient(q) ==
  LET m == LongNumber(destination) - q * Number(source)
  IN  /\ -AbsoluteSource < m /\ m < AbsoluteSource
      /\ m # 0 => (m < 0 <=> LongNumber(destination) < 0)

(* Without overflow, the words of the result are quotient and remainder.   *)
QuotientCorrect ==
  Done /\ IsDivision /\ ~codes.V =>
    LET q == Number(Word(result))
    IN  /\ IsQuotient(q)
        /\ Number(result \div Modulus) = LongNumber(destination) - q * Number(source)
        /\ codes.N <=> Signed(Word(result)) < 0
        /\ codes.Z <=> q = 0

(* V exactly when no word holds the quotient; the operand is then kept, as *)
(* it is when a division by zero is trapped.                               *)
OverflowExact ==
  phase = "done" /\ IsDivision =>
    /\ trap = 5 <=> source = 0
    /\ trap = 0 =>
         (codes.V <=> ~\E q \in IF IsSigned THEN -SignBit .. SignBit - 1 ELSE Values :
                          IsQuotient(q))
    /\ trap = 5 \/ codes.V => result = destination

(* The loop that measures DIVU keeps its dividend below the divisor, and   *)
(* decides on the bits of the quotient, all but the lowest.                *)
DurationDecidesQuotient ==
  /\ phase = "duration" =>
       /\ 0 <= working /\ working < AbsoluteSource * Modulus
       /\ decided * AbsoluteSource * Modulus + working = destination * 2 ^ round
  /\ Done /\ instruction = "DIVU" /\ ~codes.V =>
       /\ decided = Word(result) \div 2
       /\ LET ones  == CountBitsSet(decided)
              zeros == Width - 1 - ones
          IN  72 + 4 * zeros <= cycles /\ cycles <= 72 + 4 * zeros + 2 * ones

(* MULS takes two cycles for each change from a bit to the next, with a 0  *)
(* below the lowest, although it counts them in two halves.                *)
ProductDuration ==
  phase = "done" /\ instruction = "MULS" =>
    cycles = 34 + 2 * Cardinality({k \in 0 .. Width - 1 :
                                     ((2 * source) \div 2 ^ k) % 2 # (source \div 2 ^ k) % 2})

(* CHK traps a register below zero or above the bound, both signed, and N  *)
(* tells which.                                                            *)
CheckTrapsOutside ==
  phase = "done" /\ instruction = "CHK" =>
    LET v == Signed(Word(destination))
    IN  /\ trap = 6 <=> (v < 0 \/ v > Signed(source))
        /\ codes.N <=> v < 0

(* Products, quotients and CHK are those of the numbers that their operands *)
(* stand for.                                                              *)
WordsCompute == ProductCorrect /\ QuotientCorrect /\ OverflowExact /\ CheckTrapsOutside

(* What DIVU and MULS count for their durations is what the numbers have.  *)
DurationsMeasured == DurationDecidesQuotient /\ ProductDuration
===============================================================================
