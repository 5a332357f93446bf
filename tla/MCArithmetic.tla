----------------------------- MODULE MCArithmetic -----------------------------
(***************************************************************************)
(* Operands of four bits and longwords of eight, in behaviours of several  *)
(* kinds:                                                                  *)
(*   - an addition, subtraction, negation, comparison or test, with any    *)
(*     condition codes, which are all that one leaves to the next;         *)
(*   - a chain of ADDX, SUBX or NEGX over numbers of two parts;            *)
(*   - a shift or rotation by up to ten bits, which is twice past a        *)
(*     rotation of four bits or, with X, of five;                          *)
(*   - a multiplication, a division or CHK;                                *)
(*   - a chain of ABCD, SBCD or NBCD: a first byte with all pairs of       *)
(*     digits, and two more bytes for the numbers with some pairs only, at *)
(*     the ends and in the middle of the range.                            *)
(* What a kind does not use keeps its value.                               *)
(***************************************************************************)
EXTENDS LongArithmetic, Shift, WordArithmetic, Decimal

UpToTen    == 0 .. 10
AllDigits  == 0 .. 99
SomeDigits == {0, 9, 10, 45, 99}

Higher == INSTANCE Decimal WITH Digits <- SomeDigits

shiftOnly == <<left, count, i, done>>
wordOnly  == <<source, trap, phase, working, round, decided, cycles>>

allVars == <<chainVars, shiftVars, wordVars, decimalVars>>

NoLast  == last = Nothing
NoShift == left = FALSE /\ count = 0 /\ i = 0 /\ done = FALSE

NoWord ==
  source = 0 /\ trap = 0 /\ phase = "none" /\ working = 0 /\ round = 0 /\ decided = 0 /\ cycles = 0

NoOperation == destination = 0 /\ result = 0 /\ before = codes

(* Of the codes before, only those are varied that the instruction looks   *)
(* at, and all together for those that look at none.                       *)
FromNothing(c, names) == \A n \in names : c[n] = FALSE

MCInit ==
  \/ Init /\ instruction = "NOP" /\ NoNumbers /\ NoOperation /\ NoShift /\ NoWord
  \/ ChainInit /\ FromNothing(codes, {"C", "V", "N"}) /\ NoOperation /\ NoShift /\ NoWord
  \/ ShiftInit /\ FromNothing(before, {"C", "V", "Z", "N"})
               /\ NoLast /\ number = 0 /\ other = 0 /\ total = 0 /\ part = 0 /\ NoWord
  \/ WordInit  /\ before.C = before.V /\ before.V = before.Z /\ before.Z = before.N
               /\ before.N = before.X
               /\ NoLast /\ NoNumbers /\ NoShift
  \/ DecimalInit /\ FromNothing(codes, {"C", "V", "N"})
                 /\ NoLast /\ destination = 0 /\ NoShift /\ NoWord

SingleStep ==
  /\ instruction = "NOP" /\ last = Nothing /\ Next
  /\ UNCHANGED <<instruction, destination, result, before, weight, number, other, total, part>>
  /\ UNCHANGED <<shiftOnly, wordOnly>>

LongStep ==
  /\ instruction \in Extended /\ part < 2 /\ ChainStep
  /\ UNCHANGED <<destination, result, before, shiftOnly, wordOnly>>

ShiftStep ==
  /\ instruction \in ShiftInstructions /\ ShiftNext
  /\ UNCHANGED <<last, number, other, total, part, wordOnly>>

WordStep ==
  /\ instruction \in WordInstructions /\ WordNext
  /\ UNCHANGED <<last, number, other, total, weight, part, shiftOnly>>

DecimalStep ==
  /\ instruction \in DecimalInstructions
  /\ \/ part = 0 /\ DecimalNext
     \/ part > 0 /\ {number % 100, other % 100} \subseteq SomeDigits /\ Higher!DecimalNext
  /\ UNCHANGED <<last, destination, shiftOnly, wordOnly>>

MCNext == SingleStep \/ LongStep \/ ShiftStep \/ WordStep \/ DecimalStep

MCSpec == MCInit /\ [][MCNext]_allVars
================================================================================
