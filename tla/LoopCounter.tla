------------------------------ MODULE LoopCounter ------------------------------
(***************************************************************************)
(* A loop of a program that counts a whole data register down with DBcc,   *)
(* which counts only the low word:                                         *)
(*                                                                         *)
(*   body:   ...            two bytes that set the condition codes         *)
(*           DBcc  Dn,body                                                 *)
(*           Bcc   found    the same condition                             *)
(*           CLR.W  Dn                                                     *)
(*           SUBQ.L #1,Dn                                                  *)
(*           BCC   body                                                    *)
(*   done:   ...                                                           *)
(*   found:  ...                                                           *)
(*                                                                         *)
(* The program is external: it is what compilers make of a loop.  The      *)
(* instructions are the interpreter's.                                     *)
(***************************************************************************)
EXTENDS Bus

Long == INSTANCE Flags WITH SignBit <- LongValues \div 2

CONSTANTS
  Origin,   \* the address of body
  Firsts    \* what the register may hold at first

ASSUME LoopAssumption ==
  /\ WordValues >= 64
  /\ Origin \in Nat /\ ~Odd(Origin) /\ Origin + 21 < LongValues
  /\ Firsts \subseteq LongRange

VARIABLES
  program_counter,
  data_register,
  displacement,    \* the extension word of DBcc
  condition,       \* whether the condition of DBcc and Bcc is true
  carry,
  fault,           \* an odd program counter raised an address error
  first,           \* data_register before the loop, for the properties
  iterations       \* how often the body was executed, for the properties

vars == <<program_counter, data_register, displacement, condition, carry, fault,
          first, iterations>>

(* The addresses of the program. *)
Body     == Origin
DBcc     == Origin + 2
Exit     == Origin + 6
Clear    == Origin + 10
Subtract == Origin + 12
Again    == Origin + 14
Done     == Origin + 18
Found    == Origin + 20

(* The extension word that leads from there to a target. *)
Displacement(from, target) ==
  IF target < from + 2 THEN target - (from + 2) + WordValues ELSE target - (from + 2)

Init ==
  /\ program_counter = Body
  /\ first \in Firsts /\ data_register = first
  /\ \E target \in {Body, Body + 1} : displacement = Displacement(DBcc, target)
  /\ condition = FALSE /\ carry = FALSE /\ fault = FALSE
  /\ iterations = 0

(* Addition with the 32 bits that are kept, of two values of 32 bits. *)
Increment(value, delta) ==
  IF value + delta >= LongValues THEN value + delta - LongValues ELSE value + delta

(* Action_BRA_WORD: the operand has been read, so that the program counter *)
(* is two bytes behind the opcode's end.                                   *)
BranchTarget(from, offset) ==
  Increment(from + 4, Increment(SignExtendWord(offset), LongValues - 2))

At(address) == ~fault /\ program_counter = address

(***************************************************************************)
(* The instructions.                                                       *)
(***************************************************************************)

(* The body is counted as far as one iteration too many. *)
ExecuteBody ==
  /\ At(Body)
  /\ condition' \in BOOLEAN /\ carry' \in BOOLEAN
  /\ iterations' = IF iterations <= first + 1 THEN iterations + 1 ELSE iterations
  /\ program_counter' = DBcc
  /\ UNCHANGED <<data_register, displacement, fault, first>>

LoopCounterOf(register) == register % WordValues

(* Mutant: as if loop_counter had 32 bits. *)
DecrementedWhole(register) == Increment(register, LongValues - 1)

(* The low word less one, the high word as it was. *)
Decremented(register) ==
  register - LoopCounterOf(register)
    + IF LoopCounterOf(register) = 0 THEN WordValues - 1 ELSE LoopCounterOf(register) - 1

(* The branch comes before the register is written: an odd target stops    *)
(* the instruction between the two.                                        *)
WriteBack(target) == ~Odd(target)

DBccFallsThrough ==
  /\ At(DBcc) /\ condition
  /\ program_counter' = DBcc + 4
  /\ UNCHANGED <<data_register, displacement, condition, carry, fault, first, iterations>>

CountedOut(register) == LoopCounterOf(register) = 0

DBccCounts ==
  /\ At(DBcc) /\ ~condition
  /\ LET target == IF CountedOut(data_register) THEN DBcc + 4
                                                ELSE BranchTarget(DBcc, displacement)
     IN  /\ program_counter' = target
         /\ fault' = Odd(target)
         /\ data_register' = IF WriteBack(target) THEN Decremented(data_register)
                                                  ELSE data_register
  /\ UNCHANGED <<displacement, condition, carry, first, iterations>>

(* Action_BCC_WORD, with a condition. *)
Bcc(at, taken, target) ==
  /\ At(at)
  /\ program_counter' =
       IF taken THEN BranchTarget(at, Displacement(at, target)) ELSE at + 4
  /\ UNCHANGED <<data_register, displacement, condition, carry, fault, first, iterations>>

ExitFound == Bcc(Exit, condition, Found)

ClearLowWord ==
  /\ At(Clear)
  /\ data_register' = data_register - LoopCounterOf(data_register)
  /\ condition' \in BOOLEAN /\ carry' = FALSE
  /\ program_counter' = Subtract
  /\ UNCHANGED <<displacement, fault, first, iterations>>

SubtractOne ==
  /\ At(Subtract)
  /\ data_register' = Increment(data_register, LongValues - 1)
  /\ carry' = Long!StandardBorrow(1, data_register, data_register')
  /\ condition' \in BOOLEAN
  /\ program_counter' = Again
  /\ UNCHANGED <<displacement, fault, first, iterations>>

LoopAgain == Bcc(Again, ~carry, Body)

Next ==
  \/ ExecuteBody \/ DBccFallsThrough \/ DBccCounts \/ ExitFound
  \/ ClearLowWord \/ SubtractOne \/ LoopAgain

Spec == Init /\ [][Next]_vars

(***************************************************************************)
(* Properties.                                                             *)
(***************************************************************************)

TypeOK ==
  /\ program_counter \in LongRange /\ data_register \in LongRange
  /\ displacement \in WordRange
  /\ condition \in BOOLEAN /\ carry \in BOOLEAN /\ fault \in BOOLEAN
  /\ first \in LongRange /\ iterations \in Nat

(* The loop is left at its end when the body was executed once more than   *)
(* the register held, all 32 bits of it, though DBcc counts only 16; where *)
(* the condition was found the register tells how many were left.  An odd  *)
(* target is found at the first branch, before the register is written:    *)
(* the handler sees the program counter at the target and a count that     *)
(* does not tell of the last time the body was executed.                   *)
LoopsCount ==
  /\ program_counter = Done  => iterations = first + 1 /\ data_register = LongValues - 1
  /\ program_counter = Found => iterations + data_register = first + 1
  /\ fault => program_counter = Body + 1 /\ iterations + data_register = first + 1

(***************************************************************************)
(* The invariant that LoopsCount follows from: what the register and the   *)
(* iterations add up to, at each instruction.                              *)
(***************************************************************************)

Sum == iterations + data_register

CountedAtEachPlace ==
  /\ program_counter \in {Body, Body + 1, DBcc, Exit, Clear, Subtract, Again, Done, Found}
  /\ fault <=> program_counter = Body + 1
  /\ program_counter = Body => Sum = first
  /\ program_counter \in {Body + 1, DBcc, Subtract, Found} => Sum = first + 1
  /\ program_counter = Exit /\ condition => Sum = first + 1
  /\ program_counter = Clear \/ (program_counter = Exit /\ ~condition) =>
       Sum = first + WordValues /\ LoopCounterOf(data_register) = WordValues - 1
  /\ program_counter = Again =>
       /\ carry => iterations = first + 1 /\ data_register = LongValues - 1
       /\ ~carry => Sum = first
  /\ program_counter = Done => iterations = first + 1 /\ data_register = LongValues - 1
================================================================================
