---------------------------- MODULE Programs_proofs ----------------------------
(***************************************************************************)
(* Programs of several instructions.                                       *)
(*                                                                         *)
(* The loop of DBcc, for words and registers of any width, and any count:  *)
(* what the register and the iterations add up to is an invariant of the   *)
(* loop, so that the body is executed once more than the register held.    *)
(*                                                                         *)
(* The lock, for any levels, any numbers that stand for its bit, and       *)
(* handlers nested to any depth: at most one of the program and its        *)
(* handlers holds it, whatever the interrupts come between.                *)
(*                                                                         *)
(* Procedures, for a stack anywhere in a memory of any size and calls      *)
(* nested as deep as it allows: what the stack holds, from its pointer     *)
(* upwards, is what the calls still open have pushed, frames with their    *)
(* saved pointers chained to each other; each return therefore finds its   *)
(* own address, and the stack and its pointer implement a list of the      *)
(* calls that are open.                                                    *)
(***************************************************************************)
EXTENDS LoopCounter, Semaphore, Subroutines, Bus_proofs, SequenceTheorems

W == WordValues

L == LongValues

(***************************************************************************)
(* The widths.                                                             *)
(***************************************************************************)

LEMMA Widths ==
  /\ W \in Nat /\ W >= 64
  /\ L \in Nat /\ L = W * W /\ L >= 64 * W
  /\ L \div 2 \in Nat /\ 1 < L \div 2 /\ L \div 2 < L
<1>1. ByteValues \in Nat
  BY BusAssumption
<1>2. W \in Nat /\ W >= 64
  BY <1>1, LoopAssumption DEF W, WordValues
<1>3. L = W * W
  BY DEF L, W, LongValues
<1>4. L \in Nat /\ L >= 64 * W
  BY <1>2, <1>3
<1>5. L >= 4096
  BY <1>2, <1>4
<1>6. L \div 2 \in Nat /\ 1 < L \div 2 /\ L \div 2 < L
  BY <1>4, <1>5
<1> QED
  BY <1>2, <1>3, <1>4, <1>6

LEMMA ProgramPlaced ==
  /\ Origin \in Nat /\ Origin % 2 = 0 /\ Origin + 21 < L
BY LoopAssumption DEF Odd, L

(* The low word of a register, and what is left without it. *)
LEMMA LowWord ==
  ASSUME NEW d \in LongRange
  PROVE  /\ LoopCounterOf(d) \in 0 .. W - 1
         /\ d - LoopCounterOf(d) \in 0 .. L - W
         /\ LoopCounterOf(d) <= d
<1> USE Widths
<1>1. d \in Nat /\ d < L
  BY DEF LongRange, L
<1>2. LoopCounterOf(d) = d % W
  BY DEF LoopCounterOf, W
<1>3. PICK q \in Nat : d = q * W + (d % W) /\ d % W \in 0 .. W - 1
  <2>1. d \div W \in Nat /\ d = (d \div W) * W + (d % W) /\ d % W \in 0 .. W - 1
    BY <1>1
  <2> QED
    BY <2>1
<1>4. q * W < W * W
  BY <1>1, <1>3
<1>5. q <= W - 1
  BY <1>3, <1>4
<1>6. q * W <= (W - 1) * W
  BY <1>3, <1>5
<1>7. (W - 1) * W = L - W
  OBVIOUS
<1>8. q * W \in Nat
  BY <1>3
<1> QED
  BY <1>1, <1>2, <1>3, <1>6, <1>7, <1>8

(* A count of nothing becomes all ones in the low word. *)
LEMMA AllOnes ==
  ASSUME NEW d \in LongRange, LoopCounterOf(d) = 0
  PROVE  LoopCounterOf(d + W - 1) = W - 1
<1> USE Widths
<1>1. d \in Nat /\ d % W = 0
  BY DEF LongRange, LoopCounterOf, W
<1>2. (d + W - 1) % W = W - 1
  <2>1. PICK q \in Nat : d = q * W
    <3>1. d \div W \in Nat /\ d = (d \div W) * W + (d % W)
      BY <1>1
    <3>2. d = (d \div W) * W
      BY <1>1, <3>1
    <3> QED
      BY <3>1, <3>2
  <2>2. d + W - 1 = q * W + (W - 1)
    BY <2>1
  <2>3. (q * W + (W - 1)) % W = W - 1
    BY <2>1
  <2> QED
    BY <2>2, <2>3
<1> QED
  BY <1>2 DEF LoopCounterOf, W

LEMMA DecrementedOne ==
  ASSUME NEW d \in LongRange, LoopCounterOf(d) # 0
  PROVE  Decremented(d) = d - 1 /\ Decremented(d) \in LongRange
BY Widths, LowWord DEF Decremented, LongRange, L

LEMMA DecrementedNone ==
  ASSUME NEW d \in LongRange, LoopCounterOf(d) = 0
  PROVE  /\ Decremented(d) = d + W - 1 /\ Decremented(d) \in LongRange
         /\ LoopCounterOf(Decremented(d)) = W - 1
<1>1. Decremented(d) = d + W - 1
  BY Widths, LowWord DEF Decremented, LongRange, W, L
<1>2. Decremented(d) \in LongRange
  BY <1>1, Widths, LowWord DEF LongRange, L
<1> QED
  BY <1>1, <1>2, AllOnes

(* A branch leads where the assembler wanted it. *)
LEMMA Branches ==
  ASSUME NEW from \in Nat, NEW target \in Nat, from + 4 < L, target < L,
         from - target < 30, target - from < 30
  PROVE  /\ BranchTarget(from, Displacement(from, target)) = target
         /\ Displacement(from, target) \in WordRange
<1> USE Widths
<1>1. CASE target < from + 2
  <2>1. Displacement(from, target) = target - (from + 2) + W
    BY <1>1 DEF Displacement, W
  <2>2. Displacement(from, target) \in WordRange
    BY <1>1, <2>1 DEF WordRange, W
  <2>3. 2 * Displacement(from, target) >= W
    BY <1>1, <2>1
  <2>4. SignExtendWord(Displacement(from, target)) = target - (from + 2) + L
    BY <2>1, <2>3 DEF SignExtendWord, W, L
  <2>5. Increment(target - (from + 2) + L, L - 2) = target - from - 4 + L
    BY <1>1 DEF Increment, L
  <2>6. Increment(from + 4, target - from - 4 + L) = target
    BY <1>1 DEF Increment, L
  <2> QED
    BY <2>2, <2>4, <2>5, <2>6 DEF BranchTarget, L
<1>2. CASE target >= from + 2
  <2>1. Displacement(from, target) = target - (from + 2)
    BY <1>2 DEF Displacement, W
  <2>2. Displacement(from, target) \in WordRange
    BY <1>2, <2>1 DEF WordRange, W
  <2>3. ~(2 * Displacement(from, target) >= W)
    BY <1>2, <2>1
  <2>4. SignExtendWord(Displacement(from, target)) = target - (from + 2)
    BY <2>1, <2>3 DEF SignExtendWord, W, L
  <2> QED
    BY <1>2, <2>2, <2>4 DEF BranchTarget, Increment, L
<1> QED
  BY <1>1, <1>2

(* Subtracting one borrows from nothing but zero. *)
LEMMA Borrows ==
  ASSUME NEW d \in LongRange
  PROVE  /\ Increment(d, L - 1) \in LongRange
         /\ d = 0 => Increment(d, L - 1) = L - 1 /\ Long!StandardBorrow(1, d, Increment(d, L - 1))
         /\ d # 0 => Increment(d, L - 1) = d - 1 /\ ~Long!StandardBorrow(1, d, Increment(d, L - 1))
<1> DEFINE r == Increment(d, L - 1)
<1>1. CASE d = 0
  <2>1. r = L - 1
    BY <1>1, Widths DEF Increment, L
  <2>2. Long!StandardBorrow(1, d, r)
    BY <1>1, <2>1, Widths DEF Long!StandardBorrow, Long!Negative, L
  <2> QED
    BY <1>1, <2>1, <2>2, Widths DEF LongRange, L
<1>2. CASE d # 0
  <2>1. r = d - 1
    BY <1>2, Widths DEF Increment, LongRange, L
  <2>2. ~Long!StandardBorrow(1, d, r)
    BY <1>2, <2>1, Widths DEF Long!StandardBorrow, Long!Negative, LongRange, L
  <2> QED
    BY <1>2, <2>1, <2>2, Widths DEF LongRange, L
<1> QED
  BY <1>1, <1>2

(***************************************************************************)
(* The invariant.                                                          *)
(***************************************************************************)

IInv ==
  /\ TypeOK
  /\ \E target \in {Body, Body + 1} : displacement = Displacement(DBcc, target)
  /\ CountedAtEachPlace

USE DEF W, L

(* The addresses are numbers, and all different. *)
LEMMA Addresses ==
  /\ Body \in Nat /\ Body < L - 21 /\ Body % 2 = 0
  /\ DBcc = Body + 2 /\ Exit = Body + 6 /\ Clear = Body + 10 /\ Subtract = Body + 12
  /\ Again = Body + 14 /\ Done = Body + 18 /\ Found = Body + 20
BY ProgramPlaced, Widths DEF Body, DBcc, Exit, Clear, Subtract, Again, Done, Found

LEMMA InitIInv == Init => IInv
<1> SUFFICES ASSUME Init PROVE IInv
  OBVIOUS
<1>1. PICK target \in {Body, Body + 1} : displacement = Displacement(DBcc, target)
  BY DEF Init
<1>2. displacement \in WordRange
  BY <1>1, Branches, Addresses, Widths
<1>3. first \in LongRange
  BY LoopAssumption DEF Init
<1>4. program_counter \in LongRange
  BY Addresses, Widths DEF Init, LongRange
<1>5. TypeOK
  BY <1>2, <1>3, <1>4 DEF Init, TypeOK
<1>6. CountedAtEachPlace
  BY <1>3, Addresses, Widths DEF Init, CountedAtEachPlace, Sum, LongRange
<1> QED
  BY <1>1, <1>5, <1>6 DEF IInv

(***************************************************************************)
(* One lemma for each instruction.                                         *)
(***************************************************************************)

LEMMA StepBody == ASSUME IInv, ExecuteBody PROVE IInv'
<1> USE DEF ExecuteBody, At
<1>1. iterations + data_register = first /\ first \in Nat /\ data_register \in Nat
        /\ iterations \in Nat
  BY Widths DEF IInv, TypeOK, CountedAtEachPlace, Sum, LongRange
<1>2. iterations' = iterations + 1
  BY <1>1
<1>3. TypeOK'
  BY <1>1, <1>2, Addresses, Widths DEF IInv, TypeOK, LongRange
<1>4. CountedAtEachPlace'
  BY <1>1, <1>2, Addresses DEF CountedAtEachPlace, Sum
<1>5. (\E target \in {Body, Body + 1} : displacement = Displacement(DBcc, target))'
  BY DEF IInv, Displacement, Body, DBcc
<1> QED
  BY <1>3, <1>4, <1>5 DEF IInv

LEMMA StepFallsThrough == ASSUME IInv, DBccFallsThrough PROVE IInv'
<1> USE DEF DBccFallsThrough, At
<1>1. TypeOK'
  BY Addresses, Widths DEF IInv, TypeOK, LongRange
<1>2. CountedAtEachPlace'
  BY Addresses DEF IInv, CountedAtEachPlace, Sum
<1>3. (\E target \in {Body, Body + 1} : displacement = Displacement(DBcc, target))'
  BY DEF IInv, Displacement, Body, DBcc
<1> QED
  BY <1>1, <1>2, <1>3 DEF IInv

LEMMA StepClear == ASSUME IInv, ClearLowWord PROVE IInv'
<1> USE DEF ClearLowWord, At
<1>1. /\ iterations + data_register = first + W /\ LoopCounterOf(data_register) = W - 1
      /\ first \in Nat /\ data_register \in LongRange /\ iterations \in Nat
  BY Addresses DEF IInv, TypeOK, CountedAtEachPlace, Sum, LongRange
<1>2. data_register' = data_register - (W - 1) /\ data_register' \in LongRange
  <2>1. data_register - LoopCounterOf(data_register) \in 0 .. L - W
    BY <1>1, LowWord
  <2>2. data_register' = data_register - LoopCounterOf(data_register)
    OBVIOUS
  <2> QED
    BY <1>1, <2>1, <2>2, Widths DEF LongRange
<1>3. TypeOK'
  <2>1. carry' \in BOOLEAN
    OBVIOUS
  <2>2. program_counter' \in LongRange
    BY Addresses, Widths DEF LongRange
  <2> QED
    BY <1>2, <2>1, <2>2 DEF IInv, TypeOK
<1>4. iterations' + data_register' = first' + 1
  BY <1>1, <1>2, Widths DEF LongRange
<1>5. CountedAtEachPlace'
  BY <1>4, Addresses DEF IInv, CountedAtEachPlace, Sum
<1>6. (\E target \in {Body, Body + 1} : displacement = Displacement(DBcc, target))'
  BY DEF IInv, Displacement, Body, DBcc
<1> QED
  BY <1>3, <1>5, <1>6 DEF IInv

LEMMA StepSubtract == ASSUME IInv, SubtractOne PROVE IInv'
<1> USE DEF SubtractOne, At
<1>1. /\ iterations + data_register = first + 1
      /\ first \in Nat /\ data_register \in LongRange /\ data_register \in Nat
      /\ iterations \in Nat
  BY Addresses, Widths DEF IInv, TypeOK, CountedAtEachPlace, Sum, LongRange
<1>2. data_register' = Increment(data_register, L - 1) /\ data_register' \in LongRange
  BY <1>1, Borrows
<1>3. /\ carry' => data_register = 0 /\ data_register' = L - 1
      /\ ~carry' => data_register' = data_register - 1
  <2>1. CASE data_register = 0
    <3>1. data_register' = L - 1
      BY <1>1, <2>1, Borrows
    <3>2. Long!StandardBorrow(1, data_register, data_register')
      BY <1>1, <1>2, <2>1, Borrows
    <3>3. carry'
      BY <3>2
    <3> QED
      BY <2>1, <3>1, <3>3
  <2>2. CASE data_register # 0
    <3>1. data_register' = data_register - 1
      BY <1>1, <2>2, Borrows
    <3>2. ~Long!StandardBorrow(1, data_register, data_register')
      BY <1>1, <1>2, <2>2, Borrows
    <3>3. ~carry'
      BY <3>2
    <3> QED
      BY <2>2, <3>1, <3>3
  <2> QED
    BY <2>1, <2>2
<1>4. carry' \in BOOLEAN
  BY DEF Long!StandardBorrow, Long!Negative
<1>5. TypeOK'
  BY <1>2, <1>4, Addresses, Widths DEF IInv, TypeOK, LongRange
<1>6. CountedAtEachPlace'
  BY <1>1, <1>3, Addresses DEF IInv, CountedAtEachPlace, Sum
<1>7. (\E target \in {Body, Body + 1} : displacement = Displacement(DBcc, target))'
  BY DEF IInv, Displacement, Body, DBcc
<1> QED
  BY <1>5, <1>6, <1>7 DEF IInv

LEMMA StepFound == ASSUME IInv, ExitFound PROVE IInv'
<1> USE DEF ExitFound, Bcc, At
<1>1. program_counter' = IF condition THEN Found ELSE Clear
  <2>1. BranchTarget(Exit, Displacement(Exit, Found)) = Found
    BY Branches, Addresses, Widths
  <2>2. Exit + 4 = Clear
    BY Addresses
  <2>3. program_counter' =
          IF condition THEN BranchTarget(Exit, Displacement(Exit, Found)) ELSE Exit + 4
    BY Zenon
  <2> QED
    BY <2>1, <2>2, <2>3
<1>2. TypeOK'
  BY <1>1, Addresses, Widths DEF IInv, TypeOK, LongRange
<1>3. CountedAtEachPlace'
  BY <1>1, Addresses DEF IInv, CountedAtEachPlace, Sum
<1>4. (\E target \in {Body, Body + 1} : displacement = Displacement(DBcc, target))'
  BY DEF IInv, Displacement, Body, DBcc
<1> QED
  BY <1>2, <1>3, <1>4 DEF IInv

LEMMA StepAgain == ASSUME IInv, LoopAgain PROVE IInv'
<1> USE DEF LoopAgain, Bcc, At
<1>1. program_counter' = IF carry THEN Done ELSE Body
  BY Branches, Addresses, Widths
<1>2. TypeOK'
  BY <1>1, Addresses, Widths DEF IInv, TypeOK, LongRange
<1>3. CountedAtEachPlace'
  BY <1>1, Addresses DEF IInv, CountedAtEachPlace, Sum
<1>4. (\E target \in {Body, Body + 1} : displacement = Displacement(DBcc, target))'
  BY DEF IInv, Displacement, Body, DBcc
<1> QED
  BY <1>2, <1>3, <1>4 DEF IInv

LEMMA StepCounts == ASSUME IInv, DBccCounts PROVE IInv'
<1> USE DEF DBccCounts, At
<1>1. PICK target \in {Body, Body + 1} : displacement = Displacement(DBcc, target)
  BY DEF IInv
<1>2. BranchTarget(DBcc, displacement) = target
  BY <1>1, Branches, Addresses, Widths
<1>3. /\ iterations + data_register = first + 1
      /\ first \in Nat /\ data_register \in LongRange /\ data_register \in Nat
      /\ iterations \in Nat
  BY Addresses, Widths DEF IInv, TypeOK, CountedAtEachPlace, Sum, LongRange
<1>4. CASE LoopCounterOf(data_register) = 0
  <2>1. program_counter' = Exit /\ ~fault' /\ data_register' = Decremented(data_register)
    <3>1. ~Odd(DBcc + 4) /\ DBcc + 4 = Exit
      BY Addresses DEF Odd
    <3> QED
      BY <1>4, <3>1, Zenon DEF CountedOut, WriteBack
  <2>2. /\ data_register' = data_register + W - 1 /\ data_register' \in LongRange
        /\ LoopCounterOf(data_register') = W - 1
    BY <1>3, <1>4, <2>1, DecrementedNone
  <2>3. TypeOK'
    BY <2>1, <2>2, Addresses, Widths DEF IInv, TypeOK, LongRange, Odd
  <2>4. CountedAtEachPlace'
    BY <1>3, <2>1, <2>2, Addresses, Widths DEF IInv, CountedAtEachPlace, Sum
  <2> QED
    BY <1>1, <2>3, <2>4 DEF IInv, Displacement, Body, DBcc
<1>5. CASE LoopCounterOf(data_register) # 0 /\ target = Body
  <2>1. program_counter' = Body /\ ~fault' /\ data_register' = Decremented(data_register)
    <3>1. ~Odd(Body)
      BY Addresses DEF Odd
    <3> QED
      BY <1>2, <1>5, <3>1, Zenon DEF CountedOut, WriteBack
  <2>2. data_register' = data_register - 1 /\ data_register' \in LongRange
    BY <1>3, <1>5, <2>1, DecrementedOne
  <2>3. TypeOK'
    BY <2>1, <2>2, Addresses, Widths DEF IInv, TypeOK, LongRange, Odd
  <2>4. CountedAtEachPlace'
    BY <1>3, <2>1, <2>2, Addresses, Widths DEF IInv, CountedAtEachPlace, Sum
  <2> QED
    BY <1>1, <2>3, <2>4 DEF IInv, Displacement, Body, DBcc
<1>6. CASE LoopCounterOf(data_register) # 0 /\ target = Body + 1
  <2>1. program_counter' = Body + 1 /\ fault' /\ data_register' = data_register
    <3>1. Odd(Body + 1)
      BY Addresses DEF Odd
    <3> QED
      BY <1>2, <1>6, <3>1, Zenon DEF CountedOut, WriteBack
  <2>2. TypeOK'
    BY <1>3, <2>1, Addresses, Widths DEF IInv, TypeOK, LongRange, Odd
  <2>3. CountedAtEachPlace'
    BY <1>3, <2>1, Addresses, Widths DEF IInv, CountedAtEachPlace, Sum
  <2> QED
    BY <1>1, <2>2, <2>3 DEF IInv, Displacement, Body, DBcc
<1> QED
  BY <1>1, <1>4, <1>5, <1>6

(***************************************************************************)
(* The theorems.                                                           *)
(***************************************************************************)

LEMMA Invariance == Spec => []IInv
<1>1. ASSUME IInv, [Next]_vars PROVE IInv'
  <2>1. CASE UNCHANGED vars
    BY <1>1, <2>1 DEF vars, IInv, TypeOK, CountedAtEachPlace, Sum
  <2> QED
    BY <1>1, <2>1, StepBody, StepFallsThrough, StepCounts, StepFound, StepClear,
       StepSubtract, StepAgain DEF Next
<1> QED
  BY InitIInv, <1>1, PTL DEF Spec

(* The registers, the program counter and the extension word are in their  *)
(* widths: DBcc, CLR and SUBQ keep the high bits and nothing more.         *)
THEOREM LoopTyped == Spec => []TypeOK
BY Invariance, PTL DEF IInv

(* The sum of what the register holds and how often the body was executed, *)
(* at each instruction: the invariant itself.                              *)
THEOREM LoopSums == Spec => []CountedAtEachPlace
BY Invariance, PTL DEF IInv

(* A loop of DBcc, CLR, SUBQ and BCC executes its body once more than the  *)
(* whole register held, for any width of a word and any count; DBcc with   *)
(* an odd target leaves the count as it was.                               *)
THEOREM LoopsCounted == Spec => []LoopsCount
<1>1. IInv => LoopsCount
  BY Addresses DEF IInv, CountedAtEachPlace, LoopsCount, Sum
<1> QED
  BY Invariance, <1>1, PTL

HIDE DEF W, L

(***************************************************************************)
(* The lock.                                                               *)
(***************************************************************************)

(* One may hold the lock without being inside yet: what makes OneInside    *)
(* inductive.                                                              *)
OneHolds == \A d, e \in 0 .. depth : HoldsAt(d) /\ HoldsAt(e) => d = e

Inv == LockTypeOK /\ OneHolds /\ TakenWhileHeld /\ LostToInterrupted

(***************************************************************************)
(* The condition codes.                                                    *)
(***************************************************************************)

LEMMA ClearedByTAS ==
  ASSUME NEW c
  PROVE  Cleared("TAS", c) = [c EXCEPT !.C = FALSE, !.V = FALSE]
<1>1. Byte!GetCarryModifier("TAS") = "clear"
  BY DEF Byte!GetCarryModifier
<1>2. Byte!GetOverflowModifier("TAS") = "cleared"
  BY DEF Byte!GetOverflowModifier
<1>3. Byte!Carry("TAS", 0, 0, 0, c) = FALSE
  BY <1>1 DEF Byte!Carry
<1>4. Byte!Overflow("TAS", 0, 0, 0, c) = FALSE
  BY <1>2 DEF Byte!Overflow
<1> QED
  BY <1>3, <1>4 DEF Cleared

LEMMA CodesOfTAS ==
  ASSUME codes \in Byte!Codes
  PROVE  /\ Cleared("TAS", Tested(lock)) \in Byte!Codes
         /\ Cleared("TAS", Tested(lock)).N = (Top \in lock)
<1>1. Tested(lock) = [codes EXCEPT !.N = Top \in lock, !.Z = lock = {}]
  BY DEF Tested
<1>2. (Top \in lock) \in BOOLEAN /\ (lock = {}) \in BOOLEAN
  OBVIOUS
<1>3. Tested(lock) \in Byte!Codes
  BY <1>1, <1>2 DEF Byte!Codes
<1>4. Tested(lock).N = (Top \in lock)
  BY <1>1 DEF Byte!Codes
<1> QED
  BY <1>3, <1>4, ClearedByTAS DEF Byte!Codes

LEMMA CodesOfCLR ==
  ASSUME codes \in Byte!Codes
  PROVE  Byte!Updated("CLR", 0, 0, 0, codes) \in Byte!Codes
<1>1. /\ Byte!GetCarryModifier("CLR") = "clear"
      /\ Byte!GetOverflowModifier("CLR") = "cleared"
      /\ Byte!GetExtendModifier("CLR") = "unaffected"
  BY DEF Byte!GetCarryModifier, Byte!GetOverflowModifier, Byte!GetExtendModifier
<1>2. Byte!GetZeroModifier("CLR") = "set_if_zero_clear_otherwise"
  BY DEF Byte!GetZeroModifier
<1>3. Byte!GetNegativeModifier("CLR") = "set_if_negative_clear_otherwise"
  BY DEF Byte!GetNegativeModifier
<1>4. Byte!Carry("CLR", 0, 0, 0, codes) = FALSE
  BY <1>1 DEF Byte!Carry
<1>5. Byte!Overflow("CLR", 0, 0, 0, codes) = FALSE
  BY <1>1 DEF Byte!Overflow
<1>6. Byte!Zero("CLR", 0, codes) \in BOOLEAN
  BY <1>2 DEF Byte!Zero
<1>7. Byte!Negative(0) \in BOOLEAN
  BY DEF Byte!Negative
<1>8. codes.X \in BOOLEAN
  BY DEF Byte!Codes
<1> QED
  BY <1>1, <1>3, <1>4, <1>5, <1>6, <1>7, <1>8 DEF Byte!Updated, Byte!Codes

LEMMA Conditions ==
  ASSUME NEW c \in Byte!Codes
  PROVE  /\ Byte!IsOpcodeConditionTrue(11, c) = c.N
         /\ Byte!IsOpcodeConditionTrue(6, c) = ~c.Z
         /\ Byte!IsOpcodeConditionTrue(1, c) = FALSE
BY DEF Byte!IsOpcodeConditionTrue, Byte!Codes

LEMMA TheBit ==
  ASSUME NEW n \in Numbers
  PROVE  BitNumber(n) = Top
BY SemaphoreAssumption DEF BitNumber

(***************************************************************************)
(* The steps: what the context that runs finds and leaves.                 *)
(***************************************************************************)

(* Instructions other than RTE touch only the context that runs. *)
Runs ==
  /\ lock' \subseteq 0 .. 7 /\ place' \in Places /\ codes' \in Byte!Codes
  /\ (place' = "return" => depth > 0)
  /\ UNCHANGED <<mask, depth, saved>>

(* It tries to take the lock. *)
Tries ==
  /\ Runs
  /\ ~HoldsAt(depth)
  /\ Top \in lock'
  /\ (HoldsAt(depth)' <=> (Top \notin lock))
  /\ (LostAt(depth)' <=> (Top \in lock))

(* It goes on with what it knows of the lock. *)
GoesOn ==
  /\ Runs
  /\ lock' = lock
  /\ (HoldsAt(depth)' <=> HoldsAt(depth))
  /\ ~LostAt(depth)'

(* It gives the lock back. *)
Gives ==
  /\ Runs
  /\ HoldsAt(depth)
  /\ Top \notin lock'
  /\ ~HoldsAt(depth)' /\ ~LostAt(depth)'

LEMMA StepTAS == LockTypeOK /\ TAS => Tries
<1> SUFFICES ASSUME LockTypeOK, TAS PROVE Tries
  OBVIOUS
<1>1. /\ place = "take" /\ place' = "BMI" /\ lock' = lock \cup {Top}
      /\ codes' = Cleared("TAS", Tested(lock)) /\ UNCHANGED <<mask, depth, saved>>
  BY DEF TAS
<1>2. codes \in Byte!Codes /\ lock \subseteq 0 .. 7
  BY DEF LockTypeOK
<1>3. codes' \in Byte!Codes /\ codes'.N = (Top \in lock)
  BY <1>1, <1>2, CodesOfTAS
<1>4. Runs
  BY <1>1, <1>2, <1>3 DEF Runs, Places, Top
<1>5. ~HoldsAt(depth)
  BY <1>1 DEF HoldsAt, InsideAt, WonAt, PlaceAt
<1>6. (HoldsAt(depth)' <=> (Top \notin lock)) /\ (LostAt(depth)' <=> (Top \in lock))
  BY <1>1, <1>3 DEF HoldsAt, InsideAt, WonAt, LostAt, PlaceAt, CodesAt
<1> QED
  BY <1>1, <1>4, <1>5, <1>6 DEF Tries

LEMMA StepBSET == LockTypeOK /\ BSET => Tries
<1> SUFFICES ASSUME LockTypeOK, BSET PROVE Tries
  OBVIOUS
<1>1. /\ place = "take" /\ place' = "BNE" /\ UNCHANGED <<mask, depth, saved>>
      /\ lock' = lock \cup {Top} /\ codes' = [codes EXCEPT !.Z = Top \notin lock]
  BY TheBit DEF BSET
<1>2. codes \in Byte!Codes /\ lock \subseteq 0 .. 7
  BY DEF LockTypeOK
<1>3. codes' \in Byte!Codes /\ codes'.Z = (Top \notin lock)
  BY <1>1, <1>2 DEF Byte!Codes
<1>4. Runs
  BY <1>1, <1>2, <1>3 DEF Runs, Places, Top
<1>5. ~HoldsAt(depth)
  BY <1>1 DEF HoldsAt, InsideAt, WonAt, PlaceAt
<1>6. (HoldsAt(depth)' <=> (Top \notin lock)) /\ (LostAt(depth)' <=> (Top \in lock))
  BY <1>1, <1>3 DEF HoldsAt, InsideAt, WonAt, LostAt, PlaceAt, CodesAt
<1> QED
  BY <1>1, <1>4, <1>5, <1>6 DEF Tries

LEMMA AwayIsPlace ==
  ASSUME LockTypeOK
  PROVE  Away \in {"take", "return"} /\ (Away = "return" => depth > 0)
BY DEF Away, LockTypeOK

LEMMA StepBranch == LockTypeOK /\ (BMI \/ BNE) => GoesOn
<1> SUFFICES ASSUME LockTypeOK, BMI \/ BNE PROVE GoesOn
  OBVIOUS
<1> DEFINE taken == IF place = "BMI" THEN codes.N ELSE ~codes.Z
<1>1. codes \in Byte!Codes /\ lock \subseteq 0 .. 7
  BY DEF LockTypeOK
<1>2. /\ place \in {"BMI", "BNE"} /\ place' = IF taken THEN Away ELSE "inside"
      /\ UNCHANGED <<lock, codes, mask, depth, saved>>
  BY <1>1, Conditions DEF BMI, BNE, Branch
<1>3. Runs
  BY <1>1, <1>2, AwayIsPlace DEF Runs, Places
<1>4. (HoldsAt(depth)' <=> HoldsAt(depth)) /\ ~LostAt(depth)'
  BY <1>2, AwayIsPlace DEF HoldsAt, InsideAt, WonAt, LostAt, PlaceAt, CodesAt
<1> QED
  BY <1>2, <1>3, <1>4 DEF GoesOn

LEMMA StepGiven == LockTypeOK /\ (CLR \/ BCLR \/ SF) => Gives
<1> SUFFICES ASSUME LockTypeOK, CLR \/ BCLR \/ SF PROVE Gives
  OBVIOUS
<1>1. codes \in Byte!Codes /\ lock \subseteq 0 .. 7
  BY DEF LockTypeOK
<1>2. place = "inside" /\ place' = Away /\ UNCHANGED <<mask, depth, saved>>
  BY DEF CLR, BCLR, SF, Given
<1>3. codes' \in Byte!Codes /\ lock' \subseteq 0 .. 7 /\ Top \notin lock'
  <2>1. CASE CLR
    BY <1>1, <2>1, CodesOfCLR DEF CLR
  <2>2. CASE BCLR
    <3>1. lock' = lock \ {Top} /\ codes' = [codes EXCEPT !.Z = Top \notin lock]
      BY <2>2, TheBit DEF BCLR
    <3> QED
      BY <1>1, <3>1 DEF Byte!Codes
  <2>3. CASE SF
    BY <1>1, <2>3, Conditions DEF SF
  <2> QED
    BY <2>1, <2>2, <2>3 DEF CLR, BCLR, SF
<1>4. Runs
  BY <1>1, <1>2, <1>3, AwayIsPlace DEF Runs, Places
<1>5. HoldsAt(depth) /\ ~HoldsAt(depth)' /\ ~LostAt(depth)'
  BY <1>2, AwayIsPlace DEF HoldsAt, InsideAt, WonAt, LostAt, PlaceAt, CodesAt
<1> QED
  BY <1>3, <1>4, <1>5 DEF Gives

(***************************************************************************)
(* The invariant.                                                          *)
(***************************************************************************)

LEMMA RunsKeepsTypes == LockTypeOK /\ Runs => LockTypeOK'
BY DEF Runs, LockTypeOK

(* The interrupted contexts are as they were. *)
LEMMA OthersKept ==
  ASSUME LockTypeOK, Runs
  PROVE  /\ depth' = depth /\ depth \in Nat
         /\ \A d \in 0 .. depth - 1 : (HoldsAt(d)' <=> HoldsAt(d)) /\ (LostAt(d)' <=> LostAt(d))
<1>1. depth' = depth /\ saved' = saved /\ depth \in Nat
  BY DEF Runs, LockTypeOK
<1>2. ASSUME NEW d \in 0 .. depth - 1
      PROVE  (HoldsAt(d)' <=> HoldsAt(d)) /\ (LostAt(d)' <=> LostAt(d))
  <2>1. PlaceAt(d)' = PlaceAt(d) /\ CodesAt(d)' = CodesAt(d)
    BY <1>1, <1>2 DEF PlaceAt, CodesAt
  <2> QED
    BY <2>1 DEF HoldsAt, LostAt, InsideAt, WonAt
<1> QED
  BY <1>1, <1>2

LEMMA TriesKeeps == Inv /\ Tries => Inv'
<1> SUFFICES ASSUME Inv, Tries PROVE Inv'
  OBVIOUS
<1>1. LockTypeOK /\ Runs /\ LockTypeOK'
  BY RunsKeepsTypes DEF Inv, Tries
<1>2. /\ depth' = depth /\ depth \in Nat
      /\ \A d \in 0 .. depth - 1 : (HoldsAt(d)' <=> HoldsAt(d)) /\ (LostAt(d)' <=> LostAt(d))
  BY <1>1, OthersKept
<1>3. /\ ~HoldsAt(depth) /\ Top \in lock'
      /\ (HoldsAt(depth)' <=> (Top \notin lock)) /\ (LostAt(depth)' <=> (Top \in lock))
  BY DEF Tries
<1>4. /\ \A d, e \in 0 .. depth : HoldsAt(d) /\ HoldsAt(e) => d = e
      /\ Top \in lock <=> \E d \in 0 .. depth : HoldsAt(d)
      /\ \A d \in 0 .. depth : LostAt(d) => \E e \in 0 .. d - 1 : HoldsAt(e)
  BY DEF Inv, OneHolds, TakenWhileHeld, LostToInterrupted
<1>5. CASE Top \in lock
  <2>1. PICK h \in 0 .. depth - 1 : HoldsAt(h)
    BY <1>2, <1>3, <1>4, <1>5
  <2>2. \A d \in 0 .. depth : (HoldsAt(d)' <=> HoldsAt(d))
    BY <1>2, <1>3, <1>5
  <2>3. \A d \in 0 .. depth : LostAt(d)' => \E e \in 0 .. d - 1 : HoldsAt(e)
    BY <1>2, <1>4, <2>1
  <2>4. OneHolds'
    BY <1>2, <1>4, <2>2 DEF OneHolds
  <2>5. TakenWhileHeld'
    BY <1>2, <1>3, <2>1, <2>2 DEF TakenWhileHeld
  <2>6. LostToInterrupted'
    BY <1>2, <2>2, <2>3 DEF LostToInterrupted
  <2> QED
    BY <1>1, <2>4, <2>5, <2>6 DEF Inv
<1>6. CASE Top \notin lock
  <2>1. \A d \in 0 .. depth - 1 : ~HoldsAt(d)' /\ ~LostAt(d)'
    BY <1>2, <1>4, <1>6
  <2>2. HoldsAt(depth)' /\ ~LostAt(depth)'
    BY <1>3, <1>6
  <2>3. OneHolds'
    BY <1>2, <2>1, <2>2 DEF OneHolds
  <2>4. TakenWhileHeld'
    BY <1>2, <1>3, <2>2 DEF TakenWhileHeld
  <2>5. LostToInterrupted'
    BY <1>2, <2>1, <2>2 DEF LostToInterrupted
  <2> QED
    BY <1>1, <2>3, <2>4, <2>5 DEF Inv
<1> QED
  BY <1>5, <1>6

LEMMA GoesOnKeeps == Inv /\ GoesOn => Inv'
<1> SUFFICES ASSUME Inv, GoesOn PROVE Inv'
  OBVIOUS
<1>1. LockTypeOK /\ Runs /\ LockTypeOK'
  BY RunsKeepsTypes DEF Inv, GoesOn
<1>2. /\ depth' = depth /\ depth \in Nat
      /\ \A d \in 0 .. depth - 1 : (HoldsAt(d)' <=> HoldsAt(d)) /\ (LostAt(d)' <=> LostAt(d))
  BY <1>1, OthersKept
<1>3. \A d \in 0 .. depth : (HoldsAt(d)' <=> HoldsAt(d)) /\ (LostAt(d)' => LostAt(d))
  BY <1>2 DEF GoesOn
<1>4. OneHolds'
  BY <1>2, <1>3 DEF Inv, OneHolds
<1>5. TakenWhileHeld'
  BY <1>2, <1>3 DEF Inv, TakenWhileHeld, GoesOn
<1>6. LostToInterrupted'
  BY <1>2, <1>3 DEF Inv, LostToInterrupted
<1> QED
  BY <1>1, <1>4, <1>5, <1>6 DEF Inv

LEMMA GivesKeeps == Inv /\ Gives => Inv'
<1> SUFFICES ASSUME Inv, Gives PROVE Inv'
  OBVIOUS
<1>1. LockTypeOK /\ Runs /\ LockTypeOK'
  BY RunsKeepsTypes DEF Inv, Gives
<1>2. /\ depth' = depth /\ depth \in Nat
      /\ \A d \in 0 .. depth - 1 : (HoldsAt(d)' <=> HoldsAt(d)) /\ (LostAt(d)' <=> LostAt(d))
  BY <1>1, OthersKept
<1>3. HoldsAt(depth) /\ Top \notin lock' /\ ~HoldsAt(depth)' /\ ~LostAt(depth)'
  BY DEF Gives
<1>4. \A d \in 0 .. depth - 1 : ~HoldsAt(d)
  BY <1>2, <1>3 DEF Inv, OneHolds
<1>5. \A d \in 0 .. depth : ~HoldsAt(d)' /\ ~LostAt(d)'
  BY <1>2, <1>3, <1>4 DEF Inv, LostToInterrupted
<1>6. OneHolds'
  BY <1>2, <1>5 DEF OneHolds
<1>7. TakenWhileHeld'
  BY <1>2, <1>3, <1>5 DEF TakenWhileHeld
<1>8. LostToInterrupted'
  BY <1>2, <1>5 DEF LostToInterrupted
<1> QED
  BY <1>1, <1>6, <1>7, <1>8 DEF Inv

(* The new context knows nothing of the lock; the one below is its frame.  *)
LEMMA InterruptKeeps == ASSUME NEW level \in Levels PROVE Inv /\ Interrupt(level) => Inv'
<1> SUFFICES ASSUME Inv, Interrupt(level) PROVE Inv'
  OBVIOUS
<1>1. LockTypeOK /\ depth \in Nat
  BY DEF Inv, LockTypeOK
<1>2. /\ saved' = [saved EXCEPT ![depth] = Frame] /\ depth' = depth + 1
      /\ place' = "take" /\ mask' = level /\ lock' = lock /\ codes' = codes
      /\ depth < MaxNesting
  BY DEF Interrupt
<1>3. depth \in 0 .. MaxNesting - 1 /\ Frame \in Frames /\ MaxNesting \in Nat
  BY <1>1, <1>2, SemaphoreAssumption DEF LockTypeOK, Frame, Frames
<1>4. saved' \in [0 .. MaxNesting - 1 -> Frames] /\ saved'[depth] = Frame
  BY <1>1, <1>2, <1>3 DEF LockTypeOK
<1>5. \A d \in 0 .. depth - 1 : saved'[d] = saved[d]
  BY <1>1, <1>2, <1>3 DEF LockTypeOK
<1>6. LockTypeOK'
  <2>1. \A d \in 0 .. depth' - 1 : saved'[d].place = "return" => d > 0
    <3>1. saved'[depth].place = place
      BY <1>4 DEF Frame
    <3> QED
      BY <1>1, <1>2, <1>5, <3>1 DEF LockTypeOK
  <2>2. level \in Masks
    BY SemaphoreAssumption DEF Masks
  <2> QED
    BY <1>1, <1>2, <1>3, <1>4, <2>1, <2>2 DEF LockTypeOK, Places
<1>7. \A d \in 0 .. depth : (HoldsAt(d)' <=> HoldsAt(d)) /\ (LostAt(d)' <=> LostAt(d))
  <2>1. ASSUME NEW d \in 0 .. depth
        PROVE  PlaceAt(d)' = PlaceAt(d) /\ CodesAt(d)' = CodesAt(d)
    <3>1. d # depth'
      BY <1>1, <1>2
    <3>2. PlaceAt(d)' = saved'[d].place /\ CodesAt(d)' = saved'[d].codes
      BY <3>1 DEF PlaceAt, CodesAt
    <3>3. CASE d = depth
      BY <1>4, <3>2, <3>3 DEF PlaceAt, CodesAt, Frame
    <3>4. CASE d # depth
      BY <1>1, <1>5, <3>2, <3>4 DEF PlaceAt, CodesAt
    <3> QED
      BY <3>3, <3>4
  <2> QED
    BY <2>1 DEF HoldsAt, LostAt, InsideAt, WonAt
<1>8. \A d : d = depth + 1 => ~HoldsAt(d)' /\ ~LostAt(d)'
  BY <1>1, <1>2 DEF HoldsAt, LostAt, InsideAt, WonAt, PlaceAt
<1>9. OneHolds'
  BY <1>1, <1>2, <1>7, <1>8 DEF Inv, OneHolds
<1>10. TakenWhileHeld'
  BY <1>1, <1>2, <1>7, <1>8 DEF Inv, TakenWhileHeld
<1>11. LostToInterrupted'
  BY <1>1, <1>2, <1>7, <1>8 DEF Inv, LostToInterrupted
<1> QED
  BY <1>6, <1>9, <1>10, <1>11 DEF Inv

(* A handler that returns has nothing of the lock. *)
LEMMA ReturnKeeps == Inv /\ RTE => Inv'
<1> SUFFICES ASSUME Inv, RTE PROVE Inv'
  OBVIOUS
<1>1. LockTypeOK /\ place = "return" /\ depth \in Nat /\ depth > 0 /\ depth - 1 \in 0 .. MaxNesting - 1
  BY SemaphoreAssumption DEF Inv, LockTypeOK, RTE
<1>2. /\ depth' = depth - 1 /\ place' = saved[depth - 1].place
      /\ codes' = saved[depth - 1].codes /\ mask' = saved[depth - 1].mask
      /\ lock' = lock /\ saved' = saved
  BY DEF RTE
<1>3. saved[depth - 1] \in Frames
  BY <1>1 DEF LockTypeOK
<1>4. LockTypeOK'
  <2>1. place' \in Places /\ codes' \in Byte!Codes /\ mask' \in Masks
    BY <1>2, <1>3 DEF Frames
  <2>2. depth' \in 0 .. MaxNesting /\ (place' = "return" => depth' > 0)
    <3>1. saved[depth - 1].place = "return" => depth - 1 > 0
      BY <1>1 DEF LockTypeOK
    <3>2. depth - 1 \in 0 .. MaxNesting
      BY <1>1, SemaphoreAssumption
    <3> QED
      BY <1>2, <3>1, <3>2
  <2>3. \A d \in 0 .. depth' - 1 : saved'[d].place = "return" => d > 0
    BY <1>1, <1>2 DEF LockTypeOK
  <2> QED
    BY <1>1, <1>2, <2>1, <2>2, <2>3 DEF LockTypeOK
<1>5. \A d \in 0 .. depth - 1 : (HoldsAt(d)' <=> HoldsAt(d)) /\ (LostAt(d)' <=> LostAt(d))
  <2>1. ASSUME NEW d \in 0 .. depth - 1
        PROVE  PlaceAt(d)' = PlaceAt(d) /\ CodesAt(d)' = CodesAt(d)
    BY <1>1, <1>2, <2>1 DEF PlaceAt, CodesAt
  <2> QED
    BY <2>1 DEF HoldsAt, LostAt, InsideAt, WonAt
<1>6. ~HoldsAt(depth)
  BY <1>1 DEF HoldsAt, InsideAt, WonAt, PlaceAt
<1>7. OneHolds'
  BY <1>1, <1>2, <1>5 DEF Inv, OneHolds
<1>8. TakenWhileHeld'
  BY <1>1, <1>2, <1>5, <1>6 DEF Inv, TakenWhileHeld
<1>9. LostToInterrupted'
  BY <1>1, <1>2, <1>5 DEF Inv, LostToInterrupted
<1> QED
  BY <1>4, <1>7, <1>8, <1>9 DEF Inv

LEMMA InitInv == LockInit => Inv
<1> SUFFICES ASSUME LockInit PROVE Inv
  OBVIOUS
<1>1. depth = 0 /\ place = "take" /\ Top \notin lock /\ lock \subseteq 0 .. 7
  BY DEF LockInit, Top
<1>2. LockTypeOK
  BY <1>1, SemaphoreAssumption
     DEF LockInit, LockTypeOK, Places, Masks, Frames, NoCodes, Byte!Codes
<1>3. ~HoldsAt(0) /\ ~LostAt(0)
  BY <1>1 DEF HoldsAt, LostAt, InsideAt, WonAt, PlaceAt
<1> QED
  BY <1>1, <1>2, <1>3 DEF Inv, OneHolds, TakenWhileHeld, LostToInterrupted

LEMMA NextInv == Inv /\ [LockNext]_lockVars => Inv'
<1>1. ASSUME Inv, TAS \/ BSET PROVE Inv'
  BY <1>1, StepTAS, StepBSET, TriesKeeps DEF Inv
<1>2. ASSUME Inv, BMI \/ BNE PROVE Inv'
  BY <1>2, StepBranch, GoesOnKeeps DEF Inv
<1>3. ASSUME Inv, CLR \/ BCLR \/ SF PROVE Inv'
  BY <1>3, StepGiven, GivesKeeps DEF Inv
<1>4. ASSUME Inv, RTE PROVE Inv'
  BY <1>4, ReturnKeeps
<1>5. ASSUME Inv, NEW level \in Levels, Interrupt(level) PROVE Inv'
  BY <1>5, InterruptKeeps
<1>6. ASSUME Inv, UNCHANGED lockVars PROVE Inv'
  BY <1>6 DEF lockVars, Inv, LockTypeOK, OneHolds, TakenWhileHeld, LostToInterrupted, HoldsAt, LostAt,
              InsideAt, WonAt, PlaceAt, CodesAt
<1> QED
  BY <1>1, <1>2, <1>3, <1>4, <1>5, <1>6 DEF LockNext

LEMMA Invariant == LockSpec => []Inv
<1> QED
  BY InitInv, NextInv, PTL DEF LockSpec

(***************************************************************************)
(* The theorems.                                                           *)
(***************************************************************************)

(* The lock stays a byte, and only handlers execute RTE. *)
THEOREM LockTyped == LockSpec => []LockTypeOK
<1>1. Inv => LockTypeOK
  BY DEF Inv
<1> QED
  BY <1>1, Invariant, PTL

(* TAS, BSET, the branches on their codes, and exception frames that keep  *)
(* these codes exclude one another from what the lock guards.              *)
THEOREM MutualExclusion == LockSpec => []OneInside
<1>1. Inv => OneInside
  BY DEF Inv, OneHolds, OneInside, HoldsAt
<1> QED
  BY <1>1, Invariant, PTL

(* The lock is not lost: it is free unless somebody holds it. *)
THEOREM LockGivenBack == LockSpec => []TakenWhileHeld
<1>1. Inv => TakenWhileHeld
  BY DEF Inv
<1> QED
  BY <1>1, Invariant, PTL

(* Only handlers find the lock taken, by what they have interrupted. *)
THEOREM ProgramNeverWaits == LockSpec => []LostToInterrupted
<1>1. Inv => LostToInterrupted
  BY DEF Inv
<1> QED
  BY <1>1, Invariant, PTL

(***************************************************************************)
(* Procedures: what the stack holds, item by item, whatever memory is like *)
(* elsewhere.                                                              *)
(***************************************************************************)

KindNames == {"return", "codes", "frame", "local", "data"}

ItemSet == [kind : KindNames, bytes : Nat]

Below(its, k) == IF k \in DOMAIN its THEN its[k].bytes ELSE 0

AddressIn(its, k) == Wrap(Base - Below(its, k))

(* An address is that of the next frame from an item downwards. *)
FrameAt(its, a, from, k) ==
  /\ k \in from .. Len(its) /\ its[k].kind = "frame" /\ a = AddressIn(its, k)
  /\ \A j \in from .. k - 1 : its[j].kind # "frame"

NoFrame(its, from) == \A j \in from .. Len(its) : its[j].kind # "frame"

Chained(its, a, from) ==
  \/ \E k \in from .. Len(its) : FrameAt(its, a, from, k)
  \/ a = OuterFrame /\ NoFrame(its, from)

(* The items lie one behind the other. *)
InOrder(its) ==
  /\ its \in Seq(ItemSet) /\ Len(its) <= MaxItems
  /\ \A k \in 1 .. Len(its) :
       /\ its[k].bytes % 2 = 0 /\ its[k].bytes <= 4 * (Len(its) + 1 - k)
       /\ its[k].bytes = Below(its, k + 1) + SizeOf(its[k].kind)
  /\ \A j \in 1 .. Len(its), k \in 1 .. Len(its) :
       j < k => its[j].bytes >= its[k].bytes + SizeOf(its[j].kind)

(* What they hold. *)
Holds(its, m, k) ==
  CASE its[k].kind = "return" -> ReadLongWord(m, AddressIn(its, k)) \in Code
    [] its[k].kind = "codes" -> ReadByte(m, AddressIn(its, k) + 1) \in CCR
    [] its[k].kind = "frame" -> Chained(its, ReadLongWord(m, AddressIn(its, k)), k + 1)
    [] its[k].kind \in {"local", "data"} -> TRUE

Sound(its, m, frame) ==
  /\ InOrder(its) /\ m \in Memories
  /\ \A k \in 1 .. Len(its) : Holds(its, m, k)
  /\ Chained(its, frame, 1)

DepthIn(its, a) ==
  IF \E k \in DOMAIN its : AddressIn(its, k) = a
  THEN Len(its) + 1 - CHOOSE k \in DOMAIN its : AddressIn(its, k) = a
  ELSE 0

ValueIn(its, m, k) ==
  CASE its[k].kind = "codes" -> ReadByte(m, AddressIn(its, k) + 1)
    [] its[k].kind = "frame" -> DepthIn(its, ReadLongWord(m, AddressIn(its, k)))
    [] its[k].kind \notin {"codes", "frame"} -> ReadLongWord(m, AddressIn(its, k))

StackOf(its, m) == [k \in DOMAIN its |-> [kind |-> its[k].kind, value |-> ValueIn(its, m, k)]]

(* Both pointers and the items fit together.                               *)
CallInv ==
  /\ Sound(items, memory, A6) /\ A7 = AddressIn(items, 1)
  /\ address_error \in BOOLEAN /\ condition_codes \in CCR

(***************************************************************************)
(* The places of items.                                                    *)
(***************************************************************************)

LEMMA StackNumbers ==
  /\ Base \in Int /\ Base % 2 = 0 /\ OuterFrame \in Int
  /\ MaxItems \in Nat /\ 2 * MaxItems < MemoryWords
  /\ MemoryWords \in Nat /\ 2 * MemoryWords <= LongValues /\ LongValues \in Nat
<1>1. Base \in Int /\ OuterFrame \in Int /\ Base % 2 # 1
  BY SubroutinesAssumption, BusNumbers DEF LongRange, Odd
<1>2. Base % 2 = 0
  BY <1>1
<1>3. PICK q \in Nat : q >= 1 /\ LongValues = q * (2 * MemoryWords)
  BY BusNumbers
<1>4. q * (2 * MemoryWords) >= 2 * MemoryWords
  BY <1>3, BusNumbers
<1> QED
  BY <1>1, <1>2, <1>3, <1>4, SubroutinesAssumption, BusNumbers

(* Even addresses not too far apart are in different words. *)
LEMMA EvenApart ==
  ASSUME NEW x \in Int, NEW y \in Int, x % 2 = 0, y % 2 = 0, x # y,
         x - y < 2 * MemoryWords, y - x < 2 * MemoryWords
  PROVE  WordIndex(x) # WordIndex(y)
<1>1. x = 2 * (x \div 2) /\ y = 2 * (y \div 2) /\ x \div 2 \in Int /\ y \div 2 \in Int
  BY HalfOf
<1>2. SUFFICES ASSUME WordIndex(x) = WordIndex(y)  PROVE FALSE
  OBVIOUS
<1>3. (x \div 2) - (y \div 2) < MemoryWords /\ (y \div 2) - (x \div 2) < MemoryWords
  BY <1>1, BusNumbers
<1>4. x \div 2 = y \div 2
  BY <1>2, <1>3, IndicesApart
<1> QED
  BY <1>1, <1>4

(* The numbers of one item. *)
LEMMA ItemNumbers ==
  ASSUME NEW its, InOrder(its), NEW k \in 1 .. Len(its)
  PROVE  /\ Len(its) \in Nat /\ Len(its) <= MaxItems /\ DOMAIN its = 1 .. Len(its)
         /\ its[k] \in ItemSet /\ its[k].kind \in KindNames /\ its[k].bytes \in Nat
         /\ Below(its, k) = its[k].bytes /\ Below(its, k) \in Nat /\ Below(its, k) % 2 = 0
         /\ Below(its, k) <= 4 * (Len(its) + 1 - k)
         /\ Below(its, k) = Below(its, k + 1) + SizeOf(its[k].kind)
         /\ Below(its, k) >= SizeOf(its[k].kind)
         /\ SizeOf(its[k].kind) \in {2, 4}
         /\ (SizeOf(its[k].kind) = 2 <=> its[k].kind = "codes")
<1>1. its \in Seq(ItemSet) /\ Len(its) <= MaxItems
  BY DEF InOrder
<1>2. Len(its) \in Nat /\ DOMAIN its = 1 .. Len(its) /\ its[k] \in ItemSet
  BY <1>1, LenProperties, ElementOfSeq
<1>3. its[k].kind \in KindNames /\ its[k].bytes \in Nat
  BY <1>2 DEF ItemSet
<1>4. Below(its, k) = its[k].bytes
  BY <1>2 DEF Below
<1>5. /\ its[k].bytes % 2 = 0 /\ its[k].bytes <= 4 * (Len(its) + 1 - k)
      /\ its[k].bytes = Below(its, k + 1) + SizeOf(its[k].kind)
  BY DEF InOrder
<1>6. Below(its, k + 1) \in Nat
  <2>1. CASE k + 1 \in DOMAIN its
    <3>1. its[k + 1] \in ItemSet
      BY <1>1, <1>2, <2>1, ElementOfSeq
    <3> QED
      BY <2>1, <3>1 DEF Below, ItemSet
  <2>2. CASE k + 1 \notin DOMAIN its
    BY <2>2 DEF Below
  <2> QED
    BY <2>1, <2>2
<1>7. SizeOf(its[k].kind) \in {2, 4} /\ (SizeOf(its[k].kind) = 2 <=> its[k].kind = "codes")
  BY DEF SizeOf
<1> QED
  BY <1>1, <1>2, <1>3, <1>4, <1>5, <1>6, <1>7

(* The same of the end of the stack, which is where the next item goes.    *)
LEMMA TopNumbers ==
  ASSUME NEW its, InOrder(its)
  PROVE  /\ its \in Seq(ItemSet) /\ Len(its) \in Nat /\ Len(its) <= MaxItems
         /\ DOMAIN its = 1 .. Len(its)
         /\ Below(its, 1) \in Nat /\ Below(its, 1) % 2 = 0 /\ Below(its, 1) <= 4 * Len(its)
         /\ \A k \in 1 .. Len(its) : its[k].bytes <= Below(its, 1)
         /\ (its = <<>> <=> Len(its) = 0)
<1>1. its \in Seq(ItemSet) /\ Len(its) <= MaxItems
  BY DEF InOrder
<1>2. Len(its) \in Nat /\ DOMAIN its = 1 .. Len(its)
  BY <1>1, LenProperties
<1>3. its = <<>> <=> Len(its) = 0
  BY <1>1, EmptySeq
<1>4. CASE Len(its) = 0
  BY <1>1, <1>2, <1>3, <1>4 DEF Below
<1>5. CASE Len(its) # 0
  <2>1. 1 \in 1 .. Len(its)
    BY <1>2, <1>5
  <2>2. /\ Below(its, 1) = its[1].bytes /\ Below(its, 1) \in Nat /\ Below(its, 1) % 2 = 0
        /\ Below(its, 1) <= 4 * (Len(its) + 1 - 1)
    BY <2>1, ItemNumbers
  <2>3. ASSUME NEW k \in 1 .. Len(its)  PROVE its[k].bytes <= Below(its, 1)
    <3>1. CASE k = 1
      BY <2>2, <3>1
    <3>2. CASE k # 1
      <4>1. its[1].bytes >= its[k].bytes + SizeOf(its[1].kind)
        BY <1>2, <2>1, <3>2 DEF InOrder
      <4>2. SizeOf(its[1].kind) \in {2, 4} /\ its[k].bytes \in Nat
        BY <2>1, ItemNumbers
      <4> QED
        BY <2>2, <4>1, <4>2
    <3> QED
      BY <3>1, <3>2
  <2> QED
    BY <1>1, <1>2, <1>3, <2>2, <2>3
<1> QED
  BY <1>2, <1>4, <1>5

(* Bytes below the base, and the words they are in. *)
LEMMA WordsBelow ==
  ASSUME NEW b \in Nat, NEW c \in Nat, b % 2 = 0, c % 2 = 0, b <= 4 * MaxItems,
         c <= 4 * MaxItems
  PROVE  /\ WordIndex(Wrap(Base - b)) = WordIndex(Base - b)
         /\ WordIndex(Wrap(Base - b) + 2) = WordIndex(Base - b + 2)
         /\ WordIndex(Wrap(Base - b) + 1) = WordIndex(Base - b)
         /\ ~Odd(Wrap(Base - b)) /\ Odd(Wrap(Base - b) + 1)
         /\ (b > c /\ c > 0 => WordIndex(Base - b) # WordIndex(Base - c))
         /\ (b > c /\ c >= 2 => WordIndex(Base - b) # WordIndex(Base - c + 2))
         /\ (b > c + 2 => WordIndex(Base - b + 2) # WordIndex(Base - c))
         /\ (b > c /\ c >= 4 => WordIndex(Base - b + 2) # WordIndex(Base - c + 2))
<1> USE StackNumbers
<1>1. Base - b \in Int /\ Base - c \in Int /\ (Base - b) % 2 = 0 /\ (Base - c) % 2 = 0
  OBVIOUS
<1> DEFINE x == Base - b
           y == Base - c
<1>2. x \in Int /\ y \in Int /\ x % 2 = 0 /\ y % 2 = 0 /\ (x + 2) % 2 = 0 /\ (y + 2) % 2 = 0
  BY <1>1
<1>3. /\ WordIndex(Wrap(x)) = WordIndex(x) /\ WordIndex(Wrap(x) + 2) = WordIndex(x + 2)
      /\ Odd(Wrap(x)) = Odd(x)
  BY <1>2, ReadsWrap
<1>4. ~Odd(Wrap(x))
  BY <1>2, <1>3 DEF Odd
<1>5. Wrap(x) \in Int
  BY <1>2, WrapRange
<1>6. (Wrap(x) + 1) \div 2 = Wrap(x) \div 2 /\ Odd(Wrap(x) + 1)
  BY <1>4, <1>5 DEF Odd
<1>7. WordIndex(Wrap(x) + 1) = WordIndex(x)
  BY <1>3, <1>6 DEF WordIndex
<1>8. y - x < 2 * MemoryWords /\ x - y < 2 * MemoryWords
  OBVIOUS
<1>9. b > c /\ c > 0 => WordIndex(x) # WordIndex(y)
  BY <1>2, <1>8, EvenApart
<1>10. b > c /\ c >= 2 => WordIndex(x) # WordIndex(y + 2)
  <2>1. SUFFICES ASSUME b > c, c >= 2  PROVE WordIndex(x) # WordIndex(y + 2)
    OBVIOUS
  <2>2. x # y + 2 /\ x - (y + 2) < 2 * MemoryWords /\ (y + 2) - x < 2 * MemoryWords
        /\ y + 2 \in Int
    BY <2>1
  <2> HIDE DEF x, y
  <2> QED
    BY <1>2, <2>2, EvenApart
<1>11. b > c + 2 => WordIndex(x + 2) # WordIndex(y)
  <2>1. SUFFICES ASSUME b > c + 2  PROVE WordIndex(x + 2) # WordIndex(y)
    OBVIOUS
  <2>2. x + 2 # y /\ (x + 2) - y < 2 * MemoryWords /\ y - (x + 2) < 2 * MemoryWords
        /\ x + 2 \in Int
    BY <2>1
  <2> HIDE DEF x, y
  <2> QED
    BY <1>2, <2>2, EvenApart
<1>12. b > c /\ c >= 4 => WordIndex(x + 2) # WordIndex(y + 2)
  <2>1. SUFFICES ASSUME b > c  PROVE WordIndex(x + 2) # WordIndex(y + 2)
    OBVIOUS
  <2>2. /\ x + 2 # y + 2 /\ (x + 2) - (y + 2) < 2 * MemoryWords
        /\ (y + 2) - (x + 2) < 2 * MemoryWords /\ x + 2 \in Int /\ y + 2 \in Int
    BY <2>1
  <2> HIDE DEF x, y
  <2> QED
    BY <1>2, <2>2, EvenApart
<1> HIDE DEF x, y
<1> QED
  BY <1>3, <1>4, <1>6, <1>7, <1>9, <1>10, <1>11, <1>12 DEF x, y

(* The words an item is in, of which no two items share one. *)
WordsOf(its, k) ==
  IF its[k].kind = "codes" THEN {WordIndex(AddressIn(its, k))}
  ELSE {WordIndex(AddressIn(its, k)), WordIndex(AddressIn(its, k) + 2)}

LEMMA WordsInOrder ==
  ASSUME NEW its, InOrder(its), NEW j \in 1 .. Len(its), NEW k \in 1 .. Len(its), j < k
  PROVE  WordsOf(its, j) \cap WordsOf(its, k) = {}
<1> DEFINE b == Below(its, j)
           c == Below(its, k)
<1>1. /\ b = its[j].bytes /\ c = its[k].bytes /\ b \in Nat /\ c \in Nat
      /\ b % 2 = 0 /\ c % 2 = 0 /\ b <= 4 * MaxItems /\ c <= 4 * MaxItems
  BY ItemNumbers, StackNumbers
<1>2. b >= c + SizeOf(its[j].kind)
  BY <1>1 DEF InOrder
<1>3. /\ c >= SizeOf(its[k].kind)
      /\ SizeOf(its[j].kind) = IF its[j].kind = "codes" THEN 2 ELSE 4
      /\ SizeOf(its[k].kind) = IF its[k].kind = "codes" THEN 2 ELSE 4
  BY ItemNumbers DEF SizeOf
<1>4. AddressIn(its, j) = Wrap(Base - b) /\ AddressIn(its, k) = Wrap(Base - c)
  BY DEF AddressIn
<1> HIDE DEF b, c
<1>5. /\ WordIndex(Wrap(Base - b)) = WordIndex(Base - b)
      /\ WordIndex(Wrap(Base - b) + 2) = WordIndex(Base - b + 2)
      /\ (b > c /\ c > 0 => WordIndex(Base - b) # WordIndex(Base - c))
      /\ (b > c /\ c >= 2 => WordIndex(Base - b) # WordIndex(Base - c + 2))
      /\ (b > c + 2 => WordIndex(Base - b + 2) # WordIndex(Base - c))
      /\ (b > c /\ c >= 4 => WordIndex(Base - b + 2) # WordIndex(Base - c + 2))
  BY <1>1, WordsBelow
<1>6. /\ WordIndex(Wrap(Base - c)) = WordIndex(Base - c)
      /\ WordIndex(Wrap(Base - c) + 2) = WordIndex(Base - c + 2)
  BY <1>1, WordsBelow
<1>7. b > c /\ c >= 2 /\ (its[j].kind # "codes" => b > c + 2)
      /\ (its[k].kind # "codes" => c >= 4)
  BY <1>1, <1>2, <1>3
<1>8. /\ WordIndex(Base - b) # WordIndex(Base - c)
      /\ WordIndex(Base - b) # WordIndex(Base - c + 2)
      /\ (its[j].kind # "codes" => WordIndex(Base - b + 2) # WordIndex(Base - c))
      /\ (its[j].kind # "codes" /\ its[k].kind # "codes" =>
            WordIndex(Base - b + 2) # WordIndex(Base - c + 2))
  BY <1>1, <1>5, <1>7
<1> QED
  BY <1>4, <1>5, <1>6, <1>8, Zenon DEF WordsOf

LEMMA WordsApart ==
  ASSUME NEW its, InOrder(its), NEW j \in 1 .. Len(its), NEW k \in 1 .. Len(its), j # k
  PROVE  WordsOf(its, j) \cap WordsOf(its, k) = {}
<1>1. Len(its) \in Nat
  BY TopNumbers
<1>2. CASE j < k
  BY <1>2, WordsInOrder
<1>3. CASE k < j
  BY <1>3, WordsInOrder
<1> QED
  BY <1>1, <1>2, <1>3

(* An address is of one item at most, and the frame there is at first is   *)
(* none of them.                                                           *)
LEMMA AddressesApart ==
  ASSUME NEW its, InOrder(its), NEW k \in 1 .. Len(its)
  PROVE  /\ AddressIn(its, k) # OuterFrame
         /\ \A j \in 1 .. Len(its) : AddressIn(its, j) = AddressIn(its, k) => j = k
<1>1. /\ Below(its, k) \in Nat /\ Below(its, k) >= 2 /\ Below(its, k) <= 4 * MaxItems
  BY ItemNumbers, StackNumbers
<1>2. \A bytes \in 1 .. 4 * MaxItems : OuterFrame # Wrap(Base - bytes)
  BY SubroutinesAssumption
<1>3. AddressIn(its, k) # OuterFrame
  BY <1>1, <1>2, StackNumbers DEF AddressIn
<1>4. ASSUME NEW j \in 1 .. Len(its), AddressIn(its, j) = AddressIn(its, k), j # k
      PROVE  FALSE
  <2>1. WordsOf(its, j) \cap WordsOf(its, k) = {}
    BY <1>4, WordsApart
  <2> QED
    BY <1>4, <2>1 DEF WordsOf
<1> QED
  BY <1>3, <1>4

LEMMA DepthOfItem ==
  ASSUME NEW its, InOrder(its)
  PROVE  /\ DepthIn(its, OuterFrame) = 0
         /\ \A k \in 1 .. Len(its) : DepthIn(its, AddressIn(its, k)) = Len(its) + 1 - k
<1>1. DOMAIN its = 1 .. Len(its)
  BY TopNumbers
<1>2. DepthIn(its, OuterFrame) = 0
  BY <1>1, AddressesApart DEF DepthIn
<1>3. ASSUME NEW k \in 1 .. Len(its)
      PROVE  DepthIn(its, AddressIn(its, k)) = Len(its) + 1 - k
  <2>1. \A j \in DOMAIN its : AddressIn(its, j) = AddressIn(its, k) => j = k
    BY <1>1, AddressesApart
  <2>2. (CHOOSE j \in DOMAIN its : AddressIn(its, j) = AddressIn(its, k)) = k
    BY <1>1, <2>1
  <2> QED
    BY <1>1, <2>2 DEF DepthIn
<1> QED
  BY <1>2, <1>3

(***************************************************************************)
(* A stack and the same with more on it.                                   *)
(***************************************************************************)

Over(long, short, c) ==
  /\ InOrder(long) /\ InOrder(short) /\ c \in Nat /\ Len(long) = Len(short) + c
  /\ \A k \in 1 .. Len(short) : long[k + c] = short[k]

LEMMA SamePlaces ==
  ASSUME NEW long, NEW short, NEW c, Over(long, short, c)
  PROVE  /\ \A k \in 1 .. Len(short) :
              /\ k + c \in 1 .. Len(long) /\ long[k + c] = short[k]
              /\ AddressIn(long, k + c) = AddressIn(short, k)
         /\ AddressIn(long, 1 + c) = AddressIn(short, 1)
<1>1. /\ Len(short) \in Nat /\ DOMAIN short = 1 .. Len(short)
      /\ DOMAIN long = 1 .. Len(long) /\ Len(long) = Len(short) + c /\ c \in Nat
      /\ \A k \in 1 .. Len(short) : long[k + c] = short[k]
  BY TopNumbers DEF Over
<1>2. ASSUME NEW k \in 1 .. Len(short)
      PROVE  k + c \in 1 .. Len(long) /\ AddressIn(long, k + c) = AddressIn(short, k)
  <2>1. k + c \in 1 .. Len(long)
    BY <1>1
  <2>2. Below(long, k + c) = Below(short, k)
    BY <1>1, <2>1 DEF Below
  <2> QED
    BY <2>1, <2>2 DEF AddressIn
<1>3. AddressIn(long, 1 + c) = AddressIn(short, 1)
  <2>1. CASE Len(short) = 0
    <3>1. 1 + c \notin DOMAIN long /\ 1 \notin DOMAIN short
      BY <1>1, <2>1
    <3> QED
      BY <3>1 DEF AddressIn, Below
  <2>2. CASE Len(short) # 0
    BY <1>1, <1>2, <2>2
  <2> QED
    BY <2>1, <2>2
<1> QED
  BY <1>1, <1>2, <1>3

LEMMA SameChain ==
  ASSUME NEW long, NEW short, NEW c, Over(long, short, c),
         NEW a, NEW from \in Nat \ {0}
  PROVE  /\ Chained(long, a, from + c) <=> Chained(short, a, from)
         /\ Chained(short, a, from) => DepthIn(long, a) = DepthIn(short, a)
<1>1. /\ Len(short) \in Nat /\ Len(long) = Len(short) + c /\ c \in Nat
      /\ InOrder(long) /\ InOrder(short)
  BY TopNumbers DEF Over
<1>2. \A k \in 1 .. Len(short) :
        /\ k + c \in 1 .. Len(long) /\ long[k + c] = short[k]
        /\ AddressIn(long, k + c) = AddressIn(short, k)
  BY SamePlaces
<1>3. NoFrame(long, from + c) <=> NoFrame(short, from)
  <2>1. ASSUME NoFrame(long, from + c)  PROVE NoFrame(short, from)
    <3> SUFFICES ASSUME NEW j \in from .. Len(short)  PROVE short[j].kind # "frame"
      BY DEF NoFrame
    <3>1. j + c \in from + c .. Len(long) /\ long[j + c] = short[j]
      BY <1>1, <1>2
    <3> QED
      BY <2>1, <3>1 DEF NoFrame
  <2>2. ASSUME NoFrame(short, from)  PROVE NoFrame(long, from + c)
    <3> SUFFICES ASSUME NEW j \in from + c .. Len(long)  PROVE long[j].kind # "frame"
      BY DEF NoFrame
    <3>1. /\ j - c \in from .. Len(short) /\ j - c \in 1 .. Len(short) /\ (j - c) + c = j
      BY <1>1
    <3>2. long[j] = short[j - c]
      BY <1>2, <3>1
    <3> QED
      BY <2>2, <3>1, <3>2 DEF NoFrame
  <2> QED
    BY <2>1, <2>2
<1>4. \A k \in 1 .. Len(short) : FrameAt(long, a, from + c, k + c) <=> FrameAt(short, a, from, k)
  <2> SUFFICES ASSUME NEW k \in 1 .. Len(short)
               PROVE  FrameAt(long, a, from + c, k + c) <=> FrameAt(short, a, from, k)
    OBVIOUS
  <2>1. /\ k + c \in from + c .. Len(long) <=> k \in from .. Len(short)
        /\ long[k + c] = short[k] /\ AddressIn(long, k + c) = AddressIn(short, k)
    BY <1>1, <1>2
  <2>2. (\A j \in from + c .. k + c - 1 : long[j].kind # "frame")
          <=> (\A j \in from .. k - 1 : short[j].kind # "frame")
    <3>1. ASSUME \A j \in from + c .. k + c - 1 : long[j].kind # "frame", NEW j \in from .. k - 1
          PROVE  short[j].kind # "frame"
      <4>1. j + c \in from + c .. k + c - 1 /\ j \in 1 .. Len(short)
        BY <1>1
      <4> QED
        BY <1>2, <3>1, <4>1
    <3>2. ASSUME \A j \in from .. k - 1 : short[j].kind # "frame", NEW j \in from + c .. k + c - 1
          PROVE  long[j].kind # "frame"
      <4>1. j - c \in from .. k - 1 /\ j - c \in 1 .. Len(short) /\ (j - c) + c = j
        BY <1>1
      <4>2. long[j] = short[j - c]
        BY <1>2, <4>1
      <4> QED
        BY <3>2, <4>1, <4>2
    <3> QED
      BY <3>1, <3>2
  <2>3. FrameAt(long, a, from + c, k + c)
          <=> /\ k \in from .. Len(short) /\ short[k].kind = "frame" /\ a = AddressIn(short, k)
              /\ \A j \in from + c .. k + c - 1 : long[j].kind # "frame"
    BY <1>1, <2>1 DEF FrameAt
  <2> QED
    BY <2>2, <2>3, Zenon DEF FrameAt
<1>5. ASSUME NEW k \in from + c .. Len(long)
      PROVE  k - c \in 1 .. Len(short) /\ k - c \in from .. Len(short) /\ (k - c) + c = k
  BY <1>1
<1>6. Chained(long, a, from + c) <=> Chained(short, a, from)
  <2>1. ASSUME Chained(long, a, from + c)  PROVE Chained(short, a, from)
    <3>1. CASE a = OuterFrame /\ NoFrame(long, from + c)
      BY <1>3, <3>1 DEF Chained
    <3>2. CASE \E k \in from + c .. Len(long) : FrameAt(long, a, from + c, k)
      <4>1. PICK k \in from + c .. Len(long) : FrameAt(long, a, from + c, k)
        BY <3>2
      <4>2. FrameAt(short, a, from, k - c)
        BY <1>4, <1>5, <4>1
      <4> QED
        BY <1>5, <4>2 DEF Chained
    <3> QED
      BY <2>1, <3>1, <3>2 DEF Chained
  <2>2. ASSUME Chained(short, a, from)  PROVE Chained(long, a, from + c)
    <3>1. CASE a = OuterFrame /\ NoFrame(short, from)
      BY <1>3, <3>1 DEF Chained
    <3>2. CASE \E k \in from .. Len(short) : FrameAt(short, a, from, k)
      <4>1. PICK k \in from .. Len(short) : FrameAt(short, a, from, k)
        BY <3>2
      <4>2. k \in 1 .. Len(short) /\ k + c \in from + c .. Len(long)
        BY <1>1
      <4>3. FrameAt(long, a, from + c, k + c)
        BY <1>4, <4>1, <4>2
      <4> QED
        BY <4>2, <4>3 DEF Chained
    <3> QED
      BY <2>2, <3>1, <3>2 DEF Chained
  <2> QED
    BY <2>1, <2>2
<1>7. ASSUME Chained(short, a, from)  PROVE DepthIn(long, a) = DepthIn(short, a)
  <2>1. CASE a = OuterFrame
    BY <1>1, <2>1, DepthOfItem
  <2>2. CASE \E k \in from .. Len(short) : FrameAt(short, a, from, k)
    <3>1. PICK k \in from .. Len(short) : FrameAt(short, a, from, k)
      BY <2>2
    <3>2. k \in 1 .. Len(short) /\ a = AddressIn(short, k) /\ k \in Int
      BY <1>1, <3>1 DEF FrameAt
    <3>3. k + c \in 1 .. Len(long) /\ a = AddressIn(long, k + c)
      BY <1>2, <3>2
    <3>4. DepthIn(short, a) = Len(short) + 1 - k
      BY <1>1, <3>2, DepthOfItem
    <3>5. DepthIn(long, a) = Len(long) + 1 - (k + c)
      BY <1>1, <3>3, DepthOfItem
    <3> QED
      BY <1>1, <3>2, <3>4, <3>5
  <2> QED
    BY <1>7, <2>1, <2>2 DEF Chained
<1> QED
  BY <1>6, <1>7

LEMMA SameWords ==
  ASSUME NEW its, InOrder(its), NEW k \in 1 .. Len(its), NEW m \in Memories,
         NEW n \in Memories,
         \A w \in WordsOf(its, k) : n[w] = m[w]
  PROVE  /\ AddressIn(its, k) \in Int
         /\ (its[k].kind = "codes" =>
               ReadByte(n, AddressIn(its, k) + 1) = ReadByte(m, AddressIn(its, k) + 1))
         /\ (its[k].kind # "codes" =>
               ReadLongWord(n, AddressIn(its, k)) = ReadLongWord(m, AddressIn(its, k)))
<1> DEFINE a == AddressIn(its, k)
           b == Below(its, k)
<1>1. b \in Nat /\ b % 2 = 0 /\ b <= 4 * MaxItems /\ 4 * MaxItems \in Nat
      /\ Base - b \in Int
  BY ItemNumbers, StackNumbers
<1>2. a = Wrap(Base - b)
  BY DEF AddressIn
<1> HIDE DEF b
<1>3. a \in Int
  BY <1>1, <1>2, WrapRange
<1>4. WordIndex(Wrap(Base - b) + 1) = WordIndex(Base - b)
      /\ WordIndex(Wrap(Base - b)) = WordIndex(Base - b)
  BY <1>1, WordsBelow
<1>5. WordIndex(a + 1) = WordIndex(a)
  BY <1>2, <1>4
<1>6. ASSUME its[k].kind = "codes"  PROVE ReadByte(n, a + 1) = ReadByte(m, a + 1)
  <2>1. n[WordIndex(a)] = m[WordIndex(a)]
    BY <1>6 DEF WordsOf
  <2> QED
    BY <1>5, <2>1, Zenon DEF ReadByte
<1>7. ASSUME its[k].kind # "codes"  PROVE ReadLongWord(n, a) = ReadLongWord(m, a)
  <2>1. n[WordIndex(a)] = m[WordIndex(a)] /\ n[WordIndex(a + 2)] = m[WordIndex(a + 2)]
    BY <1>7, Zenon DEF WordsOf
  <2> HIDE DEF a
  <2> QED
    BY <1>3, <2>1, LongRead
<1> QED
  BY <1>3, <1>6, <1>7

(* What is on the stack means the same with more on it. *)
LEMMA SameValues ==
  ASSUME NEW long, NEW short, NEW c, Over(long, short, c), NEW k \in 1 .. Len(short),
         NEW m \in Memories, NEW n \in Memories, \A w \in WordsOf(short, k) : n[w] = m[w]
  PROVE  /\ Holds(long, n, k + c) <=> Holds(short, m, k)
         /\ Holds(short, m, k) => ValueIn(long, n, k + c) = ValueIn(short, m, k)
<1> DEFINE a == AddressIn(short, k)
<1>1. /\ InOrder(short) /\ c \in Nat /\ k \in Nat \ {0} /\ k + 1 \in Nat \ {0}
      /\ k + c + 1 = k + 1 + c
  <2>1. Len(short) \in Nat /\ c \in Nat /\ InOrder(short)
    BY TopNumbers DEF Over
  <2> QED
    BY <2>1
<1>2. long[k + c] = short[k] /\ AddressIn(long, k + c) = a
  BY SamePlaces
<1>3. /\ short[k].kind = "codes" => ReadByte(n, a + 1) = ReadByte(m, a + 1)
      /\ short[k].kind # "codes" => ReadLongWord(n, a) = ReadLongWord(m, a)
  BY <1>1, SameWords
<1>4. short[k].kind \in KindNames
  BY <1>1, ItemNumbers
<1> DEFINE old == ReadLongWord(m, a)
<1>5. /\ Chained(long, old, k + 1 + c) <=> Chained(short, old, k + 1)
      /\ Chained(short, old, k + 1) => DepthIn(long, old) = DepthIn(short, old)
  BY <1>1, SameChain
<1> HIDE DEF a
<1>6. CASE short[k].kind = "frame"
  <2>1. short[k].kind # "codes" /\ short[k].kind # "return" /\ ReadLongWord(n, a) = old
    BY <1>3, <1>6
  <2>2. Holds(long, n, k + c) <=> Chained(long, old, k + c + 1)
    BY <1>2, <1>6, <2>1 DEF Holds
  <2>3. Holds(short, m, k) <=> Chained(short, old, k + 1)
    BY <1>2, <1>6, <2>1 DEF Holds, a
  <2>4. ValueIn(long, n, k + c) = DepthIn(long, old)
        /\ ValueIn(short, m, k) = DepthIn(short, old)
    BY <1>2, <1>6, <2>1 DEF ValueIn, a
  <2> QED
    BY <1>1, <1>5, <2>2, <2>3, <2>4
<1>7. CASE short[k].kind = "codes"
  BY <1>2, <1>3, <1>7 DEF Holds, ValueIn, a
<1>8. CASE short[k].kind \in {"return", "local", "data"}
  BY <1>2, <1>3, <1>8 DEF Holds, ValueIn, a
<1> QED
  BY <1>4, <1>6, <1>7, <1>8 DEF KindNames

(* Both together: the stack keeps what it had, and so does the abstract    *)
(* one.                                                                    *)
SameBelow(short, m, n) == \A k \in 1 .. Len(short) : \A w \in WordsOf(short, k) : n[w] = m[w]

LEMMA StackShape ==
  ASSUME NEW its, InOrder(its), NEW m
  PROVE  \E S : /\ StackOf(its, m) \in Seq(S) /\ Len(StackOf(its, m)) = Len(its)
                /\ \A k \in 1 .. Len(its) : StackOf(its, m)[k] = [kind |-> its[k].kind, value |-> ValueIn(its, m, k)]
<1> DEFINE s == StackOf(its, m)
           S == {s[k] : k \in 1 .. Len(its)}
<1>1. DOMAIN its = 1 .. Len(its) /\ Len(its) \in Nat
  BY TopNumbers
<1>2. /\ DOMAIN s = 1 .. Len(its)
      /\ \A k \in 1 .. Len(its) : s[k] = [kind |-> its[k].kind, value |-> ValueIn(its, m, k)]
      /\ s = [k \in 1 .. Len(its) |-> [kind |-> its[k].kind, value |-> ValueIn(its, m, k)]]
  BY <1>1 DEF StackOf
<1>3. s = [k \in 1 .. Len(its) |-> s[k]] /\ \A k \in 1 .. Len(its) : s[k] \in S
  BY <1>2
<1> HIDE DEF s
<1>4. s \in Seq(S)
  BY <1>1, <1>3
<1>5. Len(s) = Len(its)
  BY <1>1, <1>2, <1>4, LenProperties
<1> QED
  BY <1>2, <1>4, <1>5 DEF s

LEMMA StackKept ==
  ASSUME NEW long, NEW short, NEW c, Over(long, short, c), NEW m \in Memories,
         NEW n \in Memories,
         SameBelow(short, m, n), \A k \in 1 .. Len(short) : Holds(short, m, k)
  PROVE  /\ \A k \in 1 .. Len(short) : Holds(long, n, k + c)
         /\ StackOf(short, m) = SubSeq(StackOf(long, n), c + 1, Len(long))
         /\ \A k \in 1 .. Len(short) : StackOf(long, n)[k + c] = StackOf(short, m)[k]
         /\ (c = 1 => StackOf(long, n) = <<StackOf(long, n)[1]>> \o StackOf(short, m))
<1> DEFINE s == StackOf(short, m)
           l == StackOf(long, n)
<1>1. /\ Len(short) \in Nat /\ Len(long) \in Nat /\ Len(long) = Len(short) + c /\ c \in Nat
      /\ InOrder(short) /\ InOrder(long)
  BY TopNumbers DEF Over
<1>2. ASSUME NEW k \in 1 .. Len(short)
      PROVE  /\ Holds(long, n, k + c) /\ ValueIn(long, n, k + c) = ValueIn(short, m, k)
             /\ k + c \in 1 .. Len(long) /\ long[k + c] = short[k]
  BY SameValues, SamePlaces DEF SameBelow
<1>3. PICK S : /\ s \in Seq(S) /\ Len(s) = Len(short)
               /\ \A k \in 1 .. Len(short) : s[k] = [kind |-> short[k].kind, value |-> ValueIn(short, m, k)]
  BY <1>1, StackShape
<1>4. PICK T : /\ l \in Seq(T) /\ Len(l) = Len(long)
               /\ \A k \in 1 .. Len(long) : l[k] = [kind |-> long[k].kind, value |-> ValueIn(long, n, k)]
  BY <1>1, StackShape
<1> HIDE DEF s, l
<1>5. \A k \in 1 .. Len(short) : l[k + c] = s[k]
  BY <1>2, <1>3, <1>4
<1>6. s = SubSeq(l, c + 1, Len(long))
  <2>1. \A i \in c + 1 .. Len(long) : l[i] \in T
    BY <1>1, <1>4, ElementOfSeq
  <2> DEFINE t == SubSeq(l, c + 1, Len(long))
  <2>2. /\ t \in Seq(T)
        /\ Len(t) = IF c + 1 <= Len(long) THEN Len(long) - (c + 1) + 1 ELSE 0
        /\ \A i \in 1 .. Len(long) - (c + 1) + 1 : t[i] = l[c + 1 + i - 1]
    BY <1>1, <2>1, SubSeqProperties
  <2> HIDE DEF t
  <2>3. Len(t) = Len(short) /\ \A i \in 1 .. Len(short) : t[i] = l[i + c]
    BY <1>1, <2>2
  <2>4. \A i \in 1 .. Len(s) : s[i] = t[i]
    BY <1>3, <1>5, <2>3
  <2>5. s \in Seq(T)
    <3>1. s = [i \in 1 .. Len(short) |-> s[i]] /\ \A i \in 1 .. Len(short) : s[i] \in T
      <4>1. \A i \in 1 .. Len(t) : t[i] \in T
        BY <2>2, ElementOfSeq
      <4>2. s \in [1 .. Len(short) -> S]
        BY <1>3, LenProperties
      <4> QED
        BY <1>3, <2>3, <2>4, <4>1, <4>2
    <3> QED
      BY <1>1, <3>1
  <2>6. s = t
    BY <1>3, <2>2, <2>3, <2>4, <2>5, SeqEqual
  <2> QED
    BY <2>6 DEF t
<1>7. ASSUME c = 1  PROVE l = <<l[1]>> \o s
  <2>1. 1 \in 1 .. Len(l) /\ Len(l) \in 1 .. Len(l)
    BY <1>1, <1>4, <1>7
  <2>2. SubSeq(l, 1, Len(l)) = <<l[1]>> \o SubSeq(l, 1 + 1, Len(l))
    BY <1>4, <2>1, SubSeqRecursiveFirst
  <2>3. SubSeq(l, 1, Len(l)) = l
    BY <1>4, SubSeqFull
  <2> QED
    BY <1>4, <1>6, <1>7, <2>2, <2>3
<1> QED
  BY <1>2, <1>5, <1>6, <1>7 DEF s, l

(***************************************************************************)
(* One item more, some items fewer.                                        *)
(***************************************************************************)

OnTop(its, kind) == <<[kind |-> kind, bytes |-> Below(its, 1) + SizeOf(kind)]>> \o its

LEMMA ItemOnTop ==
  ASSUME NEW its, InOrder(its), Len(its) < MaxItems, NEW kind \in KindNames
  PROVE  /\ Over(OnTop(its, kind), its, 1)
         /\ Len(OnTop(its, kind)) = Len(its) + 1
         /\ OnTop(its, kind)[1].kind = kind
         /\ AddressIn(OnTop(its, kind), 1) = Wrap(AddressIn(its, 1) - SizeOf(kind))
<1> DEFINE item == [kind |-> kind, bytes |-> Below(its, 1) + SizeOf(kind)]
           top == OnTop(its, kind)
<1>1. /\ its \in Seq(ItemSet) /\ Len(its) \in Nat /\ MaxItems \in Nat
      /\ Below(its, 1) \in Nat /\ Below(its, 1) % 2 = 0 /\ Below(its, 1) <= 4 * Len(its)
      /\ \A k \in 1 .. Len(its) : its[k].bytes <= Below(its, 1)
      /\ DOMAIN its = 1 .. Len(its)
  BY TopNumbers, StackNumbers
<1>2. SizeOf(kind) \in {2, 4}
  BY DEF SizeOf
<1>3. item \in ItemSet /\ item.bytes = Below(its, 1) + SizeOf(kind) /\ item.kind = kind
  BY <1>1, <1>2 DEF ItemSet
<1>4. /\ item.bytes \in Nat /\ item.bytes % 2 = 0 /\ item.bytes <= 4 * (Len(its) + 1)
  BY <1>1, <1>2, <1>3
<1> HIDE DEF item
<1>5. <<item>> \in Seq(ItemSet) /\ Len(<<item>>) = 1 /\ <<item>>[1] = item
  BY <1>3
<1>6. top = <<item>> \o its
  BY DEF OnTop, item
<1>7. /\ top \in Seq(ItemSet) /\ Len(top) = Len(its) + 1
      /\ \A i \in 1 .. Len(its) + 1 : top[i] = IF i <= 1 THEN item ELSE its[i - 1]
  <2>1. /\ <<item>> \o its \in Seq(ItemSet)
           /\ Len(<<item>> \o its) = Len(<<item>>) + Len(its)
        /\ \A i \in 1 .. Len(<<item>>) + Len(its) : (<<item>> \o its)[i] =
                     IF i <= Len(<<item>>) THEN <<item>>[i] ELSE its[i - Len(<<item>>)]
    BY <1>1, <1>5, ConcatProperties
  <2> HIDE DEF top
  <2> QED
    BY <1>1, <1>5, <1>6, <2>1
<1> HIDE DEF top
<1>8. /\ 1 \in 1 .. Len(its) + 1 /\ top[1] = item
      /\ \A k \in 1 .. Len(its) : top[k + 1] = its[k]
      /\ DOMAIN top = 1 .. Len(its) + 1
  <2>1. DOMAIN top = 1 .. Len(top)
    BY <1>7, LenProperties
  <2> QED
    BY <1>1, <1>7, <2>1
<1>9. /\ \A k \in 0 .. Len(its) : Below(top, k + 1 + 1) = Below(its, k + 1)
      /\ \A k \in 1 .. Len(its) : Below(top, k + 1) = Below(its, k)
  BY <1>1, <1>8 DEF Below
<1>10. ASSUME NEW k \in 1 .. Len(top)
       PROVE  /\ top[k].bytes % 2 = 0 /\ top[k].bytes <= 4 * (Len(top) + 1 - k)
              /\ top[k].bytes = Below(top, k + 1) + SizeOf(top[k].kind)
  <2>1. CASE k = 1
    <3>1. Below(top, 1 + 1) = Below(its, 1)
      BY <1>1, <1>9
    <3> QED
      BY <1>1, <1>3, <1>4, <1>7, <1>8, <2>1, <3>1
  <2>2. CASE k # 1
    <3> DEFINE j == k - 1
    <3>1. j \in 1 .. Len(its) /\ j + 1 = k /\ j \in 0 .. Len(its) /\ j \in Int
      BY <1>1, <1>7, <2>2
    <3> HIDE DEF j
    <3>2. top[k] = its[j] /\ Below(top, k + 1) = Below(its, j + 1)
      BY <1>8, <1>9, <3>1
    <3>3. /\ its[j].bytes % 2 = 0 /\ its[j].bytes <= 4 * (Len(its) + 1 - j)
          /\ its[j].bytes = Below(its, j + 1) + SizeOf(its[j].kind)
      BY <3>1 DEF InOrder
    <3>4. Len(top) + 1 - k = Len(its) + 1 - j
      BY <1>1, <1>7, <3>1
    <3> QED
      BY <3>2, <3>3, <3>4
  <2> QED
    BY <2>1, <2>2
<1>11. ASSUME NEW j \in 1 .. Len(top), NEW k \in 1 .. Len(top), j < k
       PROVE  top[j].bytes >= top[k].bytes + SizeOf(top[j].kind)
  <2> DEFINE i == k - 1
  <2>1. i \in 1 .. Len(its) /\ top[k] = its[i] /\ i + 1 = k
    BY <1>1, <1>7, <1>8, <1>11
  <2>2. its[i].bytes \in Nat
    BY <2>1, ItemNumbers
  <2> HIDE DEF i
  <2>3. CASE j = 1
    BY <1>1, <1>2, <1>3, <1>8, <2>1, <2>2, <2>3, SMTT(30)
  <2>4. CASE j # 1
    <3> DEFINE h == j - 1
    <3>1. h \in 1 .. Len(its) /\ h + 1 = j /\ h < i
      <4>1. Len(top) = Len(its) + 1 /\ j \in 1 .. Len(top) /\ j < k /\ i + 1 = k
        BY <1>7, <1>11, <2>1
      <4> QED
        BY <1>1, <2>1, <2>4, <4>1
    <3> HIDE DEF h
    <3>2. top[j] = its[h]
      BY <1>8, <3>1
    <3> QED
      BY <2>1, <3>1, <3>2 DEF InOrder
  <2> QED
    BY <2>3, <2>4
<1>12. InOrder(top)
  BY <1>1, <1>7, <1>10, <1>11 DEF InOrder
<1>13. Over(top, its, 1)
  BY <1>7, <1>8, <1>12 DEF Over
<1>14. AddressIn(top, 1) = Wrap(AddressIn(its, 1) - SizeOf(kind))
  <2>1. Below(top, 1) = Below(its, 1) + SizeOf(kind)
    BY <1>1, <1>3, <1>8 DEF Below
  <2> DEFINE x == Base - Below(its, 1)
             size == SizeOf(kind)
             y == -size
  <2>2. size \in Int /\ x \in Int
    <3>1. size \in Int
      BY <1>2
    <3>2. x \in Int
      BY <1>1, StackNumbers
    <3> QED
      BY <3>1, <3>2
  <2> HIDE DEF size
  <2>3. y \in Int /\ x + y = Base - (Below(its, 1) + size)
    BY <1>1, <2>2, StackNumbers, SMTT(30)
  <2>4. x + y = Base - Below(top, 1)
    BY <2>1, <2>3 DEF size
  <2> HIDE DEF x
  <2>5. Wrap(x) \in Int
    BY <2>2, WrapRange
  <2>6. Wrap(x) + y = Wrap(x) - size
    BY <2>2, <2>5
  <2> HIDE DEF y
  <2>7. Wrap(Wrap(x) + y) = Wrap(x + y)
    BY <2>2, <2>3, WrapSum
  <2> QED
    BY <2>4, <2>6, <2>7, Zenon DEF AddressIn, x, size
<1> QED
  BY <1>3, <1>7, <1>8, <1>13, <1>14 DEF top

LEMMA ItemsOff ==
  ASSUME NEW its, InOrder(its), NEW c \in 0 .. Len(its)
  PROVE  Over(its, SubSeq(its, c + 1, Len(its)), c)
<1> DEFINE rest == SubSeq(its, c + 1, Len(its))
<1>1. /\ its \in Seq(ItemSet) /\ Len(its) \in Nat /\ MaxItems \in Nat
      /\ DOMAIN its = 1 .. Len(its) /\ Len(its) <= MaxItems /\ c \in Nat
  BY TopNumbers, StackNumbers
<1>2. \A i \in c + 1 .. Len(its) : its[i] \in ItemSet
  BY <1>1, ElementOfSeq
<1>3. /\ rest \in Seq(ItemSet)
      /\ Len(rest) = IF c + 1 <= Len(its) THEN Len(its) - (c + 1) + 1 ELSE 0
      /\ \A i \in 1 .. Len(its) - (c + 1) + 1 : rest[i] = its[c + 1 + i - 1]
  BY <1>1, <1>2, SubSeqProperties
<1> HIDE DEF rest
<1>4. Len(rest) = Len(its) - c /\ DOMAIN rest = 1 .. Len(rest) /\ Len(rest) \in Nat
  <2>1. DOMAIN rest = 1 .. Len(rest) /\ Len(rest) \in Nat
    BY <1>3, LenProperties
  <2>2. c \in Int /\ c <= Len(its) /\ Len(its) \in Int
    BY <1>1
  <2> DEFINE n == Len(its)
             r == Len(rest)
  <2>3. r = IF c + 1 <= n THEN n - (c + 1) + 1 ELSE 0
    BY <1>3
  <2> HIDE DEF n, r
  <2>4. n \in Int /\ c <= n
    BY <2>2 DEF n
  <2>5. r = n - c
    BY <2>2, <2>3, <2>4
  <2> QED
    BY <2>1, <2>5 DEF n, r
<1>5. \A k \in 1 .. Len(rest) : k + c \in 1 .. Len(its) /\ its[k + c] = rest[k]
  <2> SUFFICES ASSUME NEW k \in 1 .. Len(rest)
               PROVE  k + c \in 1 .. Len(its) /\ its[k + c] = rest[k]
    OBVIOUS
  <2>1. k \in 1 .. Len(its) - (c + 1) + 1 /\ c + 1 + k - 1 = k + c
        /\ k + c \in 1 .. Len(its)
    BY <1>1, <1>4
  <2>2. rest[k] = its[c + 1 + k - 1]
    BY <1>3, <2>1
  <2> QED
    BY <2>1, <2>2
<1>6. \A k \in 1 .. Len(rest) + 1 : Below(its, k + c) = Below(rest, k)
  BY <1>1, <1>4, <1>5 DEF Below
<1>7. ASSUME NEW k \in 1 .. Len(rest)
      PROVE  /\ rest[k].bytes % 2 = 0 /\ rest[k].bytes <= 4 * (Len(rest) + 1 - k)
             /\ rest[k].bytes = Below(rest, k + 1) + SizeOf(rest[k].kind)
  <2> DEFINE j == k + c
  <2>1. j \in 1 .. Len(its) /\ its[j] = rest[k]
    BY <1>5
  <2>2. Below(its, j + 1) = Below(rest, k + 1)
    <3>1. k + 1 \in 1 .. Len(rest) + 1 /\ k + 1 + c = j + 1
      BY <1>1, <1>4
    <3> HIDE DEF j
    <3> QED
      BY <1>6, <3>1
  <2>3. Len(its) + 1 - j = Len(rest) + 1 - k
    BY <1>1, <1>4
  <2> HIDE DEF j
  <2>4. /\ its[j].bytes % 2 = 0 /\ its[j].bytes <= 4 * (Len(its) + 1 - j)
        /\ its[j].bytes = Below(its, j + 1) + SizeOf(its[j].kind)
    BY <2>1 DEF InOrder
  <2> QED
    BY <2>1, <2>2, <2>3, <2>4
<1>8. ASSUME NEW j \in 1 .. Len(rest), NEW k \in 1 .. Len(rest), j < k
      PROVE  rest[j].bytes >= rest[k].bytes + SizeOf(rest[j].kind)
  <2> DEFINE h == j + c
             i == k + c
  <2>1. h \in 1 .. Len(its) /\ i \in 1 .. Len(its) /\ h < i /\ its[h] = rest[j]
        /\ its[i] = rest[k]
    BY <1>1, <1>4, <1>5, <1>8
  <2> HIDE DEF h, i
  <2> QED
    BY <2>1 DEF InOrder
<1>9. Len(rest) <= MaxItems
  BY <1>1, <1>4
<1>10. InOrder(rest)
  BY <1>3, <1>7, <1>8, <1>9 DEF InOrder
<1> QED
  <2>1. Len(its) = Len(rest) + c
    BY <1>1, <1>4
  <2> QED
    BY <1>1, <1>5, <1>10, <2>1, Zenon DEF Over, rest

(* An item that is no frame is passed over by the chain. *)
LEMMA ChainPast ==
  ASSUME NEW its, InOrder(its), NEW from \in 1 .. Len(its), its[from].kind # "frame", NEW a
  PROVE  Chained(its, a, from) <=> Chained(its, a, from + 1)
<1>1. Len(its) \in Nat /\ from \in Int
  BY TopNumbers
<1>2. NoFrame(its, from) <=> NoFrame(its, from + 1)
  <2>1. ASSUME NoFrame(its, from)  PROVE NoFrame(its, from + 1)
    BY <1>1, <2>1 DEF NoFrame
  <2>2. ASSUME NoFrame(its, from + 1), NEW j \in from .. Len(its)  PROVE its[j].kind # "frame"
    <3>1. CASE j = from
      BY <3>1
    <3>2. CASE j # from
      BY <1>1, <2>2, <3>2 DEF NoFrame
    <3> QED
      BY <3>1, <3>2
  <2> QED
    BY <2>1, <2>2 DEF NoFrame
<1>3. \A k \in from .. Len(its) : FrameAt(its, a, from, k) => k \in from + 1 .. Len(its) /\ FrameAt(its, a, from + 1, k)
  <2> SUFFICES ASSUME NEW k \in from .. Len(its), FrameAt(its, a, from, k)
               PROVE  k \in from + 1 .. Len(its) /\ FrameAt(its, a, from + 1, k)
    OBVIOUS
  <2>1. its[k].kind = "frame" /\ a = AddressIn(its, k)
        /\ \A j \in from .. k - 1 : its[j].kind # "frame"
    BY DEF FrameAt
  <2>2. k # from
    BY <2>1
  <2>3. k \in from + 1 .. Len(its) /\ \A j \in from + 1 .. k - 1 : its[j].kind # "frame"
    BY <1>1, <2>1, <2>2
  <2> QED
    BY <2>1, <2>3 DEF FrameAt
<1>4. \A k \in from + 1 .. Len(its) : FrameAt(its, a, from + 1, k) => k \in from .. Len(its) /\ FrameAt(its, a, from, k)
  <2> SUFFICES ASSUME NEW k \in from + 1 .. Len(its), FrameAt(its, a, from + 1, k)
               PROVE  k \in from .. Len(its) /\ FrameAt(its, a, from, k)
    OBVIOUS
  <2>1. its[k].kind = "frame" /\ a = AddressIn(its, k)
        /\ \A j \in from + 1 .. k - 1 : its[j].kind # "frame"
    BY DEF FrameAt
  <2>2. ASSUME NEW j \in from .. k - 1  PROVE its[j].kind # "frame"
    <3>1. CASE j = from
      BY <3>1
    <3>2. CASE j # from
      BY <1>1, <2>1, <3>2
    <3> QED
      BY <3>1, <3>2
  <2>3. k \in from .. Len(its)
    BY <1>1
  <2> QED
    BY <2>1, <2>2, <2>3 DEF FrameAt
<1> QED
  BY <1>2, <1>3, <1>4 DEF Chained

LEMMA NextAddress ==
  ASSUME NEW its, InOrder(its), NEW k \in 1 .. Len(its)
  PROVE  /\ AddressIn(its, k + 1) = Wrap(AddressIn(its, k) + SizeOf(its[k].kind))
         /\ AddressIn(its, k) = Wrap(AddressIn(its, k + 1) - SizeOf(its[k].kind))
         /\ AddressIn(its, k) \in Int /\ AddressIn(its, k) \in LongRange
<1> DEFINE b == Below(its, k)
           c == Below(its, k + 1)
           s == SizeOf(its[k].kind)
<1>1. b \in Nat /\ b = c + s /\ s \in {2, 4}
  BY ItemNumbers
<1>2. c \in Nat
  <2>1. CASE k + 1 \in 1 .. Len(its)
    BY <2>1, ItemNumbers
  <2>2. CASE k + 1 \notin 1 .. Len(its)
    BY <2>2, TopNumbers DEF Below
  <2> QED
    BY <2>1, <2>2
<1> HIDE DEF b, c, s
<1> DEFINE x == Base - b
           y == Base - c
           t == -s
<1>3. x \in Int /\ y \in Int /\ s \in Int /\ t \in Int /\ x + s = y /\ y + t = x
  BY <1>1, <1>2, StackNumbers
<1>4. AddressIn(its, k) = Wrap(x) /\ AddressIn(its, k + 1) = Wrap(y)
  BY DEF AddressIn, b, c
<1>5. Wrap(x) \in Int /\ Wrap(y) \in Int /\ Wrap(x) \in LongRange
  BY <1>3, WrapRange
<1>6. Wrap(y) + t = Wrap(y) - s
  BY <1>3, <1>5
<1> HIDE DEF x, y, t
<1>7. Wrap(Wrap(x) + s) = Wrap(x + s) /\ Wrap(Wrap(y) + t) = Wrap(y + t)
  BY <1>3, WrapSum
<1> QED
  BY <1>3, <1>4, <1>5, <1>6, <1>7 DEF s

(* Another longword is written where an item is. *)
LEMMA ItemWritten ==
  ASSUME NEW its, InOrder(its), NEW k \in 1 .. Len(its), its[k].kind # "codes",
         NEW m \in Memories, NEW v \in LongRange, NEW n,
         \/ n = WriteLongWord(m, AddressIn(its, k), v)
         \/ n = WriteLongWordBackwards(m, AddressIn(its, k), v)
  PROVE  /\ n \in Memories /\ ReadLongWord(n, AddressIn(its, k)) = v
         /\ \A w \in 0 .. MemoryWords - 1 : w \notin WordsOf(its, k) => n[w] = m[w]
<1> DEFINE a == AddressIn(its, k)
<1>1. a \in Int
  BY NextAddress
<1>2. WordsOf(its, k) = {WordIndex(a), WordIndex(a + 2)}
  BY DEF WordsOf
<1> HIDE DEF a
<1>3. n = WriteLongWord(m, a, v)
  BY <1>1, LongWritten DEF a
<1>4. /\ n \in Memories
      /\ \A w \in 0 .. MemoryWords - 1 :
            n[w] = CASE w = WordIndex(a) -> v \div WordValues
                     [] w = WordIndex(a + 2) -> v % WordValues
                     [] OTHER -> m[w]
  BY <1>1, <1>3, LongWritten
<1>5. ReadLongWord(n, a) = v
  BY <1>1, <1>3, LongReadBack
<1> QED
  BY <1>2, <1>4, <1>5 DEF a

LEMMA CodesWritten ==
  ASSUME NEW its, InOrder(its), NEW k \in 1 .. Len(its), its[k].kind = "codes",
         NEW m \in Memories, NEW v \in ByteRange
  PROVE  LET n == WriteWord(m, AddressIn(its, k), System * ByteValues + v)
         IN  /\ n \in Memories /\ ReadByte(n, AddressIn(its, k) + 1) = v
             /\ \A w \in 0 .. MemoryWords - 1 : w \notin WordsOf(its, k) => n[w] = m[w]
<1> DEFINE a == AddressIn(its, k)
           x == System * ByteValues + v
           n == WriteWord(m, a, x)
           b == Below(its, k)
<1>1. a \in Int
  BY NextAddress
<1>2. WordsOf(its, k) = {WordIndex(a)} /\ a = Wrap(Base - b)
  BY DEF WordsOf, AddressIn
<1>3. b \in Nat /\ b % 2 = 0 /\ b <= 4 * MaxItems
  BY ItemNumbers, StackNumbers
<1> HIDE DEF b
<1>4. /\ WordIndex(Wrap(Base - b) + 1) = WordIndex(Base - b)
      /\ WordIndex(Wrap(Base - b)) = WordIndex(Base - b) /\ Odd(Wrap(Base - b) + 1)
  BY <1>3, WordsBelow
<1>5. WordIndex(a + 1) = WordIndex(a) /\ Odd(a + 1)
  BY <1>2, <1>4
<1>6. x \in WordRange /\ x % ByteValues = v
  BY SubroutinesAssumption, WordOfBytes
<1>7. x \in Int /\ x % WordValues = x
  <2>1. x \in 0 .. WordValues - 1 /\ WordValues \in Nat \ {0}
    BY <1>6, BusNumbers DEF WordRange
  <2> HIDE DEF x
  <2> QED
    BY <2>1
<1> HIDE DEF a, x
<1>8. n \in Memories /\ n = [m EXCEPT ![WordIndex(a)] = x]
  BY <1>1, <1>7, WordWritten
<1>9. WordIndex(a) \in 0 .. MemoryWords - 1
  BY <1>1, IndexRange
<1>10. n[WordIndex(a)] = x
       /\ \A w \in 0 .. MemoryWords - 1 : w # WordIndex(a) => n[w] = m[w]
  BY <1>8, <1>9 DEF Memories
<1>11. ReadByte(n, a + 1) = v
  BY <1>5, <1>6, <1>10 DEF ReadByte
<1> QED
  BY <1>2, <1>8, <1>10, <1>11 DEF a, x

(***************************************************************************)
(* An item is pushed: memory may have changed where it is.                 *)
(***************************************************************************)

LEMMA ItemPushed ==
  ASSUME NEW its, NEW m, NEW frame, Sound(its, m, frame), Len(its) < MaxItems,
         NEW kind \in KindNames, NEW n \in Memories,
         \A w \in 0 .. MemoryWords - 1 : w \notin WordsOf(OnTop(its, kind), 1) => n[w] = m[w]
  PROVE  LET top == OnTop(its, kind)
         IN  /\ InOrder(top) /\ \A k \in 1 .. Len(its) : Holds(top, n, k + 1)
             /\ StackOf(top, n) = <<[kind |-> kind, value |-> ValueIn(top, n, 1)]>> \o StackOf(its, m)
             /\ Chained(top, frame, 2) /\ DepthIn(top, frame) = DepthIn(its, frame)
             /\ (kind # "frame" /\ Holds(top, n, 1) => Sound(top, n, frame))
             /\ (kind = "frame" /\ Holds(top, n, 1) => Sound(top, n, AddressIn(top, 1)))
<1> DEFINE top == OnTop(its, kind)
<1>1. /\ InOrder(its) /\ m \in Memories /\ Chained(its, frame, 1)
      /\ \A k \in 1 .. Len(its) : Holds(its, m, k)
  BY DEF Sound
<1>2. Over(top, its, 1) /\ Len(top) = Len(its) + 1 /\ top[1].kind = kind
  BY <1>1, ItemOnTop
<1> HIDE DEF top
<1>3. InOrder(top) /\ Len(its) \in Nat /\ 1 \in 1 .. Len(top) /\ Len(top) \in Nat
  BY <1>1, <1>2, TopNumbers DEF Over
<1>4. SameBelow(its, m, n)
  <2> SUFFICES ASSUME NEW k \in 1 .. Len(its), NEW w \in WordsOf(its, k)  PROVE n[w] = m[w]
    BY DEF SameBelow
  <2>1. /\ k + 1 \in 1 .. Len(top) /\ top[k + 1] = its[k]
        /\ AddressIn(top, k + 1) = AddressIn(its, k)
    BY <1>2, SamePlaces
  <2>2. WordsOf(top, k + 1) = WordsOf(its, k)
    BY <2>1 DEF WordsOf
  <2>3. k + 1 # 1
    BY <1>3
  <2>4. WordsOf(top, 1) \cap WordsOf(top, k + 1) = {}
    BY <1>3, <2>1, <2>3, WordsApart
  <2>5. AddressIn(its, k) \in Int /\ AddressIn(its, k) + 2 \in Int
    BY <1>1, NextAddress
  <2>6. WordIndex(AddressIn(its, k)) \in 0 .. MemoryWords - 1
        /\ WordIndex(AddressIn(its, k) + 2) \in 0 .. MemoryWords - 1
    BY <2>5, IndexRange
  <2>7. w \in 0 .. MemoryWords - 1 /\ w \notin WordsOf(top, 1)
    BY <2>2, <2>4, <2>6 DEF WordsOf
  <2> QED
    BY <2>7 DEF top
<1>5. /\ \A k \in 1 .. Len(its) : Holds(top, n, k + 1)
      /\ StackOf(top, n) = <<StackOf(top, n)[1]>> \o StackOf(its, m)
  BY <1>1, <1>2, <1>4, StackKept
<1>6. StackOf(top, n)[1] = [kind |-> kind, value |-> ValueIn(top, n, 1)]
  BY <1>2, <1>3, TopNumbers DEF StackOf
<1>7. Chained(top, frame, 1 + 1) /\ DepthIn(top, frame) = DepthIn(its, frame)
  BY <1>1, <1>2, SameChain
<1>8. ASSUME Holds(top, n, 1)  PROVE \A k \in 1 .. Len(top) : Holds(top, n, k)
  <2> SUFFICES ASSUME NEW k \in 1 .. Len(top)  PROVE Holds(top, n, k)
    OBVIOUS
  <2>1. CASE k = 1
    BY <1>8, <2>1
  <2>2. CASE k # 1
    <3> DEFINE j == k - 1
    <3>1. j \in 1 .. Len(its) /\ j + 1 = k
      BY <1>2, <1>3, <2>2
    <3> HIDE DEF j
    <3> QED
      BY <1>5, <3>1
  <2> QED
    BY <2>1, <2>2
<1>9. ASSUME kind # "frame", Holds(top, n, 1)  PROVE Sound(top, n, frame)
  <2>1. Chained(top, frame, 1)
    BY <1>2, <1>3, <1>7, <1>9, ChainPast
  <2> QED
    BY <1>3, <1>8, <1>9, <2>1 DEF Sound
<1>10. ASSUME kind = "frame", Holds(top, n, 1)  PROVE Sound(top, n, AddressIn(top, 1))
  <2>1. FrameAt(top, AddressIn(top, 1), 1, 1)
    BY <1>2, <1>3, <1>10 DEF FrameAt
  <2>2. Chained(top, AddressIn(top, 1), 1)
    BY <1>3, <2>1 DEF Chained
  <2> QED
    BY <1>3, <1>8, <1>10, <2>2 DEF Sound
<1> QED
  BY <1>3, <1>5, <1>6, <1>7, <1>9, <1>10 DEF top

LEMMA PartOfStack ==
  ASSUME NEW long, NEW short, NEW c, Over(long, short, c), NEW m \in Memories,
         \A k \in 1 .. Len(short) : Holds(short, m, k)
  PROVE  StackOf(short, m) = SubSeq(StackOf(long, m), c + 1, Len(long))
<1>1. SameBelow(short, m, m)
  BY DEF SameBelow
<1>2. ASSUME NEW n \in Memories, SameBelow(short, m, n)
      PROVE  StackOf(short, m) = SubSeq(StackOf(long, n), c + 1, Len(long))
  BY <1>2, StackKept, ZenonT(40)
<1> QED
  BY <1>1, <1>2

(* Items are taken off, down to the one behind a frame or a single one.    *)
LEMMA ItemsPopped ==
  ASSUME NEW its, NEW m, NEW frame, Sound(its, m, frame), NEW c \in 0 .. Len(its), NEW a,
         Chained(its, a, c + 1)
  PROVE  LET rest == SubSeq(its, c + 1, Len(its))
         IN  /\ Sound(rest, m, a) /\ AddressIn(rest, 1) = AddressIn(its, c + 1)
             /\ StackOf(rest, m) = SubSeq(StackOf(its, m), c + 1, Len(its))
             /\ DepthIn(rest, a) = DepthIn(its, a)
<1> DEFINE rest == SubSeq(its, c + 1, Len(its))
<1>1. /\ InOrder(its) /\ m \in Memories /\ \A k \in 1 .. Len(its) : Holds(its, m, k)
  BY DEF Sound
<1>2. Over(its, rest, c)
  BY <1>1, ItemsOff
<1> HIDE DEF rest
<1>3. c \in Nat /\ Len(its) \in Nat /\ InOrder(rest) /\ 1 + c = c + 1
  BY <1>1, <1>2, TopNumbers DEF Over
<1>4. AddressIn(rest, 1) = AddressIn(its, c + 1)
  BY <1>2, <1>3, SamePlaces
<1>5. Chained(rest, a, 1) /\ DepthIn(rest, a) = DepthIn(its, a)
  BY <1>2, <1>3, SameChain
<1>6. ASSUME NEW k \in 1 .. Len(rest)  PROVE Holds(rest, m, k)
  <2>1. Holds(its, m, k + c)
    BY <1>1, <1>2, SamePlaces
  <2> QED
    BY <1>1, <1>2, <2>1, SameValues
<1>7. \A k \in 1 .. Len(rest) : Holds(rest, m, k)
  BY <1>6
<1>8. StackOf(rest, m) = SubSeq(StackOf(its, m), c + 1, Len(its))
  BY <1>1, <1>2, <1>7, PartOfStack
<1> QED
  BY <1>1, <1>3, <1>4, <1>5, <1>6, <1>8 DEF rest, Sound

LEMMA FrameDepth ==
  ASSUME NEW its, NEW m, NEW frame, Sound(its, m, frame)
  PROVE  /\ DepthIn(its, frame) # 0 <=> \E k \in 1 .. Len(its) : its[k].kind = "frame" /\ AddressIn(its, k) = frame
         /\ \A k \in 1 .. Len(its) : AddressIn(its, k) = frame =>
              /\ its[k].kind = "frame" /\ DepthIn(its, frame) = Len(its) + 1 - k
              /\ \A j \in 1 .. Len(its) : AddressIn(its, j) = frame => j = k
<1>1. InOrder(its) /\ Chained(its, frame, 1) /\ Len(its) \in Nat
  BY TopNumbers DEF Sound
<1>2. ASSUME NEW k \in 1 .. Len(its), AddressIn(its, k) = frame
      PROVE  /\ its[k].kind = "frame" /\ DepthIn(its, frame) = Len(its) + 1 - k
             /\ \A j \in 1 .. Len(its) : AddressIn(its, j) = frame => j = k
  <2>1. frame # OuterFrame /\ \A j \in 1 .. Len(its) : AddressIn(its, j) = frame => j = k
    BY <1>1, <1>2, AddressesApart
  <2>2. PICK j \in 1 .. Len(its) : FrameAt(its, frame, 1, j)
    BY <1>1, <2>1 DEF Chained
  <2>3. j = k /\ its[j].kind = "frame"
    BY <2>1, <2>2 DEF FrameAt
  <2> QED
    BY <1>1, <1>2, <2>1, <2>3, DepthOfItem
<1>3. ASSUME DepthIn(its, frame) # 0
      PROVE  \E k \in 1 .. Len(its) : its[k].kind = "frame" /\ AddressIn(its, k) = frame
  <2>1. frame # OuterFrame
    BY <1>1, <1>3, DepthOfItem
  <2> QED
    BY <1>1, <2>1 DEF Chained, FrameAt
<1>4. ASSUME NEW k \in 1 .. Len(its), AddressIn(its, k) = frame  PROVE DepthIn(its, frame) # 0
  BY <1>1, <1>2, <1>4
<1> QED
  BY <1>2, <1>3, <1>4, Zenon

(***************************************************************************)
(* The abstract stack, and each instruction on it.                         *)
(***************************************************************************)

AbstractItems == [k \in DOMAIN items |-> [kind |-> items[k].kind, value |-> Value(k)]]

LEMMA AbstractNow == AbstractItems = StackOf(items, memory) /\ Depth(A6) = DepthIn(items, A6)
BY DEF AbstractItems, StackOf, Value, ValueIn, Depth, DepthIn, ItemAddress, AddressIn, Below

LEMMA AbstractThen ==
  AbstractItems' = StackOf(items', memory') /\ Depth(A6)' = DepthIn(items', A6')
BY DEF AbstractItems, StackOf, Value, ValueIn, Depth, DepthIn, ItemAddress, AddressIn, Below

(* What is known before an instruction. *)
LEMMA Before ==
  ASSUME CallInv
  PROVE  /\ InOrder(items) /\ memory \in Memories /\ Sound(items, memory, A6)
         /\ items \in Seq(ItemSet) /\ Len(items) \in Nat /\ DOMAIN items = 1 .. Len(items)
         /\ (items = <<>> <=> Len(items) = 0)
         /\ A7 = AddressIn(items, 1) /\ A7 \in Int
<1>1. InOrder(items) /\ memory \in Memories /\ Sound(items, memory, A6)
      /\ A7 = AddressIn(items, 1)
  BY DEF CallInv, Sound
<1>2. /\ items \in Seq(ItemSet) /\ Len(items) \in Nat /\ DOMAIN items = 1 .. Len(items)
      /\ (items = <<>> <=> Len(items) = 0) /\ Below(items, 1) \in Nat
  BY <1>1, TopNumbers
<1>3. Base - Below(items, 1) \in Int
  BY <1>2, StackNumbers
<1>4. A7 \in Int
  BY <1>1, <1>3, WrapRange DEF AddressIn
<1> QED
  BY <1>1, <1>2, <1>4

LEMMA StackedIs ==
  ASSUME CallInv, NEW kind
  PROVE  Stacked(kind) = OnTop(items, kind)
<1>1. Below(items, 1) = IF items = <<>> THEN 0 ELSE items[1].bytes
  <2>1. 1 \in DOMAIN items <=> items # <<>>
    BY Before
  <2> QED
    BY <2>1 DEF Below
<1> QED
  BY <1>1 DEF Stacked, OnTop

(* A longword is pushed, as an item. *)
LEMMA LongPushed ==
  ASSUME CallInv, Len(items) < MaxItems, NEW kind \in KindNames \ {"codes"},
         NEW v \in LongRange, NEW n, n = WriteLongWordBackwards(memory, Wrap(A7 - 4), v)
  PROVE  LET top == OnTop(items, kind)
         IN  /\ InOrder(top) /\ Len(top) = Len(items) + 1 /\ top[1].kind = kind
             /\ n \in Memories /\ ReadLongWord(n, AddressIn(top, 1)) = v
             /\ Wrap(A7 - 4) = AddressIn(top, 1)
             /\ \A w \in 0 .. MemoryWords - 1 : w \notin WordsOf(OnTop(items, kind), 1) => n[w] = memory[w]
<1> DEFINE top == OnTop(items, kind)
<1>1. /\ Over(top, items, 1) /\ Len(top) = Len(items) + 1 /\ top[1].kind = kind
      /\ AddressIn(top, 1) = Wrap(AddressIn(items, 1) - SizeOf(kind))
  BY Before, ItemOnTop
<1> HIDE DEF top
<1>2. SizeOf(kind) = 4
  BY DEF SizeOf
<1>3. AddressIn(top, 1) = Wrap(A7 - 4)
  BY <1>1, <1>2, Before
<1>4. InOrder(top) /\ 1 \in 1 .. Len(top)
  BY <1>1, Before DEF Over
<1>5. n = WriteLongWordBackwards(memory, AddressIn(top, 1), v) /\ memory \in Memories
  BY <1>3, Before
<1>6. top[1].kind # "codes"
  BY <1>1
<1>7. /\ n \in Memories /\ ReadLongWord(n, AddressIn(top, 1)) = v
      /\ \A w \in 0 .. MemoryWords - 1 : w \notin WordsOf(top, 1) => n[w] = memory[w]
  BY <1>4, <1>5, <1>6, ItemWritten
<1> QED
  BY <1>1, <1>3, <1>4, <1>7 DEF top

(* One that is no frame. *)
LEMMA ValuePushed ==
  ASSUME CallInv, Len(items) < MaxItems, NEW kind \in {"return", "data"},
         NEW v \in LongRange, kind = "return" => v \in Code, Pushed(v), items' = Stacked(kind),
         A6' = A6, condition_codes' \in CCR, address_error' \in BOOLEAN
  PROVE  /\ CallInv'
         /\ AbstractItems' = <<[kind |-> kind, value |-> v]>> \o AbstractItems
         /\ Depth(A6)' = Depth(A6)
<1> DEFINE top == OnTop(items, kind)
<1>1. items' = top /\ memory' = WriteLongWordBackwards(memory, Wrap(A7 - 4), v)
      /\ A7' = Wrap(A7 - 4)
  BY StackedIs DEF Pushed
<1>2. kind \in KindNames \ {"codes"} /\ kind \in KindNames
  BY DEF KindNames
<1>3. /\ InOrder(top) /\ Len(top) = Len(items) + 1 /\ top[1].kind = kind
      /\ memory' \in Memories /\ ReadLongWord(memory', AddressIn(top, 1)) = v
      /\ Wrap(A7 - 4) = AddressIn(top, 1)
      /\ \A w \in 0 .. MemoryWords - 1 : w \notin WordsOf(OnTop(items, kind), 1) => memory'[w] = memory[w]
  BY <1>1, <1>2, LongPushed
<1>4. Holds(top, memory', 1) /\ ValueIn(top, memory', 1) = v
  BY <1>3 DEF Holds, ValueIn
<1>5. Sound(items, memory, A6)
  BY Before
<1>6. /\ Sound(top, memory', A6)
      /\ StackOf(top, memory') = <<[kind |-> kind, value |-> v]>> \o StackOf(items, memory)
      /\ DepthIn(top, A6) = DepthIn(items, A6)
  BY <1>2, <1>3, <1>4, <1>5, ItemPushed
<1> HIDE DEF top
<1>7. CallInv'
  BY <1>1, <1>3, <1>6 DEF CallInv
<1> QED
  BY <1>1, <1>6, <1>7, AbstractNow, AbstractThen

LEMMA Target ==
  ASSUME NEW target \in Targets
  PROVE  /\ Odd(target) \in BOOLEAN /\ target \in LongRange
         /\ (~Odd(target) => target \in Code) /\ (Odd(target) => target \notin Code)
BY SubroutinesAssumption DEF Odd

LEMMA CodeAddress ==
  ASSUME NEW a \in Code
  PROVE  a \in LongRange /\ ~Odd(a)
BY SubroutinesAssumption

LEMMA UnchangedStack ==
  ASSUME CallInv, UNCHANGED <<items, memory, A6>>
  PROVE  AbstractItems' = AbstractItems /\ Depth(A6)' = Depth(A6)
BY AbstractNow, AbstractThen

LEMMA JumpStep ==
  ASSUME CallInv, JMP
  PROVE  CallInv' /\ Abstract!Next
<1>1. /\ ~address_error /\ next_instruction' \in Targets
      /\ address_error' = Odd(next_instruction')
         /\ UNCHANGED <<memory, A6, A7, condition_codes, items>>
  BY DEF JMP, Fetched
<1>2. CallInv'
  BY <1>1, Target DEF CallInv
<1>3. AbstractItems' = AbstractItems /\ Depth(A6)' = Depth(A6)
  BY <1>1, UnchangedStack
<1>4. address_error \in BOOLEAN
  BY DEF CallInv
<1>5. CASE Odd(next_instruction')
  <2>1. Abstract!WildCall
    BY <1>1, <1>3, <1>5, Target DEF Abstract!WildCall, AbstractItems
  <2> QED
    BY <1>1, <1>2, <2>1 DEF Abstract!Next
<1>6. CASE ~Odd(next_instruction')
  <2>1. Abstract!Jump
    BY <1>1, <1>3, <1>4, <1>6, Target DEF Abstract!Jump, AbstractItems
  <2> QED
    BY <1>1, <1>2, <2>1 DEF Abstract!Next
<1> QED
  BY <1>5, <1>6

(* The abstract call that a jump with a return address pushed is. *)
LEMMA CallStepOf ==
  ASSUME CallInv, NEW length \in {2, 4, 6}, NEW target \in Targets, Fetched(length),
         Room(1),
         next_instruction' = target, address_error' = Odd(target),
         Pushed(Behind(length)), items' = Stacked("return"), UNCHANGED <<A6, condition_codes>>
  PROVE  CallInv' /\ Abstract!Next
<1>1. /\ ~address_error /\ address_error \in BOOLEAN /\ condition_codes \in CCR
      /\ Behind(length) \in Code /\ Behind(length) \in LongRange
      /\ Behind(length) = next_instruction + length
  BY CodeAddress DEF Fetched, Behind, CallInv
<1>2. Len(items) < MaxItems
  BY Before, StackNumbers DEF Room
<1>3. /\ CallInv'
      /\ AbstractItems' = <<[kind |-> "return", value |-> Behind(length)]>> \o AbstractItems
      /\ Depth(A6)' = Depth(A6)
  BY <1>1, <1>2, Target, ValuePushed
<1>4. AbstractItems' = <<Abstract!Item("return", next_instruction + length)>> \o AbstractItems
  BY <1>1, <1>3 DEF Abstract!Item
<1>5. CASE Odd(target)
  <2>1. Abstract!WildCall
    BY <1>1, <1>3, <1>4, <1>5, Target DEF Abstract!WildCall, AbstractItems
  <2> QED
    BY <1>1, <1>3, <2>1 DEF Abstract!Next
<1>6. CASE ~Odd(target)
  <2>1. Abstract!Call
    BY <1>1, <1>3, <1>4, <1>6, Target DEF Abstract!Call, AbstractItems
  <2> QED
    BY <1>1, <1>3, <2>1 DEF Abstract!Next
<1> QED
  BY <1>5, <1>6

LEMMA SubroutineStep ==
  ASSUME CallInv, JSR \/ BSR
  PROVE  CallInv' /\ Abstract!Next
<1>1. CASE BSR
  <2>1. PICK length \in {2, 4}, target \in Targets :
          /\ Fetched(length) /\ Room(1) /\ Pushed(Behind(length))
          /\ next_instruction' = target /\ address_error' = Odd(target)
          /\ items' = Stacked("return") /\ UNCHANGED <<A6, condition_codes>>
    BY <1>1 DEF BSR
  <2>2. length \in {2, 4, 6}
    OBVIOUS
  <2> QED
    BY <2>1, <2>2, CallStepOf
<1>2. CASE JSR
  <2>1. PICK length \in {2, 4, 6}, target \in Targets :
          /\ Fetched(length) /\ Room(1)
          /\ next_instruction' = target /\ address_error' = Odd(target)
          /\ IF PushedByJSR(target)
             THEN Pushed(Behind(length)) /\ items' = Stacked("return")
             ELSE UNCHANGED <<memory, A7, items>>
          /\ UNCHANGED <<A6, condition_codes>>
    BY <1>2 DEF JSR
  <2>2. CASE PushedByJSR(target)
    BY <2>1, <2>2, CallStepOf
  <2>3. CASE ~PushedByJSR(target)
    <3>1. Odd(target) /\ UNCHANGED <<memory, A7, items>>
          /\ UNCHANGED <<A6, condition_codes>> /\ ~address_error
      BY <2>1, <2>3 DEF PushedByJSR, Fetched
    <3>2. CallInv'
      BY <2>1, <3>1, Target DEF CallInv
    <3>3. AbstractItems' = AbstractItems /\ Depth(A6)' = Depth(A6)
      BY <3>1, UnchangedStack
    <3>4. Abstract!WildCall
      BY <2>1, <3>1, <3>3, Target DEF Abstract!WildCall, AbstractItems
    <3> QED
      BY <3>1, <3>2, <3>4 DEF Abstract!Next
  <2> QED
    BY <2>2, <2>3
<1> QED
  BY <1>1, <1>2

(* The abstract stack is a sequence of as many items. *)
LEMMA AbstractShape ==
  ASSUME CallInv
  PROVE  /\ \E S : AbstractItems \in Seq(S)
         /\ Len(AbstractItems) = Len(items)
         /\ \A k \in 1 .. Len(items) :
              AbstractItems[k] = [kind |-> items[k].kind, value |-> ValueIn(items, memory, k)]
BY Before, AbstractNow, StackShape

(* Some items are taken off, of which none is a frame, or the last one is  *)
(* the current frame.                                                      *)
LEMMA StackPopped ==
  ASSUME CallInv, NEW c \in 0 .. Len(items), Chained(items, A6', c + 1),
         items' = Kept(c), UNCHANGED memory, A7' = AddressIn(items, c + 1),
         condition_codes' \in CCR, address_error' \in BOOLEAN
  PROVE  /\ CallInv'
         /\ AbstractItems' = SubSeq(AbstractItems, c + 1, Len(AbstractItems))
         /\ Depth(A6)' = DepthIn(items, A6')
<1>1. Sound(items, memory, A6)
  BY Before
<1>2. /\ Sound(Kept(c), memory, A6') /\ AddressIn(Kept(c), 1) = AddressIn(items, c + 1)
      /\ StackOf(Kept(c), memory) = SubSeq(StackOf(items, memory), c + 1, Len(items))
      /\ DepthIn(Kept(c), A6') = DepthIn(items, A6')
  BY <1>1, ItemsPopped DEF Kept
<1>3. Len(AbstractItems) = Len(items)
  BY AbstractShape
<1>4. CallInv'
  BY <1>2 DEF CallInv
<1> QED
  BY <1>2, <1>3, <1>4, AbstractNow, AbstractThen

LEMMA TopItem ==
  ASSUME CallInv, NEW kind, On(kind)
  PROVE  /\ 1 \in 1 .. Len(items) /\ items[1].kind = kind
         /\ AbstractItems # <<>> /\ Len(AbstractItems) = Len(items)
         /\ Head(AbstractItems) = [kind |-> kind, value |-> ValueIn(items, memory, 1)]
         /\ Tail(AbstractItems) = SubSeq(AbstractItems, 2, Len(AbstractItems))
<1>1. 1 \in 1 .. Len(items) /\ items[1].kind = kind
  BY Before DEF On
<1>2. PICK S : AbstractItems \in Seq(S)
  BY AbstractShape
<1>3. Len(AbstractItems) = Len(items)
      /\ AbstractItems[1] = [kind |-> kind, value |-> ValueIn(items, memory, 1)]
  BY <1>1, AbstractShape
<1>4. AbstractItems # <<>> /\ Head(AbstractItems) = AbstractItems[1]
  BY <1>1, <1>2, <1>3, EmptySeq
<1>5. Tail(AbstractItems) = SubSeq(AbstractItems, 2, Len(AbstractItems))
  BY <1>2, <1>4, TailIsSubSeq
<1> QED
  BY <1>1, <1>3, <1>4, <1>5

LEMMA ReturnStep ==
  ASSUME CallInv, RTS
  PROVE  CallInv' /\ Abstract!Next
<1>1. /\ ~address_error /\ On("return")
      /\ next_instruction' = ReadLongWord(memory, A7)
      /\ address_error' = Odd(ReadLongWord(memory, A7))
      /\ A7' = Wrap(A7 + 4) /\ items' = Kept(1)
      /\ UNCHANGED <<memory, A6, condition_codes>>
  BY DEF RTS, Fetched
<1>2. /\ 1 \in 1 .. Len(items) /\ items[1].kind = "return"
      /\ AbstractItems # <<>>
      /\ Head(AbstractItems) = [kind |-> "return", value |-> ValueIn(items, memory, 1)]
      /\ Tail(AbstractItems) = SubSeq(AbstractItems, 2, Len(AbstractItems))
  BY <1>1, TopItem
<1>3. Holds(items, memory, 1) /\ A7 = AddressIn(items, 1) /\ InOrder(items)
      /\ Chained(items, A6, 1)
  BY <1>2, Before DEF Sound
<1>4. ReadLongWord(memory, A7) \in Code
      /\ ValueIn(items, memory, 1) = ReadLongWord(memory, A7)
  BY <1>2, <1>3 DEF Holds, ValueIn
<1>5. address_error' = address_error /\ address_error' \in BOOLEAN
      /\ condition_codes' \in CCR
  <2>1. address_error' = FALSE
    BY <1>1, <1>4, CodeAddress DEF Odd
  <2>2. address_error = FALSE
    BY <1>1 DEF CallInv
  <2> QED
    BY <1>1, <2>1, <2>2 DEF CallInv
<1>6. A7' = AddressIn(items, 1 + 1)
  BY <1>1, <1>2, <1>3, NextAddress DEF SizeOf
<1>7. Chained(items, A6', 1 + 1)
  BY <1>1, <1>2, <1>3, ChainPast
<1>8. 1 \in 0 .. Len(items)
  BY <1>2, Before
<1>9. /\ CallInv' /\ AbstractItems' = SubSeq(AbstractItems, 1 + 1, Len(AbstractItems))
      /\ Depth(A6)' = DepthIn(items, A6')
  BY <1>1, <1>5, <1>6, <1>7, <1>8, StackPopped
<1>10. Depth(A6)' = Depth(A6)
  BY <1>1, <1>9, AbstractNow
<1>11. AbstractItems' = Tail(AbstractItems)
  BY <1>2, <1>9
<1>12. /\ Head(AbstractItems).kind = "return"
       /\ next_instruction' = Head(AbstractItems).value
  BY <1>1, <1>2, <1>4
<1>13. Abstract!Return
  BY <1>1, <1>2, <1>5, <1>10, <1>11, <1>12, Zenon
       DEF Abstract!Return, Abstract!Top, AbstractItems
<1> QED
  BY <1>1, <1>9, <1>13 DEF Abstract!Next

LEMMA PushStep ==
  ASSUME CallInv, PEA
  PROVE  CallInv' /\ Abstract!Next
<1>1. PICK value \in Data :
        /\ ~address_error /\ Room(1) /\ Pushed(value)
        /\ next_instruction' = Behind(4) /\ items' = Stacked("data")
        /\ UNCHANGED <<A6, condition_codes, address_error>>
  BY DEF PEA, Fetched
<1>2. value \in LongRange /\ Len(items) < MaxItems
  BY <1>1, Before, SubroutinesAssumption DEF Room
<1>3. condition_codes' \in CCR /\ address_error' \in BOOLEAN
  BY <1>1 DEF CallInv
<1>4. /\ CallInv' /\ Depth(A6)' = Depth(A6)
      /\ AbstractItems' = <<[kind |-> "data", value |-> value]>> \o AbstractItems
  BY <1>1, <1>2, <1>3, ValuePushed
<1>5. Abstract!Go
  BY <1>1 DEF Abstract!Go, Behind
<1>6. Abstract!Push
  BY <1>1, <1>4, <1>5 DEF Abstract!Push, Abstract!Item, AbstractItems
<1> QED
  BY <1>1, <1>4, <1>6 DEF Abstract!Next

LEMMA PopStep ==
  ASSUME CallInv, Pop
  PROVE  CallInv' /\ Abstract!Next
<1>1. /\ ~address_error /\ On("data") /\ A7' = Wrap(A7 + 4)
      /\ next_instruction' = Behind(2) /\ condition_codes' \in CCR /\ items' = Kept(1)
      /\ UNCHANGED <<memory, A6, address_error>>
  BY DEF Pop, Fetched
<1>2. /\ 1 \in 1 .. Len(items) /\ items[1].kind = "data"
      /\ AbstractItems # <<>>
      /\ Head(AbstractItems) = [kind |-> "data", value |-> ValueIn(items, memory, 1)]
      /\ Tail(AbstractItems) = SubSeq(AbstractItems, 2, Len(AbstractItems))
  BY <1>1, TopItem
<1>3. A7 = AddressIn(items, 1) /\ InOrder(items) /\ Chained(items, A6, 1)
  BY Before DEF Sound
<1>4. A7' = AddressIn(items, 1 + 1)
  BY <1>1, <1>2, <1>3, NextAddress DEF SizeOf
<1>5. Chained(items, A6', 1 + 1)
  BY <1>1, <1>2, <1>3, ChainPast
<1>6. 1 \in 0 .. Len(items) /\ address_error' \in BOOLEAN
  BY <1>1, <1>2, Before DEF CallInv
<1>7. /\ CallInv' /\ AbstractItems' = SubSeq(AbstractItems, 1 + 1, Len(AbstractItems))
      /\ Depth(A6)' = DepthIn(items, A6')
  BY <1>1, <1>4, <1>5, <1>6, StackPopped
<1>8. Depth(A6)' = Depth(A6) /\ AbstractItems' = Tail(AbstractItems)
  BY <1>1, <1>2, <1>7, AbstractNow
<1>9. Abstract!Go
  BY <1>1 DEF Abstract!Go, Behind
<1>10. Head(AbstractItems).kind = "data"
  BY <1>2
<1>11. Abstract!Pop
  BY <1>1, <1>2, <1>8, <1>9, <1>10, Zenon DEF Abstract!Pop, Abstract!Top, AbstractItems
<1> QED
  BY <1>1, <1>7, <1>11 DEF Abstract!Next

LEMMA SaveStep ==
  ASSUME CallInv, MOVE_SR
  PROVE  CallInv' /\ Abstract!Next
<1> DEFINE top == OnTop(items, "codes")
<1>1. /\ ~address_error /\ Room(1) /\ A7' = Wrap(A7 - 2)
      /\ memory' = WriteWord(memory, Wrap(A7 - 2), System * ByteValues + condition_codes)
      /\ next_instruction' = Behind(2) /\ items' = top
      /\ UNCHANGED <<A6, condition_codes, address_error>>
  BY StackedIs DEF MOVE_SR, Fetched
<1>2. /\ condition_codes' \in CCR /\ address_error' \in BOOLEAN
         /\ condition_codes \in ByteRange
      /\ Len(items) < MaxItems /\ "codes" \in KindNames
  BY <1>1, Before, SubroutinesAssumption DEF CallInv, Room, KindNames
<1>3. /\ Over(top, items, 1) /\ Len(top) = Len(items) + 1 /\ top[1].kind = "codes"
      /\ AddressIn(top, 1) = Wrap(A7 - 2)
  BY <1>2, Before, ItemOnTop DEF SizeOf
<1>4. InOrder(top) /\ 1 \in 1 .. Len(top) /\ memory \in Memories
  BY <1>3, Before DEF Over
<1> HIDE DEF top
<1>5. memory' = WriteWord(memory, AddressIn(top, 1), System * ByteValues + condition_codes)
  BY <1>1, <1>3
<1>6. /\ memory' \in Memories /\ ReadByte(memory', AddressIn(top, 1) + 1) = condition_codes
      /\ \A w \in 0 .. MemoryWords - 1 : w \notin WordsOf(top, 1) => memory'[w] = memory[w]
  BY <1>2, <1>3, <1>4, <1>5, CodesWritten
<1>7. ValueIn(top, memory', 1) = condition_codes /\ Holds(top, memory', 1)
  BY <1>1, <1>2, <1>3, <1>6 DEF ValueIn, Holds
<1>8. Sound(items, memory, A6)
  BY Before
<1>9. /\ Sound(top, memory', A6)
      /\ StackOf(top, memory') = <<[kind |-> "codes", value |-> condition_codes]>> \o StackOf(items, memory)
      /\ DepthIn(top, A6) = DepthIn(items, A6)
  BY <1>2, <1>6, <1>7, <1>8, ItemPushed DEF top
<1>10. CallInv'
  BY <1>1, <1>2, <1>3, <1>9 DEF CallInv
<1>11. /\ AbstractItems' = <<[kind |-> "codes", value |-> condition_codes]>> \o AbstractItems
       /\ Depth(A6)' = Depth(A6)
  BY <1>1, <1>9, AbstractNow, AbstractThen
<1>12. Abstract!Go
  BY <1>1 DEF Abstract!Go, Behind
<1>13. Abstract!SaveCodes
  BY <1>1, <1>11, <1>12 DEF Abstract!SaveCodes, Abstract!Item, AbstractItems
<1> QED
  BY <1>1, <1>10, <1>13 DEF Abstract!Next

LEMMA RestoreStep ==
  ASSUME CallInv, RTR
  PROVE  CallInv' /\ Abstract!Next
<1>1. /\ ~address_error /\ On("codes") /\ Len(items) > 1 /\ items[2].kind = "return"
      /\ condition_codes' = ReadByte(memory, A7 + 1)
      /\ next_instruction' = ReadLongWord(memory, Wrap(A7 + 2))
      /\ address_error' = Odd(ReadLongWord(memory, Wrap(A7 + 2)))
      /\ A7' = Wrap(A7 + 6) /\ items' = Kept(2) /\ UNCHANGED <<memory, A6>>
  BY DEF RTR, Fetched, CodesOf
<1>2. /\ 1 \in 1 .. Len(items) /\ items[1].kind = "codes"
      /\ AbstractItems # <<>> /\ Len(AbstractItems) = Len(items)
      /\ Head(AbstractItems) = [kind |-> "codes", value |-> ValueIn(items, memory, 1)]
      /\ Tail(AbstractItems) = SubSeq(AbstractItems, 2, Len(AbstractItems))
  BY <1>1, TopItem
<1>3. /\ A7 = AddressIn(items, 1) /\ A7 \in Int /\ InOrder(items) /\ Chained(items, A6, 1)
      /\ 2 \in 1 .. Len(items) /\ 2 \in 0 .. Len(items) /\ Len(items) \in Nat
  BY <1>1, Before DEF Sound
<1>4. Holds(items, memory, 1) /\ Holds(items, memory, 2)
  BY <1>2, <1>3 DEF CallInv, Sound
<1>5. AddressIn(items, 1 + 1) = Wrap(A7 + 2)
      /\ AddressIn(items, 2 + 1) = Wrap(AddressIn(items, 2) + 4)
  BY <1>1, <1>2, <1>3, NextAddress DEF SizeOf
<1>6. Wrap(Wrap(A7 + 2) + 4) = Wrap(A7 + 6)
  <2>1. A7 + 2 \in Int /\ A7 + 2 + 4 = A7 + 6
    BY <1>3
  <2>2. Wrap(Wrap(A7 + 2) + 4) = Wrap(A7 + 2 + 4)
    BY <2>1, WrapSum
  <2> QED
    BY <2>1, <2>2
<1>7. A7' = AddressIn(items, 2 + 1) /\ AddressIn(items, 2) = Wrap(A7 + 2)
  BY <1>1, <1>5, <1>6
<1>8. /\ ReadLongWord(memory, Wrap(A7 + 2)) \in Code
      /\ ValueIn(items, memory, 2) = ReadLongWord(memory, Wrap(A7 + 2))
      /\ condition_codes' \in CCR /\ ValueIn(items, memory, 1) = condition_codes'
  BY <1>1, <1>2, <1>3, <1>4, <1>7 DEF Holds, ValueIn
<1>9. address_error' = address_error /\ address_error' \in BOOLEAN
  <2>1. address_error' = FALSE
    BY <1>1, <1>8, CodeAddress DEF Odd
  <2>2. address_error = FALSE
    BY <1>1 DEF CallInv
  <2> QED
    BY <2>1, <2>2
<1>10. Chained(items, A6', 2 + 1)
  <2>1. Chained(items, A6, 1 + 1)
    BY <1>2, <1>3, ChainPast
  <2>2. Chained(items, A6, 2 + 1)
    BY <1>1, <1>3, <2>1, ChainPast
  <2> QED
    BY <1>1, <2>2
<1>11. /\ CallInv' /\ AbstractItems' = SubSeq(AbstractItems, 2 + 1, Len(AbstractItems))
       /\ Depth(A6)' = DepthIn(items, A6')
  BY <1>1, <1>3, <1>7, <1>8, <1>9, <1>10, StackPopped
<1>12. Depth(A6)' = Depth(A6)
  BY <1>1, <1>11, AbstractNow
<1>13. AbstractItems' = Tail(Tail(AbstractItems))
  <2>1. PICK S : AbstractItems \in Seq(S)
    BY AbstractShape
  <2>2. 2 \in 1 .. Len(AbstractItems) /\ Len(AbstractItems) \in 2 .. Len(AbstractItems)
    BY <1>2, <1>3
  <2>3. Tail(SubSeq(AbstractItems, 2, Len(AbstractItems))) = SubSeq(AbstractItems, 2 + 1, Len(AbstractItems))
    BY <2>1, <2>2, HeadTailOfSubSeq
  <2> QED
    BY <1>2, <1>11, <2>3
<1>14. AbstractItems[2] = [kind |-> "return", value |-> ValueIn(items, memory, 2)]
  BY <1>1, <1>3, AbstractShape
<1>15. /\ Head(AbstractItems).kind = "codes" /\ condition_codes' = Head(AbstractItems).value
       /\ AbstractItems[2].kind = "return" /\ next_instruction' = AbstractItems[2].value
       /\ Len(AbstractItems) > 1
  BY <1>1, <1>2, <1>8, <1>14
<1>16. Abstract!ReturnRestoring
  BY <1>2, <1>9, <1>12, <1>13, <1>15, Zenon
     DEF Abstract!ReturnRestoring, Abstract!Top, AbstractItems
<1> QED
  BY <1>1, <1>11, <1>16 DEF Abstract!Next

LEMMA LeaveStep ==
  ASSUME CallInv, UNLK
  PROVE  CallInv' /\ Abstract!Next
<1>1. /\ ~address_error /\ Framed /\ A7' = Wrap(A6 + 4)
      /\ A6' = ReadLongWord(memory, A6) /\ next_instruction' = Behind(2)
      /\ items' = Kept(FrameItem) /\ UNCHANGED <<memory, condition_codes, address_error>>
  BY DEF UNLK, Fetched, BelowFrame
<1> DEFINE k == FrameItem
<1>2. k \in DOMAIN items /\ IsFrame(k)
  BY <1>1 DEF Framed, FrameItem
<1>3. k \in 1 .. Len(items) /\ items[k].kind = "frame" /\ AddressIn(items, k) = A6
  BY <1>2, Before DEF IsFrame, ItemAddress, AddressIn, Below
<1> HIDE DEF k
<1>4. /\ InOrder(items) /\ Holds(items, memory, k) /\ k \in 0 .. Len(items)
      /\ Sound(items, memory, A6) /\ Len(items) \in Nat
  BY <1>3, Before DEF Sound
<1>5. Chained(items, A6', k + 1)
  BY <1>1, <1>3, <1>4 DEF Holds
<1>6. A7' = AddressIn(items, k + 1)
  BY <1>1, <1>3, <1>4, NextAddress DEF SizeOf
<1>7. /\ CallInv' /\ AbstractItems' = SubSeq(AbstractItems, k + 1, Len(AbstractItems))
      /\ Depth(A6)' = DepthIn(items, A6')
  BY <1>1, <1>4, <1>5, <1>6, StackPopped DEF k, CallInv
<1>8. Depth(A6) = Len(items) + 1 - k
  BY <1>3, <1>4, FrameDepth, AbstractNow
<1>9. /\ Len(AbstractItems) = Len(items)
      /\ AbstractItems[k] = [kind |-> "frame", value |-> DepthIn(items, A6')]
  BY <1>1, <1>3, AbstractShape DEF ValueIn
<1>10. /\ Depth(A6) # 0
       /\ Len(AbstractItems) - Depth(A6) + 2 = k + 1
       /\ Len(AbstractItems) - Depth(A6) + 1 = k
  BY <1>3, <1>4, <1>8, <1>9
<1>11. /\ AbstractItems' = SubSeq(AbstractItems, Len(AbstractItems) - Depth(A6) + 2, Len(AbstractItems))
       /\ Depth(A6)' = AbstractItems[Len(AbstractItems) - Depth(A6) + 1].value
  <2>1. AbstractItems' = SubSeq(AbstractItems, Len(AbstractItems) - Depth(A6) + 2, Len(AbstractItems))
    BY <1>7, <1>10, Zenon
  <2>2. Depth(A6)' = AbstractItems[k].value
    BY <1>7, <1>9
  <2> QED
    BY <1>10, <2>1, <2>2, Zenon
<1>12. Abstract!Go
  BY <1>1 DEF Abstract!Go, Behind
<1>13. Abstract!Leave
  BY <1>1, <1>10, <1>11, <1>12, Zenon DEF Abstract!Leave, AbstractItems
<1> QED
  BY <1>1, <1>7, <1>13 DEF Abstract!Next

(***************************************************************************)
(* A frame and its local variables: the frame first, then one local        *)
(* variable on top of the other, in memory that holds them already.        *)
(***************************************************************************)

LEMMA FramesIs ==
  ASSUME CallInv
  PROVE  LET framed == OnTop(items, "frame")
         IN  /\ StackedFrame(0) = framed
             /\ StackedFrame(1) = OnTop(framed, "local")
             /\ StackedFrame(2) = OnTop(OnTop(framed, "local"), "local")
<1> DEFINE framed == OnTop(items, "frame")
           local(b) == [kind |-> "local", bytes |-> b]
           old == Below(items, 1)
<1>1. items \in Seq(ItemSet) /\ old \in Nat /\ DOMAIN items = 1 .. Len(items)
      /\ Len(items) \in Nat
  BY Before, TopNumbers
<1>2. Stacked("frame") = framed
  BY StackedIs
<1> HIDE DEF old
<1>3. /\ framed = <<[kind |-> "frame", bytes |-> old + 4]>> \o items
      /\ [kind |-> "frame", bytes |-> old + 4] \in ItemSet
  BY <1>1 DEF OnTop, SizeOf, ItemSet, KindNames, old
<1> HIDE DEF framed
<1>4. framed \in Seq(ItemSet) /\ framed[1].bytes = old + 4 /\ Below(framed, 1) = old + 4
  <2>1. framed \in Seq(ItemSet) /\ framed[1] = [kind |-> "frame", bytes |-> old + 4]
        /\ Len(framed) = 1 + Len(items)
    BY <1>1, <1>3
  <2>2. 1 \in DOMAIN framed
    BY <1>1, <2>1, LenProperties
  <2> QED
    BY <2>1, <2>2 DEF Below
<1>5. OnTop(framed, "local") = <<local(old + 4 + 4)>> \o framed
  BY <1>4 DEF OnTop, SizeOf
<1> DEFINE locals(n) == [k \in 1 .. n |-> local(old + 4 + (n + 1 - k) * 4)]
<1>6. \A n \in 0 .. 2 : StackedFrame(n) = locals(n) \o framed
  BY <1>2, <1>4 DEF StackedFrame, SizeOf
<1> HIDE DEF locals
<1>7. /\ StackedFrame(0) = locals(0) \o framed /\ StackedFrame(1) = locals(1) \o framed
      /\ StackedFrame(2) = locals(2) \o framed
  BY <1>6
<1> USE DEF locals
<1>8. locals(0) = <<>>
  OBVIOUS
<1>9. locals(1) = <<local(old + 4 + 4)>>
  BY <1>1
<1>10. locals(2) = <<local(old + 4 + 8), local(old + 4 + 4)>>
  BY <1>1
<1> HIDE DEF locals
<1>11. StackedFrame(0) = framed
  <2>1. StackedFrame(0) = <<>> \o framed
    BY <1>7, <1>8
  <2> QED
    BY <1>4, <2>1, ConcatEmptySeq
<1>12. StackedFrame(1) = OnTop(framed, "local")
  BY <1>5, <1>7, <1>9, Zenon
<1>13. StackedFrame(2) = OnTop(OnTop(framed, "local"), "local")
  <2> DEFINE one == local(old + 4 + 4)
             two == local(old + 4 + 8)
  <2>1. one \in ItemSet /\ two \in ItemSet /\ one.bytes = old + 4 + 4
    BY <1>1 DEF ItemSet, KindNames
  <2>2. StackedFrame(2) = <<two, one>> \o framed
    BY <1>7, <1>10, Zenon
  <2>3. OnTop(framed, "local") = <<one>> \o framed
    BY <1>5
  <2> HIDE DEF one
  <2>4. /\ <<one>> \o framed \in Seq(ItemSet) /\ (<<one>> \o framed)[1] = one
        /\ Len(<<one>> \o framed) = 1 + Len(framed) /\ Len(framed) \in Nat
    BY <1>4, <2>1
  <2>5. 1 \in DOMAIN (<<one>> \o framed)
    BY <2>4, LenProperties
  <2>6. Below(<<one>> \o framed, 1) = old + 4 + 4
    BY <2>1, <2>4, <2>5 DEF Below
  <2>7. OnTop(<<one>> \o framed, "local") = <<two>> \o (<<one>> \o framed)
    BY <1>1, <2>6 DEF OnTop, SizeOf
  <2> HIDE DEF two
  <2>8. <<two>> \o (<<one>> \o framed) = <<two, one>> \o framed
    <3>1. <<two>> \in Seq(ItemSet) /\ <<one>> \in Seq(ItemSet)
          /\ <<two>> \o <<one>> = <<two, one>>
      <4> DEFINE both == <<two>> \o <<one>>
                 pair == <<two, one>>
      <4>1. /\ <<two>> \in Seq(ItemSet) /\ <<one>> \in Seq(ItemSet)
            /\ Len(<<two>>) = 1 /\ Len(<<one>>) = 1 /\ <<two>>[1] = two /\ <<one>>[1] = one
        BY <2>1
      <4>2. /\ pair \in Seq(ItemSet) /\ Len(pair) = 2 /\ pair[1] = two /\ pair[2] = one
        BY <2>1
      <4>3. /\ both \in Seq(ItemSet) /\ Len(both) = 1 + 1
            /\ \A i \in 1 .. 1 + 1 : both[i] = IF i <= 1 THEN <<two>>[i] ELSE <<one>>[i - 1]
        BY <4>1, ConcatProperties
      <4> HIDE DEF both, pair
      <4>4. Len(both) = 2 /\ both[1] = two /\ both[2] = one
        BY <4>1, <4>3
      <4>5. both = pair
        BY <4>2, <4>3, <4>4, SeqEqual
      <4> QED
        BY <4>1, <4>5 DEF both, pair
    <3>2. (<<two>> \o <<one>>) \o framed = <<two>> \o (<<one>> \o framed)
      BY <1>4, <3>1, ConcatAssociative
    <3> QED
      BY <3>1, <3>2
  <2> QED
    BY <2>2, <2>3, <2>7, <2>8
<1> QED
  BY <1>11, <1>12, <1>13 DEF framed

LEMMA OneLocal ==
  ASSUME NEW its, NEW m, NEW frame, Sound(its, m, frame), Len(its) < MaxItems
  PROVE  LET top == OnTop(its, "local")
         IN  /\ Sound(top, m, frame) /\ DepthIn(top, frame) = DepthIn(its, frame)
             /\ Over(top, its, 1) /\ Len(top) = Len(its) + 1 /\ top[1].kind = "local"
             /\ AddressIn(top, 1) = Wrap(AddressIn(its, 1) - 4)
             /\ top[2] = its[1] \/ Len(its) = 0
<1> DEFINE top == OnTop(its, "local")
<1>1. InOrder(its) /\ m \in Memories /\ "local" \in KindNames
  BY DEF Sound, KindNames
<1>2. /\ Over(top, its, 1) /\ Len(top) = Len(its) + 1 /\ top[1].kind = "local"
      /\ AddressIn(top, 1) = Wrap(AddressIn(its, 1) - 4)
  BY <1>1, ItemOnTop DEF SizeOf
<1>3. Holds(top, m, 1)
  BY <1>2 DEF Holds
<1>4. Sound(top, m, frame) /\ DepthIn(top, frame) = DepthIn(its, frame)
  BY <1>1, <1>3, ItemPushed
<1>5. top[1 + 1] = its[1] \/ Len(its) = 0
  <2>1. Len(its) \in Nat
    BY <1>1, TopNumbers
  <2>2. CASE Len(its) = 0
    BY <2>2
  <2>3. CASE Len(its) # 0
    <3>1. 1 \in 1 .. Len(its)
      BY <2>1, <2>3
    <3> QED
      BY <1>2, <3>1, SamePlaces
  <2> QED
    BY <2>2, <2>3
<1> QED
  BY <1>2, <1>4, <1>5

LEMMA Locals ==
  ASSUME NEW its, NEW m, NEW frame, Sound(its, m, frame), Len(its) > 0,
         NEW c \in 0 .. 2, Len(its) + c <= MaxItems, NEW t,
         /\ c = 0 => t = its
         /\ c = 1 => t = OnTop(its, "local")
         /\ c = 2 => t = OnTop(OnTop(its, "local"), "local")
  PROVE  /\ Sound(t, m, frame) /\ DepthIn(t, frame) = DepthIn(its, frame) /\ Over(t, its, c)
         /\ AddressIn(t, 1) = Wrap(AddressIn(its, 1) - 4 * c)
         /\ \A k \in 1 .. c : t[k].kind = "local"
<1>1. InOrder(its) /\ Len(its) \in Nat /\ MaxItems \in Nat /\ 1 \in 1 .. Len(its)
  BY TopNumbers, StackNumbers DEF Sound
<1> DEFINE a == AddressIn(its, 1)
<1>2. a \in Int /\ a \in LongRange
  BY <1>1, NextAddress
<1>3. CASE c = 0
  <2>1. Over(its, its, 0)
    BY <1>1 DEF Over
  <2> HIDE DEF a
  <2>2. Wrap(a - 4 * 0) = a
    <3>1. a - 4 * 0 = a
      BY <1>2
    <3> QED
      BY <1>2, <3>1, WrapSmall
  <2> QED
    BY <1>3, <2>1, <2>2 DEF a
<1>4. CASE c = 1
  <2>1. Len(its) < MaxItems /\ \A k \in 1 .. c : k = 1
    BY <1>1, <1>4
  <2> QED
    BY <1>4, <2>1, OneLocal
<1>5. CASE c = 2
  <2> DEFINE one == OnTop(its, "local")
  <2>1. Len(its) < MaxItems
    BY <1>1, <1>5
  <2>2. /\ Sound(one, m, frame) /\ DepthIn(one, frame) = DepthIn(its, frame)
        /\ Over(one, its, 1) /\ Len(one) = Len(its) + 1 /\ one[1].kind = "local"
        /\ AddressIn(one, 1) = Wrap(a - 4)
    BY <2>1, OneLocal
  <2> HIDE DEF one, a
  <2>3. Len(one) < MaxItems /\ Len(one) # 0
    BY <1>1, <1>5, <2>2
  <2>4. t = OnTop(one, "local")
    BY <1>5 DEF one
  <2>5. /\ Sound(t, m, frame) /\ DepthIn(t, frame) = DepthIn(one, frame)
        /\ Over(t, one, 1) /\ Len(t) = Len(one) + 1 /\ t[1].kind = "local"
        /\ AddressIn(t, 1) = Wrap(AddressIn(one, 1) - 4) /\ t[2] = one[1]
    BY <2>2, <2>3, <2>4, OneLocal
  <2>6. AddressIn(t, 1) = Wrap(a - 4 * 2)
    <3> DEFINE x == a - 4
               y == -4
    <3>1. x \in Int /\ y \in Int /\ x + y = a - 4 * 2
      BY <1>2
    <3>2. Wrap(x) \in Int
      BY <3>1, WrapRange
    <3>3. Wrap(x) + y = Wrap(x) - 4
      BY <3>2
    <3> HIDE DEF x, y
    <3>4. Wrap(Wrap(x) + y) = Wrap(x + y)
      BY <3>1, WrapSum
    <3> QED
      BY <2>2, <2>5, <3>1, <3>3, <3>4 DEF x
  <2>7. Over(t, its, 2)
    <3>1. /\ InOrder(t) /\ Len(t) = Len(its) + 2
      BY <1>1, <2>2, <2>5 DEF Over
    <3>2. ASSUME NEW k \in 1 .. Len(its)  PROVE t[k + 2] = its[k]
      <4>1. one[k + 1] = its[k]
        BY <2>2 DEF Over
      <4>2. k + 1 \in 1 .. Len(one) /\ (k + 1) + 1 = k + 2
        BY <1>1, <2>2
      <4>3. t[(k + 1) + 1] = one[k + 1]
        BY <2>5, <4>2 DEF Over
      <4> QED
        BY <4>1, <4>2, <4>3
    <3> QED
      BY <1>1, <3>1, <3>2 DEF Over
  <2>8. \A k \in 1 .. c : t[k].kind = "local"
    <3>1. \A k \in 1 .. c : k = 1 \/ k = 2
      BY <1>5
    <3> QED
      BY <2>2, <2>5, <3>1
  <2> QED
    BY <1>5, <2>2, <2>5, <2>6, <2>7, <2>8 DEF a
<1> QED
  BY <1>3, <1>4, <1>5

LEMMA ChainedLong ==
  ASSUME NEW its, InOrder(its), NEW a, NEW from \in Nat \ {0}, Chained(its, a, from)
  PROVE  a \in LongRange
<1>1. OuterFrame \in LongRange /\ Len(its) \in Nat
  BY SubroutinesAssumption, TopNumbers
<1>2. ASSUME NEW k \in from .. Len(its), FrameAt(its, a, from, k)  PROVE a \in LongRange
  <2>1. k \in 1 .. Len(its) /\ a = AddressIn(its, k)
    BY <1>1, <1>2 DEF FrameAt
  <2> QED
    BY <2>1, NextAddress
<1> QED
  BY <1>1, <1>2 DEF Chained

LEMMA EnterStep ==
  ASSUME CallInv, LINK
  PROVE  CallInv' /\ Abstract!Next
<1>1. PICK locals \in 0 .. 2 :
        /\ ~address_error /\ Room(1 + locals)
        /\ memory' = WriteLongWordBackwards(memory, Wrap(A7 - 4), A6)
        /\ A6' = Wrap(A7 - 4) /\ A7' = Wrap(A7 - 4 - 4 * locals)
        /\ next_instruction' = Behind(4) /\ items' = StackedFrame(locals)
        /\ UNCHANGED <<condition_codes, address_error>>
  BY DEF LINK, Fetched
<1> DEFINE framed == OnTop(items, "frame")
<1>2. /\ InOrder(items) /\ Sound(items, memory, A6) /\ Chained(items, A6, 1)
      /\ Len(items) \in Nat /\ MaxItems \in Nat /\ A7 \in Int
  BY Before, StackNumbers DEF Sound
<1>3. Len(items) < MaxItems /\ Len(items) + 1 + locals <= MaxItems
  BY <1>1, <1>2 DEF Room
<1>4. A6 \in LongRange
  BY <1>2, ChainedLong
<1>5. "frame" \in KindNames \ {"codes"} /\ "frame" \in KindNames
  BY DEF KindNames
<1>6. /\ InOrder(framed) /\ Len(framed) = Len(items) + 1 /\ framed[1].kind = "frame"
      /\ memory' \in Memories /\ ReadLongWord(memory', AddressIn(framed, 1)) = A6
      /\ Wrap(A7 - 4) = AddressIn(framed, 1)
      /\ \A w \in 0 .. MemoryWords - 1 : w \notin WordsOf(framed, 1) => memory'[w] = memory[w]
  BY <1>1, <1>3, <1>4, <1>5, LongPushed
<1>7. /\ StackOf(framed, memory') = <<[kind |-> "frame", value |-> ValueIn(framed, memory', 1)]>> \o StackOf(items, memory)
      /\ Chained(framed, A6, 2) /\ DepthIn(framed, A6) = DepthIn(items, A6)
      /\ (Holds(framed, memory', 1) => Sound(framed, memory', AddressIn(framed, 1)))
  BY <1>2, <1>3, <1>5, <1>6, ItemPushed
<1>8. StackedFrame(0) = framed /\ StackedFrame(1) = OnTop(framed, "local")
      /\ StackedFrame(2) = OnTop(OnTop(framed, "local"), "local")
  BY FramesIs
<1> HIDE DEF framed
<1>9. Holds(framed, memory', 1) /\ ValueIn(framed, memory', 1) = DepthIn(items, A6)
  BY <1>6, <1>7 DEF Holds, ValueIn
<1>10. Sound(framed, memory', A6')
  BY <1>1, <1>6, <1>7, <1>9
<1>11. /\ locals = 0 => items' = framed
       /\ locals = 1 => items' = OnTop(framed, "local")
       /\ locals = 2 => items' = OnTop(OnTop(framed, "local"), "local")
  BY <1>1, <1>8
<1>12. Len(framed) > 0 /\ Len(framed) + locals <= MaxItems
  BY <1>2, <1>3, <1>6
<1>13. /\ Sound(items', memory', A6') /\ DepthIn(items', A6') = DepthIn(framed, A6')
       /\ Over(items', framed, locals)
       /\ AddressIn(items', 1) = Wrap(AddressIn(framed, 1) - 4 * locals)
       /\ \A k \in 1 .. locals : items'[k].kind = "local"
  BY <1>10, <1>11, <1>12, Locals
<1>14. A7' = AddressIn(items', 1)
  <2> DEFINE x == A7 - 4
             y == -(4 * locals)
  <2>1. x \in Int /\ y \in Int /\ x + y = A7 - 4 - 4 * locals
    BY <1>2
  <2>2. Wrap(x) \in Int
    BY <2>1, WrapRange
  <2>3. Wrap(x) + y = Wrap(x) - 4 * locals
    BY <2>2
  <2> HIDE DEF y
  <2>4. Wrap(Wrap(x) + y) = Wrap(x + y)
    BY <2>1, WrapSum
  <2> QED
    BY <1>1, <1>6, <1>13, <2>1, <2>3, <2>4
<1>15. CallInv'
  <2>1. condition_codes' \in CCR /\ address_error' \in BOOLEAN
    BY <1>1 DEF CallInv
  <2> QED
    BY <1>13, <1>14, <2>1 DEF CallInv
<1>16. Depth(A6)' = Len(items) + 1
  <2>1. DepthIn(framed, AddressIn(framed, 1)) = Len(framed) + 1 - 1
    BY <1>6, <1>2, DepthOfItem
  <2>2. DepthIn(framed, A6') = Len(items) + 1
    BY <1>1, <1>2, <1>6, <2>1
  <2> QED
    BY <1>13, <2>2, AbstractThen
<1> DEFINE base == <<[kind |-> "frame", value |-> Depth(A6)]>> \o AbstractItems
<1>17. StackOf(framed, memory') = base
  BY <1>7, <1>9, AbstractNow
<1>18. /\ Len(base) = Len(items) + 1
       /\ Len(AbstractItems') = Len(items') /\ Len(items') = Len(items) + 1 + locals
  <2>1. Len(StackOf(framed, memory')) = Len(framed)
    BY <1>6, StackShape
  <2>2. Len(AbstractItems') = Len(items')
    <3>1. InOrder(items')
      BY <1>13 DEF Sound
    <3> QED
      BY <3>1, StackShape, AbstractThen
  <2>3. Len(items') = Len(items) + 1 + locals
    BY <1>6, <1>13 DEF Over
  <2> HIDE DEF base
  <2> QED
    BY <1>6, <1>17, <2>1, <2>2, <2>3
<1>19. base = SubSeq(AbstractItems', locals + 1, Len(AbstractItems'))
  <2>1. \A k \in 1 .. Len(framed) : Holds(framed, memory', k)
    BY <1>10 DEF Sound
  <2>2. StackOf(framed, memory') = SubSeq(StackOf(items', memory'), locals + 1, Len(items'))
    BY <1>6, <1>13, <2>1, PartOfStack
  <2> HIDE DEF base
  <2> QED
    BY <1>17, <1>18, <2>2, AbstractThen
<1>20. ASSUME NEW k \in 1 .. locals
       PROVE  AbstractItems'[k].kind = "local" /\ AbstractItems'[k].value \in LongRange
  <2>1. k \in 1 .. Len(items') /\ items'[k].kind = "local"
    BY <1>2, <1>13, <1>18
  <2>2. InOrder(items')
    BY <1>13 DEF Sound
  <2>3. AbstractItems'[k] = [kind |-> items'[k].kind, value |-> ValueIn(items', memory', k)]
    BY <2>1, <2>2, StackShape, AbstractThen
  <2>4. ValueIn(items', memory', k) = ReadLongWord(memory', AddressIn(items', k))
    BY <2>1 DEF ValueIn
  <2>5. AddressIn(items', k) \in Int
    BY <2>1, <2>2, NextAddress
  <2> QED
    BY <1>6, <2>1, <2>3, <2>4, <2>5, LongRead
<1>21. Abstract!Go
  BY <1>1 DEF Abstract!Go, Behind
<1>22. base = <<Abstract!Item("frame", Depth(A6))>> \o AbstractItems
  BY DEF Abstract!Item
<1>23. Len(AbstractItems') - Len(base) = locals /\ Len(AbstractItems) = Len(items)
  <2>1. Len(AbstractItems) = Len(items)
    BY AbstractShape
  <2> HIDE DEF base
  <2> QED
    BY <1>2, <1>18, <2>1
<1> HIDE DEF base
<1>24. condition_codes' = condition_codes /\ locals \in Nat
  BY <1>1
<1>25. Abstract!Enter
  BY <1>16, <1>19, <1>20, <1>21, <1>22, <1>23, <1>24, Zenon
       DEF Abstract!Enter, AbstractItems
<1> QED
  BY <1>1, <1>15, <1>25 DEF Abstract!Next

LEMMA AssignStep ==
  ASSUME CallInv, Assign
  PROVE  CallInv' /\ Abstract!Next
<1>1. PICK value \in Data :
        /\ ~address_error /\ Framed /\ FrameItem > 1 /\ items[FrameItem - 1].kind = "local"
        /\ memory' = WriteLongWord(memory, Wrap(A6 - 4), value)
        /\ next_instruction' = Behind(6) /\ condition_codes' \in CCR
        /\ UNCHANGED <<A6, A7, address_error, items>>
  BY DEF Assign, Fetched
<1> DEFINE f == FrameItem
           k == f - 1
<1>2. f \in DOMAIN items /\ IsFrame(f)
  BY <1>1 DEF Framed, FrameItem
<1>3. f \in 1 .. Len(items) /\ items[f].kind = "frame" /\ AddressIn(items, f) = A6
  BY <1>2, Before DEF IsFrame, ItemAddress, AddressIn, Below
<1>4. /\ InOrder(items) /\ memory \in Memories /\ Sound(items, memory, A6)
         /\ Len(items) \in Nat
      /\ Chained(items, A6, 1) /\ \A j \in 1 .. Len(items) : Holds(items, memory, j)
  BY Before DEF Sound
<1> HIDE DEF f
<1>5. k \in 1 .. Len(items) /\ k + 1 = f /\ items[k].kind = "local"
  BY <1>1, <1>3, <1>4 DEF f
<1> HIDE DEF k
<1>6. AddressIn(items, k) = Wrap(A6 - 4)
  BY <1>3, <1>4, <1>5, NextAddress DEF SizeOf
<1>7. value \in LongRange /\ memory' = WriteLongWord(memory, AddressIn(items, k), value)
  BY <1>1, <1>6, SubroutinesAssumption
<1>8. /\ memory' \in Memories /\ ReadLongWord(memory', AddressIn(items, k)) = value
      /\ \A w \in 0 .. MemoryWords - 1 : w \notin WordsOf(items, k) => memory'[w] = memory[w]
  BY <1>4, <1>5, <1>7, ItemWritten
<1>9. ASSUME NEW j \in 1 .. Len(items), j # k
      PROVE  Holds(items, memory', j)
             /\ ValueIn(items, memory', j) = ValueIn(items, memory, j)
  <2>1. WordsOf(items, j) \cap WordsOf(items, k) = {}
    BY <1>4, <1>5, <1>9, WordsApart
  <2>2. AddressIn(items, j) \in Int /\ AddressIn(items, j) + 2 \in Int
    BY <1>4, NextAddress
  <2>3. WordIndex(AddressIn(items, j)) \in 0 .. MemoryWords - 1
        /\ WordIndex(AddressIn(items, j) + 2) \in 0 .. MemoryWords - 1
    BY <2>2, IndexRange
  <2>4. \A w \in WordsOf(items, j) : memory'[w] = memory[w]
    BY <1>8, <2>1, <2>3 DEF WordsOf
  <2>5. Over(items, items, 0)
    BY <1>4 DEF Over
  <2>6. /\ Holds(items, memory', j + 0) <=> Holds(items, memory, j)
        /\ Holds(items, memory, j) => ValueIn(items, memory', j + 0) = ValueIn(items, memory, j)
    BY <1>4, <1>8, <2>4, <2>5, SameValues
  <2>7. j + 0 = j
    OBVIOUS
  <2> QED
    BY <1>4, <2>6, <2>7
<1>10. Holds(items, memory', k) /\ ValueIn(items, memory', k) = value
  BY <1>5, <1>8 DEF Holds, ValueIn
<1>11. \A j \in 1 .. Len(items) : Holds(items, memory', j)
  BY <1>9, <1>10
<1>12. CallInv'
  BY <1>1, <1>4, <1>8, <1>11 DEF CallInv, Sound
<1>13. Depth(A6) = Len(items) + 1 - f /\ Depth(A6)' = Depth(A6)
  BY <1>1, <1>3, <1>4, FrameDepth, AbstractNow, AbstractThen
<1>14. AbstractItems' = [AbstractItems EXCEPT ![k].value = value]
  <2>1. AbstractItems = [j \in 1 .. Len(items) |-> [kind |-> items[j].kind, value |-> ValueIn(items, memory, j)]]
    BY Before, AbstractNow DEF StackOf
  <2>2. AbstractItems' = [j \in 1 .. Len(items) |-> [kind |-> items[j].kind, value |-> ValueIn(items, memory', j)]]
    BY <1>1, Before, AbstractThen DEF StackOf
  <2>3. [AbstractItems EXCEPT ![k].value = value] =
          [j \in 1 .. Len(items) |-> [kind |-> items[j].kind,
             value |-> IF j = k THEN value ELSE ValueIn(items, memory, j)]]
    BY <1>5, <2>1
  <2>4. \A j \in 1 .. Len(items) :
          ValueIn(items, memory', j) = IF j = k THEN value ELSE ValueIn(items, memory, j)
    BY <1>9, <1>10
  <2> QED
    BY <2>2, <2>3, <2>4
<1>15. Len(AbstractItems) = Len(items) /\ AbstractItems[k].kind = "local"
  <2>1. /\ Len(AbstractItems) = Len(items)
        /\ AbstractItems[k] = [kind |-> items[k].kind, value |-> ValueIn(items, memory, k)]
    BY <1>5, AbstractShape
  <2> QED
    BY <1>5, <2>1
<1>16. /\ Depth(A6) # 0 /\ Depth(A6) < Len(AbstractItems)
       /\ Len(AbstractItems) - Depth(A6) = k
  <2>1. f \in Int /\ k \in Int /\ f >= 1 /\ f <= Len(items) /\ k >= 1
    BY <1>3, <1>5
  <2> QED
    BY <1>4, <1>5, <1>13, <1>15, <2>1
<1>17. Abstract!Go
  BY <1>1 DEF Abstract!Go, Behind
<1>18. Abstract!Assign
  BY <1>1, <1>13, <1>14, <1>15, <1>16, <1>17, Zenon DEF Abstract!Assign, AbstractItems
<1> QED
  BY <1>1, <1>12, <1>18 DEF Abstract!Next

(***************************************************************************)
(* The theorems.                                                           *)
(***************************************************************************)

LEMMA CallsBegin ==
  ASSUME CallInit
  PROVE  CallInv /\ Abstract!Init
<1>1. /\ next_instruction \in Targets \cap Code
         /\ memory = [w \in 0 .. MemoryWords - 1 |-> 0]
      /\ A6 = OuterFrame /\ A7 = Base /\ condition_codes \in CCR /\ address_error = FALSE
      /\ items = <<>>
  BY DEF CallInit
<1>2. DOMAIN items = {} /\ items \in Seq(ItemSet) /\ Len(items) = 0 /\ 1 .. Len(items) = {}
  BY <1>1
<1>3. memory \in Memories
  <2>1. 0 \in WordRange
    BY BusNumbers DEF WordRange
  <2> QED
    BY <1>1, <2>1 DEF Memories
<1>4. InOrder(items)
  BY <1>2, StackNumbers DEF InOrder
<1>5. Chained(items, A6, 1)
  BY <1>1, <1>2 DEF Chained, NoFrame
<1>6. Sound(items, memory, A6)
  BY <1>2, <1>3, <1>4, <1>5 DEF Sound
<1>7. A7 = AddressIn(items, 1)
  <2>1. Below(items, 1) = 0 /\ Base \in LongRange /\ Base - 0 = Base
    BY <1>2, StackNumbers, SubroutinesAssumption DEF Below
  <2> QED
    BY <1>1, <2>1, WrapSmall DEF AddressIn
<1>8. CallInv
  BY <1>1, <1>6, <1>7 DEF CallInv
<1>9. AbstractItems = <<>>
  BY <1>2 DEF AbstractItems
<1>10. Depth(A6) = 0
  BY <1>2 DEF Depth
<1>11. Abstract!Init
  BY <1>1, <1>9, <1>10 DEF Abstract!Init, AbstractItems
<1> QED
  BY <1>8, <1>11

LEMMA CallsStep ==
  ASSUME CallInv, CallNext
  PROVE  CallInv' /\ Abstract!Next
<1>1. CASE JMP
  BY <1>1, JumpStep
<1>2. CASE JSR \/ BSR
  BY <1>2, SubroutineStep
<1>3. CASE RTS
  BY <1>3, ReturnStep
<1>4. CASE MOVE_SR
  BY <1>4, SaveStep
<1>5. CASE RTR
  BY <1>5, RestoreStep
<1>6. CASE LINK
  BY <1>6, EnterStep
<1>7. CASE UNLK
  BY <1>7, LeaveStep
<1>8. CASE Assign
  BY <1>8, AssignStep
<1>9. CASE PEA
  BY <1>9, PushStep
<1>10. CASE Pop
  BY <1>10, PopStep
<1> QED
  BY <1>1, <1>2, <1>3, <1>4, <1>5, <1>6, <1>7, <1>8, <1>9, <1>10 DEF CallNext

LEMMA CallsStutter ==
  ASSUME CallInv, UNCHANGED callVars
  PROVE  CallInv' /\ UNCHANGED Abstract!vars
<1>1. UNCHANGED <<next_instruction, memory, A6, A7, condition_codes, address_error, items>>
  BY DEF callVars
<1>2. CallInv'
  BY <1>1 DEF CallInv
<1>3. AbstractItems' = AbstractItems /\ Depth(A6)' = Depth(A6)
  BY <1>1, UnchangedStack
<1> QED
  BY <1>1, <1>2, <1>3 DEF Abstract!vars, AbstractItems

(* The items lie one behind the other, each holding what an item of its    *)
(* kind holds: code addresses, condition codes, and in each frame the      *)
(* address of the next frame downwards or the frame there was at first.    *)
THEOREM StackHolds == CallSpec => []CallInv
<1>1. CallInit => CallInv
  BY CallsBegin
<1>2. CallInv /\ [CallNext]_callVars => CallInv'
  BY CallsStep, CallsStutter
<1> QED
  BY <1>1, <1>2, PTL DEF CallSpec

(* A program that has taken everything from the stack finds its pointers   *)
(* as they were, and the stack pointer is always where the items say.      *)
THEOREM PointersHold == CallSpec => []PointersReturn
<1>1. CallInv => PointersReturn
  <2> SUFFICES ASSUME CallInv  PROVE PointersReturn
    OBVIOUS
  <2>1. PointerAtTop
    BY DEF CallInv, PointerAtTop, ItemAddress, AddressIn, Below
  <2>2. ASSUME items = <<>>  PROVE A7 = Base /\ A6 = OuterFrame
    <3>1. DOMAIN items = {} /\ Len(items) = 0 /\ 1 .. Len(items) = {}
      BY <2>2
    <3>2. A6 = OuterFrame
      BY <3>1 DEF CallInv, Sound, Chained
    <3>3. Below(items, 1) = 0 /\ Base \in LongRange /\ Base - 0 = Base
      BY <3>1, StackNumbers, SubroutinesAssumption DEF Below
    <3>4. A7 = Base
      BY <3>3, WrapSmall DEF CallInv, AddressIn
    <3> QED
      BY <3>2, <3>4
  <2> QED
    BY <2>1, <2>2 DEF PointersReturn, Balanced
<1> QED
  BY <1>1, StackHolds, PTL

(* The words of memory are the items of the abstract stack, and each       *)
(* instruction is the operation of that stack that it is for.              *)
THEOREM ProceduresImplemented == CallSpec => ImplementsProcedures
<1>1. CallInit => Abstract!Init
  BY CallsBegin
<1>2. CallInv /\ [CallNext]_callVars => [Abstract!Next]_(Abstract!vars)
  BY CallsStep, CallsStutter
<1> QED
  BY <1>1, <1>2, StackHolds, PTL DEF CallSpec, ImplementsProcedures, Abstract!Spec
================================================================================
