------------------------------- MODULE Semaphore -------------------------------
(***************************************************************************)
(* A lock in memory that a program and its interrupt handlers share.  They *)
(* take it with TAS or BSET and give it back with CLR, BCLR or SF:         *)
(*                                                                         *)
(*   take:    TAS   lock          or   BSET  Dn,lock                       *)
(*            BMI   busy               BNE   busy                          *)
(*   inside:  ...                                                          *)
(*            CLR.B lock          or   BCLR  Dn,lock      or   SF  lock    *)
(*   busy:    BRA   take          in the program; in a handler, RTE        *)
(*                                                                         *)
(* The programs are external.  Interrupts come between any two             *)
(* instructions, one handler on top of another, and what a context knows   *)
(* of the lock is at times in the condition codes of its frame alone.      *)
(***************************************************************************)
EXTENDS Integers

CONSTANTS
  Levels,       \* of the interrupts
  Numbers,      \* what Dn may hold
  MaxNesting    \* bound: the handlers on top of one another

Top == 7        \* the bit of the byte that is the lock

ASSUME SemaphoreAssumption ==
  /\ Levels \subseteq 1 .. 7
  /\ Numbers \subseteq Nat /\ \A n \in Numbers : n % 8 = Top
  /\ MaxNesting \in Nat \ {0}

Byte == INSTANCE Flags WITH SignBit <- 128

VARIABLES
  lock,     \* a byte, as the set of its bits
  place,    \* in the program above
  codes,    \* the condition codes of the status register
  mask,     \* its interrupt mask
  depth,    \* the handlers that have not returned
  saved     \* the exception frames, by the depth they return to

lockVars == <<lock, place, codes, mask, depth, saved>>

Places == {"take", "BMI", "BNE", "inside", "return"}
Masks  == 0 .. 7
Frames == [place : Places, codes : Byte!Codes, mask : Masks]

NoCodes == [C |-> FALSE, V |-> FALSE, Z |-> FALSE, N |-> FALSE, X |-> FALSE]

LockInit ==
  /\ lock \in {{}, {0}}
  /\ place = "take" /\ codes = NoCodes /\ mask = 0
  /\ depth = 0
  /\ saved = [d \in 0 .. MaxNesting - 1 |-> [place |-> "take", codes |-> NoCodes, mask |-> 0]]

(***************************************************************************)
(* The instructions.                                                       *)
(***************************************************************************)

(* What the microcode makes of the codes that an action has set: N and Z   *)
(* are the action's own.                                                   *)
Cleared(i, c) == [c EXCEPT !.C = Byte!Carry(i, 0, 0, 0, c), !.V = Byte!Overflow(i, 0, 0, 0, c)]

(* N and Z of the byte before. *)
Tested(byte) == [codes EXCEPT !.N = Top \in byte, !.Z = byte = {}]

TAS ==
  /\ place = "take"
  /\ codes' = Cleared("TAS", Tested(lock))
  /\ lock' = lock \cup {Top}
  /\ place' = "BMI"
  /\ UNCHANGED <<mask, depth, saved>>

(* Mutant: the number of a bit in a register. *)
BitOfLongword(number) == number % 32

(* The bits of an operand in memory are counted modulo 8. *)
BitNumber(number) == number % 8

BSET ==
  /\ place = "take"
  /\ \E n \in Numbers :
       /\ codes' = [codes EXCEPT !.Z = BitNumber(n) \notin lock]
       /\ lock' = lock \cup {BitNumber(n)}
  /\ place' = "BNE"
  /\ UNCHANGED <<mask, depth, saved>>

(* In a handler, which cannot wait for what it has interrupted, RTE. *)
Away == IF depth = 0 THEN "take" ELSE "return"

Branch(at, condition) ==
  /\ place = at
  /\ place' = IF Byte!IsOpcodeConditionTrue(condition, codes) THEN Away ELSE "inside"
  /\ UNCHANGED <<lock, codes, mask, depth, saved>>

BMI == Branch("BMI", 11)
BNE == Branch("BNE", 6)

Given ==
  /\ place = "inside"
  /\ place' = Away
  /\ UNCHANGED <<mask, depth, saved>>

CLR ==
  /\ Given
  /\ lock' = {}
  /\ codes' = Byte!Updated("CLR", 0, 0, 0, codes)

BCLR ==
  /\ Given
  /\ \E n \in Numbers :
       /\ codes' = [codes EXCEPT !.Z = BitNumber(n) \notin lock]
       /\ lock' = lock \ {BitNumber(n)}

(* Action_SCC, with the condition that is never true. *)
SF ==
  /\ Given
  /\ lock' = IF Byte!IsOpcodeConditionTrue(1, codes) THEN 0 .. 7 ELSE {}
  /\ UNCHANGED codes

(***************************************************************************)
(* Interrupts.                                                             *)
(***************************************************************************)

(* Mutant: the codes are not in the frame. *)
FrameWithoutCodes == [place |-> place, codes |-> NoCodes, mask |-> mask]

(* The program counter and the status register. *)
Frame == [place |-> place, codes |-> codes, mask |-> mask]

Interrupt(level) ==
  /\ level = 7 \/ level > mask
  /\ depth < MaxNesting
  /\ saved' = [saved EXCEPT ![depth] = Frame]
  /\ depth' = depth + 1
  /\ mask' = level
  /\ place' = "take"
  /\ UNCHANGED <<lock, codes>>

RTE ==
  /\ place = "return"
  /\ depth' = depth - 1
  /\ place' = saved[depth - 1].place
  /\ codes' = saved[depth - 1].codes
  /\ mask'  = saved[depth - 1].mask
  /\ UNCHANGED <<lock, saved>>

LockNext ==
  \/ TAS \/ BSET \/ BMI \/ BNE \/ CLR \/ BCLR \/ SF \/ RTE
  \/ \E level \in Levels : Interrupt(level)

LockSpec == LockInit /\ [][LockNext]_lockVars

(***************************************************************************)
(* Properties.                                                             *)
(***************************************************************************)

LockTypeOK ==
  /\ lock \subseteq 0 .. 7
  /\ place \in Places /\ codes \in Byte!Codes /\ mask \in Masks
  /\ depth \in 0 .. MaxNesting /\ (place = "return" => depth > 0)
  /\ saved \in [0 .. MaxNesting - 1 -> Frames]
  /\ \A d \in 0 .. depth - 1 : saved[d].place = "return" => d > 0

(* The program is depth 0, the handler running now the greatest depth.     *)
PlaceAt(d) == IF d = depth THEN place ELSE saved[d].place

CodesAt(d) == IF d = depth THEN codes ELSE saved[d].codes

InsideAt(d) == PlaceAt(d) = "inside"

(* The codes say that the lock was free, or that it was not. *)
WonAt(d) == \/ PlaceAt(d) = "BMI" /\ ~CodesAt(d).N
            \/ PlaceAt(d) = "BNE" /\ CodesAt(d).Z

LostAt(d) == PlaceAt(d) \in {"BMI", "BNE"} /\ ~WonAt(d)

HoldsAt(d) == InsideAt(d) \/ WonAt(d)

(* Of the program and its handlers, only one is inside, also when it is    *)
(* interrupted there, or was between the test and the branch.              *)
OneInside == \A d, e \in 0 .. depth : InsideAt(d) /\ InsideAt(e) => d = e

(* The lock is taken exactly as long as one of them has it. *)
TakenWhileHeld == Top \in lock <=> \E d \in 0 .. depth : HoldsAt(d)

(* Who finds the lock taken has interrupted who has it; so the program     *)
(* itself never does.                                                      *)
LostToInterrupted == \A d \in 0 .. depth : LostAt(d) => \E e \in 0 .. d - 1 : HoldsAt(e)
==============================================================================
