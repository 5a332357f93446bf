------------------------------ MODULE Procedures ------------------------------
(***************************************************************************)
(* What the instructions for subroutines promise a compiler: a stack of    *)
(* items, on which calls leave return addresses, procedures their frames   *)
(* with their local variables, and expressions their values.               *)
(***************************************************************************)
EXTENDS Naturals, Sequences

CONSTANTS
  Addresses,   \* of code
  Longs,       \* what an item may hold
  Data,        \* what a program pushes and assigns
  Codes        \* condition codes

VARIABLES
  program_counter,
  stack,           \* items, the top first: a kind and a value
  frame,           \* how many items there are from the current frame down; 0 for none
  codes,
  fault            \* a call led to an odd address

vars == <<program_counter, stack, frame, codes, fault>>

Item(kind, value) == [kind |-> kind, value |-> value]

Init ==
  /\ program_counter \in Addresses /\ stack = <<>> /\ frame = 0
  /\ codes \in Codes /\ fault = FALSE

Top(kind) == stack # <<>> /\ Head(stack).kind = kind

(* On with the next instruction, behind this one and its extension words. *)
Go ==
  /\ \E length \in {2, 4, 6} : program_counter' = program_counter + length
  /\ UNCHANGED fault

Call ==
  /\ \E length \in {2, 4, 6} :
       stack' = <<Item("return", program_counter + length)>> \o stack
  /\ program_counter' \in Addresses
  /\ UNCHANGED <<frame, codes, fault>>

(* A jump or a call to an odd address; of a call, the return address is on *)
(* the stack or not.                                                       *)
WildCall ==
  /\ fault' = TRUE
  /\ program_counter' \notin Addresses
  /\ \/ UNCHANGED stack
     \/ \E length \in {2, 4, 6} :
          stack' = <<Item("return", program_counter + length)>> \o stack
  /\ UNCHANGED <<frame, codes>>

Return ==
  /\ Top("return")
  /\ program_counter' = Head(stack).value
  /\ stack' = Tail(stack)
  /\ UNCHANGED <<frame, codes, fault>>

SaveCodes ==
  /\ stack' = <<Item("codes", codes)>> \o stack
  /\ UNCHANGED <<frame, codes>> /\ Go

ReturnRestoring ==
  /\ Top("codes") /\ Len(stack) > 1 /\ stack[2].kind = "return"
  /\ codes' = Head(stack).value
  /\ program_counter' = stack[2].value
  /\ stack' = Tail(Tail(stack))
  /\ UNCHANGED <<frame, fault>>

(* A new frame, which remembers the one before, and its local variables,   *)
(* which may hold anything.                                                *)
Enter ==
  /\ LET framed == <<Item("frame", frame)>> \o stack
         locals == Len(stack') - Len(framed)
     IN  /\ locals \in Nat
         /\ SubSeq(stack', locals + 1, Len(stack')) = framed
         /\ \A k \in 1 .. locals : stack'[k].kind = "local" /\ stack'[k].value \in Longs
  /\ frame' = Len(stack) + 1
  /\ UNCHANGED codes /\ Go

(* Whatever is above the frame goes with it. *)
Leave ==
  /\ frame # 0
  /\ stack' = SubSeq(stack, Len(stack) - frame + 2, Len(stack))
  /\ frame' = stack[Len(stack) - frame + 1].value
  /\ UNCHANGED codes /\ Go

(* The first local variable of the current frame. *)
Assign ==
  /\ frame # 0 /\ frame < Len(stack)
  /\ LET k == Len(stack) - frame
     IN  /\ stack[k].kind = "local"
         /\ \E value \in Data : stack' = [stack EXCEPT ![k].value = value]
  /\ UNCHANGED frame /\ codes' \in Codes /\ Go

Push ==
  /\ \E value \in Data : stack' = <<Item("data", value)>> \o stack
  /\ UNCHANGED <<frame, codes>> /\ Go

Pop ==
  /\ Top("data")
  /\ stack' = Tail(stack)
  /\ UNCHANGED frame /\ codes' \in Codes /\ Go

Jump ==
  /\ program_counter' \in Addresses
  /\ UNCHANGED <<stack, frame, codes, fault>>

Next ==
  /\ ~fault
  /\ \/ Call \/ WildCall \/ Return \/ SaveCodes \/ ReturnRestoring
     \/ Enter \/ Leave \/ Assign \/ Push \/ Pop \/ Jump

Spec == Init /\ [][Next]_vars
================================================================================
