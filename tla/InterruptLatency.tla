-------------------------- MODULE InterruptLatency --------------------------
(***************************************************************************)
(* Clown68000 with an observer of the interrupt request: how many          *)
(* iterations of the loop have begun since the request last changed.       *)
(***************************************************************************)
EXTENDS Clown68000

VARIABLE age   \* 0: none yet, 1: at least one

observedVars == <<vars, age>>

ObservedInit == Init /\ age = 0

ObservedNext ==
  /\ Next
  /\ age' = IF pending_interrupt' # pending_interrupt THEN 0
            ELSE IF phase = "loop" /\ phase' # "host" THEN 1
            ELSE age

ObservedSpec == ObservedInit /\ [][ObservedNext]_observedVars

(* A request made while an instruction executes is not served at the end   *)
(* of that instruction: one more is executed first, the latency that the   *)
(* loop's copy of pending_interrupt is there for.  An interrupt leaves its *)
(* level in the mask.                                                      *)
OneInstructionLatency ==
  [][InterruptEntered /\ state'.mask = pending_interrupt => age = 1]_observedVars
=============================================================================
