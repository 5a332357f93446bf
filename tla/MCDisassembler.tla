---------------------------- MODULE MCDisassembler ----------------------------
(***************************************************************************)
(* One line for each opcode there is; and, in behaviours of their own, the *)
(* loops that print the register list of MOVEM, for each list there is of  *)
(* five data and five address registers, in both orders.  The two share no *)
(* state: a behaviour is one of the listing, with the loops at their end,  *)
(* or one of the loops, after the listing has returned.                    *)
(***************************************************************************)
EXTENDS Disassembler, RegisterList

RegistersPerGroup == 5
AllLists == SUBSET (0 .. 2 * RegistersPerGroup - 1)

ListIdle == bits = {} /\ reversed = FALSE /\ i = Last + 1 /\ inner = FALSE /\ ranges = <<>>

ListingIdle == position = 0 /\ lines = 0 /\ line = Blank /\ phase = "returned"

MCInit == (Init /\ ListIdle) \/ (ListingIdle /\ ListInit)

MCNext ==
  \/ Next /\ UNCHANGED listVars
  \/ ListNext /\ UNCHANGED vars

MCSpec == MCInit /\ [][MCNext]_<<vars, listVars>>
==============================================================================
