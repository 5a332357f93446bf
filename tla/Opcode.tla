------------------------------- MODULE Opcode -------------------------------
(***************************************************************************)
(* The decoder: which instruction a 16-bit opcode is, as DecodeOpcode and  *)
(* GetInstruction of common/opcode.c tell.  Interpreter and disassembler   *)
(* share it.                                                               *)
(***************************************************************************)
EXTENDS Integers

AllOpcodes == 0 .. 65535

(* count bits of raw, from bit low upwards. *)
Bits(raw, low, count) == (raw \div 2^low) % 2^count

SplitOpcode(raw) ==
  [raw                    |-> raw,
   bits_6_and_7           |-> Bits(raw, 6, 2),
   bit_8                  |-> Bits(raw, 8, 1) = 1,
   primary_register       |-> Bits(raw, 0, 3),
   primary_address_mode   |-> Bits(raw, 3, 3),
   secondary_address_mode |-> Bits(raw, 6, 3),
   secondary_register     |-> Bits(raw, 9, 3)]

(* An address mode and its register.  Registers 5 to 7 of the special mode *)
(* have no name: the code treats them as register indirect, with no cycles. *)
EffectiveAddress(mode, register) ==
  CASE mode = 0 -> "data_register"
    [] mode = 1 -> "address_register"
    [] mode = 2 -> "indirect"
    [] mode = 3 -> "postincrement"
    [] mode = 4 -> "predecrement"
    [] mode = 5 -> "displacement"
    [] mode = 6 -> "index"
    [] mode = 7 /\ register = 0 -> "absolute_short"
    [] mode = 7 /\ register = 1 -> "absolute_long"
    [] mode = 7 /\ register = 2 -> "pc_displacement"
    [] mode = 7 /\ register = 3 -> "pc_index"
    [] mode = 7 /\ register = 4 -> "immediate"
    [] OTHER -> "reserved"

Primary(o)   == EffectiveAddress(o.primary_address_mode, o.primary_register)
Secondary(o) == EffectiveAddress(o.secondary_address_mode, o.secondary_register)

(***************************************************************************)
(* The sixteen lines of the opcode map, by the top four bits.              *)
(***************************************************************************)

Dynamic == <<"BTST_DYNAMIC", "BCHG_DYNAMIC", "BCLR_DYNAMIC", "BSET_DYNAMIC">>
Static  == <<"BTST_STATIC", "BCHG_STATIC", "BCLR_STATIC", "BSET_STATIC">>

(* A logical operation whose destination would be an immediate operand     *)
(* works on the condition codes or on the status register.                 *)
Logical(o, plain, to_ccr, to_sr) ==
  CASE Primary(o) # "immediate" -> plain
    [] Primary(o) = "immediate" /\ o.bits_6_and_7 = 0 -> to_ccr
    [] Primary(o) = "immediate" /\ o.bits_6_and_7 = 1 -> to_sr
    [] OTHER -> "ILLEGAL"

Line0(o) ==
  CASE o.bit_8 /\ Primary(o) = "address_register" -> "MOVEP"
    [] o.bit_8 /\ Primary(o) # "address_register" -> Dynamic[o.bits_6_and_7 + 1]
    [] ~o.bit_8 /\ o.secondary_register = 0 ->
         Logical(o, "ORI", "ORI_TO_CCR", "ORI_TO_SR")
    [] ~o.bit_8 /\ o.secondary_register = 1 ->
         Logical(o, "ANDI", "ANDI_TO_CCR", "ANDI_TO_SR")
    [] ~o.bit_8 /\ o.secondary_register = 2 -> "SUBI"
    [] ~o.bit_8 /\ o.secondary_register = 3 -> "ADDI"
    [] ~o.bit_8 /\ o.secondary_register = 4 -> Static[o.bits_6_and_7 + 1]
    [] ~o.bit_8 /\ o.secondary_register = 5 ->
         Logical(o, "EORI", "EORI_TO_CCR", "EORI_TO_SR")
    [] ~o.bit_8 /\ o.secondary_register = 6 -> "CMPI"
    [] OTHER -> "ILLEGAL"

LineMove(o) == IF o.secondary_address_mode = 1 THEN "MOVEA" ELSE "MOVE"

(* Bit 8 and bit 11 clear. *)
Line4Low(o) ==
  LET row == IF o.bits_6_and_7 = 3
             THEN <<"MOVE_FROM_SR", "ILLEGAL", "MOVE_TO_CCR", "MOVE_TO_SR">>
             ELSE <<"NEGX", "CLR", "NEG", "NOT">>
  IN  row[o.secondary_register + 1]

(* Bit 8 and bit 9 clear, bit 11 set.  Bit 10 is not looked at. *)
Line4Middle(o) ==
  CASE o.bits_6_and_7 >= 2 /\ Primary(o) = "data_register" -> "EXT"
    [] o.bits_6_and_7 >= 2 /\ Primary(o) # "data_register" -> "MOVEM"
    [] o.bits_6_and_7 = 0 -> "NBCD"
    [] o.bits_6_and_7 = 1 /\ Primary(o) = "data_register" -> "SWAP"
    [] o.bits_6_and_7 = 1 /\ Primary(o) # "data_register" -> "PEA"

IllegalOpcodes == {\h4AFA, \h4AFB, \h4AFC}

NoOperands ==
  <<"RESET", "NOP", "STOP", "RTE", "ILLEGAL", "RTS", "TRAPV", "RTR">>

(* Bit 8 clear, bits 9 and 11 set. *)
Line4High(o) ==
  LET tested == Bits(o.raw, 8, 4) = \hA
      row    == Bits(o.raw, 4, 8)
      bit_3  == Bits(o.raw, 3, 1)
  IN  CASE o.raw \in IllegalOpcodes -> "ILLEGAL"
        [] tested /\ o.bits_6_and_7 = 3 /\ o.raw \notin IllegalOpcodes -> "TAS"
        [] tested /\ o.bits_6_and_7 # 3 -> "TST"
        [] row = \hE4 -> "TRAP"
        [] row = \hE5 /\ bit_3 = 0 -> "LINK"
        [] row = \hE5 /\ bit_3 = 1 -> "UNLK"
        [] row = \hE6 -> "MOVE_USP"
        [] row = \hE7 /\ bit_3 = 0 -> NoOperands[o.primary_register + 1]
        [] row \in \hE8 .. \hEB -> "JSR"
        [] row \in \hEC .. \hEF -> "JMP"
        [] OTHER -> "ILLEGAL"

Line4(o) ==
  CASE o.bit_8 /\ o.bits_6_and_7 = 3 -> "LEA"
    [] o.bit_8 /\ o.bits_6_and_7 = 2 -> "CHK"
    [] o.bit_8 /\ o.bits_6_and_7 < 2 -> "ILLEGAL"
    [] ~o.bit_8 /\ Bits(o.raw, 11, 1) = 0 -> Line4Low(o)
    [] ~o.bit_8 /\ Bits(o.raw, 11, 1) = 1 /\ Bits(o.raw, 9, 1) = 0 -> Line4Middle(o)
    [] ~o.bit_8 /\ Bits(o.raw, 11, 1) = 1 /\ Bits(o.raw, 9, 1) = 1 -> Line4High(o)

Line5(o) ==
  LET address == Primary(o) = "address_register"
  IN  CASE o.bits_6_and_7 = 3 /\ address  -> "DBCC"
        [] o.bits_6_and_7 = 3 /\ ~address -> "SCC"
        [] o.bits_6_and_7 # 3 /\ address  -> IF o.bit_8 THEN "SUBAQ" ELSE "ADDAQ"
        [] o.bits_6_and_7 # 3 /\ ~address -> IF o.bit_8 THEN "SUBQ" ELSE "ADDQ"

Line6(o) ==
  LET short == Bits(o.raw, 0, 8) # 0
  IN  CASE o.secondary_register # 0 -> IF short THEN "BCC_SHORT" ELSE "BCC_WORD"
        [] o.secondary_register = 0 /\ o.bit_8  -> IF short THEN "BSR_SHORT" ELSE "BSR_WORD"
        [] o.secondary_register = 0 /\ ~o.bit_8 -> IF short THEN "BRA_SHORT" ELSE "BRA_WORD"

(* The place of the register form of an extended operation: bit 8 set and  *)
(* a data register or a register indirect with predecrement, in effect.    *)
Paired(o) == o.bit_8 /\ Bits(o.raw, 4, 2) = 0

Line8(o) ==
  CASE o.bits_6_and_7 = 3 -> IF o.bit_8 THEN "DIVS" ELSE "DIVU"
    [] o.bits_6_and_7 \in {0, 2} /\ Paired(o) -> "SBCD"
    [] OTHER -> "OR"

(* ADD and SUB. *)
LineAddSub(o, to_address, extended, plain) ==
  CASE o.bits_6_and_7 = 3 -> to_address
    [] o.bits_6_and_7 # 3 /\ Paired(o)  -> extended
    [] o.bits_6_and_7 # 3 /\ ~Paired(o) -> plain

LineB(o) ==
  CASE o.bits_6_and_7 = 3 -> "CMPA"
    [] o.bits_6_and_7 # 3 /\ ~o.bit_8 -> "CMP"
    [] o.bits_6_and_7 # 3 /\ o.bit_8 ->
         IF Primary(o) = "address_register" THEN "CMPM" ELSE "EOR"

LineC(o) ==
  CASE o.bits_6_and_7 = 3 -> IF o.bit_8 THEN "MULS" ELSE "MULU"
    [] o.bits_6_and_7 = 0 /\ Paired(o) -> "ABCD"
    [] o.bits_6_and_7 \in {1, 2} /\ Paired(o) -> "EXG"
    [] o.bits_6_and_7 # 3 /\ ~Paired(o) -> "AND"

LineE(o) ==
  CASE o.bits_6_and_7 = 3 /\ o.secondary_register > 3 -> "ILLEGAL"
    [] o.bits_6_and_7 = 3 /\ o.secondary_register <= 3 ->
         <<"ASD_MEMORY", "LSD_MEMORY", "ROXD_MEMORY", "ROD_MEMORY">>[o.secondary_register + 1]
    [] o.bits_6_and_7 # 3 ->
         <<"ASD_REGISTER", "LSD_REGISTER", "ROXD_REGISTER", "ROD_REGISTER">>[Bits(o.raw, 3, 2) + 1]

GetInstruction(o) ==
  LET line == Bits(o.raw, 12, 4)
  IN  CASE line = 0 -> Line0(o)
        [] line \in 1..3 -> LineMove(o)
        [] line = 4 -> Line4(o)
        [] line = 5 -> Line5(o)
        [] line = 6 -> Line6(o)
        [] line = 7 -> "MOVEQ"
        [] line = 8 -> Line8(o)
        [] line = 9 -> LineAddSub(o, "SUBA", "SUBX", "SUB")
        [] line = 10 -> "UNIMPLEMENTED_1"
        [] line = 11 -> LineB(o)
        [] line = 12 -> LineC(o)
        [] line = 13 -> LineAddSub(o, "ADDA", "ADDX", "ADD")
        [] line = 14 -> LineE(o)
        [] line = 15 -> "UNIMPLEMENTED_2"

DecodeOpcode(raw) == GetInstruction(SplitOpcode(raw))
=============================================================================
