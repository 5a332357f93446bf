------------------------ MODULE OperandLayout_proofs ------------------------
(***************************************************************************)
(* Lemmas about the decoder and the tables of the interpreter, which the   *)
(* proofs about its microcode and about the disassembler share.            *)
(***************************************************************************)
EXTENDS OperandLayout, TLAPS

(***************************************************************************)
(* The decoder.                                                            *)
(***************************************************************************)

(* common/instruction.h. *)
Names ==
  {"ABCD", "ADD", "ADDA", "ADDAQ", "ADDI", "ADDQ", "ADDX", "AND", "ANDI", "ANDI_TO_CCR",
   "ANDI_TO_SR", "ASD_MEMORY", "ASD_REGISTER", "BCC_SHORT", "BCC_WORD", "BCHG_DYNAMIC",
   "BCHG_STATIC", "BCLR_DYNAMIC", "BCLR_STATIC", "BRA_SHORT", "BRA_WORD", "BSET_DYNAMIC",
   "BSET_STATIC", "BSR_SHORT", "BSR_WORD", "BTST_DYNAMIC", "BTST_STATIC", "CHK", "CLR", "CMP",
   "CMPA", "CMPI", "CMPM", "DBCC", "DIVS", "DIVU", "EOR", "EORI", "EORI_TO_CCR", "EORI_TO_SR",
   "EXG", "EXT", "ILLEGAL", "JMP", "JSR", "LEA", "LINK", "LSD_MEMORY", "LSD_REGISTER", "MOVE",
   "MOVE_FROM_SR", "MOVE_TO_CCR", "MOVE_TO_SR", "MOVE_USP", "MOVEA", "MOVEM", "MOVEP", "MOVEQ",
   "MULS", "MULU", "NBCD", "NEG", "NEGX", "NOP", "NOT", "OR", "ORI", "ORI_TO_CCR", "ORI_TO_SR",
   "PEA", "RESET", "ROD_MEMORY", "ROD_REGISTER", "ROXD_MEMORY", "ROXD_REGISTER", "RTE", "RTR",
   "RTS", "SBCD", "SCC", "STOP", "SUB", "SUBA", "SUBAQ", "SUBI", "SUBQ", "SUBX", "SWAP", "TAS",
   "TRAP", "TRAPV", "TST", "UNLK", "UNIMPLEMENTED_1", "UNIMPLEMENTED_2"}

LEMMA PowersOfTwo ==
  /\ 2^0 = 1 /\ 2^1 = 2 /\ 2^2 = 4 /\ 2^3 = 8 /\ 2^4 = 16 /\ 2^5 = 32 /\ 2^6 = 64
  /\ 2^7 = 128 /\ 2^8 = 256 /\ 2^9 = 512 /\ 2^10 = 1024 /\ 2^11 = 2048 /\ 2^12 = 4096
  BY SMT

LEMMA BitsRange ==
  ASSUME NEW raw \in AllOpcodes
  PROVE  /\ Bits(raw, 0, 3) \in 0..7
         /\ Bits(raw, 0, 8) \in 0..255
         /\ Bits(raw, 3, 1) \in 0..1
         /\ Bits(raw, 3, 2) \in 0..3
         /\ Bits(raw, 3, 3) \in 0..7
         /\ Bits(raw, 4, 2) \in 0..3
         /\ Bits(raw, 4, 8) \in 0..255
         /\ Bits(raw, 6, 1) \in 0..1
         /\ Bits(raw, 6, 2) \in 0..3
         /\ Bits(raw, 6, 3) \in 0..7
         /\ Bits(raw, 7, 1) \in 0..1
         /\ Bits(raw, 8, 1) \in 0..1
         /\ Bits(raw, 8, 4) \in 0..15
         /\ Bits(raw, 9, 1) \in 0..1
         /\ Bits(raw, 9, 3) \in 0..7
         /\ Bits(raw, 10, 1) \in 0..1
         /\ Bits(raw, 11, 1) \in 0..1
         /\ Bits(raw, 12, 2) \in 0..3
         /\ Bits(raw, 12, 4) \in 0..15
  BY PowersOfTwo DEF Bits, AllOpcodes

(* What the fields of a split opcode are. *)
Splits ==
  [raw : AllOpcodes, bits_6_and_7 : 0..3, bit_8 : BOOLEAN, primary_register : 0..7,
   primary_address_mode : 0..7, secondary_address_mode : 0..7, secondary_register : 0..7]

LEMMA Split ==
  ASSUME NEW raw \in AllOpcodes
  PROVE  SplitOpcode(raw) \in Splits
<1>1. /\ Bits(raw, 6, 2) \in 0..3 /\ Bits(raw, 0, 3) \in 0..7 /\ Bits(raw, 3, 3) \in 0..7
      /\ Bits(raw, 6, 3) \in 0..7 /\ Bits(raw, 9, 3) \in 0..7
  BY BitsRange
<1>2. QED
  BY <1>1 DEF SplitOpcode, Splits

LEMMA DecodedLine0 ==
  ASSUME NEW o \in Splits
  PROVE  Line0(o) \in Names
<1>1. \A n \in 0..3 : Dynamic[n + 1] \in Names /\ Static[n + 1] \in Names
  BY DEF Dynamic, Static, Names
<1>2. o.bits_6_and_7 \in 0..3
  BY DEF Splits
<1>3. QED
  BY <1>1, <1>2 DEF Line0, Logical, Names

(* A bit of a group of bits. *)
LEMMA BitsWithin ==
  ASSUME NEW raw \in AllOpcodes
  PROVE  Bits(raw, 11, 1) = 0 => Bits(raw, 9, 3) \in 0..3
<1>0. raw \in Nat /\ raw <= 65535
  BY DEF AllOpcodes
<1> DEFINE x == raw \div 512
           q == x \div 8
           r == x % 8
<1>1. raw \div 2048 = x \div 4 /\ x \in Nat
  <2>2. raw \div 2048 = (raw \div 512) \div 4
    BY <1>0
  <2>3. raw \div 512 \in Nat
    BY <1>0
  <2>4. QED
    BY <2>2, <2>3
<1>2. x = (8 * q) + r /\ q \in Nat /\ r \in 0..7
  BY <1>1
<1>3. Bits(raw, 11, 1) = (x \div 4) % 2 /\ Bits(raw, 9, 3) = r
  BY <1>1, PowersOfTwo DEF Bits
<1> HIDE DEF x, q, r
<1>4. r \in 4..7 => x \div 4 = (2 * q) + 1
  BY <1>2
<1>5. r \in 4..7 => ((2 * q) + 1) % 2 = 1
  BY <1>2
<1>6. QED
  BY <1>2, <1>3, <1>4, <1>5

LEMMA DecodedLine4 ==
  ASSUME NEW o \in Splits,
         Bits(o.raw, 11, 1) = 0 => o.secondary_register \in 0..3
  PROVE  Line4(o) \in Names
<1>1. o.secondary_register \in 0..3 => Line4Low(o) \in Names
  <2>1. ASSUME NEW n \in 0..3
        PROVE  /\ <<"NEGX", "CLR", "NEG", "NOT">>[n + 1] \in Names
               /\ <<"MOVE_FROM_SR", "ILLEGAL", "MOVE_TO_CCR", "MOVE_TO_SR">>[n + 1] \in Names
    BY DEF Names
  <2>2. QED
    BY <2>1 DEF Line4Low
<1>2. Line4Middle(o) \in Names
  BY DEF Line4Middle, Names, Splits
<1>3. Line4High(o) \in Names
  <2>1. ASSUME NEW n \in 0..7
        PROVE  NoOperands[n + 1] \in Names
    BY DEF NoOperands, Names
  <2>2. o.primary_register \in 0..7
    BY DEF Splits
  <2>3. QED
    BY <2>1, <2>2 DEF Line4High, Names
<1>4. Bits(o.raw, 11, 1) \in 0..1 /\ Bits(o.raw, 9, 1) \in 0..1
  BY BitsRange DEF Splits
<1>5. QED
  BY <1>1, <1>2, <1>3, <1>4 DEF Line4, Names, Splits

LEMMA DecodedLineE ==
  ASSUME NEW o \in Splits
  PROVE  LineE(o) \in Names
<1>1. ASSUME NEW n \in 0..3
      PROVE  /\ <<"ASD_MEMORY", "LSD_MEMORY", "ROXD_MEMORY", "ROD_MEMORY">>[n + 1] \in Names
             /\ <<"ASD_REGISTER", "LSD_REGISTER", "ROXD_REGISTER", "ROD_REGISTER">>[n + 1] \in Names
  BY DEF Names
<1>2. Bits(o.raw, 3, 2) \in 0..3
  BY BitsRange DEF Splits
<1>3. QED
  BY <1>1, <1>2 DEF LineE, Names, Splits

(* Every opcode is one of the instructions that have a name. *)
LEMMA DecodedInstruction ==
  ASSUME NEW raw \in AllOpcodes
  PROVE  DecodeOpcode(raw) \in Names
<1> DEFINE o == SplitOpcode(raw)
<1>1. /\ o \in Splits /\ o.raw = raw
      /\ Bits(o.raw, 11, 1) = 0 => o.secondary_register \in 0..3
  BY Split, BitsWithin DEF SplitOpcode
<1>2. Bits(raw, 12, 4) \in 0..15
  BY BitsRange
<1> HIDE DEF o
<1>3. Line0(o) \in Names /\ Line4(o) \in Names /\ LineE(o) \in Names
  BY <1>1, DecodedLine0, DecodedLine4, DecodedLineE
<1>4. LineMove(o) \in Names /\ Line5(o) \in Names /\ Line6(o) \in Names /\ Line8(o) \in Names
  BY <1>1 DEF LineMove, Line5, Line6, Line8, Names, Splits
<1>5. /\ LineAddSub(o, "SUBA", "SUBX", "SUB") \in Names
      /\ LineAddSub(o, "ADDA", "ADDX", "ADD") \in Names
  BY <1>1 DEF LineAddSub, Names, Splits
<1>6. LineB(o) \in Names /\ LineC(o) \in Names
  BY <1>1 DEF LineB, LineC, Names, Splits
<1>7. GetInstruction(o) \in Names
  BY <1>1, <1>2, <1>3, <1>4, <1>5, <1>6 DEF GetInstruction, Names
<1>8. QED
  BY <1>7 DEF DecodeOpcode, o

(* The instructions with a size field of which 3 makes others.             *)
NeverSize3 ==
  {"NEGX", "CLR", "NEG", "NOT", "TST", "OR", "SUB", "SUBX", "EOR", "CMPM", "CMP", "AND", "ADD",
   "ADDQ", "SUBQ", "ADDX", "ASD_REGISTER", "LSD_REGISTER", "ROXD_REGISTER", "ROD_REGISTER"}

(* What an instruction says of the size fields of its opcode. *)
SizeKept(o, a) ==
  /\ a \in {"MOVE", "MOVEA"} => Bits(o.raw, 12, 4) \in 1 .. 3
  /\ a \in NeverSize3 => o.bits_6_and_7 # 3

LEMMA SizeKeptLine0 ==
  ASSUME NEW o \in Splits
  PROVE  Line0(o) \notin NeverSize3 \cup {"MOVE", "MOVEA"}
<1>1. \A n \in 0..3 : /\ Dynamic[n + 1] \notin NeverSize3 \cup {"MOVE", "MOVEA"}
                      /\ Static[n + 1] \notin NeverSize3 \cup {"MOVE", "MOVEA"}
  BY DEF Dynamic, Static, NeverSize3
<1>2. o.bits_6_and_7 \in 0..3
  BY DEF Splits
<1>3. QED
  BY <1>1, <1>2 DEF Line0, Logical, NeverSize3

LEMMA SizeKeptLine4 ==
  ASSUME NEW o \in Splits,
         Bits(o.raw, 11, 1) = 0 => o.secondary_register \in 0..3
  PROVE  SizeKept(o, Line4(o)) /\ Line4(o) \notin {"MOVE", "MOVEA"}
<1> DEFINE Kept(a) == (a \in NeverSize3 => o.bits_6_and_7 # 3) /\ a \notin {"MOVE", "MOVEA"}
<1>1. o.secondary_register \in 0..3 => Kept(Line4Low(o))
  <2>1. ASSUME NEW n \in 0..3
        PROVE  /\ <<"MOVE_FROM_SR", "ILLEGAL", "MOVE_TO_CCR", "MOVE_TO_SR">>[n + 1]
                    \notin NeverSize3 \cup {"MOVE", "MOVEA"}
               /\ <<"NEGX", "CLR", "NEG", "NOT">>[n + 1] \notin {"MOVE", "MOVEA"}
    BY DEF NeverSize3
  <2>2. QED
    BY <2>1 DEF Line4Low
<1>2. Kept(Line4Middle(o))
  BY DEF Line4Middle, NeverSize3, Splits
<1>3. Kept(Line4High(o))
  <2>1. ASSUME NEW n \in 0..7
        PROVE  NoOperands[n + 1] \notin NeverSize3 \cup {"MOVE", "MOVEA"}
    BY DEF NoOperands, NeverSize3
  <2>2. o.primary_register \in 0..7
    BY DEF Splits
  <2>3. /\ Kept("ILLEGAL") /\ Kept("TAS") /\ Kept("TRAP") /\ Kept("LINK") /\ Kept("UNLK")
        /\ Kept("MOVE_USP") /\ Kept("JSR") /\ Kept("JMP") /\ (o.bits_6_and_7 # 3 => Kept("TST"))
        /\ Kept(NoOperands[o.primary_register + 1])
    BY <2>1, <2>2 DEF NeverSize3
  <2> HIDE DEF Kept
  <2>4. QED
    BY <2>3 DEF Line4High
<1>4. Bits(o.raw, 11, 1) \in 0..1 /\ Bits(o.raw, 9, 1) \in 0..1
  BY BitsRange DEF Splits
<1>5. Kept("LEA") /\ Kept("CHK") /\ Kept("ILLEGAL")
  BY DEF NeverSize3
<1> HIDE DEF Kept
<1>6. Kept(Line4(o))
  BY <1>1, <1>2, <1>3, <1>4, <1>5 DEF Line4, Splits
<1>7. QED
  BY <1>6 DEF Kept, SizeKept

LEMMA SizeKeptLineE ==
  ASSUME NEW o \in Splits
  PROVE  SizeKept(o, LineE(o)) /\ LineE(o) \notin {"MOVE", "MOVEA"}
<1>1. ASSUME NEW n \in 0..3
      PROVE  /\ <<"ASD_MEMORY", "LSD_MEMORY", "ROXD_MEMORY", "ROD_MEMORY">>[n + 1]
                  \notin NeverSize3 \cup {"MOVE", "MOVEA"}
             /\ <<"ASD_REGISTER", "LSD_REGISTER", "ROXD_REGISTER", "ROD_REGISTER">>[n + 1]
                  \notin {"MOVE", "MOVEA"}
  BY DEF NeverSize3
<1>2. Bits(o.raw, 3, 2) \in 0..3
  BY BitsRange DEF Splits
<1>3. QED
  BY <1>1, <1>2 DEF LineE, NeverSize3, Splits, SizeKept

(* MOVE and MOVEA have a size, and size field 3 makes other instructions   *)
(* of those that work on one operand or on a register and an operand.      *)
LEMMA DecodedSize ==
  ASSUME NEW raw \in AllOpcodes
  PROVE  SizeKept(SplitOpcode(raw), DecodeOpcode(raw))
<1> DEFINE o == SplitOpcode(raw)
<1>1. /\ o \in Splits /\ o.raw = raw
      /\ Bits(o.raw, 11, 1) = 0 => o.secondary_register \in 0..3
  BY Split, BitsWithin DEF SplitOpcode
<1>2. Bits(raw, 12, 4) \in 0..15
  BY BitsRange
<1> HIDE DEF o
<1>3. /\ SizeKept(o, Line0(o)) /\ SizeKept(o, Line4(o)) /\ SizeKept(o, LineE(o))
  BY <1>1, SizeKeptLine0, SizeKeptLine4, SizeKeptLineE DEF SizeKept
<1>4. /\ SizeKept(o, Line5(o)) /\ SizeKept(o, Line6(o)) /\ SizeKept(o, Line8(o))
      /\ LineMove(o) \notin NeverSize3
  BY <1>1 DEF LineMove, Line5, Line6, Line8, SizeKept, NeverSize3, Splits
<1>5. /\ SizeKept(o, LineAddSub(o, "SUBA", "SUBX", "SUB"))
      /\ SizeKept(o, LineAddSub(o, "ADDA", "ADDX", "ADD"))
  BY <1>1 DEF LineAddSub, SizeKept, NeverSize3, Splits
<1>6. SizeKept(o, LineB(o)) /\ SizeKept(o, LineC(o))
  BY <1>1 DEF LineB, LineC, SizeKept, NeverSize3, Splits
<1>7. ASSUME Bits(raw, 12, 4) \in 1 .. 3
      PROVE  SizeKept(o, LineMove(o))
  BY <1>1, <1>4, <1>7 DEF SizeKept
<1>8. \A a \in {"MOVEQ", "UNIMPLEMENTED_1", "UNIMPLEMENTED_2"} : SizeKept(o, a)
  BY DEF SizeKept, NeverSize3
<1>9. SizeKept(o, GetInstruction(o))
  <2> DEFINE digit == Bits(o.raw, 12, 4)
             Kept(a) == SizeKept(o, a)
  <2>1. /\ digit \in 0..15
        /\ digit \in 1..3 => Kept(LineMove(o))
        /\ Kept(Line0(o)) /\ Kept(Line4(o)) /\ Kept(LineE(o))
        /\ Kept(Line5(o)) /\ Kept(Line6(o)) /\ Kept(Line8(o))
        /\ Kept(LineAddSub(o, "SUBA", "SUBX", "SUB")) /\ Kept(LineAddSub(o, "ADDA", "ADDX", "ADD"))
        /\ Kept(LineB(o)) /\ Kept(LineC(o))
        /\ Kept("MOVEQ") /\ Kept("UNIMPLEMENTED_1") /\ Kept("UNIMPLEMENTED_2")
    BY <1>1, <1>2, <1>3, <1>4, <1>5, <1>6, <1>7, <1>8
  <2> HIDE DEF Kept, digit
  <2>2. Kept(GetInstruction(o))
    BY <2>1 DEF GetInstruction, digit
  <2>3. QED
    BY <2>2 DEF Kept
<1>10. QED
  BY <1>9 DEF DecodeOpcode, o

(* The lower half of a field. *)
LEMMA BitsBelow ==
  ASSUME NEW raw \in AllOpcodes, Bits(raw, 12, 4) \in 1 .. 3
  PROVE  Bits(raw, 12, 2) \in 1 .. 3
<1>0. raw \in Nat /\ raw <= 65535
  BY DEF AllOpcodes
<1> DEFINE x == raw \div 4096
<1>1. x \in 0 .. 15
  BY <1>0
<1>2. Bits(raw, 12, 4) = x % 16 /\ Bits(raw, 12, 2) = x % 4
  BY PowersOfTwo DEF Bits
<1> HIDE DEF x
<1>3. QED
  BY <1>1, <1>2
=============================================================================
