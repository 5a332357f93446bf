---------------------------- MODULE Operands_proofs ----------------------------
(***************************************************************************)
(* Operands in registers and memory, for memory of any size and any        *)
(* values: an instruction of any layout reads, writes, compares and moves  *)
(* each operand where its addressing mode says, and faults before it has   *)
(* changed anything but the base register; and the instructions that move  *)
(* registers to and from memory piece by piece put each where it belongs   *)
(* and get it back.                                                        *)
(***************************************************************************)
EXTENDS OperandAccess, RegisterTransfers, Bus_proofs, SequenceTheorems, FiniteSetTheorems

(***************************************************************************)
(* Sizes.                                                                  *)
(***************************************************************************)

LEMMA SizeValues ==
  ASSUME NEW size \in {1, 2, 4}
  PROVE  /\ Values(size) \in Nat \ {0} /\ Values(size) <= LongValues
         /\ \E q \in Nat : LongValues = q * Values(size)
<1>1. /\ ByteValues \in Nat /\ ByteValues >= 2 /\ WordValues \in Nat /\ WordValues >= 4
      /\ LongValues \in Nat /\ LongValues >= 16
      /\ WordValues = ByteValues * ByteValues /\ LongValues = WordValues * WordValues
  BY BusNumbers
<1>2. CASE size = 1
  <2> DEFINE q == ByteValues * WordValues
  <2>1. q \in Nat /\ LongValues = q * ByteValues
    BY <1>1
  <2>2. ByteValues <= LongValues
    <3>1. q >= 1
      BY <1>1
    <3> HIDE DEF q
    <3> QED
      BY <1>1, <2>1, <3>1
  <2> QED
    BY <1>1, <1>2, <2>1, <2>2 DEF Values
<1>3. CASE size = 2
  BY <1>1, <1>3 DEF Values
<1>4. CASE size = 4
  <2>1. LongValues = 1 * LongValues
    BY <1>1
  <2> QED
    BY <1>1, <1>4, <2>1 DEF Values
<1> QED
  BY <1>2, <1>3, <1>4

LEMMA MaskedRange ==
  ASSUME NEW v \in Int, NEW size \in {1, 2, 4}
  PROVE  /\ Masked(v, size) \in LongRange /\ Masked(v, size) \in 0 .. Values(size) - 1
         /\ Masked(Masked(v, size), size) = Masked(v, size)
         /\ Masked(Wrap(v), size) = Masked(v, size)
<1> DEFINE n == Values(size)
<1>1. n \in Nat \ {0} /\ n <= LongValues /\ LongValues \in Nat
  BY SizeValues, BusNumbers
<1>2. PICK q \in Nat : LongValues = q * n
  BY SizeValues
<1>3. Masked(v, size) = v % n /\ Masked(Wrap(v), size) = Wrap(v) % n
      /\ Masked(Masked(v, size), size) = (v % n) % n
  BY DEF Masked
<1> HIDE DEF n
<1>4. v % n \in 0 .. n - 1 /\ (v % n) % n = v % n
  BY <1>1
<1>5. Wrap(v) % n = v % n
  <2>1. PICK p \in Int : v = p * LongValues + Wrap(v)
    BY Unwrapped
  <2>2. Wrap(v) \in Int
    BY WrapRange
  <2>3. p * LongValues = (p * q) * n /\ p * q \in Int
    BY <1>1, <1>2
  <2>4. v = (p * q) * n + Wrap(v)
    BY <2>1, <2>3
  <2> DEFINE c == p * q
             w == Wrap(v)
  <2>5. c \in Int /\ w \in Int /\ v = c * n + w
    BY <2>2, <2>3, <2>4
  <2> HIDE DEF c, w
  <2>6. (c * n + w) % n = w % n
    BY <1>1, <2>5, RemainderOfSum
  <2> QED
    BY <2>5, <2>6 DEF w
<1>6. v % n \in LongRange
  BY <1>1, <1>4 DEF LongRange
<1> QED
  BY <1>3, <1>4, <1>5, <1>6 DEF n

(* A register of which a part is replaced has that part. *)
LEMMA PartReplaced ==
  ASSUME NEW v \in Int, NEW x \in Int, NEW size \in {1, 2, 4}
  PROVE  Masked(v - Masked(v, size) + Masked(x, size), size) = Masked(x, size)
<1> DEFINE n == Values(size)
           q == v \div n
           r == x % n
<1>1. n \in Nat \ {0}
  BY SizeValues
<1>2. Masked(v, size) = v % n /\ Masked(x, size) = r
  BY DEF Masked
<1> HIDE DEF n
<1>3. q \in Int /\ v - (v % n) = q * n /\ r \in Int /\ r % n = r
  BY <1>1
<1>4. v - (v % n) + r = q * n + r
  BY <1>3
<1> HIDE DEF q, r
<1>5. (q * n + r) % n = r % n
  BY <1>1, <1>3, RemainderOfSum
<1>6. Masked(v - Masked(v, size) + Masked(x, size), size) = (v - (v % n) + r) % n
  BY <1>2 DEF Masked, n
<1> QED
  BY <1>2, <1>3, <1>4, <1>5, <1>6

(***************************************************************************)
(* Reading and writing by size.                                            *)
(***************************************************************************)

LEMMA SizedRead ==
  ASSUME NEW m \in Memories, NEW a \in LongRange, NEW size \in {0, 1, 2, 4}
  PROVE  ReadSized(m, a, size) \in LongRange
<1>1. a \in Int /\ ByteValues <= LongValues /\ WordValues <= LongValues
      /\ LongValues \in Nat
      /\ ByteValues \in Nat /\ WordValues \in Nat
  BY SizeValues, BusNumbers DEF LongRange, Values
<1>2. ReadByte(m, a) \in ByteRange /\ ReadWord(m, a) \in WordRange
      /\ ReadLongWord(m, a) \in LongRange
  BY <1>1, ByteRead, WordRead, LongRead
<1>3. ByteRange \subseteq LongRange /\ WordRange \subseteq LongRange
  BY <1>1 DEF ByteRange, WordRange, LongRange
<1> QED
  BY <1>2, <1>3 DEF ReadSized

(* The bytes of a word at an even address. *)
LEMMA BytesOfEven ==
  ASSUME NEW a \in Int, ~Odd(a), NEW b \in 0 .. 2 * MemoryWords - 1,
         WordIndex(b) = WordIndex(a)
  PROVE  b = Wrap(a) % (2 * MemoryWords) \/ b = Wrap(a + 1) % (2 * MemoryWords)
<1>1. a + 1 \in Int /\ Odd(a + 1) /\ (a + 1) \div 2 = a \div 2
  BY DEF Odd
<1>2. WordIndex(a + 1) = WordIndex(a)
  BY <1>1 DEF WordIndex
<1>3. CASE Odd(b)
  BY <1>1, <1>2, <1>3, ByteOfAddress
<1>4. CASE ~Odd(b)
  BY <1>4, ByteOfAddress
<1> QED
  BY <1>3, <1>4

WrittenIn(m, a, size, v) ==
  CASE size = 1 -> WriteByte(m, a, Masked(v, 1))
    [] size = 2 -> WriteWord(m, a, v)
    [] size = 4 -> WriteLongWord(m, a, v)

LEMMA SizedWritten ==
  ASSUME NEW m \in Memories, NEW a \in LongRange, NEW v \in LongRange, NEW size \in {1, 2, 4},
         size \in {2, 4} => ~Odd(a)
  PROVE  LET n == WrittenIn(m, a, size, v)
         IN  /\ n \in Memories /\ ReadSized(n, a, size) = Masked(v, size)
             /\ \A b \in 0 .. 2 * MemoryWords - 1 :
                  b \notin Bytes(a, size) => ReadByte(n, b) = ReadByte(m, b)
<1> DEFINE n == WrittenIn(m, a, size, v)
           own(b) == b \in Bytes(a, size)
<1>1. /\ a \in Int /\ v \in Int /\ \A b \in 0 .. 2 * MemoryWords - 1 : b \in Int
      /\ a + 0 = a /\ a + 2 \in Int
  BY BusNumbers DEF LongRange
<1>2. ASSUME NEW b \in 0 .. 2 * MemoryWords - 1  PROVE WordIndex(b) \in 0 .. MemoryWords - 1
  BY <1>1, IndexRange
<1>3. WordIndex(a) \in 0 .. MemoryWords - 1
  BY <1>1, IndexRange
<1>4. CASE size = 1
  <2> DEFINE x == Masked(v, 1)
  <2>1. x \in ByteRange /\ Masked(v, size) = x
    BY <1>1, <1>4, MaskedRange DEF Values, ByteRange
  <2>2. n = WriteByte(m, a, x)
    BY <1>4 DEF WrittenIn
  <2> HIDE DEF x, n
  <2>3. /\ n \in Memories
        /\ \A c \in Int : ReadByte(n, c) =
             IF WordIndex(c) = WordIndex(a) /\ (Odd(c) <=> Odd(a)) THEN x ELSE ReadByte(m, c)
    BY <1>1, <2>1, <2>2, ByteWritten, ByteOfWritten
  <2>4. ReadSized(n, a, size) = x
    BY <1>1, <1>4, <2>3 DEF ReadSized
  <2>5. ASSUME NEW b \in 0 .. 2 * MemoryWords - 1, ~own(b)  PROVE ReadByte(n, b) = ReadByte(m, b)
    <3>1. b # Wrap(a) % (2 * MemoryWords)
      <4>1. 0 \in 0 .. size - 1
        BY <1>4
      <4> QED
        BY <1>1, <2>5, <4>1 DEF Bytes
    <3>2. ~(WordIndex(b) = WordIndex(a) /\ (Odd(b) <=> Odd(a)))
      BY <1>1, <3>1, ByteOfAddress
    <3> QED
      BY <1>1, <2>3, <3>2
  <2> QED
    BY <2>1, <2>3, <2>4, <2>5 DEF n
<1>5. CASE size = 2
  <2>1. n = WriteWord(m, a, v) /\ ~Odd(a)
    BY <1>5 DEF WrittenIn
  <2>2. n \in Memories /\ v % WordValues \in WordRange
        /\ n = [m EXCEPT ![WordIndex(a)] = v % WordValues]
    BY <1>1, <2>1, WordWritten
  <2> HIDE DEF n
  <2>3. /\ n[WordIndex(a)] = v % WordValues
        /\ \A w \in 0 .. MemoryWords - 1 : w # WordIndex(a) => n[w] = m[w]
    BY <1>3, <2>2 DEF Memories
  <2>4. ReadSized(n, a, size) = Masked(v, size)
    BY <1>5, <2>3 DEF ReadSized, ReadWord, Masked, Values
  <2>5. ASSUME NEW b \in 0 .. 2 * MemoryWords - 1, ~own(b)  PROVE ReadByte(n, b) = ReadByte(m, b)
    <3>1. b # Wrap(a) % (2 * MemoryWords) /\ b # Wrap(a + 1) % (2 * MemoryWords)
      <4>1. 0 \in 0 .. size - 1 /\ 1 \in 0 .. size - 1
        BY <1>5
      <4> QED
        BY <1>1, <2>5, <4>1 DEF Bytes
    <3>2. WordIndex(b) # WordIndex(a)
      BY <1>1, <2>1, <3>1, BytesOfEven
    <3> QED
      BY <1>2, <2>3, <3>2 DEF ReadByte
  <2> QED
    BY <2>2, <2>4, <2>5 DEF n
<1>6. CASE size = 4
  <2>1. n = WriteLongWord(m, a, v) /\ ~Odd(a)
    BY <1>6 DEF WrittenIn
  <2> HIDE DEF n
  <2>2. /\ n \in Memories /\ ReadLongWord(n, a) = v
        /\ \A w \in 0 .. MemoryWords - 1 : w # WordIndex(a) /\ w # WordIndex(a + 2) => n[w] = m[w]
    <3>1. n \in Memories /\ \A w \in 0 .. MemoryWords - 1 :
            w # WordIndex(a) /\ w # WordIndex(a + 2) => n[w] = m[w]
      BY <1>1, <2>1, LongWritten
    <3>2. ReadLongWord(n, a) = v
      BY <1>1, <2>1, LongReadBack
    <3> QED
      BY <3>1, <3>2
  <2>3. Masked(v, size) = v
    <3>1. Masked(v, size) = Wrap(v)
      BY <1>6 DEF Masked, Values, Wrap
    <3> QED
      BY <3>1, WrapSmall
  <2>4. ReadSized(n, a, size) = Masked(v, size)
    BY <1>6, <2>2, <2>3 DEF ReadSized
  <2>5. ASSUME NEW b \in 0 .. 2 * MemoryWords - 1, ~own(b)  PROVE ReadByte(n, b) = ReadByte(m, b)
    <3> DEFINE c == a + 2
    <3>1. /\ b # Wrap(a) % (2 * MemoryWords) /\ b # Wrap(a + 1) % (2 * MemoryWords)
          /\ b # Wrap(c) % (2 * MemoryWords) /\ b # Wrap(c + 1) % (2 * MemoryWords)
      <4>1. /\ 0 \in 0 .. size - 1 /\ 1 \in 0 .. size - 1 /\ 2 \in 0 .. size - 1
               /\ 3 \in 0 .. size - 1
            /\ c + 1 = a + 3
        BY <1>1, <1>6
      <4> QED
        BY <1>1, <2>5, <4>1 DEF Bytes
    <3>2. c \in Int /\ ~Odd(c)
      BY <1>1, <2>1 DEF Odd
    <3> HIDE DEF c
    <3>3. WordIndex(b) # WordIndex(a) /\ WordIndex(b) # WordIndex(c)
      BY <1>1, <2>1, <3>1, <3>2, BytesOfEven
    <3> QED
      BY <1>2, <2>2, <3>3 DEF ReadByte, c
  <2> QED
    BY <2>2, <2>4, <2>5 DEF n
<1> QED
  BY <1>4, <1>5, <1>6

(***************************************************************************)
(* Operands.                                                               *)
(***************************************************************************)

OperandModes == DataModes \cup {"pc_displacement", "pc_index", "immediate", "data_register", "address_register"}

Regs == [OperandRegisters -> LongRange]

LEMMA OperandFacts ==
  ASSUME NEW o \in Operands
  PROVE  /\ o.address \in OperandModes /\ o.register \in OperandRegisters
            /\ o.index \in OperandRegisters
         /\ (o.address \in {"indirect", "postincrement", "predecrement"} => o.register \in AddressRegisters)
         /\ (o.address \in {"postincrement", "predecrement"} => ~IsRegisterMode(o))
         /\ (o.address = "data_register" => o.register = "D")
BY DEF Operands, OperandModes, DataModes, OperandRegisters, AddressRegisters, IsRegisterMode

LEMMA InstructionFacts ==
  ASSUME NEW op \in Instructions
  PROVE  /\ op.kind \in Kinds /\ op.size \in {1, 2, 4} /\ op.source \in Operands
            /\ op.destination \in Operands
         /\ SensibleOperands(op)
         /\ SourceSizeOf(op) \in {0, 1, 2, 4} /\ DestinationSizeOf(op) \in {1, 2, 4}
         /\ (SourceSizeOf(op) = 0 => ~IsRegisterMode(op.source))
<1>1. /\ op.kind \in Kinds /\ op.size \in {1, 2, 4} /\ op.source \in Operands
         /\ op.destination \in Operands
      /\ SensibleOperands(op)
  BY DEF Instructions
<1>2. SourceSizeOf(op) \in {0, 1, 2, 4} /\ DestinationSizeOf(op) \in {1, 2, 4}
  BY <1>1 DEF SourceSizeOf, DestinationSizeOf
<1>3. SourceSizeOf(op) = 0 => op.kind = "lea"
  BY <1>1 DEF SourceSizeOf
<1>4. op.kind = "lea" => op.source.address # "data_register"
      /\ op.source.address # "address_register"
  BY <1>1 DEF SensibleOperands
<1> QED
  BY <1>1, <1>2, <1>3, <1>4 DEF IsRegisterMode

(***************************************************************************)
(* The invariant: at every stage, how far the registers have moved, where  *)
(* the program counter is and what is in memory, from what they were when  *)
(* the instruction began.                                                  *)
(***************************************************************************)

SourceMoved == Moved(start.registers, instruction.source, SourceSizeOf(instruction))
BothMoved   == Moved(SourceMoved, instruction.destination, DestinationSizeOf(instruction))

BehindSource ==
  Wrap(Wrap(Start + 2) + ExtensionBytes(instruction.source, SourceSizeOf(instruction)))
BehindBoth ==
  Wrap(BehindSource + ExtensionBytes(instruction.destination, DestinationSizeOf(instruction)))

(* Where the destination was decoded. *)
PlaceRight ==
  LET o == instruction.destination
  IN  IF IsRegisterMode(o)
      THEN destination_place = [type |-> "register", register |-> o.register, address |-> 0]
      ELSE /\ destination_place.type = "memory" /\ destination_place.address \in LongRange
           /\ o.address \in {"indirect", "postincrement", "predecrement"} =>
                destination_place.address =
                  Wrap(RegisterPlace(o, SourceMoved[o.register], DestinationSizeOf(instruction)))

(* What the destination held, if it is in memory and was read. *)
ValueRight ==
  ReadsDestination(instruction.kind) /\ destination_place.type = "memory" =>
    destination_value =
      ReadSized(start.memory, destination_place.address, DestinationSizeOf(instruction))

WrittenRight ==
  IF WritesDestination(instruction.kind)
  THEN IF destination_place.type = "register"
       THEN /\ memory = start.memory
            /\ \A r \in OperandRegisters \ {instruction.destination.register} :
                 registers[r] = BothMoved[r]
       ELSE /\ registers = BothMoved
            /\ ~Refused(destination_place, DestinationSizeOf(instruction))
            /\ memory = WrittenIn(start.memory, destination_place.address,
                                  DestinationSizeOf(instruction), Result)
  ELSE registers = BothMoved /\ memory = start.memory

AccessTypes ==
  /\ registers \in Regs /\ memory \in Memories
  /\ start.registers \in Regs /\ start.memory \in Memories
  /\ source_value \in LongRange /\ destination_value \in LongRange
  /\ stage \in {"source", "destination", "write", "done", "fault"}

(* The instruction itself. *)
AccessedRight ==
  /\ instruction \in Instructions
  /\ stage = "source" =>
       /\ registers = start.registers /\ memory = start.memory
       /\ next_word = Start /\ destination_place = Nowhere
  /\ stage = "destination" =>
       /\ registers = SourceMoved /\ memory = start.memory
       /\ next_word = BehindSource /\ destination_place = Nowhere
  /\ stage = "write" =>
       /\ registers = BothMoved /\ memory = start.memory
       /\ next_word = BehindBoth /\ PlaceRight /\ ValueRight
  /\ stage = "done" =>
       next_word = BehindBoth /\ PlaceRight /\ ValueRight /\ WrittenRight
  /\ stage = "fault" =>
       /\ memory = start.memory
       /\ registers = IF destination_place = Nowhere THEN SourceMoved ELSE BothMoved

(* How far the source of what was pushed has moved a register. *)
PushMoved(r) == Wrap(start.registers[r] + Movement(pushed[1].source, r, instruction.size))

(* The instruction that takes back what was pushed. *)
PoppedRight ==
  LET o == instruction.source
      size == instruction.size
      v == pushed[1].value
  IN  /\ instruction.kind = "move" /\ size \in {1, 2, 4}
      /\ o.address = "postincrement" /\ o.register \in AddressRegisters
      /\ instruction.destination.address = "data_register"
         /\ instruction.destination.register = "D"
      /\ v \in LongRange /\ pushed[1].source \in Operands
      /\ stage = "source" =>
           /\ \A r \in AddressRegisters :
                registers[r] = IF r = o.register THEN Wrap(PushMoved(r) - Step(r, size)) ELSE PushMoved(r)
           /\ ReadSized(memory, registers[o.register], size) = Masked(v, size)
      /\ stage \in {"destination", "write", "done"} =>
           \A r \in AddressRegisters : registers[r] = PushMoved(r)
      /\ stage \in {"destination", "write"} => Masked(source_value, size) = Masked(v, size)
      /\ stage = "write" =>
           destination_place = [type |-> "register", register |-> "D", address |-> 0]
      /\ stage = "done" => Masked(registers["D"], size) = Masked(v, size)

AccessInv == AccessTypes /\ IF pushed = <<>> THEN AccessedRight ELSE PoppedRight

(***************************************************************************)
(* Decoding.                                                               *)
(***************************************************************************)

LEMMA MovedIs ==
  ASSUME NEW regs \in Regs, NEW o \in Operands, NEW size \in {0, 1, 2, 4}
  PROVE  /\ Moved(regs, o, size) \in Regs
         /\ \A r \in OperandRegisters :
              /\ Movement(o, r, size) \in Int
              /\ Moved(regs, o, size)[r] = Wrap(regs[r] + Movement(o, r, size))
<1> DEFINE s == o.register
           step == Step(s, size)
           n == Moved(regs, o, size)
<1>1. s \in OperandRegisters /\ step \in Nat
  BY OperandFacts DEF Step
<1>2. \A r \in OperandRegisters : regs[r] \in LongRange /\ regs[r] \in Int /\ Wrap(regs[r]) = regs[r]
  BY WrapSmall, BusNumbers DEF Regs, LongRange
<1>3. \A r \in OperandRegisters : r # s => Movement(o, r, size) = 0
  BY DEF Movement
<1> HIDE DEF step
<1>4. CASE o.address = "predecrement"
  <2>1. n = [regs EXCEPT ![s] = Wrap(regs[s] - step)] /\ Movement(o, s, size) = -step
    BY <1>4 DEF Moved, Movement, step
  <2>2. Wrap(regs[s] - step) \in LongRange /\ regs[s] - step = regs[s] + (-step)
        /\ -step \in Int
    BY <1>1, <1>2, WrapRange
  <2> HIDE DEF n
  <2>3. n \in Regs /\ n[s] = Wrap(regs[s] + (-step))
        /\ \A r \in OperandRegisters : r # s => n[r] = regs[r]
    BY <1>1, <2>1, <2>2 DEF Regs
  <2>4. ASSUME NEW r \in OperandRegisters
        PROVE  Movement(o, r, size) \in Int /\ n[r] = Wrap(regs[r] + Movement(o, r, size))
    <3>1. CASE r = s
      BY <2>1, <2>2, <2>3, <3>1
    <3>2. CASE r # s
      <4>1. regs[r] + 0 = regs[r]
        BY <1>2
      <4> QED
        BY <1>2, <1>3, <2>3, <3>2, <4>1
    <3> QED
      BY <3>1, <3>2
  <2> QED
    BY <2>3, <2>4 DEF n
<1>5. CASE o.address = "postincrement"
  <2>1. n = [regs EXCEPT ![s] = Wrap(regs[s] + step)] /\ Movement(o, s, size) = step
    BY <1>5 DEF Moved, Movement, step
  <2>2. Wrap(regs[s] + step) \in LongRange
    BY <1>1, <1>2, WrapRange
  <2> HIDE DEF n
  <2>3. n \in Regs /\ n[s] = Wrap(regs[s] + step)
        /\ \A r \in OperandRegisters : r # s => n[r] = regs[r]
    BY <1>1, <2>1, <2>2 DEF Regs
  <2>4. ASSUME NEW r \in OperandRegisters
        PROVE  Movement(o, r, size) \in Int /\ n[r] = Wrap(regs[r] + Movement(o, r, size))
    <3>1. CASE r = s
      BY <1>1, <2>1, <2>3, <3>1
    <3>2. CASE r # s
      <4>1. regs[r] + 0 = regs[r]
        BY <1>2
      <4> QED
        BY <1>2, <1>3, <2>3, <3>2, <4>1
    <3> QED
      BY <3>1, <3>2
  <2> QED
    BY <2>3, <2>4 DEF n
<1>6. CASE o.address # "predecrement" /\ o.address # "postincrement"
  <2>1. n = regs /\ \A r \in OperandRegisters : Movement(o, r, size) = 0 /\ regs[r] + 0 = regs[r]
    BY <1>2, <1>6 DEF Moved, Movement
  <2> HIDE DEF n
  <2> QED
    BY <1>2, <2>1 DEF n
<1> QED
  BY <1>4, <1>5, <1>6

LEMMA SignsExtended ==
  ASSUME NEW v \in WordRange
  PROVE  /\ SignExtendWord(v) \in LongRange /\ SignExtendWord(v) \in Int
         /\ SignExtendByte(v % ByteValues) \in Int
BY BusNumbers DEF SignExtendWord, SignExtendByte, WordRange, LongRange

LEMMA DecodedIs ==
  ASSUME NEW regs \in Regs, NEW o \in Operands, NEW size \in {0, 1, 2, 4}, NEW pc \in Int,
         memory \in Memories
  PROVE  /\ IsRegisterMode(o) =>
              Decoded(regs, pc, o, size) = [type |-> "register", register |-> o.register, address |-> 0]
         /\ ~IsRegisterMode(o) =>
              /\ Decoded(regs, pc, o, size) =
                   [type |-> "memory", register |-> o.register, address |-> PlaceOf(regs, pc, o, size)]
              /\ PlaceOf(regs, pc, o, size) \in LongRange
              /\ o.address \in {"indirect", "postincrement", "predecrement"} =>
                   PlaceOf(regs, pc, o, size) = Wrap(RegisterPlace(o, regs[o.register], size))
<1> DEFINE base == IF o.address \in {"pc_displacement", "pc_index"} THEN pc ELSE regs[o.register]
           word == ReadWord(memory, pc)
           inner == CASE o.address = "absolute_short" -> SignExtendWord(word)
                      [] o.address = "absolute_long"  -> ReadLongWord(memory, pc)
                      [] o.address = "immediate"      -> ImmediateAt(pc, size)
                      [] o.address \in {"indirect", "postincrement", "predecrement"} ->
                           RegisterPlace(o, base, size)
                      [] o.address \in {"displacement", "pc_displacement"} ->
                           base + SignExtendWord(word)
                      [] OTHER -> base + IndexValue(regs, o) + SignExtendByte(word % ByteValues)
<1>1. PlaceOf(regs, pc, o, size) = Wrap(inner)
  BY DEF PlaceOf
<1>2. /\ o.register \in OperandRegisters /\ o.index \in OperandRegisters
      /\ regs[o.register] \in Int /\ regs[o.index] \in LongRange /\ regs[o.index] \in Int
  BY OperandFacts, BusNumbers DEF Regs, LongRange
<1>3. base \in Int
  BY <1>2
<1>4. /\ word \in WordRange /\ SignExtendWord(word) \in Int
         /\ SignExtendByte(word % ByteValues) \in Int
      /\ ReadLongWord(memory, pc) \in Int
  <2>1. word \in WordRange /\ ReadLongWord(memory, pc) \in LongRange
    BY WordRead, LongRead
  <2> HIDE DEF word
  <2> QED
    BY <2>1, SignsExtended, BusNumbers DEF LongRange
<1>5. IndexValue(regs, o) \in Int
  <2> DEFINE v == regs[o.index] % WordValues
  <2>1. v \in WordRange
    BY <1>2, WordsOfLong
  <2> HIDE DEF v
  <2>2. SignExtendWord(v) \in Int
    BY <2>1, SignsExtended
  <2> QED
    BY <1>2, <2>2 DEF IndexValue, v
<1>6. RegisterPlace(o, base, size) \in Int
  <2> HIDE DEF base
  <2>1. Step(o.register, size) \in Int
    BY DEF Step
  <2> QED
    BY <1>3, <2>1 DEF RegisterPlace
<1>7. ImmediateAt(pc, size) \in Int
  BY DEF ImmediateAt
<1>8. inner \in Int
  <2> HIDE DEF base, word
  <2> QED
    BY <1>3, <1>4, <1>5, <1>6, <1>7
<1>9. o.address \in {"indirect", "postincrement", "predecrement"} =>
        inner = RegisterPlace(o, regs[o.register], size)
  OBVIOUS
<1> HIDE DEF inner
<1>10. Wrap(inner) \in LongRange
  BY <1>8, WrapRange
<1> QED
  BY <1>1, <1>9, <1>10 DEF Decoded

LEMMA ValueRange ==
  ASSUME NEW regs \in Regs, NEW place, NEW size \in {0, 1, 2, 4}, memory \in Memories,
         \/ place.type = "register" /\ place.register \in OperandRegisters /\ size # 0
         \/ place.type = "memory" /\ place.address \in LongRange
  PROVE  GetValue(regs, place, size) \in LongRange
<1>1. CASE place.type = "memory"
  BY <1>1, SizedRead DEF GetValue
<1>2. CASE place.type = "register"
  <2> DEFINE v == regs[place.register]
  <2>1. v \in Int
    BY <1>2, BusNumbers DEF Regs, LongRange
  <2> HIDE DEF v
  <2>2. Masked(v, size) \in LongRange
    BY <1>2, <2>1, MaskedRange
  <2> QED
    BY <1>2, <2>2 DEF GetValue, v
<1> QED
  BY <1>1, <1>2

(* Of a register of which a part is replaced. *)
LEMMA ReplacedRange ==
  ASSUME NEW v \in LongRange, NEW x \in Int, NEW size \in {1, 2, 4}
  PROVE  v - Masked(v, size) + Masked(x, size) \in LongRange
<1> DEFINE n == Values(size)
           p == v \div n
           r == x % n
<1>1. n \in Nat \ {0} /\ v \in Int /\ LongValues \in Nat /\ 0 <= v /\ v < LongValues
  BY SizeValues, BusNumbers DEF LongRange
<1>2. PICK q \in Nat : LongValues = q * n
  BY SizeValues
<1>3. Masked(v, size) = v % n /\ Masked(x, size) = r
  BY DEF Masked
<1> HIDE DEF n
<1>4. p \in Int /\ v = p * n + (v % n) /\ v % n \in 0 .. n - 1 /\ r \in 0 .. n - 1
  BY <1>1
<1> HIDE DEF p, r
<1>5. 0 <= p
  <2>1. ASSUME p <= -1  PROVE FALSE
    <3>1. p * n <= -1 * n
      BY <1>1, <1>4, <2>1
    <3> QED
      BY <1>1, <1>4, <3>1
  <2> QED
    BY <1>4, <2>1
<1>6. p <= q - 1
  <2>1. ASSUME q <= p  PROVE FALSE
    <3>1. q * n <= p * n
      BY <1>1, <1>2, <1>4, <2>1
    <3> QED
      BY <1>1, <1>2, <1>4, <3>1
  <2> QED
    BY <1>2, <1>4, <2>1
<1>7. 0 <= p * n /\ p * n <= (q - 1) * n /\ (q - 1) * n = LongValues - n
  BY <1>1, <1>2, <1>4, <1>5, <1>6
<1>8. p * n \in Int /\ p * n + r \in 0 .. LongValues - 1
  BY <1>1, <1>4, <1>7
<1>9. v - (v % n) + r = p * n + r
  <2> DEFINE y == p * n
             z == v % n
  <2>1. y \in Int /\ z \in Int /\ v = y + z /\ r \in Int
    BY <1>4, <1>8
  <2> HIDE DEF y, z
  <2>2. v - z + r = y + r
    BY <2>1
  <2> QED
    BY <2>2 DEF y, z
<1> QED
  BY <1>3, <1>8, <1>9 DEF LongRange

(* How many words an operand takes. *)
LEMMA BytesOfWords ==
  ASSUME NEW o \in Operands, NEW size \in {1, 2, 4}
  PROVE  /\ ExtensionBytes(o, size) = 2 * Len(ExtensionWords(o.address, size))
         /\ ExtensionBytes(o, size) \in Nat
<1> DEFINE count == CASE o.address = "immediate" -> <<0, 1, 1, 1, 2>>[size + 1]
                      [] o.address = "absolute_long" -> 2
                      [] o.address \in {"absolute_short", "displacement", "index",
                                        "pc_displacement", "pc_index"} -> 1
                      [] OTHER -> 0
<1>1. count \in Nat
  <2>1. <<0, 1, 1, 1, 2>>[size + 1] \in {1, 2}
    BY SMT
  <2> QED
    BY <2>1
<1>2. ExtensionBytes(o, size) = 2 * count
  BY DEF ExtensionBytes, ImmediateBytes
<1>3. ExtensionWords(o.address, size) = [n \in 1 .. count |-> o.address]
  BY DEF ExtensionWords
<1> HIDE DEF count
<1>4. Len(ExtensionWords(o.address, size)) = count
  BY <1>1, <1>3
<1> QED
  BY <1>1, <1>2, <1>4

(***************************************************************************)
(* The invariant is inductive.                                             *)
(***************************************************************************)

LEMMA SameInstruction ==
  ASSUME UNCHANGED <<instruction, start>>
  PROVE  /\ SourceMoved' = SourceMoved /\ BothMoved' = BothMoved
         /\ BehindSource' = BehindSource /\ BehindBoth' = BehindBoth
BY DEF SourceMoved, BothMoved, BehindSource, BehindBoth

LEMMA MovedRegisters ==
  ASSUME AccessTypes, AccessedRight
  PROVE  SourceMoved \in Regs /\ BothMoved \in Regs
<1>1. /\ instruction.source \in Operands /\ instruction.destination \in Operands
      /\ SourceSizeOf(instruction) \in {0, 1, 2, 4}
         /\ DestinationSizeOf(instruction) \in {1, 2, 4}
  BY InstructionFacts DEF AccessedRight
<1>2. SourceMoved \in Regs
  BY <1>1, MovedIs DEF SourceMoved, AccessTypes
<1> QED
  BY <1>1, <1>2, MovedIs DEF BothMoved

LEMMA AccessBegins == AccessInit => AccessInv
<1> SUFFICES ASSUME AccessInit PROVE AccessInv
  OBVIOUS
<1>1. registers \in Regs
  <2>1. PICK d \in DataValues, a \in BaseValues, s \in StackValues :
          registers = [r \in OperandRegisters |-> CASE r = "D" -> d [] r = "A" -> a [] r = "SP" -> s]
    BY DEF AccessInit
  <2>2. d \in LongRange /\ a \in LongRange /\ s \in LongRange
    BY OperandAccessAssumption
  <2> QED
    BY <2>1, <2>2 DEF Regs, OperandRegisters, AddressRegisters
<1>2. memory \in Memories /\ 0 \in LongRange
  BY OperandAccessAssumption, BusNumbers DEF AccessInit, LongRange
<1>3. /\ stage = "source" /\ source_value = 0 /\ destination_value = 0 /\ pushed = <<>>
      /\ destination_place = Nowhere /\ next_word = Start /\ instruction \in Instructions
      /\ start = [registers |-> registers, memory |-> memory]
  BY DEF AccessInit
<1>4. start.registers = registers /\ start.memory = memory
  BY <1>3
<1> QED
  BY <1>1, <1>2, <1>3, <1>4 DEF AccessInv, AccessTypes, AccessedRight

(* DecodeSource and ReadSource. *)
LEMMA SourceStep ==
  ASSUME AccessInv, Source
  PROVE  AccessInv'
<1> DEFINE size == SourceSizeOf(instruction)
           o == instruction.source
           pc == Wrap(next_word + 2)
           place == Decoded(registers, pc, o, size)
<1>1. /\ stage = "source" /\ registers' = Moved(registers, o, size)
      /\ next_word' = Wrap(pc + ExtensionBytes(o, size))
      /\ \/ Refused(place, size) /\ stage' = "fault" /\ source_value' = source_value
         \/ stage' = "destination" /\ source_value' = GetValue(registers, place, size)
      /\ memory' = memory /\ instruction' = instruction
         /\ destination_value' = destination_value
      /\ destination_place' = destination_place /\ start' = start /\ pushed' = pushed
  BY DEF Source
<1>2. AccessTypes
  BY DEF AccessInv
<1>3. CASE pushed = <<>>
  <2>1. AccessedRight /\ instruction \in Instructions /\ registers = start.registers
        /\ memory = start.memory /\ next_word = Start /\ destination_place = Nowhere
    BY <1>1, <1>3 DEF AccessInv, AccessedRight
  <2>2. o \in Operands /\ size \in {0, 1, 2, 4} /\ (size = 0 => ~IsRegisterMode(o))
    BY <2>1, InstructionFacts
  <2>3. pc \in Int
    BY <2>1, OperandAccessAssumption, WrapRange, BusNumbers DEF LongRange
  <2>4. \/ place.type = "register" /\ place.register \in OperandRegisters /\ size # 0
        \/ place.type = "memory" /\ place.address \in LongRange
    <3> HIDE DEF size, o, pc
    <3>1. CASE IsRegisterMode(o)
      <4>1. place = [type |-> "register", register |-> o.register, address |-> 0]
        BY <1>2, <2>2, <2>3, <3>1, DecodedIs DEF AccessTypes
      <4> QED
        BY <2>2, <3>1, <4>1, OperandFacts
    <3>2. CASE ~IsRegisterMode(o)
      <4>1. /\ place = [type |-> "memory", register |-> o.register, address |-> PlaceOf(registers, pc, o, size)]
            /\ PlaceOf(registers, pc, o, size) \in LongRange
        BY <1>2, <2>2, <2>3, <3>2, DecodedIs DEF AccessTypes
      <4> QED
        BY <4>1
    <3> QED
      BY <3>1, <3>2
  <2>5. GetValue(registers, place, size) \in LongRange
    <3> HIDE DEF size, place
    <3> QED
      BY <1>2, <2>2, <2>4, ValueRange DEF AccessTypes
  <2>6. registers' = SourceMoved /\ SourceMoved \in Regs
    BY <1>1, <1>2, <2>1, MovedRegisters DEF SourceMoved
  <2>7. next_word' = BehindSource
    BY <1>1, <2>1 DEF BehindSource
  <2>8. SourceMoved' = SourceMoved /\ BehindSource' = BehindSource
    BY <1>1, SameInstruction
  <2> HIDE DEF place, pc, size, o
  <2>9. AccessTypes'
    BY <1>1, <1>2, <2>5, <2>6 DEF AccessTypes
  <2>10. AccessedRight'
    BY <1>1, <2>1, <2>6, <2>7, <2>8 DEF AccessedRight
  <2> QED
    BY <1>1, <1>3, <2>9, <2>10 DEF AccessInv
<1>4. CASE pushed # <<>>
  <2> DEFINE v == pushed[1].value
             reg == o.register
  <2>1. /\ instruction.kind = "move" /\ instruction.size \in {1, 2, 4}
           /\ size = instruction.size
        /\ o.address = "postincrement" /\ reg \in AddressRegisters
        /\ instruction.destination.address = "data_register"
           /\ instruction.destination.register = "D"
        /\ v \in LongRange /\ pushed[1].source \in Operands
        /\ \A r \in AddressRegisters :
                registers[r] = IF r = reg THEN Wrap(PushMoved(r) - Step(r, size)) ELSE PushMoved(r)
        /\ ReadSized(memory, registers[reg], size) = Masked(v, size)
    BY <1>1, <1>4 DEF AccessInv, PoppedRight, SourceSizeOf
  <2>2. reg \in OperandRegisters /\ registers[reg] \in LongRange
        /\ Wrap(registers[reg]) = registers[reg]
    BY <1>2, <2>1, WrapSmall DEF AccessTypes, Regs, OperandRegisters
  <2>3. place.type = "memory" /\ place.address = registers[reg]
    BY <2>1, <2>2 DEF Decoded, IsRegisterMode, PlaceOf, RegisterPlace
  <2>4. GetValue(registers, place, size) = Masked(v, size)
    <3> HIDE DEF place, size
    <3> QED
      BY <2>1, <2>3 DEF GetValue
  <2>5. Masked(v, size) \in LongRange /\ Masked(Masked(v, size), size) = Masked(v, size)
    <3>1. v \in Int
      BY <2>1, BusNumbers DEF LongRange
    <3> HIDE DEF v, size
    <3> QED
      BY <2>1, <3>1, MaskedRange
  <2>6. Step(reg, size) \in Int
    BY <2>1 DEF Step
  <2>7. registers' = [registers EXCEPT ![reg] = Wrap(registers[reg] + Step(reg, size))]
    BY <1>1, <2>1 DEF Moved
  <2>8. \A r \in OperandRegisters : registers[r] \in LongRange
    BY <1>2 DEF AccessTypes, Regs
  <2>9. PushMoved(reg) \in LongRange /\ PushMoved(reg) \in Int
        /\ Wrap(PushMoved(reg)) = PushMoved(reg)
    <3> DEFINE m == Movement(pushed[1].source, reg, instruction.size)
               s == start.registers[reg]
    <3>1. m \in Int
      BY <2>1, <2>2, <1>2, MovedIs DEF AccessTypes
    <3>2. s \in Int
      BY <1>2, <2>2, BusNumbers DEF AccessTypes, Regs, LongRange
    <3>3. PushMoved(reg) = Wrap(s + m)
      BY DEF PushMoved
    <3> HIDE DEF m, s
    <3>4. Wrap(s + m) \in LongRange /\ Wrap(s + m) \in Int
      BY <3>1, <3>2, WrapRange
    <3> QED
      BY <3>3, <3>4, WrapSmall
  <2>10. Wrap(registers[reg] + Step(reg, size)) = PushMoved(reg)
    <3> DEFINE p == PushMoved(reg)
               t == Step(reg, size)
    <3>1. registers[reg] = Wrap(p - t)
      BY <2>1
    <3>2. p \in Int /\ t \in Int /\ Wrap(p) = p
      BY <2>6, <2>9
    <3> HIDE DEF p, t
    <3>3. Wrap(Wrap(p - t) + t) = Wrap((p - t) + t) /\ (p - t) + t = p
      BY <3>2, WrapSum
    <3> QED
      BY <3>1, <3>2, <3>3 DEF p, t
  <2>11. registers' \in Regs
    BY <1>2, <2>2, <2>7, <2>9, <2>10 DEF AccessTypes, Regs
  <2>12. \A r \in AddressRegisters : registers'[r] = PushMoved(r)
    BY <1>2, <2>1, <2>7, <2>10 DEF AccessTypes, Regs, OperandRegisters
  <2>13. \A r \in AddressRegisters : PushMoved(r)' = PushMoved(r)
    BY <1>1 DEF PushMoved
  <2>14. source_value' \in LongRange
         /\ (stage' = "destination" => Masked(source_value', size) = Masked(v, size))
    BY <1>1, <1>2, <2>4, <2>5 DEF AccessTypes
  <2> HIDE DEF place
  <2>15. AccessTypes'
    BY <1>1, <1>2, <2>11, <2>14 DEF AccessTypes
  <2>16. stage' \in {"destination", "fault"}
    BY <1>1
  <2>17. PoppedRight'
    BY <1>1, <2>1, <2>12, <2>13, <2>14, <2>16 DEF PoppedRight
  <2> QED
    BY <1>1, <1>4, <2>15, <2>17 DEF AccessInv
<1> QED
  BY <1>3, <1>4

(* What has been pushed, as long as nothing but the data register, memory  *)
(* and what was read changes.                                              *)
LEMMA PushMovedKept ==
  ASSUME UNCHANGED <<instruction, start, pushed>>
  PROVE  \A r \in AddressRegisters : PushMoved(r)' = PushMoved(r)
BY DEF PushMoved

(* DecodeDestination and ReadDestination. *)
LEMMA DestinationStep ==
  ASSUME AccessInv, Destination
  PROVE  AccessInv'
<1> DEFINE size == DestinationSizeOf(instruction)
           o == instruction.destination
           place == Decoded(registers, next_word, o, size)
<1>1. /\ stage = "destination" /\ registers' = Moved(registers, o, size)
      /\ next_word' = Wrap(next_word + ExtensionBytes(o, size))
      /\ destination_place' = place
      /\ \/ /\ ReadsDestination(instruction.kind) /\ Refused(place, size)
            /\ stage' = "fault" /\ destination_value' = destination_value
         \/ /\ ReadsDestination(instruction.kind) /\ stage' = "write"
            /\ destination_value' = GetValue(registers, place, size)
         \/ /\ ~ReadsDestination(instruction.kind) /\ stage' = "write"
            /\ destination_value' = destination_value
      /\ memory' = memory /\ instruction' = instruction /\ source_value' = source_value
      /\ start' = start /\ pushed' = pushed
  BY DEF Destination
<1>2. AccessTypes
  BY DEF AccessInv
<1>3. CASE pushed = <<>>
  <2>1. AccessedRight /\ instruction \in Instructions /\ registers = SourceMoved
        /\ memory = start.memory /\ next_word = BehindSource
    BY <1>1, <1>3 DEF AccessInv, AccessedRight
  <2>2. o \in Operands /\ size \in {1, 2, 4} /\ o.register \in OperandRegisters
    BY <2>1, InstructionFacts, OperandFacts
  <2>3. next_word \in Int
    <3>1. instruction.source \in Operands
      BY <2>1, InstructionFacts
    <3>2. ExtensionBytes(instruction.source, SourceSizeOf(instruction)) \in Int
      BY <2>1, InstructionFacts DEF ExtensionBytes, ImmediateBytes
    <3>3. Wrap(Start + 2) \in Int
      BY OperandAccessAssumption, WrapRange, BusNumbers DEF LongRange
    <3>4. Wrap(Start + 2) + ExtensionBytes(instruction.source, SourceSizeOf(instruction)) \in Int
      BY <3>2, <3>3
    <3> QED
      BY <2>1, <3>4, WrapRange DEF BehindSource
  <2>4. IsRegisterMode(o) => place = [type |-> "register", register |-> o.register, address |-> 0]
    <3> HIDE DEF size, o
    <3> QED
      BY <1>2, <2>2, <2>3, DecodedIs DEF AccessTypes
  <2>5. ~IsRegisterMode(o) =>
          /\ place.type = "memory" /\ place.address \in LongRange
          /\ o.address \in {"indirect", "postincrement", "predecrement"} =>
               place.address = Wrap(RegisterPlace(o, registers[o.register], size))
    <3> HIDE DEF size, o
    <3>1. ASSUME ~IsRegisterMode(o)
          PROVE  /\ place = [type |-> "memory", register |-> o.register,
                              address |-> PlaceOf(registers, next_word, o, size)]
                 /\ PlaceOf(registers, next_word, o, size) \in LongRange
                 /\ o.address \in {"indirect", "postincrement", "predecrement"} =>
                      PlaceOf(registers, next_word, o, size) =
                        Wrap(RegisterPlace(o, registers[o.register], size))
      BY <1>2, <2>2, <2>3, <3>1, DecodedIs DEF AccessTypes
    <3>2. ASSUME ~IsRegisterMode(o)
          PROVE  place.type = "memory"
                 /\ place.address = PlaceOf(registers, next_word, o, size)
      BY <3>1, <3>2
    <3> QED
      BY <3>1, <3>2
  <2>6. \/ place.type = "register" /\ place.register \in OperandRegisters /\ size # 0
        \/ place.type = "memory" /\ place.address \in LongRange
    <3> HIDE DEF size, o, place
    <3> QED
      BY <2>2, <2>4, <2>5
  <2>7. GetValue(registers, place, size) \in LongRange
    <3> HIDE DEF size, place
    <3> QED
      BY <1>2, <2>2, <2>6, ValueRange DEF AccessTypes
  <2>8. registers' = BothMoved /\ BothMoved \in Regs
    BY <1>1, <1>2, <2>1, MovedRegisters DEF BothMoved
  <2>9. next_word' = BehindBoth
    BY <1>1, <2>1 DEF BehindBoth
  <2>10. BothMoved' = BothMoved /\ BehindBoth' = BehindBoth /\ SourceMoved' = SourceMoved
    BY <1>1, SameInstruction
  <2>11. PlaceRight'
    <3>1. instruction' = instruction /\ destination_place' = place
          /\ SourceMoved' = registers
      BY <1>1, <2>1, <2>10
    <3> HIDE DEF place
    <3> QED
      BY <2>4, <2>5, <3>1 DEF PlaceRight
  <2>12. stage' = "write" => ValueRight'
    <3>1. GetValue(registers, place, size) = IF place.type = "register" THEN Masked(registers[place.register], size)
                                             ELSE ReadSized(start.memory, place.address, size)
      BY <2>1 DEF GetValue
    <3> HIDE DEF place
    <3> QED
      BY <1>1, <3>1 DEF ValueRight
  <2>13. stage' = "fault" => destination_place' # Nowhere
    <3> HIDE DEF place
    <3> QED
      BY <1>1 DEF Refused, Nowhere
  <2> HIDE DEF place, size, o
  <2>14. AccessTypes'
    BY <1>1, <1>2, <2>7, <2>8 DEF AccessTypes
  <2>15. AccessedRight'
    BY <1>1, <2>1, <2>8, <2>9, <2>10, <2>11, <2>12, <2>13 DEF AccessedRight
  <2> QED
    BY <1>1, <1>3, <2>14, <2>15 DEF AccessInv
<1>4. CASE pushed # <<>>
  <2>1. /\ instruction.kind = "move" /\ o.address = "data_register" /\ o.register = "D"
        /\ \A r \in AddressRegisters : registers[r] = PushMoved(r)
        /\ Masked(source_value, instruction.size) = Masked(pushed[1].value, instruction.size)
    BY <1>1, <1>4 DEF AccessInv, PoppedRight
  <2>2. registers' = registers
        /\ place = [type |-> "register", register |-> "D", address |-> 0]
    BY <1>1, <2>1 DEF Moved, Decoded, IsRegisterMode
  <2>3. stage' = "write" /\ destination_value' = destination_value
    BY <1>1, <2>1 DEF ReadsDestination
  <2>4. \A r \in AddressRegisters : PushMoved(r)' = PushMoved(r)
    BY <1>1, PushMovedKept
  <2> HIDE DEF place
  <2>5. AccessTypes'
    BY <1>1, <1>2, <2>2, <2>3 DEF AccessTypes
  <2>6. PoppedRight'
    BY <1>1, <1>4, <2>1, <2>2, <2>3, <2>4 DEF AccessInv, PoppedRight
  <2> QED
    BY <1>1, <1>4, <2>5, <2>6 DEF AccessInv
<1> QED
  BY <1>3, <1>4

(* SetValueUsingDecodedAddressMode on memory. *)
LEMMA MemoryWrittenAs ==
  ASSUME NEW m, NEW a, NEW size \in {1, 2, 4}
  PROVE  WrittenIn(m, a, size, Result) =
           CASE size = 1 -> WriteByte(m, a, Masked(Result, 1))
             [] size = 2 -> WriteWord(m, a, Result)
             [] size = 4 -> WriteLongWord(m, a, Result)
BY DEF WrittenIn

LEMMA ResultRange ==
  ASSUME source_value \in LongRange, destination_value \in LongRange
  PROVE  Result \in Int /\ (instruction.kind # "movea" => Result \in LongRange)
<1>1. source_value \in Int /\ destination_value \in Int
      /\ destination_value + source_value \in Int
  BY BusNumbers DEF LongRange
<1>2. Wrap(destination_value + source_value) \in LongRange
      /\ Wrap(destination_value + source_value) \in Int
  BY <1>1, WrapRange
<1>3. SignExtendWord(source_value) \in Int
  BY <1>1, BusNumbers DEF SignExtendWord
<1> QED
  BY <1>1, <1>2, <1>3 DEF Result

(* WriteDestination. *)
LEMMA WriteStep ==
  ASSUME AccessInv, Write
  PROVE  AccessInv'
<1> DEFINE size == DestinationSizeOf(instruction)
           place == destination_place
           r == place.register
           o == instruction.destination
<1>1. /\ stage = "write" /\ WritesDestination(instruction.kind)
      /\ \/ Refused(place, size) /\ stage' = "fault" /\ registers' = registers /\ memory' = memory
         \/ /\ ~Refused(place, size) /\ stage' = "done" /\ place.type = "register"
            /\ registers' = [registers EXCEPT ![r] = Replaced(registers[r], size)]
            /\ memory' = memory
         \/ /\ ~Refused(place, size) /\ stage' = "done" /\ place.type # "register"
            /\ memory' = CASE size = 1 -> WriteByte(memory, place.address, Masked(Result, 1))
                           [] size = 2 -> WriteWord(memory, place.address, Result)
                           [] size = 4 -> WriteLongWord(memory, place.address, Result)
            /\ registers' = registers
      /\ next_word' = next_word /\ instruction' = instruction
         /\ source_value' = source_value
      /\ destination_value' = destination_value /\ destination_place' = destination_place
      /\ start' = start /\ pushed' = pushed
  BY DEF Write
<1>2. AccessTypes
  BY DEF AccessInv
<1>3. Result \in Int /\ (instruction.kind # "movea" => Result \in LongRange)
      /\ Result' = Result
  <2>1. Result' = Result
    BY <1>1 DEF Result
  <2> QED
    BY <1>2, <2>1, ResultRange DEF AccessTypes
<1>4. CASE pushed = <<>>
  <2>1. /\ AccessedRight /\ instruction \in Instructions /\ registers = BothMoved
        /\ memory = start.memory /\ next_word = BehindBoth /\ PlaceRight /\ ValueRight
    BY <1>1, <1>4 DEF AccessInv, AccessedRight
  <2>2. /\ o \in Operands /\ size \in {1, 2, 4} /\ o.register \in OperandRegisters
        /\ SensibleOperands(instruction)
    BY <2>1, InstructionFacts, OperandFacts
  <2>3. /\ IsRegisterMode(o) => place = [type |-> "register", register |-> o.register, address |-> 0]
        /\ ~IsRegisterMode(o) => place.type = "memory" /\ place.address \in LongRange
    BY <2>1 DEF PlaceRight
  <2>4. /\ BothMoved' = BothMoved /\ BehindBoth' = BehindBoth /\ SourceMoved' = SourceMoved
        /\ PlaceRight' = PlaceRight /\ ValueRight' = ValueRight
    BY <1>1, SameInstruction DEF PlaceRight, ValueRight
  <2>5. CASE Refused(place, size)
    <3>1. stage' = "fault" /\ registers' = registers /\ memory' = memory
      BY <1>1, <2>5
    <3>2. destination_place' # Nowhere
      BY <1>1, <2>5 DEF Refused, Nowhere
    <3>3. AccessTypes'
      BY <1>1, <1>2, <3>1 DEF AccessTypes
    <3> HIDE DEF place, size, o
    <3>4. AccessedRight'
      BY <1>1, <2>1, <2>4, <3>1, <3>2 DEF AccessedRight
    <3> QED
      BY <1>1, <1>4, <3>3, <3>4 DEF AccessInv
  <2>6. CASE ~Refused(place, size) /\ place.type = "register"
    <3>1. /\ stage' = "done"
             /\ registers' = [registers EXCEPT ![r] = Replaced(registers[r], size)]
          /\ memory' = memory
      BY <1>1, <2>6
    <3>2. r = o.register /\ r \in OperandRegisters
      BY <2>2, <2>3, <2>6
    <3>3. Replaced(registers[r], size) \in LongRange
      <4>1. registers[r] \in LongRange
        BY <1>2, <3>2 DEF AccessTypes, Regs
      <4> HIDE DEF r, size, place
      <4> QED
        BY <1>3, <2>2, <4>1, ReplacedRange DEF Replaced
    <3>4. registers' \in Regs
      <4> HIDE DEF r, size, place
      <4> QED
        BY <1>2, <3>1, <3>2, <3>3 DEF AccessTypes, Regs
    <3>5. \A q \in OperandRegisters \ {o.register} : registers'[q] = BothMoved[q]
      BY <1>2, <2>1, <3>1, <3>2 DEF AccessTypes, Regs
    <3>6. AccessTypes'
      BY <1>1, <1>2, <3>1, <3>4 DEF AccessTypes
    <3>7. WrittenRight'
      BY <1>1, <2>1, <2>4, <2>6, <3>1, <3>5 DEF WrittenRight
    <3> HIDE DEF place, size, r, o
    <3>8. AccessedRight'
      BY <1>1, <2>1, <2>4, <3>1, <3>7 DEF AccessedRight
    <3> QED
      BY <1>1, <1>4, <3>6, <3>8 DEF AccessInv
  <2>7. CASE ~Refused(place, size) /\ place.type # "register"
    <3>1. /\ stage' = "done" /\ registers' = registers
          /\ memory' = WrittenIn(start.memory, place.address, size, Result)
      BY <1>1, <2>1, <2>2, <2>7, MemoryWrittenAs
    <3>2. place.type = "memory" /\ place.address \in LongRange /\ ~IsRegisterMode(o)
      BY <2>3, <2>7
    <3>3. instruction.kind # "movea"
      BY <2>2, <3>2 DEF SensibleOperands, IsRegisterMode
    <3>4. memory' \in Memories
      <4>1. size \in {2, 4} => ~Odd(place.address)
        BY <2>7, <3>2 DEF Refused
      <4> HIDE DEF place, size
      <4> QED
        BY <1>2, <1>3, <2>2, <3>1, <3>2, <3>3, <4>1, SizedWritten DEF AccessTypes
    <3>5. AccessTypes'
      BY <1>1, <1>2, <3>1, <3>4 DEF AccessTypes
    <3>6. WrittenRight'
      BY <1>1, <1>3, <2>1, <2>4, <2>7, <3>1, <3>2 DEF WrittenRight
    <3> HIDE DEF place, size, r, o
    <3>7. AccessedRight'
      BY <1>1, <2>1, <2>4, <3>1, <3>6 DEF AccessedRight
    <3> QED
      BY <1>1, <1>4, <3>5, <3>7 DEF AccessInv
  <2> QED
    BY <2>5, <2>6, <2>7
<1>5. CASE pushed # <<>>
  <2> DEFINE v == pushed[1].value
  <2>1. /\ instruction.kind = "move" /\ instruction.size \in {1, 2, 4}
           /\ size = instruction.size
        /\ place = [type |-> "register", register |-> "D", address |-> 0]
        /\ \A q \in AddressRegisters : registers[q] = PushMoved(q)
        /\ Masked(source_value, size) = Masked(v, size)
        /\ PoppedRight
    BY <1>1, <1>5 DEF AccessInv, PoppedRight, DestinationSizeOf
  <2>2. r = "D" /\ ~Refused(place, size) /\ place.type = "register" /\ Result = source_value
    BY <2>1 DEF Refused, Result
  <2>3. /\ stage' = "done" /\ memory' = memory
        /\ registers' = [registers EXCEPT !["D"] = Replaced(registers["D"], size)]
    BY <1>1, <2>2
  <2>4. "D" \in OperandRegisters /\ registers["D"] \in LongRange /\ registers["D"] \in Int
        /\ \A q \in AddressRegisters : q \in OperandRegisters /\ q # "D"
    BY <1>2, BusNumbers DEF AccessTypes, Regs, OperandRegisters, AddressRegisters, LongRange
  <2>5. Replaced(registers["D"], size) \in LongRange
        /\ Masked(Replaced(registers["D"], size), size) = Masked(v, size)
    <3> DEFINE d == registers["D"]
    <3>1. Replaced(d, size) = d - Masked(d, size) + Masked(source_value, size)
      BY <2>2 DEF Replaced
    <3>2. source_value \in Int
      BY <1>3, <2>2
    <3> HIDE DEF d, size, v
    <3>3. d \in LongRange /\ d \in Int
      BY <2>4 DEF d
    <3>4. size \in {1, 2, 4}
      BY <2>1
    <3>5. d - Masked(d, size) + Masked(source_value, size) \in LongRange
      BY <3>2, <3>3, <3>4, ReplacedRange
    <3>6. Masked(d - Masked(d, size) + Masked(source_value, size), size) = Masked(source_value, size)
      BY <3>2, <3>3, <3>4, PartReplaced
    <3> QED
      BY <2>1, <3>1, <3>5, <3>6 DEF d
  <2>6. /\ registers' \in Regs /\ registers'["D"] = Replaced(registers["D"], size)
        /\ \A q \in AddressRegisters : registers'[q] = registers[q]
    <3> HIDE DEF size, v
    <3> QED
      BY <1>2, <2>3, <2>4, <2>5 DEF AccessTypes, Regs
  <2>7. \A q \in AddressRegisters : PushMoved(q)' = PushMoved(q)
    BY <1>1, PushMovedKept
  <2> HIDE DEF place, r
  <2>8. AccessTypes'
    BY <1>1, <1>2, <2>3, <2>6 DEF AccessTypes
  <2>9. PoppedRight'
    BY <1>1, <2>1, <2>3, <2>5, <2>6, <2>7 DEF PoppedRight
  <2> QED
    BY <1>1, <1>5, <2>8, <2>9 DEF AccessInv
<1> QED
  BY <1>4, <1>5

LEMMA ComparedStep ==
  ASSUME AccessInv, Compared
  PROVE  AccessInv'
<1>1. /\ stage = "write" /\ ~WritesDestination(instruction.kind) /\ stage' = "done"
      /\ registers' = registers /\ memory' = memory /\ next_word' = next_word
      /\ instruction' = instruction /\ source_value' = source_value
      /\ destination_value' = destination_value /\ destination_place' = destination_place
      /\ start' = start /\ pushed' = pushed
  BY DEF Compared
<1>2. AccessTypes'
  BY <1>1 DEF AccessInv, AccessTypes
<1>3. CASE pushed = <<>>
  <2>1. /\ AccessedRight /\ registers = BothMoved /\ memory = start.memory
        /\ next_word = BehindBoth /\ PlaceRight /\ ValueRight
    BY <1>1, <1>3 DEF AccessInv, AccessedRight
  <2>2. /\ BothMoved' = BothMoved /\ BehindBoth' = BehindBoth /\ SourceMoved' = SourceMoved
        /\ PlaceRight' = PlaceRight /\ ValueRight' = ValueRight
    BY <1>1, SameInstruction DEF PlaceRight, ValueRight
  <2>3. WrittenRight'
    BY <1>1, <2>1, <2>2 DEF WrittenRight
  <2>4. AccessedRight'
    BY <1>1, <2>1, <2>2, <2>3 DEF AccessedRight
  <2> QED
    BY <1>1, <1>2, <1>3, <2>4 DEF AccessInv
<1>4. CASE pushed # <<>>
  BY <1>1, <1>4 DEF AccessInv, PoppedRight, WritesDestination
<1> QED
  BY <1>3, <1>4

(* What was pushed lies where the register that moved points to. *)
LEMMA PopPushedStep ==
  ASSUME AccessInv, PopPushed
  PROVE  AccessInv'
<1> DEFINE o == instruction.destination
           size == instruction.size
           reg == o.register
           at == registers[reg]
<1>1. /\ stage = "done" /\ pushed = <<>> /\ instruction.kind = "move"
         /\ o.address = "predecrement"
      /\ instruction' =
           [instruction EXCEPT
              !.source = [o EXCEPT !.address = "postincrement"],
              !.destination = [address |-> "data_register", register |-> "D",
                               index |-> "D", long_index |-> FALSE]]
      /\ stage' = "source"
         /\ pushed' = <<[value |-> source_value, source |-> instruction.source]>>
      /\ registers' = registers /\ memory' = memory /\ next_word' = next_word
      /\ source_value' = source_value /\ destination_value' = destination_value
      /\ destination_place' = destination_place /\ start' = start
  BY DEF PopPushed
<1>2. AccessTypes /\ AccessedRight /\ instruction \in Instructions /\ PlaceRight
      /\ WrittenRight
  BY <1>1 DEF AccessInv, AccessedRight
<1>3. /\ o \in Operands /\ size \in {1, 2, 4} /\ instruction.source \in Operands
      /\ DestinationSizeOf(instruction) = size /\ SourceSizeOf(instruction) = size
      /\ reg \in AddressRegisters /\ reg \in OperandRegisters /\ ~IsRegisterMode(o)
      /\ Result = source_value /\ WritesDestination(instruction.kind)
  BY <1>1, <1>2, InstructionFacts, OperandFacts
     DEF DestinationSizeOf, SourceSizeOf, Result, WritesDestination
<1>4. \A r \in AddressRegisters : r \in OperandRegisters
  BY DEF OperandRegisters
<1>5. /\ instruction'.kind = "move" /\ instruction'.size = size
      /\ instruction'.source = [o EXCEPT !.address = "postincrement"]
      /\ instruction'.destination.address = "data_register"
      /\ instruction'.destination.register = "D"
  BY <1>1, <1>2 DEF Instructions
<1>6. instruction'.source.address = "postincrement" /\ instruction'.source.register = reg
  BY <1>3, <1>5 DEF Operands
<1>7. /\ registers = BothMoved /\ destination_place.type = "memory"
      /\ destination_place.address \in LongRange
      /\ ~Refused(destination_place, size)
      /\ memory = WrittenIn(start.memory, destination_place.address, size, source_value)
      /\ destination_place.address = Wrap(SourceMoved[reg] - Step(reg, size))
  <2>1. destination_place.type = "memory" /\ destination_place.type # "register"
    BY <1>2, <1>3 DEF PlaceRight
  <2>2. RegisterPlace(o, SourceMoved[reg], size) = SourceMoved[reg] - Step(reg, size)
    BY <1>1 DEF RegisterPlace
  <2> HIDE DEF size
  <2> QED
    BY <1>1, <1>2, <1>3, <2>1, <2>2 DEF PlaceRight, WrittenRight
<1>8. SourceMoved \in Regs /\ \A r \in OperandRegisters : SourceMoved[r] \in Int
  BY <1>2, MovedRegisters, BusNumbers DEF Regs, LongRange
<1>9. ASSUME NEW r \in AddressRegisters
      PROVE  /\ PushMoved(r)' = SourceMoved[r]
             /\ registers[r] = IF r = reg THEN Wrap(SourceMoved[r] - Step(r, size)) ELSE SourceMoved[r]
  <2>1. SourceMoved[r] = Wrap(start.registers[r] + Movement(instruction.source, r, size))
    <3>1. start.registers \in Regs /\ size \in {0, 1, 2, 4} /\ r \in OperandRegisters
      BY <1>2, <1>3, <1>4 DEF AccessTypes
    <3>2. SourceMoved = Moved(start.registers, instruction.source, size)
      BY <1>3 DEF SourceMoved
    <3> HIDE DEF size
    <3> QED
      BY <1>3, <3>1, <3>2, MovedIs
  <2>2. PushMoved(r)' = Wrap(start.registers[r] + Movement(instruction.source, r, size))
    BY <1>1, <1>5 DEF PushMoved
  <2>3. BothMoved[r] = Wrap(SourceMoved[r] + Movement(o, r, size))
    <3>1. size \in {0, 1, 2, 4} /\ r \in OperandRegisters
      BY <1>3, <1>4
    <3>2. BothMoved = Moved(SourceMoved, o, size)
      BY <1>3 DEF BothMoved
    <3> HIDE DEF o, size
    <3> QED
      BY <1>3, <1>8, <3>1, <3>2, MovedIs
  <2>4. CASE r = reg
    <3>1. Movement(o, r, size) = -Step(r, size) /\ Step(r, size) \in Int
      BY <1>1, <1>3, <2>4 DEF Movement, Step
    <3>2. SourceMoved[r] + Movement(o, r, size) = SourceMoved[r] - Step(r, size)
      BY <1>4, <1>8, <3>1
    <3> QED
      BY <1>7, <2>1, <2>2, <2>3, <2>4, <3>2
  <2>5. CASE r # reg
    <3>1. Movement(o, r, size) = 0
      BY <2>5 DEF Movement
    <3>2. SourceMoved[r] + 0 = SourceMoved[r] /\ SourceMoved[r] \in LongRange
      BY <1>4, <1>8 DEF Regs
    <3>3. Wrap(SourceMoved[r]) = SourceMoved[r]
      BY <3>2, WrapSmall
    <3> QED
      BY <1>7, <2>1, <2>2, <2>3, <2>5, <3>1, <3>2, <3>3
  <2> QED
    BY <2>4, <2>5
<1>10. at = destination_place.address
  BY <1>3, <1>7, <1>9
<1>11. ReadSized(memory, at, size) = Masked(source_value, size)
  <2>1. size \in {2, 4} => ~Odd(at)
    BY <1>7, <1>10 DEF Refused
  <2>2. at \in LongRange /\ source_value \in LongRange /\ start.memory \in Memories
    BY <1>2, <1>7, <1>10 DEF AccessTypes
  <2>3. memory = WrittenIn(start.memory, at, size, source_value)
    BY <1>7, <1>10
  <2> HIDE DEF at, size
  <2> QED
    BY <1>3, <2>1, <2>2, <2>3, SizedWritten
<1>12. AccessTypes'
  BY <1>1, <1>2 DEF AccessTypes
<1>13. pushed'[1].value = source_value /\ pushed'[1].source = instruction.source
       /\ pushed' # <<>>
  BY <1>1
<1>14. PoppedRight'
  <2>1. \A r \in AddressRegisters :
          registers'[r] = IF r = reg THEN Wrap(PushMoved(r)' - Step(r, size)) ELSE PushMoved(r)'
    BY <1>1, <1>9
  <2>2. ReadSized(memory', registers'[reg], size) = Masked(source_value, size)
    BY <1>1, <1>11
  <2>3. stage' = "source" /\ source_value \in LongRange
    BY <1>1, <1>2 DEF AccessTypes
  <2> HIDE DEF size, reg, o
  <2> QED
    BY <1>3, <1>5, <1>6, <1>13, <2>1, <2>2, <2>3 DEF PoppedRight
<1> QED
  BY <1>12, <1>13, <1>14 DEF AccessInv

LEMMA AccessStep ==
  ASSUME AccessInv, [AccessNext]_accessVars
  PROVE  AccessInv'
<1>1. CASE AccessNext
  BY <1>1, SourceStep, DestinationStep, WriteStep, ComparedStep, PopPushedStep
       DEF AccessNext
<1>2. CASE UNCHANGED accessVars
  <2>1. /\ registers' = registers /\ memory' = memory /\ next_word' = next_word
        /\ instruction' = instruction /\ source_value' = source_value /\ stage' = stage
        /\ destination_value' = destination_value /\ destination_place' = destination_place
        /\ start' = start /\ pushed' = pushed
    BY <1>2 DEF accessVars
  <2>2. AccessTypes' = AccessTypes
    BY <2>1 DEF AccessTypes
  <2>3. AccessedRight' = AccessedRight
    BY <2>1 DEF AccessedRight, SourceMoved, BothMoved, BehindSource, BehindBoth, PlaceRight,
                ValueRight, WrittenRight, Result
  <2>4. PoppedRight' = PoppedRight
    BY <2>1 DEF PoppedRight, PushMoved
  <2> QED
    BY <2>1, <2>2, <2>3, <2>4 DEF AccessInv
<1> QED
  BY <1>1, <1>2

(* At each stage, what was decoded, read, computed and written so far is   *)
(* what the instruction says of the registers and memory it has found.     *)
THEOREM AccessHolds == AccessSpec => []AccessInv
<1>1. AccessInit => AccessInv
  BY AccessBegins
<1>2. AccessInv /\ [AccessNext]_accessVars => AccessInv'
  BY AccessStep
<1> QED
  BY <1>1, <1>2, PTL DEF AccessSpec

(***************************************************************************)
(* What it says of what the instruction did.                               *)
(***************************************************************************)

(* Of an instruction that is done, but for the register it was to load. *)
LEMMA RegistersAtEnd ==
  ASSUME AccessInv, pushed = <<>>, stage = "done", NEW r \in OperandRegisters,
         ~LoadedRegister(r)
  PROVE  registers[r] = BothMoved[r]
<1>1. /\ AccessTypes /\ AccessedRight /\ instruction \in Instructions /\ PlaceRight
         /\ WrittenRight
  BY DEF AccessInv, AccessedRight
<1>2. CASE registers = BothMoved
  BY <1>2
<1>3. CASE WritesDestination(instruction.kind) /\ destination_place.type = "register"
  <2>1. IsRegisterMode(instruction.destination)
    BY <1>1, <1>3 DEF PlaceRight
  <2>2. r # instruction.destination.register
    BY <1>3, <2>1 DEF LoadedRegister, IsRegisterMode
  <2> QED
    BY <1>1, <1>3, <2>2 DEF WrittenRight
<1> QED
  BY <1>1, <1>2, <1>3 DEF WrittenRight

(* Both movements of a register. *)
LEMMA MovedTwice ==
  ASSUME AccessTypes, AccessedRight, NEW r \in OperandRegisters
  PROVE  /\ SourceMoved[r] = Wrap(start.registers[r] + Movement(instruction.source, r, SourceSizeOf(instruction)))
         /\ BothMoved[r] =
              Wrap(start.registers[r] + Movement(instruction.source, r, SourceSizeOf(instruction))
                                      + Movement(instruction.destination, r, instruction.size))
<1> DEFINE m == Movement(instruction.source, r, SourceSizeOf(instruction))
           n == Movement(instruction.destination, r, DestinationSizeOf(instruction))
           s == start.registers[r]
<1>1. /\ instruction.source \in Operands /\ instruction.destination \in Operands
      /\ SourceSizeOf(instruction) \in {0, 1, 2, 4}
         /\ DestinationSizeOf(instruction) \in {1, 2, 4}
      /\ SensibleOperands(instruction)
  BY InstructionFacts DEF AccessedRight
<1>2. SourceMoved \in Regs /\ m \in Int /\ SourceMoved[r] = Wrap(s + m)
  BY <1>1, MovedIs DEF SourceMoved, AccessTypes
<1>3. n \in Int /\ BothMoved[r] = Wrap(SourceMoved[r] + n)
  <2> DEFINE o == instruction.destination
             size == DestinationSizeOf(instruction)
  <2>1. BothMoved = Moved(SourceMoved, o, size) /\ n = Movement(o, r, size)
    BY DEF BothMoved
  <2>2. size \in {0, 1, 2, 4} /\ o \in Operands
    BY <1>1
  <2> HIDE DEF o, size, n
  <2> QED
    BY <1>2, <2>1, <2>2, MovedIs
<1>4. s \in Int
  BY BusNumbers DEF AccessTypes, Regs, LongRange
<1>5. n = Movement(instruction.destination, r, instruction.size)
  <2>1. CASE instruction.kind = "movea"
    <3>1. instruction.destination.address = "address_register"
      BY <1>1, <2>1 DEF SensibleOperands
    <3> QED
      BY <3>1 DEF Movement
  <2>2. CASE instruction.kind # "movea"
    BY <2>2 DEF DestinationSizeOf
  <2> QED
    BY <2>1, <2>2
<1> HIDE DEF m, n, s
<1>6. Wrap(Wrap(s + m) + n) = Wrap((s + m) + n) /\ (s + m) + n = s + m + n
  BY <1>2, <1>3, <1>4, WrapSum
<1> QED
  BY <1>2, <1>3, <1>5, <1>6 DEF m, n, s

LEMMA MovesOnce ==
  ASSUME AccessInv
  PROVE  RegistersMoveOnce
<1> SUFFICES ASSUME stage = "done", pushed = <<>>, NEW r \in OperandRegisters, ~LoadedRegister(r)
             PROVE  registers[r] =
                      Wrap(start.registers[r]
                             + Movement(instruction.source, r, SourceSizeOf(instruction))
                             + Movement(instruction.destination, r, instruction.size))
  BY DEF RegistersMoveOnce, First
<1>1. AccessTypes /\ AccessedRight
  BY DEF AccessInv
<1> QED
  BY <1>1, RegistersAtEnd, MovedTwice

LEMMA EndsRight ==
  ASSUME AccessInv
  PROVE  EndsBehindOperands
<1> SUFFICES ASSUME stage = "done", pushed = <<>>
             PROVE  next_word =
                      Wrap(Start + 2
                             + 2 * Len(ExtensionWords(instruction.source.address, instruction.size))
                             + 2 * Len(ExtensionWords(instruction.destination.address, instruction.size)))
  BY DEF EndsBehindOperands, First
<1> DEFINE op == instruction
           x == ExtensionBytes(op.source, op.size)
           y == ExtensionBytes(op.destination, op.size)
<1>1. AccessedRight /\ op \in Instructions /\ next_word = BehindBoth
  BY DEF AccessInv, AccessedRight
<1>2. op.source \in Operands /\ op.destination \in Operands /\ op.size \in {1, 2, 4}
      /\ SensibleOperands(op)
  BY <1>1, InstructionFacts
<1>3. /\ x = 2 * Len(ExtensionWords(op.source.address, op.size)) /\ x \in Nat
      /\ y = 2 * Len(ExtensionWords(op.destination.address, op.size)) /\ y \in Nat
  BY <1>2, BytesOfWords
<1>4. ExtensionBytes(op.source, SourceSizeOf(op)) = x
  <2>1. op.kind = "lea" => op.source.address # "immediate"
    BY <1>2 DEF SensibleOperands
  <2> QED
    BY <2>1 DEF SourceSizeOf, ExtensionBytes
<1>5. ExtensionBytes(op.destination, DestinationSizeOf(op)) = y
  <2>1. op.kind = "movea" => op.destination.address # "immediate"
    BY <1>2 DEF SensibleOperands
  <2> QED
    BY <2>1 DEF DestinationSizeOf, ExtensionBytes
<1>6. next_word = Wrap(Wrap(Wrap(Start + 2) + x) + y)
  BY <1>1, <1>4, <1>5 DEF BehindBoth, BehindSource
<1>7. Start \in Int
  BY OperandAccessAssumption, BusNumbers DEF LongRange
<1> HIDE DEF x, y
<1>8. Wrap(Wrap(Start + 2) + x) = Wrap((Start + 2) + x)
  BY <1>3, <1>7, WrapSum
<1>9. Wrap(Wrap((Start + 2) + x) + y) = Wrap(((Start + 2) + x) + y)
  BY <1>3, <1>7, WrapSum
<1>10. ((Start + 2) + x) + y = Start + 2 + x + y
  BY <1>3, <1>7
<1> QED
  BY <1>3, <1>6, <1>8, <1>9, <1>10

LEMMA FaultsAfterMoving ==
  ASSUME AccessInv
  PROVE  FaultAfterMoving
<1> SUFFICES ASSUME stage = "fault", pushed = <<>>  PROVE FaultAfterMoving
  BY DEF FaultAfterMoving, First
<1>1. /\ AccessTypes /\ AccessedRight /\ memory = start.memory
      /\ registers = IF destination_place = Nowhere THEN SourceMoved ELSE BothMoved
  BY DEF AccessInv, AccessedRight
<1>2. "A" \in OperandRegisters
  BY DEF OperandRegisters, AddressRegisters
<1>3. SensibleOperands(instruction)
  BY <1>1, InstructionFacts DEF AccessedRight
<1>4. Movement(instruction.source, "A", SourceSizeOf(instruction)) =
        Movement(instruction.source, "A", instruction.size)
  <2>1. instruction.kind = "lea" => instruction.source.address \notin {"postincrement", "predecrement"}
    BY <1>3 DEF SensibleOperands
  <2> QED
    BY <2>1 DEF SourceSizeOf, Movement
<1> DEFINE once == Movement(instruction.source, "A", instruction.size)
           d == Movement(instruction.destination, "A", instruction.size)
           s == start.registers["A"]
<1>5. s \in Int /\ once \in Int /\ d \in Int
  <2>1. s \in Int
    BY <1>1, <1>2, BusNumbers DEF AccessTypes, Regs, LongRange
  <2>2. instruction.size \in {1, 2, 4}
    BY <1>1, InstructionFacts DEF AccessedRight
  <2>3. \A q : Step(q, instruction.size) \in Int
    BY <2>2 DEF Step
  <2>4. once \in Int /\ d \in Int
    BY <2>3 DEF Movement
  <2> QED
    BY <2>1, <2>4
<1>6. SourceMoved["A"] = Wrap(s + once) /\ BothMoved["A"] = Wrap(s + once + d)
  BY <1>1, <1>2, <1>4, MovedTwice
<1> HIDE DEF once, d, s
<1>7. (s + once) + d = s + (once + d)
  BY <1>5
<1>8. registers["A"] = Wrap(s + IF destination_place = Nowhere THEN once ELSE once + d)
  BY <1>1, <1>6, <1>7
<1> QED
  BY <1>1, <1>8 DEF FaultAfterMoving, First, once, d, s

LEMMA PopsWhatWasPushed ==
  ASSUME AccessInv
  PROVE  PopUndoesPush
BY DEF AccessInv, PoppedRight, PopUndoesPush, PushMoved

(* Who looks afterwards finds the place where the destination was decoded. *)
LEMMA PlaceAfterwards ==
  ASSUME AccessTypes, AccessedRight, PlaceRight, registers = BothMoved,
         instruction.destination.address \in {"indirect", "postincrement", "predecrement"},
         DestinationSizeOf(instruction) = instruction.size
  PROVE  Afterwards(instruction.destination, instruction.size) = destination_place.address
<1> DEFINE o == instruction.destination
           size == instruction.size
           reg == o.register
           s == SourceMoved[reg]
           t == Step(reg, size)
<1>1. /\ o \in Operands /\ size \in {1, 2, 4} /\ reg \in OperandRegisters
  BY InstructionFacts, OperandFacts DEF AccessedRight
<1>2. ~IsRegisterMode(o)
  BY DEF IsRegisterMode
<1>3. destination_place.address = Wrap(RegisterPlace(o, s, size))
  BY <1>2 DEF PlaceRight
<1>4. s \in LongRange /\ s \in Int /\ t \in Int
  <2>1. s \in LongRange
    BY <1>1, MovedRegisters DEF Regs
  <2>2. t \in Int
    BY <1>1 DEF Step
  <2> QED
    BY <2>1, <2>2, BusNumbers DEF LongRange
<1>5. registers[reg] = Wrap(s + Movement(o, reg, size))
  <2>1. SourceMoved \in Regs
    BY MovedRegisters
  <2>2. BothMoved = Moved(SourceMoved, o, size)
    BY DEF BothMoved
  <2>3. o \in Operands /\ size \in {0, 1, 2, 4} /\ reg \in OperandRegisters
    BY <1>1
  <2> HIDE DEF o, size, reg, s
  <2>4. \A r \in OperandRegisters :
          Moved(SourceMoved, o, size)[r] = Wrap(SourceMoved[r] + Movement(o, r, size))
    BY <2>1, <2>3, MovedIs
  <2>5. Moved(SourceMoved, o, size)[reg] = Wrap(SourceMoved[reg] + Movement(o, reg, size))
    BY <2>3, <2>4, Zenon
  <2> QED
    BY <2>2, <2>5 DEF s
<1>6. CASE o.address = "predecrement"
  <2>1. Movement(o, reg, size) = -t /\ RegisterPlace(o, s, size) = s - t
        /\ Afterwards(o, size) = registers[reg]
    BY <1>6 DEF Movement, RegisterPlace, Afterwards
  <2>2. s + (-t) = s - t
    BY <1>4
  <2> QED
    BY <1>3, <1>5, <2>1, <2>2
<1>7. CASE o.address = "indirect"
  <2>1. Movement(o, reg, size) = 0 /\ RegisterPlace(o, s, size) = s
        /\ Afterwards(o, size) = registers[reg]
    BY <1>7 DEF Movement, RegisterPlace, Afterwards
  <2>2. s + 0 = s
    BY <1>4
  <2> QED
    BY <1>3, <1>5, <2>1, <2>2
<1>8. CASE o.address = "postincrement"
  <2>1. /\ Movement(o, reg, size) = t /\ RegisterPlace(o, s, size) = s
        /\ Afterwards(o, size) = Wrap(registers[reg] - t)
    BY <1>8 DEF Movement, RegisterPlace, Afterwards
  <2>2. registers[reg] = Wrap(s + t)
    BY <1>5, <2>1
  <2> HIDE DEF s, t
  <2>3. Wrap(Wrap(s + t) + (-t)) = Wrap((s + t) + (-t))
    BY <1>4, WrapSum
  <2>4. (s + t) + (-t) = s /\ Wrap(s + t) - t = Wrap(s + t) + (-t)
    BY <1>4, WrapRange
  <2> QED
    BY <1>3, <2>1, <2>2, <2>3, <2>4
<1> QED
  BY <1>6, <1>7, <1>8

LEMMA WritesWhereRead ==
  ASSUME AccessInv
  PROVE  WrittenWhereRead
<1> DEFINE o == instruction.destination
           size == instruction.size
           at == Afterwards(o, size)
           old == ReadSized(start.memory, at, size)
           added == IF instruction.kind = "modify" THEN old ELSE 0
<1> SUFFICES ASSUME stage = "done", pushed = <<>>, instruction.kind \in {"move", "modify"},
                    o.address \in {"indirect", "postincrement", "predecrement"}
             PROVE  /\ ReadSized(memory, at, size) = Masked(source_value + added, size)
                    /\ \A b \in 0 .. 2 * MemoryWords - 1 : b \notin Bytes(at, size) =>
                         ReadByte(memory, b) = ReadByte(start.memory, b)
  BY DEF WrittenWhereRead, First
<1>1. AccessTypes /\ AccessedRight /\ PlaceRight /\ ValueRight /\ WrittenRight
  BY DEF AccessInv, AccessedRight
<1>2. /\ size \in {1, 2, 4} /\ DestinationSizeOf(instruction) = size /\ ~IsRegisterMode(o)
      /\ WritesDestination(instruction.kind)
      /\ ReadsDestination(instruction.kind) <=> instruction.kind = "modify"
  BY <1>1, InstructionFacts
     DEF AccessedRight, DestinationSizeOf, IsRegisterMode, WritesDestination, ReadsDestination
<1>3. destination_place.type = "memory" /\ destination_place.type # "register"
      /\ destination_place.address \in LongRange
  BY <1>1, <1>2 DEF PlaceRight
<1>4. /\ registers = BothMoved /\ ~Refused(destination_place, size)
      /\ memory = WrittenIn(start.memory, destination_place.address, size, Result)
  <2> HIDE DEF size
  <2> QED
    BY <1>1, <1>2, <1>3 DEF WrittenRight
<1>5. at = destination_place.address
  BY <1>1, <1>2, <1>4, PlaceAfterwards
<1>6. size \in {2, 4} => ~Odd(at)
  BY <1>3, <1>4, <1>5 DEF Refused
<1>7. source_value \in LongRange /\ destination_value \in LongRange
      /\ start.memory \in Memories
      /\ source_value \in Int /\ destination_value \in Int
  BY <1>1, BusNumbers DEF AccessTypes, LongRange
<1>8. Result \in LongRange
  BY <1>7, ResultRange
<1>9. at \in LongRange /\ memory = WrittenIn(start.memory, at, size, Result)
  BY <1>3, <1>4, <1>5
<1>10. /\ ReadSized(memory, at, size) = Masked(Result, size)
       /\ \A b \in 0 .. 2 * MemoryWords - 1 : b \notin Bytes(at, size) =>
            ReadByte(memory, b) = ReadByte(start.memory, b)
  <2> DEFINE v == Result
             m == start.memory
  <2>1. v \in LongRange /\ m \in Memories /\ memory = WrittenIn(m, at, size, v)
    BY <1>7, <1>8, <1>9
  <2> HIDE DEF at, size, v, m
  <2>2. LET n == WrittenIn(m, at, size, v)
        IN  /\ n \in Memories /\ ReadSized(n, at, size) = Masked(v, size)
            /\ \A b \in 0 .. 2 * MemoryWords - 1 :
                 b \notin Bytes(at, size) => ReadByte(n, b) = ReadByte(m, b)
    BY <1>2, <1>6, <1>9, <2>1, SizedWritten
  <2> QED
    BY <2>1, <2>2 DEF v, m
<1>11. Masked(Result, size) = Masked(source_value + added, size)
  <2>1. CASE instruction.kind = "modify"
    <3>1. destination_value = old
      <4> HIDE DEF at, size
      <4> QED
        BY <1>1, <1>2, <1>3, <1>5, <2>1 DEF ValueRight
    <3>2. Result = Wrap(destination_value + source_value) /\ added = destination_value
      BY <2>1, <3>1 DEF Result
    <3> DEFINE x == destination_value + source_value
    <3>3. x \in Int /\ source_value + destination_value = x
      BY <1>7
    <3> HIDE DEF x, size, added
    <3>4. Masked(Wrap(x), size) = Masked(x, size)
      BY <1>2, <3>3, MaskedRange
    <3> QED
      BY <3>2, <3>3, <3>4 DEF x
  <2>2. CASE instruction.kind # "modify"
    <3>1. Result = source_value /\ added = 0
      BY <2>2 DEF Result
    <3>2. source_value + 0 = source_value
      BY <1>7
    <3> QED
      BY <3>1, <3>2
  <2> QED
    BY <2>1, <2>2
<1> QED
  BY <1>10, <1>11

(* OperandsAccessed: an operand moves its register once and is written     *)
(* where it was read, its words follow one another, what was pushed is     *)
(* popped, and what is refused has moved its register already.             *)
THEOREM OperandsRight == AccessSpec => []OperandsAccessed
<1>1. AccessInv => OperandsAccessed
  BY MovesOnce, WritesWhereRead, EndsRight, FaultsAfterMoving, PopsWhatWasPushed
       DEF OperandsAccessed
<1> QED
  BY <1>1, AccessHolds, PTL

(***************************************************************************)
(* MOVEM and MOVEP.  Counting the registers of a list.                     *)
(***************************************************************************)

LEMMA RegistersAre ==
  /\ Group \in Nat /\ Group >= 1 /\ 4 * Group <= MemoryWords
  /\ Registers = 0 .. 2 * Group - 1 /\ IsFiniteSet(Registers)
  /\ \A S \in SUBSET Registers : IsFiniteSet(S) /\ Cardinality(S) \in Nat
<1>1. Group \in Nat /\ Group >= 1 /\ 4 * Group <= MemoryWords
  BY TransfersAssumption DEF GroupAssumption
<1>2. Registers = 0 .. 2 * Group - 1
  BY DEF Registers
<1>3. IsFiniteSet(0 .. 2 * Group - 1)
  BY <1>1, FS_Interval
<1> QED
  BY <1>1, <1>2, <1>3, FS_Subset, FS_CardinalityType

Count(S, n) == Cardinality({q \in S : q < n})

LEMMA CountNext ==
  ASSUME NEW S \in SUBSET Registers, NEW n \in Registers
  PROVE  /\ Count(S, n) \in Nat
         /\ Count(S, n + 1) = IF n \in S THEN Count(S, n) + 1 ELSE Count(S, n)
<1> DEFINE A == {q \in S : q < n}
           B == {q \in S : q < n + 1}
<1>1. n \in Int /\ \A q \in S : q \in Int
  BY RegistersAre
<1>2. A \in SUBSET Registers
  OBVIOUS
<1>3. IsFiniteSet(A) /\ Cardinality(A) \in Nat
  BY <1>2, RegistersAre
<1>4. n \notin A
  BY <1>1
<1>5. CASE n \in S
  <2>1. B = A \cup {n}
    <3>1. \A q \in S : (q < n + 1) <=> (q < n \/ q = n)
      BY <1>1
    <3> QED
      BY <1>5, <3>1
  <2> HIDE DEF A, B
  <2>2. Cardinality(A \cup {n}) = Cardinality(A) + 1
    BY <1>3, <1>4, FS_AddElement
  <2> QED
    BY <1>3, <1>5, <2>1, <2>2 DEF Count, A, B
<1>6. CASE n \notin S
  <2>1. B = A
    <3>1. \A q \in S : (q < n + 1) <=> q < n
      BY <1>1, <1>6
    <3> QED
      BY <3>1
  <2> QED
    BY <1>3, <1>6, <2>1 DEF Count
<1> QED
  BY <1>5, <1>6

LEMMA CountAll ==
  ASSUME NEW S \in SUBSET Registers
  PROVE  /\ Count(S, 0) = 0 /\ Count(S, 2 * Group) = Cardinality(S)
         /\ \A n \in Int : Count(S, n) \in Nat
<1>1. \A q \in S : q \in Int /\ q >= 0 /\ q < 2 * Group
  BY RegistersAre
<1>2. {q \in S : q < 0} = {} /\ {q \in S : q < 2 * Group} = S
  BY <1>1
<1>3. ASSUME NEW n \in Int  PROVE Count(S, n) \in Nat
  <2> DEFINE A == {q \in S : q < n}
  <2>1. A \in SUBSET Registers
    OBVIOUS
  <2> HIDE DEF A
  <2>2. Cardinality(A) \in Nat
    BY <2>1, RegistersAre
  <2> QED
    BY <2>2 DEF Count, A
<1>4. Count(S, 0) = 0
  BY <1>2, FS_EmptySet DEF Count
<1>5. Count(S, 2 * Group) = Cardinality(S)
  BY <1>2 DEF Count
<1> QED
  BY <1>3, <1>4, <1>5

(* The registers of a list are counted one by one. *)
LEMMA CountGrows ==
  ASSUME NEW S \in SUBSET Registers, NEW m \in S, NEW n \in 0 .. 2 * Group, m < n
  PROVE  Count(S, m) + 1 <= Count(S, n)
<1> DEFINE A == {q \in S : q < m + 1}
           B == {q \in S : q < n}
<1>1. m \in Int /\ n \in Int /\ m \in Registers /\ \A q \in S : q \in Int
  BY RegistersAre
<1>2. A \in SUBSET B /\ B \in SUBSET Registers
  <2>1. \A q \in S : q < m + 1 => q < n
    BY <1>1
  <2> QED
    BY <2>1
<1>3. IsFiniteSet(B)
  BY <1>2, RegistersAre
<1>4. Cardinality(A) <= Cardinality(B)
  <2> HIDE DEF A, B
  <2> QED
    BY <1>2, <1>3, FS_Subset
<1>5. Count(S, m + 1) = Count(S, m) + 1
  BY <1>1, CountNext
<1> QED
  BY <1>4, <1>5 DEF Count

LEMMA CountBelow ==
  ASSUME NEW S \in SUBSET Registers, NEW n \in 0 .. 2 * Group
  PROVE  Count(S, n) \in 0 .. n
<1> DEFINE A == {q \in S : q < n}
           B == 0 .. n - 1
<1>1. n \in Nat /\ A \in SUBSET B
  <2>1. n \in Nat /\ n \in Int
    BY RegistersAre
  <2>2. \A q \in S : q \in Int /\ 0 <= q
    BY RegistersAre
  <2>3. \A q \in S : q < n => q \in 0 .. n - 1
    BY <2>1, <2>2
  <2> QED
    BY <2>1, <2>3
<1>2. IsFiniteSet(B) /\ Cardinality(B) = n
  <2>1. 0 \in Int /\ n - 1 \in Int
    BY <1>1
  <2>2. IsFiniteSet(0 .. n - 1) /\ Cardinality(0 .. n - 1) = IF 0 > n - 1 THEN 0 ELSE (n - 1) - 0 + 1
    BY <2>1, FS_Interval
  <2> QED
    BY <1>1, <2>2
<1>3. Cardinality(A) <= Cardinality(B) /\ IsFiniteSet(A)
  <2> HIDE DEF A, B
  <2> QED
    BY <1>1, <1>2, FS_Subset
<1>4. Cardinality(A) \in Nat
  <2> HIDE DEF A
  <2> QED
    BY <1>3, FS_CardinalityType
<1> QED
  BY <1>1, <1>2, <1>3, <1>4 DEF Count

(***************************************************************************)
(* The mirror image of a list.                                             *)
(***************************************************************************)

Mirror(S) == {2 * Group - 1 - r : r \in S}

LEMMA MirrorIs ==
  ASSUME NEW S \in SUBSET Registers
  PROVE  /\ Mirror(S) \in SUBSET Registers
         /\ \A r \in Registers : /\ 2 * Group - 1 - r \in Registers
                                 /\ r \in Mirror(S) <=> 2 * Group - 1 - r \in S
                                 /\ MovedRegister(2 * Group - 1 - r, TRUE) = r
                                 /\ MovedRegister(r, TRUE) = 2 * Group - 1 - r
         /\ Mirror(Mirror(S)) = S /\ Cardinality(Mirror(S)) = Cardinality(S)
<1> DEFINE L == 2 * Group - 1
<1>1. Group \in Nat /\ Registers = 0 .. L /\ L \in Int
  BY RegistersAre
<1>2. \A r \in Registers : r \in Int /\ L - r \in Registers /\ L - (L - r) = r
  BY <1>1
<1>3. \A r \in Registers : MovedRegister(L - r, TRUE) = r /\ MovedRegister(r, TRUE) = L - r
  BY <1>1 DEF MovedRegister
<1> HIDE DEF L
<1>4. Mirror(S) = {L - r : r \in S}
  BY DEF Mirror, L
<1>5. Mirror(S) \in SUBSET Registers /\ \A r \in Registers : r \in Mirror(S) <=> L - r \in S
  <2>1. Mirror(S) \in SUBSET Registers
    BY <1>2, <1>4
  <2>2. ASSUME NEW r \in Registers  PROVE r \in Mirror(S) <=> L - r \in S
    <3>1. ASSUME r \in Mirror(S)  PROVE L - r \in S
      <4>1. PICK q \in S : r = L - q
        BY <1>4, <3>1
      <4>2. q \in Registers /\ L - r = q
        BY <1>2, <4>1
      <4> QED
        BY <4>2
    <3>2. ASSUME L - r \in S  PROVE r \in Mirror(S)
      BY <1>2, <1>4, <3>2
    <3> QED
      BY <3>1, <3>2
  <2> QED
    BY <2>1, <2>2
<1>6. Mirror(Mirror(S)) = S
  <2>1. Mirror(Mirror(S)) = {L - r : r \in Mirror(S)}
    BY DEF Mirror, L
  <2>2. ASSUME NEW q \in S  PROVE q \in Mirror(Mirror(S))
    <3>1. q \in Registers /\ L - q \in Mirror(S) /\ L - (L - q) = q
      BY <1>2, <1>4
    <3> QED
      BY <2>1, <3>1
  <2>3. ASSUME NEW q \in Mirror(Mirror(S))  PROVE q \in S
    <3>1. PICK r \in Mirror(S) : q = L - r
      BY <2>1
    <3> QED
      BY <1>5, <3>1
  <2> QED
    BY <2>2, <2>3
<1>7. Cardinality(Mirror(S)) = Cardinality(S)
  <2> DEFINE f == [r \in S |-> L - r]
  <2>1. f \in [S -> Mirror(S)]
    BY <1>4
  <2>2. \A x, y \in S : f[x] = f[y] => x = y
    <3> SUFFICES ASSUME NEW x \in S, NEW y \in S, f[x] = f[y]  PROVE x = y
      OBVIOUS
    <3>1. x \in Registers /\ y \in Registers /\ f[x] = L - x /\ f[y] = L - y
      OBVIOUS
    <3> HIDE DEF f
    <3>2. L - x = L - y /\ L - (L - x) = x /\ L - (L - y) = y
      BY <1>2, <3>1
    <3> QED
      BY <3>2
  <2>3. \A t \in Mirror(S) : \E x \in S : f[x] = t
    BY <1>4
  <2> HIDE DEF f
  <2>4. f \in Bijection(S, Mirror(S))
    BY <2>1, <2>2, <2>3 DEF Bijection, Injection, Surjection, IsInjective
  <2>5. ExistsBijection(S, Mirror(S))
    BY <2>4 DEF ExistsBijection
  <2> QED
    BY <2>5, RegistersAre, FS_Bijection
<1> QED
  BY <1>2, <1>3, <1>5, <1>6, <1>7 DEF L

(* Who is counted from below and who from above make up the list. *)
LEMMA MirrorCount ==
  ASSUME NEW S \in SUBSET Registers, NEW b \in S
  PROVE  Count(Mirror(S), 2 * Group - 1 - b) = Cardinality(S) - Count(S, b) - 1
<1> DEFINE L == 2 * Group - 1
           r == L - b
           A == {q \in S : q < b}
           B == {q \in S : q > b}
<1>1. L \in Int /\ Registers = 0 .. L /\ b \in Registers /\ b \in Int
      /\ \A q \in S : q \in Int /\ q \in Registers
  BY RegistersAre
<1>2. A \in SUBSET Registers /\ B \in SUBSET Registers
  OBVIOUS
<1>3. {q \in Mirror(S) : q < r} = Mirror(B)
  <2>1. Mirror(S) = {L - q : q \in S} /\ Mirror(B) = {L - q : q \in B}
    BY DEF Mirror
  <2>2. \A q \in S : (L - q < r) <=> (q > b)
    BY <1>1
  <2> HIDE DEF r, L
  <2> QED
    BY <2>1, <2>2
<1>4. Count(Mirror(S), r) = Cardinality(B)
  <2>1. Cardinality(Mirror(B)) = Cardinality(B)
    <3> HIDE DEF B
    <3> QED
      BY <1>2, MirrorIs
  <2> HIDE DEF r, B
  <2> QED
    BY <1>3, <2>1 DEF Count
<1>5. S = (A \cup {b}) \cup B /\ (A \cup {b}) \cap B = {} /\ b \notin A
  <2>1. \A q \in S : (q < b \/ q = b \/ q > b) /\ ~(q < b /\ q > b)
    BY <1>1
  <2>2. ~(b < b) /\ ~(b > b)
    BY <1>1
  <2> QED
    BY <2>1, <2>2
<1> HIDE DEF A, B
<1>6. IsFiniteSet(A) /\ IsFiniteSet(B) /\ Cardinality(A) \in Nat /\ Cardinality(B) \in Nat
  BY <1>2, RegistersAre
<1>7. IsFiniteSet(A \cup {b}) /\ Cardinality(A \cup {b}) = Cardinality(A) + 1
  BY <1>5, <1>6, FS_AddElement
<1> DEFINE C == A \cup {b}
<1> HIDE DEF C
<1>8. Cardinality(C \cup B) = Cardinality(C) + Cardinality(B) - Cardinality(C \cap B)
  BY <1>6, <1>7, FS_Union DEF C
<1>9. C \cap B = {} /\ S = C \cup B /\ Cardinality(C) = Cardinality(A) + 1
  BY <1>5, <1>7 DEF C
<1>10. Cardinality(S) = Cardinality(A) + 1 + Cardinality(B)
  <2>1. Cardinality(C \cap B) = 0
    BY <1>9, FS_EmptySet
  <2>2. Cardinality(S) = Cardinality(C \cup B)
    BY <1>9
  <2> QED
    BY <1>6, <1>8, <1>9, <2>1, <2>2
<1>11. Count(S, b) = Cardinality(A)
  BY DEF Count, A
<1> QED
  BY <1>4, <1>6, <1>10, <1>11 DEF r, L

(***************************************************************************)
(* The invariant.                                                          *)
(***************************************************************************)

TransferTypes ==
  /\ registers \in [Registers -> LongRange] /\ memory \in Memories
  /\ start.registers \in [Registers -> LongRange] /\ start.memory \in Memories
  /\ phase \in {"idle", "moving", "done", "fault"}
  /\ transfer \in Transfers /\ SensibleTransfer(transfer)
  /\ accesses \in Seq(Int) /\ i \in 0 .. 2 * Group

BaseBefore == start.registers[transfer.base]

Moves == Count(transfer.list, i)

(* Where the register of a bit goes, or comes from. *)
Spot(b) ==
  IF Predecrement /\ ~transfer.to_register
  THEN BaseBefore - Size * (Count(transfer.list, b) + 1)
  ELSE BaseBefore + address_delta * Count(transfer.list, b)

LoadedFrom(m, at) ==
  IF transfer.longword THEN ReadLongWord(m, at) ELSE SignExtendWord(ReadWord(m, at))

Holds(m, at, v) ==
  IF transfer.longword THEN ReadLongWord(m, at) = v ELSE ReadWord(m, at) = v % WordValues

TouchedWords == {WordIndex(accesses[k]) : k \in DOMAIN accesses}

(* The bus has seen the words of the registers that were moved. *)
AccessesRight ==
  /\ Len(accesses) = (Size \div 2) * Moves
  /\ ~(Predecrement /\ transfer.to_register) =>
       \A k \in 1 .. Len(accesses) :
         Wrap(accesses[k]) = Wrap(BaseBefore + IF Predecrement THEN -2 * k ELSE 2 * (k - 1))

(* They are where they belong, and nothing else is different. *)
StoredSoFar ==
  /\ \A b \in transfer.list :
       b < i => Holds(memory, Spot(b), start.registers[MovedRegister(b, Predecrement)])
  /\ \A w \in (0 .. MemoryWords - 1) \ TouchedWords : memory[w] = start.memory[w]

RegisterSoFar(r) ==
  registers[r] = IF transfer.to_register /\ r \in transfer.list /\ r < i
                 THEN LoadedFrom(start.memory, Spot(r)) ELSE start.registers[r]

MovedSoFar ==
  /\ address = Wrap(BaseBefore + address_delta * Moves)
  /\ Moves > 0 => ~Odd(BaseBefore)
  /\ phase = "fault" => Odd(BaseBefore)
  /\ phase = "done" => i = 2 * Group
  /\ AccessesRight
  /\ IF transfer.to_register THEN memory = start.memory ELSE StoredSoFar
  /\ \A r \in Registers : ~(phase = "done" /\ WrittenBack /\ r = transfer.base) => RegisterSoFar(r)
  /\ phase = "done" /\ WrittenBack => registers[transfer.base] = address

(* MOVEP, which is done at once. *)
PairOf(m, at) == ReadByte(m, Lane(at, 0)) * ByteValues + ReadByte(m, Lane(at, 1))

PairsHold(m, at, v) ==
  IF transfer.longword
  THEN PairOf(m, at) = v \div WordValues /\ PairOf(m, Lane(at, 2)) = v % WordValues
  ELSE PairOf(m, at) = v % WordValues

OwnBytes == {Wrap(Lane(BaseBefore, k)) % (2 * MemoryWords) : k \in 0 .. Size - 1}

PairsMoved ==
  \A r \in transfer.list :
    LET v == start.registers[r]
        m == start.memory
        at == BaseBefore
    IN  IF transfer.to_register
        THEN /\ memory = m
             /\ registers =
                  [start.registers EXCEPT ![r] =
                     IF transfer.longword THEN PairOf(m, at) * WordValues + PairOf(m, Lane(at, 2))
                                          ELSE (v \div WordValues) * WordValues + PairOf(m, at)]
        ELSE /\ registers = start.registers
             /\ PairsHold(memory, at, v)
             /\ \A b \in (0 .. 2 * MemoryWords - 1) \ OwnBytes : ReadByte(memory, b) = ReadByte(m, b)

(* What a restore finds: the registers that were saved. *)
SavedIn(regs, m) ==
  /\ transfer.to_register
  /\ undone.registers \in [Registers -> LongRange]
  /\ IF IsMOVEP
     THEN /\ regs[transfer.base] = undone.registers[transfer.base]
          /\ \A r \in transfer.list :
               PairsHold(m, regs[transfer.base], undone.registers[r]) /\ regs[r] = 0
     ELSE /\ transfer.mode = "postincrement"
          /\ regs[transfer.base] =
               Wrap(undone.registers[transfer.base] - Size * Cardinality(transfer.list))
          /\ \A r \in transfer.list :
               Holds(m, regs[transfer.base] + Size * Count(transfer.list, r), undone.registers[r])

(* What holds at each step of a transfer. *)
TransferInv ==
  /\ TransferTypes
  /\ phase = "idle" \/ IsMOVEP => accesses = <<>>
  /\ IsMOVEP => phase \in {"idle", "done"}
  /\ phase \in {"moving", "done", "fault"} /\ ~IsMOVEP => MovedSoFar
  /\ phase = "done" /\ IsMOVEP => PairsMoved
  /\ undone # Nothing =>
       IF phase = "idle" THEN SavedIn(registers, memory) ELSE SavedIn(start.registers, start.memory)

(***************************************************************************)
(* The numbers of a transfer.                                              *)
(***************************************************************************)

LEMMA TransferFacts ==
  ASSUME TransferTypes
  PROVE  /\ transfer.list \in SUBSET Registers /\ transfer.base \in Registers
         /\ transfer.longword \in BOOLEAN /\ transfer.to_register \in BOOLEAN
         /\ transfer.mode \in {"indirect", "postincrement", "predecrement", "movep"}
         /\ Size = (IF transfer.longword THEN 4 ELSE 2) /\ Size \in {2, 4}
         /\ address_delta = (IF Predecrement THEN -Size ELSE Size) /\ address_delta \in Int
         /\ BaseBefore \in LongRange /\ BaseBefore \in Int
         /\ i \in Int /\ Moves \in Nat /\ \A n \in Int : Count(transfer.list, n) \in Nat
         /\ Cardinality(transfer.list) \in Nat
         /\ \A b \in Registers : Spot(b) \in Int
<1>1. /\ transfer.list \in SUBSET Registers /\ transfer.base \in Registers
      /\ transfer.longword \in BOOLEAN /\ transfer.to_register \in BOOLEAN
      /\ transfer.mode \in {"indirect", "postincrement", "predecrement", "movep"}
  BY DEF TransferTypes, Transfers, Bases
<1>2. Size = (IF transfer.longword THEN 4 ELSE 2) /\ Size \in {2, 4}
  BY DEF Size
<1>3. address_delta = (IF Predecrement THEN -Size ELSE Size) /\ address_delta \in Int
  BY <1>2 DEF address_delta
<1>4. BaseBefore \in LongRange /\ BaseBefore \in Int
  BY <1>1, BusNumbers DEF TransferTypes, BaseBefore, LongRange
<1>5. i \in Int
  BY RegistersAre DEF TransferTypes
<1>6. \A n \in Int : Count(transfer.list, n) \in Nat
  BY <1>1, CountAll
<1>7. Moves \in Nat
  BY <1>5, <1>6 DEF Moves
<1>8. ASSUME NEW b \in Registers  PROVE Spot(b) \in Int
  <2> DEFINE c == Count(transfer.list, b)
             n == Size
             d == address_delta
             s == BaseBefore
  <2>1. c \in Int /\ n \in Int /\ d \in Int /\ s \in Int
    BY <1>2, <1>3, <1>4, <1>6, RegistersAre
  <2>2. Spot(b) = IF Predecrement /\ ~transfer.to_register THEN s - n * (c + 1) ELSE s + d * c
    BY DEF Spot
  <2> HIDE DEF c, n, d, s
  <2> QED
    BY <2>1, <2>2
<1> QED
  BY <1>1, <1>2, <1>3, <1>4, <1>5, <1>6, <1>7, <1>8, RegistersAre

LEMMA SameTransfer ==
  ASSUME UNCHANGED <<transfer, start>>
  PROVE  /\ Size' = Size /\ address_delta' = address_delta /\ BaseBefore' = BaseBefore
         /\ Predecrement' = Predecrement /\ IsMOVEP' = IsMOVEP /\ WrittenBack' = WrittenBack
         /\ \A b : Spot(b)' = Spot(b)
         /\ \A r : LoadedFrom(start.memory, Spot(r))' = LoadedFrom(start.memory, Spot(r))
<1>1. /\ Size' = Size /\ BaseBefore' = BaseBefore
      /\ Predecrement' = Predecrement /\ IsMOVEP' = IsMOVEP /\ WrittenBack' = WrittenBack
  BY DEF Size, BaseBefore, Predecrement, IsMOVEP, WrittenBack
<1>2. address_delta' = address_delta
  BY <1>1 DEF address_delta
<1>3. \A b : Spot(b)' = Spot(b)
  BY <1>1, <1>2 DEF Spot
<1>4. \A r : LoadedFrom(start.memory, Spot(r))' = LoadedFrom(start.memory, Spot(r))
  BY <1>3 DEF LoadedFrom
<1> QED
  BY <1>1, <1>2, <1>3, <1>4

(* A spot is an even number of bytes from where the base was. *)
LEMMA SpotIs ==
  ASSUME TransferTypes, NEW b \in Registers
  PROVE  \E k \in Int : /\ Spot(b) = BaseBefore + 2 * k
                        /\ Odd(Spot(b)) <=> Odd(BaseBefore)
<1> DEFINE c == Count(transfer.list, b)
           s == BaseBefore
           x == Spot(b)
<1>1. /\ c \in Nat /\ s \in Int /\ Size \in {2, 4}
      /\ address_delta = IF Predecrement THEN -Size ELSE Size
  <2>1. b \in Int
    BY RegistersAre
  <2>2. c \in Nat
    BY <2>1, TransferFacts
  <2> QED
    BY <2>2, TransferFacts
<1>2. x = IF Predecrement /\ ~transfer.to_register THEN s - Size * (c + 1) ELSE s + address_delta * c
  BY DEF Spot
<1> HIDE DEF c, s, x
<1>3. \E k \in Int : x = s + 2 * k
  <2>1. CASE Predecrement /\ ~transfer.to_register
    <3>1. CASE Size = 2
      <4>1. x = s + 2 * (-(c + 1)) /\ -(c + 1) \in Int
        BY <1>1, <1>2, <2>1, <3>1
      <4> QED
        BY <4>1
    <3>2. CASE Size = 4
      <4>1. x = s + 2 * (-2 * (c + 1)) /\ -2 * (c + 1) \in Int
        BY <1>1, <1>2, <2>1, <3>2
      <4> QED
        BY <4>1
    <3> QED
      BY <1>1, <3>1, <3>2
  <2>2. CASE ~(Predecrement /\ ~transfer.to_register)
    <3>1. x = s + address_delta * c
      BY <1>2, <2>2
    <3>2. address_delta \in {2, -2, 4, -4}
      BY <1>1
    <3>3. CASE address_delta = 2
      BY <1>1, <3>1, <3>3
    <3>4. CASE address_delta = -2
      <4>1. x = s + 2 * (-c) /\ -c \in Int
        BY <1>1, <3>1, <3>4
      <4> QED
        BY <4>1
    <3>5. CASE address_delta = 4
      <4>1. x = s + 2 * (2 * c) /\ 2 * c \in Int
        BY <1>1, <3>1, <3>5
      <4> QED
        BY <4>1
    <3>6. CASE address_delta = -4
      <4>1. x = s + 2 * (-2 * c) /\ -2 * c \in Int
        BY <1>1, <3>1, <3>6
      <4> QED
        BY <4>1
    <3> QED
      BY <3>2, <3>3, <3>4, <3>5, <3>6
  <2> QED
    BY <2>1, <2>2
<1>4. PICK k \in Int : x = s + 2 * k
  BY <1>3
<1>5. (2 * k + s) % 2 = s % 2
  BY <1>1, HalfOf
<1>6. Odd(x) <=> Odd(s)
  <2>1. x = 2 * k + s
    BY <1>1, <1>4
  <2> QED
    BY <1>5, <2>1 DEF Odd
<1> QED
  BY <1>4, <1>6 DEF x, s

(* Two even addresses less than the bus apart are in words of their own. *)
LEMMA EvenWordsApart ==
  ASSUME NEW x \in Int, NEW y \in Int, ~Odd(x), ~Odd(y), x # y,
         x - y < 2 * MemoryWords, y - x < 2 * MemoryWords
  PROVE  WordIndex(x) # WordIndex(y)
<1>1. x = 2 * (x \div 2) /\ y = 2 * (y \div 2) /\ x \div 2 \in Int /\ y \div 2 \in Int
  <2>1. x % 2 = 0 /\ y % 2 = 0
    BY HalfOf DEF Odd
  <2> QED
    BY <2>1, HalfOf
<1>2. (x \div 2) - (y \div 2) < MemoryWords /\ (y \div 2) - (x \div 2) < MemoryWords
  BY <1>1, BusNumbers
<1> QED
  BY <1>1, <1>2, IndicesApart

(* Registers have memory of their own. *)
LEMMA SpotsApart ==
  ASSUME TransferTypes, ~Odd(BaseBefore), NEW b \in transfer.list, NEW c \in transfer.list,
         b < c,
         ~(Predecrement /\ transfer.to_register),
         NEW d \in {0, 2}, NEW e \in {0, 2}, transfer.longword \/ (d = 0 /\ e = 0)
  PROVE  WordIndex(Spot(b) + d) # WordIndex(Spot(c) + e)
<1> DEFINE x == Spot(b)
           y == Spot(c)
           p == Count(transfer.list, b)
           q == Count(transfer.list, c)
           s == BaseBefore
<1>1. /\ b \in Registers /\ c \in Registers /\ transfer.list \in SUBSET Registers
      /\ Size \in {2, 4} /\ (Size = 2 => d = 0 /\ e = 0) /\ s \in Int /\ p \in Nat
         /\ q \in Nat
      /\ x \in Int /\ y \in Int /\ address_delta = IF Predecrement THEN -Size ELSE Size
  <2>1. transfer.list \in SUBSET Registers /\ s \in Int
    BY TransferFacts
  <2>2. b \in Registers /\ c \in Registers /\ b \in Int /\ c \in Int
    BY <2>1, RegistersAre
  <2>3. p \in Nat /\ q \in Nat /\ x \in Int /\ y \in Int
    BY <2>2, TransferFacts
  <2>4. Size \in {2, 4} /\ (Size = 2 => ~transfer.longword)
    BY TransferFacts
  <2>5. address_delta = IF Predecrement THEN -Size ELSE Size
    BY TransferFacts
  <2> HIDE DEF p, q, x, y, s
  <2> QED
    BY <2>1, <2>2, <2>3, <2>4, <2>5
<1>2. p + 1 <= q /\ q <= 2 * Group - 1 /\ Group \in Nat /\ 4 * Group <= MemoryWords
  <2>1. c \in 0 .. 2 * Group /\ c <= 2 * Group - 1 /\ c \in Int
    BY <1>1, RegistersAre
  <2>2. p + 1 <= q
    BY <1>1, <2>1, CountGrows
  <2>3. q \in 0 .. c
    BY <1>1, <2>1, CountBelow
  <2> QED
    BY <2>1, <2>2, <2>3, RegistersAre
<1>3. ~Odd(x) /\ ~Odd(y)
  BY <1>1, SpotIs
<1>4. /\ Predecrement => x = s - Size * (p + 1) /\ y = s - Size * (q + 1)
      /\ ~Predecrement => x = s + Size * p /\ y = s + Size * q
  BY <1>1 DEF Spot
<1> HIDE DEF x, y, p, q, s
<1>5. Odd(x + d) <=> Odd(x)
  <2>1. (x + 2) % 2 = x % 2 /\ x + 0 = x
    BY <1>1, HalfOf
  <2> QED
    BY <2>1 DEF Odd
<1>6. Odd(y + e) <=> Odd(y)
  <2>1. (y + 2) % 2 = y % 2 /\ y + 0 = y
    BY <1>1, HalfOf
  <2> QED
    BY <2>1 DEF Odd
<1>7. /\ x + d # y + e /\ x + d \in Int /\ y + e \in Int
      /\ (x + d) - (y + e) < 2 * MemoryWords /\ (y + e) - (x + d) < 2 * MemoryWords
  <2>1. MemoryWords \in Nat
    BY BusNumbers
  <2>2. CASE Predecrement /\ Size = 2
    BY <1>1, <1>2, <1>4, <2>1, <2>2
  <2>3. CASE Predecrement /\ Size = 4
    BY <1>1, <1>2, <1>4, <2>1, <2>3
  <2>4. CASE ~Predecrement /\ Size = 2
    BY <1>1, <1>2, <1>4, <2>1, <2>4
  <2>5. CASE ~Predecrement /\ Size = 4
    BY <1>1, <1>2, <1>4, <2>1, <2>5
  <2> QED
    BY <1>1, <2>2, <2>3, <2>4, <2>5
<1>8. WordIndex(x + d) # WordIndex(y + e)
  <2> DEFINE u == x + d
             v == y + e
  <2>1. u \in Int /\ v \in Int /\ ~Odd(u) /\ ~Odd(v) /\ u # v /\ u - v < 2 * MemoryWords
        /\ v - u < 2 * MemoryWords
    BY <1>3, <1>5, <1>6, <1>7
  <2> HIDE DEF u, v
  <2>2. WordIndex(u) # WordIndex(v)
    BY <2>1, EvenWordsApart
  <2> QED
    BY <2>2 DEF u, v
<1> QED
  BY <1>8 DEF x, y

(***************************************************************************)
(* What memory holds.                                                      *)
(***************************************************************************)

LEMMA HoldsWrapped ==
  ASSUME NEW m \in Memories, NEW at \in Int, NEW v
  PROVE  /\ Holds(m, Wrap(at), v) <=> Holds(m, at, v)
         /\ LoadedFrom(m, Wrap(at)) = LoadedFrom(m, at)
BY ReadsWrap DEF Holds, LoadedFrom

LEMMA HoldsSameWords ==
  ASSUME NEW m, NEW n, NEW at \in Int, NEW v,
         n[WordIndex(at)] = m[WordIndex(at)],
         transfer.longword => n[WordIndex(at + 2)] = m[WordIndex(at + 2)]
  PROVE  Holds(n, at, v) <=> Holds(m, at, v)
BY DEF Holds, ReadLongWord, ReadWord

LEMMA LoadedRange ==
  ASSUME NEW m \in Memories, NEW at \in Int
  PROVE  LoadedFrom(m, at) \in LongRange
<1>1. ReadLongWord(m, at) \in LongRange /\ ReadWord(m, at) \in WordRange
  BY LongRead, WordRead
<1>2. SignExtendWord(ReadWord(m, at)) \in LongRange
  <2> DEFINE w == ReadWord(m, at)
  <2>1. w \in WordRange
    BY <1>1
  <2> HIDE DEF w
  <2>2. SignExtendWord(w) \in LongRange
    BY <2>1, BusNumbers DEF SignExtendWord, WordRange, LongRange
  <2> QED
    BY <2>2 DEF w
<1> QED
  BY <1>1, <1>2 DEF LoadedFrom

LEMMA StoredIs ==
  ASSUME memory \in Memories, transfer.longword \in BOOLEAN, NEW at \in Int,
         NEW v \in LongRange
  PROVE  /\ Stored(at, v) \in Memories /\ Holds(Stored(at, v), at, v)
         /\ \A w \in 0 .. MemoryWords - 1 :
              w # WordIndex(at) /\ (transfer.longword => w # WordIndex(at + 2)) =>
                Stored(at, v)[w] = memory[w]
<1> DEFINE n == Stored(at, v)
<1>1. v \in Int
  BY BusNumbers DEF LongRange
<1>2. CASE transfer.longword
  <2>1. n = WriteLongWord(memory, at, v)
    BY <1>2 DEF Stored
  <2> HIDE DEF n
  <2>2. n \in Memories /\ \A w \in 0 .. MemoryWords - 1 : w # WordIndex(at) /\ w # WordIndex(at + 2) => n[w] = memory[w]
    BY <2>1, LongWritten
  <2>3. ReadLongWord(n, at) = v
    BY <2>1, LongReadBack
  <2> QED
    BY <1>2, <2>2, <2>3 DEF Holds, n
<1>3. CASE ~transfer.longword
  <2>1. n = WriteWord(memory, at, v)
    BY <1>3 DEF Stored
  <2> HIDE DEF n
  <2>2. n \in Memories /\ n = [memory EXCEPT ![WordIndex(at)] = v % WordValues]
    BY <1>1, <2>1, WordWritten
  <2>3. WordIndex(at) \in 0 .. MemoryWords - 1
    BY IndexRange
  <2>4. n[WordIndex(at)] = v % WordValues
        /\ \A w \in 0 .. MemoryWords - 1 : w # WordIndex(at) => n[w] = memory[w]
    BY <2>2, <2>3 DEF Memories
  <2> QED
    BY <1>3, <2>2, <2>4 DEF Holds, ReadWord, n
<1> QED
  BY <1>2, <1>3

(***************************************************************************)
(* The invariant holds at first, and MOVEM keeps it.                       *)
(***************************************************************************)

LEMMA TransferBegins == TransferInit => TransferInv
<1> SUFFICES ASSUME TransferInit PROVE TransferInv
  OBVIOUS
<1>1. PICK base \in Bases, a \in Addresses :
        /\ registers = [InitialRegisters EXCEPT ![base] = a]
        /\ transfer \in {t \in Transfers : t.base = base /\ SensibleTransfer(t)}
  BY DEF TransferInit
<1>2. registers \in [Registers -> LongRange]
  BY <1>1, TransfersAssumption DEF Bases
<1>3. /\ transfer \in Transfers /\ SensibleTransfer(transfer)
      /\ memory \in Memories /\ phase = "idle" /\ i = 0 /\ accesses = <<>>
         /\ undone = Nothing
      /\ start = [registers |-> registers, memory |-> memory]
  BY <1>1, TransfersAssumption DEF TransferInit
<1>4. i \in 0 .. 2 * Group
  BY <1>3, RegistersAre
<1> QED
  BY <1>2, <1>3, <1>4 DEF TransferInv, TransferTypes

LEMMA SavedKept ==
  ASSUME UNCHANGED <<transfer, start, undone>>, SavedIn(start.registers, start.memory)
  PROVE  SavedIn(start.registers, start.memory)'
BY DEF SavedIn, IsMOVEP, PairsHold, PairOf, Holds, Size

LEMMA SavedAtStart ==
  ASSUME UNCHANGED <<transfer, undone>>, SavedIn(registers, memory),
         start' = [registers |-> registers, memory |-> memory]
  PROVE  SavedIn(start.registers, start.memory)'
<1>1. start'.registers = registers /\ start'.memory = memory
  OBVIOUS
<1> QED
  BY <1>1 DEF SavedIn, IsMOVEP, PairsHold, PairOf, Holds, Size

LEMMA BeginStep ==
  ASSUME TransferInv, Begin
  PROVE  TransferInv'
<1>1. /\ phase = "idle" /\ ~IsMOVEP /\ phase' = "moving" /\ i' = 0 /\ accesses' = <<>>
      /\ address' = registers[transfer.base]
      /\ start' = [registers |-> registers, memory |-> memory]
      /\ registers' = registers /\ memory' = memory /\ transfer' = transfer
         /\ undone' = undone
  BY DEF Begin
<1>2. TransferTypes /\ (undone # Nothing => SavedIn(registers, memory))
  BY <1>1 DEF TransferInv
<1>3. start'.registers = registers /\ start'.memory = memory
  BY <1>1
<1>4. i' \in 0 .. 2 * Group
  BY <1>1, RegistersAre
<1>5. TransferTypes'
  BY <1>1, <1>2, <1>3, <1>4 DEF TransferTypes
<1>6. Moves' = 0
  BY <1>1, <1>2, CountAll, TransferFacts DEF Moves
<1>7. BaseBefore' = registers[transfer.base] /\ IsMOVEP' = IsMOVEP
  BY <1>1, <1>3 DEF BaseBefore, IsMOVEP
<1>8. registers[transfer.base] \in LongRange /\ registers[transfer.base] \in Int
      /\ address_delta' \in Int
      /\ Size' \in {2, 4}
  <2>1. registers[transfer.base] \in LongRange
    BY <1>2, TransferFacts DEF TransferTypes
  <2> QED
    BY <2>1, <1>5, BusNumbers DEF LongRange, Size, address_delta
<1>9. address' = Wrap(BaseBefore' + address_delta' * Moves')
  <2>1. BaseBefore' + address_delta' * Moves' = registers[transfer.base]
    BY <1>6, <1>7, <1>8
  <2> QED
    BY <1>1, <1>8, <2>1, WrapSmall
<1>10. AccessesRight'
  <2>1. Len(accesses') = 0
    BY <1>1
  <2>2. Size' \div 2 \in Int
    BY <1>8
  <2>3. (Size' \div 2) * Moves' = 0
    BY <1>6, <2>2
  <2> QED
    BY <2>1, <2>3 DEF AccessesRight
<1>11. \A b \in transfer.list : ~(b < i') /\ b \in Int
  <2>1. transfer.list \in SUBSET Registers
    BY <1>2, TransferFacts
  <2>2. \A b \in Registers : ~(b < 0) /\ b \in Int
    BY RegistersAre
  <2> QED
    BY <1>1, <2>1, <2>2
<1>12. IF transfer'.to_register THEN memory' = start'.memory ELSE StoredSoFar'
  BY <1>1, <1>3, <1>11 DEF StoredSoFar
<1>13. \A r \in Registers : RegisterSoFar(r)'
  BY <1>1, <1>3, <1>11 DEF RegisterSoFar
<1>14. MovedSoFar'
  BY <1>1, <1>6, <1>9, <1>10, <1>12, <1>13 DEF MovedSoFar
<1>15. (undone # Nothing)' => SavedIn(start.registers, start.memory)'
  BY <1>1, <1>2, SavedAtStart
<1> QED
  BY <1>1, <1>5, <1>7, <1>14, <1>15 DEF TransferInv

LEMMA SkipStep ==
  ASSUME TransferInv, Skip
  PROVE  TransferInv'
<1>1. /\ phase = "moving" /\ i \in Registers /\ i \notin transfer.list /\ i' = i + 1
      /\ registers' = registers /\ memory' = memory /\ phase' = phase
         /\ transfer' = transfer
      /\ address' = address /\ accesses' = accesses /\ start' = start /\ undone' = undone
  BY DEF Skip, Moving
<1>2. /\ TransferTypes /\ ~IsMOVEP /\ MovedSoFar
      /\ (undone # Nothing => SavedIn(start.registers, start.memory))
  BY <1>1 DEF TransferInv
<1>3. i' \in 0 .. 2 * Group
  BY <1>1, RegistersAre
<1>4. TransferTypes'
  BY <1>1, <1>2, <1>3 DEF TransferTypes
<1>5. Moves' = Moves
  BY <1>1, <1>2, TransferFacts, CountNext DEF Moves
<1>6. \A b \in transfer.list : b < i' <=> b < i
  <2>1. \A b \in transfer.list : b \in Int /\ b # i
    <3>1. transfer.list \in SUBSET Registers
      BY <1>2, TransferFacts
    <3>2. \A b \in Registers : b \in Int
      BY RegistersAre
    <3> QED
      BY <1>1, <3>1, <3>2
  <2>2. i \in Int
    BY <1>2, TransferFacts
  <2> QED
    BY <1>1, <2>1, <2>2
<1>7. /\ Size' = Size /\ address_delta' = address_delta /\ BaseBefore' = BaseBefore
      /\ Predecrement' = Predecrement /\ IsMOVEP' = IsMOVEP /\ WrittenBack' = WrittenBack
      /\ \A b : Spot(b)' = Spot(b)
      /\ \A r : LoadedFrom(start.memory, Spot(r))' = LoadedFrom(start.memory, Spot(r))
  BY <1>1, SameTransfer
<1>8. AccessesRight'
  BY <1>1, <1>2, <1>5, <1>7 DEF MovedSoFar, AccessesRight
<1>9. IF transfer'.to_register THEN memory' = start'.memory ELSE StoredSoFar'
  BY <1>1, <1>2, <1>6, <1>7 DEF MovedSoFar, StoredSoFar, TouchedWords, Holds
<1>10. \A r \in Registers : RegisterSoFar(r)'
  BY <1>1, <1>2, <1>6, <1>7 DEF MovedSoFar, RegisterSoFar
<1>11. MovedSoFar'
  BY <1>1, <1>2, <1>5, <1>7, <1>8, <1>9, <1>10 DEF MovedSoFar
<1>12. (undone # Nothing)' => SavedIn(start.registers, start.memory)'
  BY <1>1, <1>2, SavedKept
<1> QED
  BY <1>1, <1>2, <1>4, <1>7, <1>11, <1>12 DEF TransferInv

(* The address that a register moves to or from. *)
LEMMA PlaceIs ==
  ASSUME TransferTypes, MovedSoFar, i \in Registers
  PROVE  /\ Place \in Int /\ Wrap(Place) = Wrap(Spot(i)) /\ (Odd(Place) <=> Odd(BaseBefore))
         /\ Wrap(Place + 2) = Wrap(Spot(i) + 2)
         /\ WordIndex(Place) = WordIndex(Spot(i))
            /\ WordIndex(Place + 2) = WordIndex(Spot(i) + 2)
<1> DEFINE s == BaseBefore
           n == Moves
           d == address_delta
           x == Spot(i)
           p == Place
<1>1. /\ s \in Int /\ n \in Nat /\ d \in Int /\ x \in Int /\ Size \in {2, 4}
      /\ d = IF Predecrement THEN -Size ELSE Size
  BY TransferFacts
<1>2. address = Wrap(s + d * n)
  BY DEF MovedSoFar
<1>3. x = IF Predecrement /\ ~transfer.to_register THEN s - Size * (n + 1) ELSE s + d * n
  BY DEF Spot, Moves
<1>4. p = IF Predecrement /\ ~transfer.to_register THEN address + d ELSE address
  BY DEF Place
<1> HIDE DEF s, n, d, x, p
<1>5. s + d * n \in Int
  BY <1>1
<1>6. p \in Int
  <2>1. address \in Int
    BY <1>2, <1>5, WrapRange
  <2> QED
    BY <1>1, <1>4, <2>1
<1>7. Wrap(p) = Wrap(x)
  <2>1. CASE Predecrement /\ ~transfer.to_register
    <3> DEFINE y == s + d * n
    <3>1. p = Wrap(y) + d /\ y \in Int
      BY <1>2, <1>4, <1>5, <2>1
    <3>2. y + d = x
      <4>1. CASE Size = 2
        BY <1>1, <1>3, <2>1, <4>1
      <4>2. CASE Size = 4
        BY <1>1, <1>3, <2>1, <4>2
      <4> QED
        BY <1>1, <4>1, <4>2
    <3> HIDE DEF y
    <3>3. Wrap(Wrap(y) + d) = Wrap(y + d)
      BY <1>1, <3>1, WrapSum
    <3> QED
      BY <3>1, <3>2, <3>3
  <2>2. CASE ~(Predecrement /\ ~transfer.to_register)
    <3>1. p = Wrap(x)
      BY <1>2, <1>3, <1>4, <2>2
    <3>2. Wrap(x) \in LongRange
      BY <1>1, WrapRange
    <3> QED
      BY <3>1, <3>2, WrapSmall
  <2> QED
    BY <2>1, <2>2
<1>8. Wrap(p + 2) = Wrap(x + 2)
  <2>1. Wrap(Wrap(p) + 2) = Wrap(p + 2)
    BY <1>6, WrapSum
  <2>2. Wrap(Wrap(x) + 2) = Wrap(x + 2)
    BY <1>1, WrapSum
  <2> QED
    BY <1>7, <2>1, <2>2
<1>9. Odd(p) <=> Odd(x)
  BY <1>1, <1>6, <1>7, IndexOfWrapped
<1>10. Odd(x) <=> Odd(s)
  BY SpotIs DEF x, s
<1>11. WordIndex(p) = WordIndex(x)
  BY <1>1, <1>6, <1>7, IndexOfWrapped
<1>12. WordIndex(p + 2) = WordIndex(x + 2)
  <2>1. p + 2 \in Int /\ x + 2 \in Int
    BY <1>1, <1>6
  <2> QED
    BY <1>8, <2>1, IndexOfWrapped
<1> QED
  BY <1>6, <1>7, <1>8, <1>9, <1>10, <1>11, <1>12 DEF p, x, s

LEMMA FaultStep ==
  ASSUME TransferInv, Fault
  PROVE  TransferInv'
<1>1. /\ phase = "moving" /\ i \in Registers /\ Odd(Place) /\ phase' = "fault"
      /\ registers' = registers /\ memory' = memory /\ transfer' = transfer /\ i' = i
      /\ address' = address /\ accesses' = accesses /\ start' = start /\ undone' = undone
  BY DEF Fault, Moving
<1>2. /\ TransferTypes /\ ~IsMOVEP /\ MovedSoFar
      /\ (undone # Nothing => SavedIn(start.registers, start.memory))
  BY <1>1 DEF TransferInv
<1>3. TransferTypes'
  BY <1>1, <1>2 DEF TransferTypes
<1>4. Moves' = Moves /\ Odd(BaseBefore)
  BY <1>1, <1>2, PlaceIs DEF Moves
<1>5. /\ Size' = Size /\ address_delta' = address_delta /\ BaseBefore' = BaseBefore
      /\ Predecrement' = Predecrement /\ IsMOVEP' = IsMOVEP /\ WrittenBack' = WrittenBack
      /\ \A b : Spot(b)' = Spot(b)
      /\ \A r : LoadedFrom(start.memory, Spot(r))' = LoadedFrom(start.memory, Spot(r))
  BY <1>1, SameTransfer
<1>6. AccessesRight'
  BY <1>1, <1>2, <1>4, <1>5 DEF MovedSoFar, AccessesRight
<1>7. IF transfer'.to_register THEN memory' = start'.memory ELSE StoredSoFar'
  BY <1>1, <1>2, <1>5 DEF MovedSoFar, StoredSoFar, TouchedWords, Holds
<1>8. \A r \in Registers : RegisterSoFar(r)'
  BY <1>1, <1>2, <1>5 DEF MovedSoFar, RegisterSoFar
<1>9. MovedSoFar'
  BY <1>1, <1>2, <1>4, <1>5, <1>6, <1>7, <1>8 DEF MovedSoFar
<1>10. (undone # Nothing)' => SavedIn(start.registers, start.memory)'
  BY <1>1, <1>2, SavedKept
<1> QED
  BY <1>1, <1>2, <1>3, <1>5, <1>9, <1>10 DEF TransferInv

LEMMA EndStep ==
  ASSUME TransferInv, End
  PROVE  TransferInv'
<1>1. /\ phase = "moving" /\ i \notin Registers /\ phase' = "done"
      /\ registers' = IF WrittenBack THEN [registers EXCEPT ![transfer.base] = address] ELSE registers
      /\ memory' = memory /\ transfer' = transfer /\ i' = i
      /\ address' = address /\ accesses' = accesses /\ start' = start /\ undone' = undone
  BY DEF End
<1>2. /\ TransferTypes /\ ~IsMOVEP /\ MovedSoFar
      /\ (undone # Nothing => SavedIn(start.registers, start.memory))
  BY <1>1 DEF TransferInv
<1>3. i = 2 * Group
  BY <1>1, <1>2, RegistersAre DEF TransferTypes
<1>4. transfer.base \in Registers /\ registers \in [Registers -> LongRange]
  BY <1>2, TransferFacts DEF TransferTypes
<1>5. address \in LongRange
  <2> DEFINE x == address_delta * Moves
             s == BaseBefore
  <2>1. x \in Int /\ s \in Int
    BY <1>2, TransferFacts
  <2>2. address = Wrap(s + x)
    BY <1>2 DEF MovedSoFar
  <2> HIDE DEF x, s
  <2> QED
    BY <2>1, <2>2, WrapRange
<1>6. /\ registers' \in [Registers -> LongRange]
      /\ WrittenBack => registers'[transfer.base] = address
      /\ \A r \in Registers : ~(WrittenBack /\ r = transfer.base) => registers'[r] = registers[r]
  BY <1>1, <1>4, <1>5
<1>7. TransferTypes'
  BY <1>1, <1>2, <1>6 DEF TransferTypes
<1>8. Moves' = Moves
  BY <1>1 DEF Moves
<1>9. /\ Size' = Size /\ address_delta' = address_delta /\ BaseBefore' = BaseBefore
      /\ Predecrement' = Predecrement /\ IsMOVEP' = IsMOVEP /\ WrittenBack' = WrittenBack
      /\ \A b : Spot(b)' = Spot(b)
      /\ \A r : LoadedFrom(start.memory, Spot(r))' = LoadedFrom(start.memory, Spot(r))
  BY <1>1, SameTransfer
<1>10. AccessesRight'
  BY <1>1, <1>2, <1>8, <1>9 DEF MovedSoFar, AccessesRight
<1>11. IF transfer'.to_register THEN memory' = start'.memory ELSE StoredSoFar'
  BY <1>1, <1>2, <1>9 DEF MovedSoFar, StoredSoFar, TouchedWords, Holds
<1>12. \A r \in Registers : ~(WrittenBack /\ r = transfer.base) => RegisterSoFar(r)'
  BY <1>1, <1>2, <1>6, <1>9 DEF MovedSoFar, RegisterSoFar
<1>13. MovedSoFar'
  BY <1>1, <1>2, <1>3, <1>6, <1>8, <1>9, <1>10, <1>11, <1>12 DEF MovedSoFar
<1>14. (undone # Nothing)' => SavedIn(start.registers, start.memory)'
  BY <1>1, <1>2, SavedKept
<1> QED
  BY <1>1, <1>2, <1>7, <1>9, <1>13, <1>14 DEF TransferInv

(* The words that the bus sees of one register. *)
LEMMA WordsSeen ==
  ASSUME TransferTypes, NEW at \in Int
  PROVE  LET w == Words(at)
         IN  /\ w \in Seq(Int) /\ Len(w) = Size \div 2 /\ Len(w) \in Nat
             /\ Size = 2 => Len(w) = 1 /\ w[1] = at
             /\ Size = 4 => /\ Len(w) = 2
                            /\ Predecrement /\ ~transfer.to_register => w[1] = at + 2
                               /\ w[2] = at
                            /\ ~Predecrement => w[1] = at /\ w[2] = at + 2
             /\ \E k \in DOMAIN w : w[k] = at
             /\ transfer.longword => \E k \in DOMAIN w : w[k] = at + 2
<1>1. Size = (IF transfer.longword THEN 4 ELSE 2) /\ transfer.longword \in BOOLEAN
  BY TransferFacts
<1>2. at + 2 \in Int
  OBVIOUS
<1>3. CASE ~transfer.longword
  <2>1. Words(at) = <<at>> /\ Size = 2 /\ 2 \div 2 = 1
    BY <1>1, <1>3 DEF Words
  <2>2. <<at>> \in Seq(Int) /\ Len(<<at>>) = 1 /\ <<at>>[1] = at /\ 1 \in DOMAIN <<at>>
    OBVIOUS
  <2> QED
    BY <1>3, <2>1, <2>2
<1>4. CASE transfer.longword
  <2>1. Size = 4 /\ 4 \div 2 = 2
    BY <1>1, <1>4
  <2>2. CASE Predecrement /\ ~transfer.to_register
    <3>1. Words(at) = <<at + 2, at>>
      BY <1>4, <2>2 DEF Words
    <3>2. /\ <<at + 2, at>> \in Seq(Int) /\ Len(<<at + 2, at>>) = 2
          /\ <<at + 2, at>>[1] = at + 2 /\ <<at + 2, at>>[2] = at
          /\ 1 \in DOMAIN <<at + 2, at>> /\ 2 \in DOMAIN <<at + 2, at>>
      BY <1>2
    <3> QED
      BY <2>1, <2>2, <3>1, <3>2
  <2>3. CASE ~(Predecrement /\ ~transfer.to_register)
    <3>1. Words(at) = <<at, at + 2>>
      BY <1>4, <2>3 DEF Words
    <3>2. /\ <<at, at + 2>> \in Seq(Int) /\ Len(<<at, at + 2>>) = 2
          /\ <<at, at + 2>>[1] = at /\ <<at, at + 2>>[2] = at + 2
          /\ 1 \in DOMAIN <<at, at + 2>> /\ 2 \in DOMAIN <<at, at + 2>>
      BY <1>2
    <3> QED
      BY <2>1, <2>3, <3>1, <3>2
  <2> QED
    BY <2>2, <2>3
<1> QED
  BY <1>1, <1>3, <1>4

LEMMA Joined ==
  ASSUME NEW s \in Seq(Int), NEW t \in Seq(Int)
  PROVE  /\ s \o t \in Seq(Int) /\ Len(s \o t) = Len(s) + Len(t)
         /\ Len(s) \in Nat /\ Len(t) \in Nat
         /\ DOMAIN s = 1 .. Len(s) /\ DOMAIN t = 1 .. Len(t)
            /\ DOMAIN (s \o t) = 1 .. Len(s) + Len(t)
         /\ \A k \in 1 .. Len(s) : (s \o t)[k] = s[k]
         /\ \A k \in 1 .. Len(t) : (s \o t)[Len(s) + k] = t[k]
OBVIOUS

(* What one register adds to them. *)
LEMMA MoveAccesses ==
  ASSUME TransferTypes, MovedSoFar, i \in Registers, i \in transfer.list,
         accesses' = accesses \o Words(Place), Moves' = Moves + 1,
         UNCHANGED <<transfer, start>>
  PROVE  /\ AccessesRight' /\ accesses' \in Seq(Int)
         /\ TouchedWords \in SUBSET TouchedWords'
         /\ WordIndex(Place) \in TouchedWords'
         /\ transfer.longword => WordIndex(Place + 2) \in TouchedWords'
<1> DEFINE w == Words(Place)
           x == Spot(i)
           s == BaseBefore
           n == Moves
           h == Size \div 2
           l == Len(accesses)
<1>1. /\ Place \in Int /\ Wrap(Place) = Wrap(x) /\ Wrap(Place + 2) = Wrap(x + 2)
  BY PlaceIs
<1>2. /\ x \in Int /\ s \in Int /\ n \in Nat /\ Size \in {2, 4}
      /\ address_delta = IF Predecrement THEN -Size ELSE Size
  BY TransferFacts
<1>3. /\ w \in Seq(Int) /\ Len(w) = h
      /\ Size = 2 => Len(w) = 1 /\ w[1] = Place
      /\ Size = 4 => /\ Len(w) = 2
                     /\ Predecrement /\ ~transfer.to_register => w[1] = Place + 2
                        /\ w[2] = Place
                     /\ ~Predecrement => w[1] = Place /\ w[2] = Place + 2
      /\ \E k \in DOMAIN w : w[k] = Place
      /\ transfer.longword => \E k \in DOMAIN w : w[k] = Place + 2
  BY <1>1, WordsSeen
<1>4. accesses \in Seq(Int) /\ accesses' = accesses \o w
  BY DEF TransferTypes
<1>5. /\ Size' = Size /\ BaseBefore' = BaseBefore /\ Predecrement' = Predecrement
         /\ transfer' = transfer
  BY SameTransfer
<1>6. /\ l = h * n
      /\ ~(Predecrement /\ transfer.to_register) =>
           \A k \in 1 .. l : Wrap(accesses[k]) = Wrap(s + IF Predecrement THEN -2 * k ELSE 2 * (k - 1))
  BY DEF MovedSoFar, AccessesRight
<1>7. x = IF Predecrement /\ ~transfer.to_register THEN s - Size * (n + 1) ELSE s + address_delta * n
  BY DEF Spot, Moves
<1> HIDE DEF w, x, s, n, h
<1>8. /\ accesses' \in Seq(Int) /\ Len(accesses') = l + Len(w) /\ l \in Nat
         /\ Len(w) \in Nat
      /\ DOMAIN accesses = 1 .. l /\ DOMAIN w = 1 .. Len(w)
         /\ DOMAIN accesses' = 1 .. l + Len(w)
      /\ \A k \in 1 .. l : accesses'[k] = accesses[k]
      /\ \A k \in 1 .. Len(w) : accesses'[l + k] = w[k]
  BY <1>3, <1>4, Joined
<1> HIDE DEF l
<1>9. h \in {1, 2} /\ (Size = 2 => h = 1) /\ (Size = 4 => h = 2)
  BY <1>2 DEF h
<1>10. Len(accesses') = h * (n + 1)
  BY <1>2, <1>3, <1>6, <1>8, <1>9
<1>11. ASSUME ~(Predecrement /\ transfer.to_register), NEW k \in 1 .. Len(accesses')
       PROVE  Wrap(accesses'[k]) = Wrap(s + IF Predecrement THEN -2 * k ELSE 2 * (k - 1))
  <2>1. CASE k \in 1 .. l
    BY <1>6, <1>8, <1>11, <2>1
  <2>2. CASE k = l + 1
    <3>1. accesses'[k] = w[1]
      BY <1>3, <1>8, <1>9, <2>2
    <3>2. CASE Predecrement /\ Size = 4
      <4>1. w[1] = Place + 2 /\ x = s - 4 * (n + 1) /\ l = 2 * n
        BY <1>3, <1>6, <1>7, <1>9, <1>11, <3>2
      <4>2. x + 2 = s + -2 * k
        BY <1>2, <2>2, <4>1
      <4> QED
        BY <1>1, <3>1, <3>2, <4>1, <4>2
    <3>3. CASE Predecrement /\ Size = 2
      <4>1. w[1] = Place /\ x = s - 2 * (n + 1) /\ l = n
        BY <1>2, <1>3, <1>6, <1>7, <1>9, <1>11, <3>3
      <4>2. x = s + -2 * k
        BY <1>2, <2>2, <4>1
      <4> QED
        BY <1>1, <3>1, <3>3, <4>1, <4>2
    <3>4. CASE ~Predecrement
      <4>1. w[1] = Place /\ x = s + Size * n
        BY <1>2, <1>3, <1>7, <3>4
      <4>2. Size * n = 2 * l
        <5>1. CASE Size = 2
          BY <1>2, <1>6, <1>9, <5>1
        <5>2. CASE Size = 4
          BY <1>2, <1>6, <1>9, <5>2
        <5> QED
          BY <1>2, <5>1, <5>2
      <4>3. x = s + 2 * (k - 1)
        BY <1>2, <1>8, <2>2, <4>1, <4>2
      <4> QED
        BY <1>1, <3>1, <3>4, <4>1, <4>3
    <3> QED
      BY <1>2, <3>2, <3>3, <3>4
  <2>3. CASE k = l + 2 /\ h = 2
    <3>1. accesses'[k] = w[2] /\ Size = 4 /\ l = 2 * n
      BY <1>2, <1>3, <1>6, <1>8, <1>9, <2>3
    <3>2. CASE Predecrement
      <4>1. w[2] = Place /\ x = s - 4 * (n + 1)
        BY <1>3, <1>7, <1>11, <3>1, <3>2
      <4>2. x = s + -2 * k
        <5>1. k = 2 * n + 2 /\ n \in Int /\ s \in Int
          BY <1>2, <2>3, <3>1
        <5> HIDE DEF l
        <5>2. -2 * k = -4 * (n + 1)
          BY <5>1
        <5> QED
          BY <4>1, <5>1, <5>2
      <4> QED
        BY <1>1, <3>1, <3>2, <4>1, <4>2
    <3>3. CASE ~Predecrement
      <4>1. w[2] = Place + 2 /\ x = s + 4 * n
        BY <1>2, <1>3, <1>7, <3>1, <3>3
      <4>2. x + 2 = s + 2 * (k - 1)
        BY <1>2, <2>3, <3>1, <4>1
      <4> QED
        BY <1>1, <3>1, <3>3, <4>1, <4>2
    <3> QED
      BY <3>2, <3>3
  <2>4. k \in 1 .. l \/ k = l + 1 \/ (k = l + 2 /\ h = 2)
    BY <1>3, <1>8, <1>9
  <2> QED
    BY <2>1, <2>2, <2>3, <2>4
<1>12. AccessesRight'
  <2>1. Size' \div 2 = h /\ Moves' = n + 1 /\ BaseBefore' = s
    BY <1>5 DEF h, n, s
  <2> QED
    BY <1>5, <1>10, <1>11, <2>1 DEF AccessesRight
<1>13. TouchedWords \in SUBSET TouchedWords'
  <2>1. \A k \in DOMAIN accesses : k \in DOMAIN accesses' /\ accesses'[k] = accesses[k]
    BY <1>8
  <2> QED
    BY <2>1 DEF TouchedWords
<1>14. \A k \in DOMAIN w : WordIndex(w[k]) \in TouchedWords'
  <2>1. \A k \in DOMAIN w : l + k \in DOMAIN accesses' /\ accesses'[l + k] = w[k]
    BY <1>8
  <2> QED
    BY <2>1 DEF TouchedWords
<1> QED
  BY <1>3, <1>8, <1>12, <1>13, <1>14

(* A register that is stored leaves those before it where they are. *)
LEMMA MoveStores ==
  ASSUME TransferTypes, MovedSoFar, phase = "moving", ~transfer.to_register,
         i \in Registers, i \in transfer.list, ~Odd(Place),
         memory' = Stored(Place, registers[MovedRegister(i, Predecrement)]), i' = i + 1,
         UNCHANGED <<transfer, start>>,
         TouchedWords \in SUBSET TouchedWords', WordIndex(Place) \in TouchedWords',
         transfer.longword => WordIndex(Place + 2) \in TouchedWords'
  PROVE  memory' \in Memories /\ StoredSoFar'
<1> DEFINE v == registers[MovedRegister(i, Predecrement)]
<1>1. /\ Place \in Int /\ Wrap(Place) = Wrap(Spot(i)) /\ ~Odd(BaseBefore)
      /\ WordIndex(Place) = WordIndex(Spot(i))
         /\ WordIndex(Place + 2) = WordIndex(Spot(i) + 2)
  BY PlaceIs
<1>2. /\ transfer.list \in SUBSET Registers /\ transfer.longword \in BOOLEAN
      /\ i \in Int /\ Spot(i) \in Int /\ \A b \in transfer.list : b \in Int /\ Spot(b) \in Int
  <2>1. transfer.list \in SUBSET Registers /\ transfer.longword \in BOOLEAN /\ i \in Int
        /\ \A b \in Registers : Spot(b) \in Int
    BY TransferFacts
  <2>2. \A b \in Registers : b \in Int
    BY RegistersAre
  <2> QED
    BY <2>1, <2>2
<1>3. MovedRegister(i, Predecrement) \in Registers
  BY RegistersAre DEF MovedRegister
<1>4. v = start.registers[MovedRegister(i, Predecrement)] /\ v \in LongRange
  BY <1>3 DEF MovedSoFar, RegisterSoFar, TransferTypes
<1>5. /\ memory' \in Memories /\ Holds(memory', Place, v)
      /\ \A w \in 0 .. MemoryWords - 1 :
           w # WordIndex(Place)
           /\ (transfer.longword => w # WordIndex(Place + 2)) => memory'[w] = memory[w]
  <2>1. memory \in Memories /\ memory' = Stored(Place, v)
    BY DEF TransferTypes
  <2> HIDE DEF v
  <2> QED
    BY <1>1, <1>2, <1>4, <2>1, StoredIs
<1>6. Holds(memory', Spot(i), v)
  <2>1. Holds(memory', Wrap(Place), v) /\ Holds(memory', Wrap(Spot(i)), v)
    <3> HIDE DEF v
    <3> QED
      BY <1>1, <1>5, HoldsWrapped
  <2> HIDE DEF v
  <2> QED
    BY <1>2, <1>5, <2>1, HoldsWrapped
<1>7. ASSUME NEW b \in transfer.list, b < i
      PROVE  Holds(memory', Spot(b), start.registers[MovedRegister(b, Predecrement)])
  <2> DEFINE x == Spot(b)
             u == start.registers[MovedRegister(b, Predecrement)]
  <2>1. Holds(memory, x, u)
    BY <1>7 DEF MovedSoFar, StoredSoFar
  <2>2. /\ WordIndex(x + 0) # WordIndex(Spot(i) + 0)
        /\ transfer.longword => /\ WordIndex(x + 0) # WordIndex(Spot(i) + 2)
                                /\ WordIndex(x + 2) # WordIndex(Spot(i) + 0)
                                /\ WordIndex(x + 2) # WordIndex(Spot(i) + 2)
    BY <1>1, <1>7, SpotsApart
  <2>3. x + 0 = x /\ Spot(i) + 0 = Spot(i) /\ x \in Int /\ x + 2 \in Int
    BY <1>2
  <2>4. WordIndex(x) \in 0 .. MemoryWords - 1 /\ WordIndex(x + 2) \in 0 .. MemoryWords - 1
    BY <2>3, IndexRange
  <2>5. /\ memory'[WordIndex(x)] = memory[WordIndex(x)]
        /\ transfer.longword => memory'[WordIndex(x + 2)] = memory[WordIndex(x + 2)]
    BY <1>1, <1>5, <2>2, <2>3, <2>4
  <2> HIDE DEF x, u
  <2>6. Holds(memory', x, u)
    BY <2>1, <2>3, <2>5, HoldsSameWords
  <2> QED
    BY <2>6 DEF x, u
<1>8. ASSUME NEW b \in transfer.list, b < i + 1
      PROVE  Holds(memory', Spot(b), start.registers[MovedRegister(b, Predecrement)])
  <2>1. b < i \/ b = i
    BY <1>2, <1>8
  <2> QED
    BY <1>4, <1>6, <1>7, <2>1
<1>9. ASSUME NEW w \in (0 .. MemoryWords - 1) \ TouchedWords'  PROVE memory'[w] = start.memory[w]
  <2>1. memory[w] = start.memory[w]
    BY <1>9 DEF MovedSoFar, StoredSoFar
  <2>2. w # WordIndex(Place) /\ (transfer.longword => w # WordIndex(Place + 2))
    BY <1>9
  <2> QED
    BY <1>5, <2>1, <2>2
<1>10. /\ Predecrement' = Predecrement /\ \A b : Spot(b)' = Spot(b)
       /\ start' = start /\ transfer' = transfer
  BY SameTransfer
<1>11. \A b \in transfer.list :
         b < i' => Holds(memory, Spot(b), start.registers[MovedRegister(b, Predecrement)])'
  BY <1>8, <1>10 DEF Holds
<1> QED
  BY <1>5, <1>9, <1>10, <1>11 DEF StoredSoFar

LEMMA MoveStep ==
  ASSUME TransferInv, Move
  PROVE  TransferInv'
<1>1. /\ phase = "moving" /\ i \in Registers /\ i \in transfer.list /\ ~Odd(Place)
      /\ IF transfer.to_register
         THEN registers' = [registers EXCEPT ![i] = Loaded(Place)] /\ memory' = memory
         ELSE /\ memory' = Stored(Place, registers[MovedRegister(i, Predecrement)])
              /\ registers' = registers
      /\ accesses' = accesses \o Words(Place) /\ address' = Wrap(address + address_delta)
      /\ i' = i + 1 /\ phase' = phase /\ transfer' = transfer /\ start' = start
         /\ undone' = undone
  BY DEF Move, Moving
<1>2. /\ TransferTypes /\ ~IsMOVEP /\ MovedSoFar
      /\ (undone # Nothing => SavedIn(start.registers, start.memory))
  BY <1>1 DEF TransferInv
<1>3. i' \in 0 .. 2 * Group /\ i \in Int
  BY <1>1, RegistersAre
<1>4. Moves' = Moves + 1
  BY <1>1, <1>2, TransferFacts, CountNext DEF Moves
<1>5. /\ AccessesRight' /\ accesses' \in Seq(Int)
      /\ TouchedWords \in SUBSET TouchedWords' /\ WordIndex(Place) \in TouchedWords'
      /\ transfer.longword => WordIndex(Place + 2) \in TouchedWords'
  BY <1>1, <1>2, <1>4, MoveAccesses
<1>6. /\ Place \in Int /\ Wrap(Place) = Wrap(Spot(i)) /\ ~Odd(BaseBefore) /\ Spot(i) \in Int
  BY <1>1, <1>2, PlaceIs, TransferFacts
<1>7. /\ memory' \in Memories
      /\ IF transfer'.to_register THEN memory' = start'.memory ELSE StoredSoFar'
  <2>1. CASE transfer.to_register
    BY <1>1, <1>2, <2>1 DEF MovedSoFar, TransferTypes
  <2>2. CASE ~transfer.to_register
    BY <1>1, <1>2, <1>5, <2>2, MoveStores
  <2> QED
    BY <2>1, <2>2
<1>8. /\ Size' = Size /\ address_delta' = address_delta /\ BaseBefore' = BaseBefore
      /\ Predecrement' = Predecrement /\ IsMOVEP' = IsMOVEP /\ WrittenBack' = WrittenBack
      /\ \A b : Spot(b)' = Spot(b)
      /\ \A r : LoadedFrom(start.memory, Spot(r))' = LoadedFrom(start.memory, Spot(r))
  BY <1>1, SameTransfer
<1>9. address' = Wrap(BaseBefore' + address_delta' * Moves')
  <2> DEFINE s == BaseBefore
             d == address_delta
             n == Moves
  <2>1. s \in Int /\ d \in Int /\ n \in Nat /\ address = Wrap(s + d * n)
    BY <1>2, TransferFacts DEF MovedSoFar
  <2> HIDE DEF s, d, n
  <2>2. s + d * n \in Int
    BY <2>1
  <2>3. Wrap(Wrap(s + d * n) + d) = Wrap((s + d * n) + d)
    BY <2>1, <2>2, WrapSum
  <2>4. (s + d * n) + d = s + d * (n + 1)
    BY <2>1
  <2> QED
    BY <1>1, <1>4, <1>8, <2>1, <2>3, <2>4 DEF s, d, n
<1>10. transfer.to_register =>
         Loaded(Place) = LoadedFrom(start.memory, Spot(i)) /\ Loaded(Place) \in LongRange
  <2>1. ASSUME transfer.to_register  PROVE memory = start.memory
    BY <1>2, <2>1 DEF MovedSoFar
  <2>2. Loaded(Place) = LoadedFrom(memory, Place) /\ memory \in Memories
    BY <1>2 DEF Loaded, LoadedFrom, TransferTypes
  <2>3. LoadedFrom(memory, Place) = LoadedFrom(memory, Spot(i))
        /\ LoadedFrom(memory, Place) \in LongRange
    <3>1. /\ LoadedFrom(memory, Wrap(Place)) = LoadedFrom(memory, Place)
          /\ LoadedFrom(memory, Wrap(Spot(i))) = LoadedFrom(memory, Spot(i))
      BY <1>6, <2>2, HoldsWrapped
    <3> QED
      BY <1>6, <2>2, <3>1, LoadedRange
  <2> QED
    BY <2>1, <2>2, <2>3
<1>11. registers' \in [Registers -> LongRange]
  BY <1>1, <1>2, <1>10 DEF TransferTypes
<1>12. TransferTypes'
  BY <1>1, <1>2, <1>3, <1>5, <1>7, <1>11 DEF TransferTypes
<1>13. ASSUME NEW r \in Registers  PROVE RegisterSoFar(r)'
  <2>1. registers[r] = IF transfer.to_register /\ r \in transfer.list /\ r < i
                       THEN LoadedFrom(start.memory, Spot(r)) ELSE start.registers[r]
    BY <1>1, <1>2 DEF MovedSoFar, RegisterSoFar
  <2>2. r < i' <=> (r < i \/ r = i)
    <3>1. r \in Int
      BY RegistersAre
    <3> QED
      BY <1>1, <1>3, <3>1
  <2>3. CASE transfer.to_register /\ r = i
    <3>1. ~(i < i) /\ registers'[r] = Loaded(Place)
      BY <1>1, <1>2, <1>3, <2>3 DEF TransferTypes
    <3> QED
      BY <1>1, <1>8, <1>10, <2>2, <2>3, <3>1 DEF RegisterSoFar
  <2>4. CASE ~(transfer.to_register /\ r = i)
    <3>1. registers'[r] = registers[r]
      BY <1>1, <1>2, <2>4 DEF TransferTypes
    <3> QED
      BY <1>1, <1>8, <2>1, <2>2, <2>4, <3>1 DEF RegisterSoFar
  <2> QED
    BY <2>3, <2>4
<1>14. MovedSoFar'
  BY <1>1, <1>2, <1>5, <1>6, <1>7, <1>8, <1>9, <1>13 DEF MovedSoFar
<1>15. (undone # Nothing)' => SavedIn(start.registers, start.memory)'
  BY <1>1, <1>2, SavedKept
<1> QED
  BY <1>1, <1>2, <1>8, <1>12, <1>14, <1>15 DEF TransferInv

(***************************************************************************)
(* MOVEP.                                                                  *)
(***************************************************************************)

(* The four lanes are in words of their own. *)
LEMMA LaneWords ==
  ASSUME NEW at \in Int, NEW j \in 0 .. 3, NEW k \in 0 .. 3, j # k
  PROVE  WordIndex(Lane(at, j)) # WordIndex(Lane(at, k))
<1> DEFINE x == at + 2 * j
           y == at + 2 * k
           h == at \div 2
<1>1. h \in Int /\ x \in Int /\ y \in Int /\ j \in Int /\ k \in Int /\ Lane(at, j) = x
      /\ Lane(at, k) = y
  BY DEF Lane
<1>2. x = 2 * j + at /\ y = 2 * k + at
  OBVIOUS
<1> HIDE DEF x, y, h
<1>3. x \div 2 = j + h /\ y \div 2 = k + h
  BY <1>1, <1>2, HalfOf DEF h
<1>4. MemoryWords \in Nat /\ MemoryWords >= 4
  BY RegistersAre, BusNumbers
<1>5. (x \div 2) - (y \div 2) < MemoryWords /\ (y \div 2) - (x \div 2) < MemoryWords
      /\ x \div 2 # y \div 2
  BY <1>1, <1>3, <1>4
<1> QED
  BY <1>1, <1>5, IndicesApart

(* One byte is at two addresses. *)
SameByte(c, a) == WordIndex(c) = WordIndex(a) /\ (Odd(c) <=> Odd(a))

LEMMA PairWritten ==
  ASSUME NEW m \in Memories, NEW at \in Int, NEW v \in WordRange
  PROVE  LET n == WritePair(m, at, v)
         IN  /\ n \in Memories /\ PairOf(n, at) = v
             /\ \A c \in Int : ~SameByte(c, Lane(at, 0)) /\ ~SameByte(c, Lane(at, 1)) =>
                  ReadByte(n, c) = ReadByte(m, c)
<1> DEFINE p == Lane(at, 0)
           q == Lane(at, 1)
           h == v \div ByteValues
           l == v % ByteValues
           o == WriteByte(m, p, h)
           n == WriteByte(o, q, l)
<1>1. p \in Int /\ q \in Int
  BY DEF Lane
<1>2. h \in ByteRange /\ l \in ByteRange /\ v = h * ByteValues + l
  BY BytesOfWord
<1>3. WordIndex(p) # WordIndex(q)
  BY LaneWords
<1>4. WritePair(m, at, v) = n
  BY DEF WritePair
<1> HIDE DEF p, q, h, l
<1>5. o \in Memories
  BY <1>1, <1>2, ByteWritten
<1>6. \A c \in Int : ReadByte(o, c) = IF WordIndex(c) = WordIndex(p) /\ (Odd(c) <=> Odd(p)) THEN h ELSE ReadByte(m, c)
  BY <1>1, <1>2, ByteOfWritten
<1> HIDE DEF o
<1>7. n \in Memories
  BY <1>1, <1>2, <1>5, ByteWritten
<1>8. \A c \in Int : ReadByte(n, c) = IF WordIndex(c) = WordIndex(q) /\ (Odd(c) <=> Odd(q)) THEN l ELSE ReadByte(o, c)
  BY <1>1, <1>2, <1>5, ByteOfWritten
<1> HIDE DEF n
<1>9. ReadByte(n, p) = h /\ ReadByte(n, q) = l
  BY <1>1, <1>3, <1>6, <1>8
<1>10. PairOf(n, at) = v
  BY <1>2, <1>9 DEF PairOf, p, q
<1>11. \A c \in Int : ~SameByte(c, p) /\ ~SameByte(c, q) => ReadByte(n, c) = ReadByte(m, c)
  BY <1>6, <1>8 DEF SameByte
<1> QED
  BY <1>4, <1>7, <1>10, <1>11 DEF p, q

LEMMA PairRange ==
  ASSUME NEW m \in Memories, NEW at \in Int
  PROVE  PairOf(m, at) \in WordRange /\ ReadPair(at) = PairOf(memory, at)
<1> DEFINE h == ReadByte(m, Lane(at, 0))
           l == ReadByte(m, Lane(at, 1))
<1>1. h \in ByteRange /\ l \in ByteRange
  BY ByteRead DEF Lane
<1>2. PairOf(m, at) = h * ByteValues + l
  BY DEF PairOf
<1> HIDE DEF h, l
<1>3. PairOf(m, at) \in WordRange
  BY <1>1, <1>2, WordOfBytes
<1> QED
  BY <1>3 DEF PairOf, ReadPair

LEMMA PairsWritten ==
  ASSUME TransferTypes, NEW at \in Int, NEW v \in LongRange,
         NEW n, n = IF transfer.longword
                    THEN WritePair(WritePair(memory, at, v \div WordValues), Lane(at, 2), v % WordValues)
                    ELSE WritePair(memory, at, v % WordValues)
  PROVE  /\ n \in Memories /\ PairsHold(n, at, v)
         /\ \A c \in Int : (\A k \in 0 .. Size - 1 : ~SameByte(c, Lane(at, k))) =>
              ReadByte(n, c) = ReadByte(memory, c)
<1> DEFINE h == v \div WordValues
           l == v % WordValues
           b == Lane(at, 2)
<1>1. h \in WordRange /\ l \in WordRange
  BY WordsOfLong
<1>2. /\ b \in Int /\ Lane(b, 0) = Lane(at, 2) /\ Lane(b, 1) = Lane(at, 3)
      /\ \A k \in 0 .. 3 : Lane(at, k) \in Int
  BY DEF Lane
<1>3. Size = (IF transfer.longword THEN 4 ELSE 2) /\ memory \in Memories
  BY TransferFacts DEF TransferTypes
<1> HIDE DEF h, l, b
<1>4. CASE transfer.longword
  <2> DEFINE o == WritePair(memory, at, h)
  <2>1. n = WritePair(o, b, l)
    BY <1>4 DEF h, l, b
  <2>2. /\ o \in Memories /\ PairOf(o, at) = h
        /\ \A c \in Int : ~SameByte(c, Lane(at, 0)) /\ ~SameByte(c, Lane(at, 1)) =>
             ReadByte(o, c) = ReadByte(memory, c)
    BY <1>1, <1>3, PairWritten
  <2> HIDE DEF o
  <2>3. /\ n \in Memories /\ PairOf(n, b) = l
        /\ \A c \in Int : ~SameByte(c, Lane(b, 0)) /\ ~SameByte(c, Lane(b, 1)) =>
             ReadByte(n, c) = ReadByte(o, c)
    BY <1>1, <1>2, <2>1, <2>2, PairWritten
  <2>4. PairOf(n, at) = PairOf(o, at)
    <3>1. \A k \in {0, 1} : ~SameByte(Lane(at, k), Lane(b, 0)) /\ ~SameByte(Lane(at, k), Lane(b, 1))
      BY <1>2, LaneWords DEF SameByte
    <3>2. ReadByte(n, Lane(at, 0)) = ReadByte(o, Lane(at, 0))
          /\ ReadByte(n, Lane(at, 1)) = ReadByte(o, Lane(at, 1))
      BY <1>2, <2>3, <3>1
    <3> QED
      BY <3>2 DEF PairOf
  <2>5. PairsHold(n, at, v)
    BY <1>4, <2>2, <2>3, <2>4 DEF PairsHold, h, l, b
  <2>6. ASSUME NEW c \in Int, \A k \in 0 .. Size - 1 : ~SameByte(c, Lane(at, k))
        PROVE  ReadByte(n, c) = ReadByte(memory, c)
    <3>1. 0 \in 0 .. Size - 1 /\ 1 \in 0 .. Size - 1 /\ 2 \in 0 .. Size - 1
          /\ 3 \in 0 .. Size - 1
      BY <1>3, <1>4
    <3> QED
      BY <1>2, <2>2, <2>3, <2>6, <3>1
  <2> QED
    BY <2>3, <2>5, <2>6
<1>5. CASE ~transfer.longword
  <2>1. n = WritePair(memory, at, l)
    BY <1>5 DEF l
  <2>2. /\ n \in Memories /\ PairOf(n, at) = l
        /\ \A c \in Int : ~SameByte(c, Lane(at, 0)) /\ ~SameByte(c, Lane(at, 1)) =>
             ReadByte(n, c) = ReadByte(memory, c)
    BY <1>1, <1>3, <2>1, PairWritten
  <2>3. PairsHold(n, at, v)
    BY <1>5, <2>2 DEF PairsHold, l
  <2>4. 0 \in 0 .. Size - 1 /\ 1 \in 0 .. Size - 1
    BY <1>3, <1>5
  <2> QED
    BY <2>2, <2>3, <2>4
<1> QED
  BY <1>4, <1>5

(* The one register of MOVEP. *)
LEMMA MovepRegister ==
  ASSUME TransferTypes, IsMOVEP
  PROVE  \E r \in Registers : /\ transfer.list = {r} /\ r # transfer.base
                              /\ (CHOOSE q \in transfer.list : TRUE) = r
<1>1. PICK r \in Registers : IsDataRegister(r) /\ transfer.list = {r}
  BY DEF TransferTypes, SensibleTransfer, IsMOVEP
<1>2. ~IsDataRegister(transfer.base)
  BY DEF TransferTypes, Transfers, Bases
<1> QED
  BY <1>1, <1>2

LEMMA MovepStep ==
  ASSUME TransferInv, MOVEP
  PROVE  TransferInv'
<1>1. /\ phase = "idle" /\ IsMOVEP /\ phase' = "done"
      /\ start' = [registers |-> registers, memory |-> memory]
      /\ transfer' = transfer /\ i' = i /\ address' = address /\ accesses' = accesses
         /\ undone' = undone
  BY DEF MOVEP
<1>2. TransferTypes /\ (undone # Nothing => SavedIn(registers, memory))
  BY <1>1 DEF TransferInv
<1>3. PICK r \in Registers : /\ transfer.list = {r} /\ r # transfer.base
                             /\ (CHOOSE q \in transfer.list : TRUE) = r
  BY <1>1, <1>2, MovepRegister
<1> DEFINE at == registers[transfer.base]
           v == registers[r]
           b == Lane(at, 2)
           loaded == IF transfer.longword THEN PairOf(memory, at) * WordValues + PairOf(memory, b)
                     ELSE (v \div WordValues) * WordValues + PairOf(memory, at)
           n == IF transfer.longword
                THEN WritePair(WritePair(memory, at, v \div WordValues), b, v % WordValues)
                ELSE WritePair(memory, at, v % WordValues)
<1>4. ReadPair(at) = PairOf(memory, at) /\ ReadPair(b) = PairOf(memory, b)
  BY DEF ReadPair, PairOf
<1>5. IF transfer.to_register THEN registers' = [registers EXCEPT ![r] = loaded] /\ memory' = memory
                              ELSE memory' = n /\ registers' = registers
  BY <1>3, <1>4 DEF MOVEP
<1>6. /\ memory \in Memories /\ registers \in [Registers -> LongRange]
      /\ at \in Int /\ b \in Int /\ v \in LongRange
  <2>1. at \in Int
    <3>1. at \in LongRange
      BY <1>2, TransferFacts DEF TransferTypes
    <3> QED
      BY <3>1, BusNumbers DEF LongRange
  <2>2. b \in Int
    BY <2>1 DEF Lane
  <2> QED
    BY <1>2, <2>1, <2>2 DEF TransferTypes
<1>7. loaded \in LongRange
  <2> DEFINE x == PairOf(memory, at)
             y == PairOf(memory, b)
             h == v \div WordValues
  <2>1. x \in WordRange /\ y \in WordRange /\ h \in WordRange
    <3> HIDE DEF at, b, v
    <3> QED
      BY <1>6, PairRange, WordsOfLong
  <2>2. loaded = IF transfer.longword THEN x * WordValues + y ELSE h * WordValues + x
    OBVIOUS
  <2> HIDE DEF x, y, h, loaded
  <2>3. x * WordValues + y \in LongRange /\ h * WordValues + x \in LongRange
    BY <2>1, LongOfWords
  <2> QED
    BY <2>2, <2>3
<1>8. /\ n \in Memories /\ PairsHold(n, at, v)
      /\ \A c \in Int : (\A k \in 0 .. Size - 1 : ~SameByte(c, Lane(at, k))) =>
           ReadByte(n, c) = ReadByte(memory, c)
  <2>1. n = IF transfer.longword
            THEN WritePair(WritePair(memory, at, v \div WordValues), Lane(at, 2), v % WordValues)
            ELSE WritePair(memory, at, v % WordValues)
    OBVIOUS
  <2> HIDE DEF n, at, v, b
  <2> QED
    BY <1>2, <1>6, <2>1, PairsWritten
<1>9. start'.registers = registers /\ start'.memory = memory
  BY <1>1
<1> HIDE DEF loaded, n
<1>10. registers' \in [Registers -> LongRange] /\ memory' \in Memories
  BY <1>5, <1>6, <1>7, <1>8
<1>11. TransferTypes'
  BY <1>1, <1>2, <1>9, <1>10 DEF TransferTypes
<1>12. BaseBefore' = at /\ Size' = Size /\ IsMOVEP' = IsMOVEP
  BY <1>1, <1>9 DEF BaseBefore, Size, IsMOVEP
<1>13. PairsMoved'
  <2>1. CASE transfer.to_register
    <3>1. registers' = [registers EXCEPT ![r] = loaded] /\ memory' = memory
      BY <1>5, <2>1
    <3>2. \A q \in transfer.list : q = r
      BY <1>3
    <3>3. ASSUME NEW q \in transfer'.list
          PROVE  /\ memory' = start'.memory
                 /\ registers' =
                      [start'.registers EXCEPT ![q] =
                         IF transfer'.longword THEN PairOf(start'.memory, BaseBefore') * WordValues
                                                      + PairOf(start'.memory, Lane(BaseBefore', 2))
                         ELSE (start'.registers[q] \div WordValues) * WordValues
                                + PairOf(start'.memory, BaseBefore')]
      <4>1. q = r /\ transfer'.longword = transfer.longword
        BY <1>1, <3>2, <3>3
      <4> HIDE DEF at
      <4> QED
        BY <1>9, <1>12, <3>1, <4>1 DEF loaded, b
    <3>4. transfer'.to_register
      BY <1>1, <2>1
    <3> QED
      BY <3>3, <3>4 DEF PairsMoved
  <2>2. CASE ~transfer.to_register
    <3>1. memory' = n /\ registers' = registers
      BY <1>5, <2>2
    <3>3. ASSUME NEW q \in transfer'.list
          PROVE  /\ registers' = start'.registers
                 /\ IF transfer'.longword
                    THEN /\ PairOf(memory', BaseBefore') = start'.registers[q] \div WordValues
                         /\ PairOf(memory', Lane(BaseBefore', 2)) = start'.registers[q] % WordValues
                    ELSE PairOf(memory', BaseBefore') = start'.registers[q] % WordValues
      <4>1. q = r /\ transfer'.longword = transfer.longword
        BY <1>1, <1>3, <3>3
      <4> QED
        BY <1>8, <1>9, <1>12, <3>1, <4>1 DEF PairsHold
    <3>4. ASSUME NEW c \in (0 .. 2 * MemoryWords - 1) \ OwnBytes'
          PROVE  ReadByte(memory', c) = ReadByte(start'.memory, c)
      <4>1. c \in Int
        BY BusNumbers
      <4>2. ASSUME NEW k \in 0 .. Size - 1  PROVE ~SameByte(c, Lane(at, k))
        <5>1. Lane(at, k) \in Int
          <6>1. k \in Int
            BY <1>2, TransferFacts
          <6> QED
            BY <1>6, <6>1 DEF Lane
        <5>2. c # Wrap(Lane(at, k)) % (2 * MemoryWords)
          BY <1>12, <3>4, <4>2 DEF OwnBytes
        <5> DEFINE y == Lane(at, k)
        <5> HIDE DEF y
        <5>3. ~SameByte(c, y)
          BY <5>1, <5>2, ByteOfAddress DEF SameByte, y
        <5> QED
          BY <5>3 DEF y
      <4> QED
        BY <1>8, <1>9, <3>1, <4>1, <4>2
    <3>5. ~transfer'.to_register
      BY <1>1, <2>2
    <3> HIDE DEF at, v
    <3> QED
      BY <3>3, <3>4, <3>5 DEF PairsMoved, PairsHold
  <2> QED
    BY <2>1, <2>2
<1>14. (undone # Nothing)' => SavedIn(start.registers, start.memory)'
  BY <1>1, <1>2, SavedAtStart
<1> QED
  BY <1>1, <1>11, <1>12, <1>13, <1>14 DEF TransferInv

(***************************************************************************)
(* The restore: what was stored is found again by the mirror image of the  *)
(* list.                                                                   *)
(***************************************************************************)

(* Where a save with predecrement has put a register, counted from where   *)
(* it has left the base.                                                   *)
LEMMA SavedSpot ==
  ASSUME TransferTypes, MovedSoFar, phase = "done", Predecrement, ~transfer.to_register,
         NEW r \in Registers, r \in Mirror(transfer.list)
  PROVE  /\ address = Wrap(BaseBefore - Size * Cardinality(transfer.list))
         /\ address + Size * Count(Mirror(transfer.list), r) \in Int
         /\ Wrap(address + Size * Count(Mirror(transfer.list), r)) = Wrap(Spot(2 * Group - 1 - r))
         /\ Holds(memory, address + Size * Count(Mirror(transfer.list), r), start.registers[r])
<1> DEFINE b == 2 * Group - 1 - r
           c == Cardinality(transfer.list)
           p == Count(transfer.list, b)
           q == Count(Mirror(transfer.list), r)
           s == BaseBefore
           x == Spot(b)
<1>1. /\ transfer.list \in SUBSET Registers /\ s \in Int /\ c \in Nat /\ Size \in {2, 4}
      /\ address_delta = -Size /\ \A k \in Registers : Spot(k) \in Int
      /\ \A k \in Int : Count(transfer.list, k) \in Nat
  BY TransferFacts
<1>2. b \in Registers /\ b \in transfer.list /\ MovedRegister(b, TRUE) = r /\ b \in Int
  <2>1. b \in Registers /\ b \in transfer.list /\ MovedRegister(b, TRUE) = r
    BY <1>1, MirrorIs
  <2>2. b \in Int
    BY RegistersAre
  <2> QED
    BY <2>1, <2>2
<1>3. q = c - p - 1
  <2>1. 2 * Group - 1 - b = r
    BY RegistersAre
  <2> HIDE DEF b
  <2>2. Count(Mirror(transfer.list), 2 * Group - 1 - b) = Cardinality(transfer.list) - Count(transfer.list, b) - 1
    BY <1>1, <1>2, MirrorCount
  <2> QED
    BY <2>1, <2>2
<1>4. Moves = c
  BY <1>1, CountAll DEF MovedSoFar, Moves
<1>5. address = Wrap(s - Size * c)
  <2>1. address = Wrap(s + (-Size) * c)
    BY <1>1, <1>4 DEF MovedSoFar
  <2>2. s + (-Size) * c = s - Size * c
    BY <1>1
  <2> QED
    BY <2>1, <2>2
<1>6. x = s - Size * (p + 1) /\ x \in Int /\ p \in Nat
  BY <1>1, <1>2 DEF Spot
<1>7. Holds(memory, x, start.registers[r])
  <2>1. b < i /\ Predecrement \in BOOLEAN
    BY <1>2, RegistersAre DEF MovedSoFar, Predecrement
  <2> HIDE DEF b
  <2> QED
    BY <1>2, <2>1 DEF MovedSoFar, StoredSoFar
<1> DEFINE g == start.registers[r]
<1> HIDE DEF b, c, p, q, s, x, g
<1>8. address + Size * q \in Int
  <2>1. s - Size * c \in Int
    BY <1>1
  <2>2. address \in Int
    BY <1>5, <2>1, WrapRange
  <2>3. q \in Int
    BY <1>1, <1>3, <1>6
  <2> QED
    BY <1>1, <2>2, <2>3
<1>9. Wrap(address + Size * q) = Wrap(x)
  <2> DEFINE y == s - Size * c
             z == Size * q
  <2>1. y \in Int /\ z \in Int /\ y + z = x
    <3>1. CASE Size = 2
      BY <1>1, <1>3, <1>6, <3>1
    <3>2. CASE Size = 4
      BY <1>1, <1>3, <1>6, <3>2
    <3> QED
      BY <1>1, <3>1, <3>2
  <2> HIDE DEF y, z
  <2>2. Wrap(Wrap(y) + z) = Wrap(y + z)
    BY <2>1, WrapSum
  <2> QED
    BY <1>5, <2>1, <2>2 DEF y, z
<1>10. Holds(memory, address + Size * q, g)
  <2> DEFINE y == address + Size * q
  <2>1. memory \in Memories /\ Holds(memory, x, g)
    BY <1>7 DEF TransferTypes, g
  <2> HIDE DEF y
  <2>2. Holds(memory, Wrap(x), g) /\ Wrap(y) = Wrap(x) /\ y \in Int
    BY <1>6, <1>8, <1>9, <2>1, HoldsWrapped DEF y
  <2>3. Holds(memory, y, g)
    BY <2>1, <2>2, HoldsWrapped
  <2> QED
    BY <2>3 DEF y
<1> QED
  BY <1>5, <1>8, <1>9, <1>10 DEF b, c, q, s, x, g

LEMMA RestoreStep ==
  ASSUME TransferInv, Restore
  PROVE  TransferInv'
<1>1. /\ phase = "done" /\ ~transfer.to_register /\ (Predecrement \/ IsMOVEP)
      /\ registers' = [r \in Registers |-> IF r = transfer.base THEN registers[r] ELSE 0]
      /\ transfer' = IF IsMOVEP THEN [transfer EXCEPT !.to_register = TRUE]
                     ELSE [transfer EXCEPT !.to_register = TRUE, !.mode = "postincrement",
                                           !.list = Mirror(transfer.list)]
      /\ undone' = [transfer |-> transfer, registers |-> start.registers]
      /\ phase' = "idle" /\ accesses' = <<>>
      /\ memory' = memory /\ i' = i /\ address' = address /\ start' = start
  BY DEF Restore, Mirror
<1>2. TransferTypes
  BY DEF TransferInv
<1>3. /\ transfer.list \in SUBSET Registers /\ transfer.base \in Registers
      /\ transfer.longword \in BOOLEAN /\ 0 \in LongRange
      /\ registers \in [Registers -> LongRange]
         /\ start.registers \in [Registers -> LongRange]
  <2>1. 0 \in LongRange
    BY BusNumbers DEF LongRange
  <2> QED
    BY <1>2, <2>1, TransferFacts DEF TransferTypes
<1>4. registers' \in [Registers -> LongRange]
      /\ registers'[transfer.base] = registers[transfer.base]
  BY <1>1, <1>3
<1>5. undone'.registers = start.registers
  BY <1>1
<1>6. accesses' \in Seq(Int)
  BY <1>1
<1>7. CASE IsMOVEP
  <2>1. transfer' = [transfer EXCEPT !.to_register = TRUE]
    BY <1>1, <1>7
  <2>2. /\ transfer'.to_register = TRUE /\ transfer'.mode = "movep"
           /\ transfer'.list = transfer.list
        /\ transfer'.base = transfer.base /\ transfer'.longword = transfer.longword
        /\ transfer' \in Transfers
    BY <1>2, <1>7, <2>1 DEF TransferTypes, Transfers, IsMOVEP
  <2>3. SensibleTransfer(transfer')
    BY <1>2, <1>7, <2>2 DEF TransferTypes, SensibleTransfer, IsMOVEP
  <2>4. TransferTypes'
    BY <1>1, <1>2, <1>4, <1>6, <2>2, <2>3 DEF TransferTypes
  <2>5. PairsMoved
    BY <1>1, <1>7 DEF TransferInv
  <2>6. ASSUME NEW r \in transfer.list
        PROVE  /\ registers = start.registers
                  /\ PairsHold(memory, BaseBefore, start.registers[r])
               /\ registers'[r] = 0
    <3>1. r \in Registers /\ r # transfer.base
      BY <1>2, <1>7, MovepRegister
    <3> QED
      BY <1>1, <2>5, <3>1 DEF PairsMoved
  <2>7. registers = start.registers
    BY <1>2, <1>7, <2>6, MovepRegister
  <2>8. registers'[transfer'.base] = BaseBefore
        /\ undone'.registers[transfer'.base] = BaseBefore
    BY <1>4, <1>5, <2>2, <2>7 DEF BaseBefore
  <2>9. IsMOVEP'
    BY <2>2 DEF IsMOVEP
  <2>10. SavedIn(registers, memory)'
    <3>1. ASSUME NEW r \in transfer'.list
          PROVE  /\ IF transfer'.longword
                    THEN /\ PairOf(memory', BaseBefore) = undone'.registers[r] \div WordValues
                         /\ PairOf(memory', Lane(BaseBefore, 2)) = undone'.registers[r] % WordValues
                    ELSE PairOf(memory', BaseBefore) = undone'.registers[r] % WordValues
                 /\ registers'[r] = 0
      BY <1>1, <1>5, <2>2, <2>6, <3>1 DEF PairsHold
    <3> QED
      BY <1>3, <1>5, <2>2, <2>8, <2>9, <3>1 DEF SavedIn, PairsHold
  <2> QED
    BY <1>1, <2>4, <2>9, <2>10 DEF TransferInv
<1>8. CASE ~IsMOVEP
  <2>1. transfer' = [transfer EXCEPT !.to_register = TRUE, !.mode = "postincrement",
                                     !.list = Mirror(transfer.list)]
    BY <1>1, <1>8
  <2>2. Mirror(transfer.list) \in SUBSET Registers
        /\ Cardinality(Mirror(transfer.list)) = Cardinality(transfer.list)
    BY <1>3, MirrorIs
  <2>3. /\ transfer'.to_register = TRUE /\ transfer'.mode = "postincrement"
        /\ transfer'.list = Mirror(transfer.list)
        /\ transfer'.base = transfer.base /\ transfer'.longword = transfer.longword
        /\ transfer' \in Transfers
    BY <1>2, <2>1, <2>2 DEF TransferTypes, Transfers
  <2>4. SensibleTransfer(transfer') /\ ~IsMOVEP'
    BY <2>3 DEF SensibleTransfer, IsMOVEP
  <2>5. TransferTypes'
    BY <1>1, <1>2, <1>4, <1>6, <2>3, <2>4 DEF TransferTypes
  <2>6. MovedSoFar /\ Predecrement
    BY <1>1, <1>8 DEF TransferInv
  <2>7. registers[transfer.base] = address
    BY <1>1, <2>6 DEF MovedSoFar, WrittenBack, Predecrement
  <2>8. Size' = Size
    BY <2>3 DEF Size
  <2>9. registers'[transfer'.base] = Wrap(undone'.registers[transfer'.base] - Size' * Cardinality(transfer'.list))
    <3>1. address = Wrap(BaseBefore - Size * Cardinality(transfer.list))
      <4> DEFINE c == Cardinality(transfer.list)
      <4>1. Moves = c
        BY <1>1, <1>3, <2>6, CountAll DEF MovedSoFar, Moves
      <4>2. /\ address = Wrap(BaseBefore + address_delta * Moves) /\ BaseBefore \in Int
            /\ c \in Nat /\ Size \in {2, 4} /\ address_delta = -Size
        BY <1>2, <2>6, TransferFacts DEF MovedSoFar
      <4> HIDE DEF c
      <4>3. BaseBefore + (-Size) * c = BaseBefore - Size * c
        BY <4>2
      <4> QED
        BY <4>1, <4>2, <4>3 DEF c
    <3> QED
      BY <1>4, <1>5, <2>2, <2>3, <2>7, <2>8, <3>1 DEF BaseBefore
  <2>10. ASSUME NEW r \in transfer'.list
         PROVE  Holds(memory, registers[transfer.base] + Size * Count(transfer.list, r), undone.registers[r])'
    <3>1. r \in Registers /\ r \in Mirror(transfer.list)
      BY <2>2, <2>3
    <3>2. Holds(memory, address + Size * Count(Mirror(transfer.list), r), start.registers[r])
      BY <1>1, <1>2, <2>6, <3>1, SavedSpot
    <3>3. /\ memory' = memory /\ registers'[transfer'.base] = address
             /\ transfer'.list = Mirror(transfer.list)
          /\ transfer'.longword = transfer.longword
      BY <1>1, <1>4, <2>3, <2>7
    <3> QED
      BY <1>5, <2>8, <3>2, <3>3 DEF Holds
  <2>11. SavedIn(registers, memory)'
    BY <1>3, <1>5, <2>3, <2>4, <2>9, <2>10 DEF SavedIn
  <2> QED
    BY <1>1, <2>4, <2>5, <2>11 DEF TransferInv
<1> QED
  BY <1>7, <1>8

LEMMA TransferStep ==
  ASSUME TransferInv, [TransferNext]_transferVars
  PROVE  TransferInv'
<1>1. CASE TransferNext
  BY <1>1, BeginStep, SkipStep, FaultStep, MoveStep, EndStep, MovepStep, RestoreStep
       DEF TransferNext
<1>2. CASE UNCHANGED transferVars
  <2>1. /\ registers' = registers /\ memory' = memory /\ phase' = phase
           /\ transfer' = transfer
        /\ i' = i /\ address' = address /\ accesses' = accesses /\ start' = start
           /\ undone' = undone
    BY <1>2 DEF transferVars
  <2>2. /\ Size' = Size /\ address_delta' = address_delta /\ BaseBefore' = BaseBefore
        /\ Predecrement' = Predecrement /\ IsMOVEP' = IsMOVEP /\ WrittenBack' = WrittenBack
        /\ \A b : Spot(b)' = Spot(b)
        /\ \A r : LoadedFrom(start.memory, Spot(r))' = LoadedFrom(start.memory, Spot(r))
    BY <2>1, SameTransfer
  <2>3. TransferTypes' = TransferTypes /\ Moves' = Moves
    BY <2>1 DEF TransferTypes, Moves
  <2>4. AccessesRight' = AccessesRight
    BY <2>1, <2>2, <2>3 DEF AccessesRight
  <2>5. StoredSoFar' = StoredSoFar
    BY <2>1, <2>2 DEF StoredSoFar, TouchedWords, Holds
  <2>6. \A r : RegisterSoFar(r)' = RegisterSoFar(r)
    BY <2>1, <2>2 DEF RegisterSoFar
  <2>7. MovedSoFar => MovedSoFar'
    BY <2>1, <2>2, <2>3, <2>4, <2>5, <2>6 DEF MovedSoFar
  <2>8. PairsMoved => PairsMoved'
    BY <2>1, <2>2 DEF PairsMoved, PairsHold, PairOf, OwnBytes
  <2>9. /\ SavedIn(registers, memory) => SavedIn(registers, memory)'
        /\ SavedIn(start.registers, start.memory) => SavedIn(start.registers, start.memory)'
    BY <2>1, <2>2 DEF SavedIn, PairsHold, PairOf, Holds
  <2> QED
    BY <2>1, <2>2, <2>3, <2>7, <2>8, <2>9 DEF TransferInv
<1> QED
  BY <1>1, <1>2

(* At each step of a transfer, the registers passed so far are in their    *)
(* places and nothing else is different; a restore that is to come finds   *)
(* what the save before it has put there.                                  *)
THEOREM TransfersHold == TransferSpec => []TransferInv
<1>1. TransferInit => TransferInv
  BY TransferBegins
<1>2. TransferInv /\ [TransferNext]_transferVars => TransferInv'
  BY TransferStep
<1> QED
  BY <1>1, <1>2, PTL DEF TransferSpec

(***************************************************************************)
(* What it says of a transfer that is done.                                *)
(***************************************************************************)

LEMMA FaultsTouchNothing ==
  ASSUME TransferInv
  PROVE  FaultTouchesNothing
<1> SUFFICES ASSUME phase = "fault"
             PROVE  registers = start.registers /\ memory = start.memory /\ accesses = <<>>
  BY DEF FaultTouchesNothing
<1>1. TransferTypes /\ MovedSoFar
  BY DEF TransferInv
<1>2. Moves = 0
  BY <1>1, TransferFacts DEF MovedSoFar
<1>3. transfer.list \in SUBSET Registers /\ i \in 0 .. 2 * Group /\ Size \in {2, 4}
      /\ accesses \in Seq(Int)
  BY <1>1, TransferFacts DEF TransferTypes
<1>4. ASSUME NEW b \in transfer.list, b < i  PROVE FALSE
  <2>1. Count(transfer.list, b) + 1 <= Count(transfer.list, i)
    BY <1>3, <1>4, CountGrows
  <2>2. b \in Int
    BY <1>3, RegistersAre
  <2>3. Count(transfer.list, b) \in Nat
    BY <1>3, <2>2, CountAll
  <2> QED
    BY <1>2, <2>1, <2>3 DEF Moves
<1>5. accesses = <<>>
  <2>1. Size \div 2 \in Int
    BY <1>3
  <2>2. Len(accesses) = 0
    BY <1>1, <1>2, <2>1 DEF MovedSoFar, AccessesRight
  <2> QED
    BY <1>3, <2>2
<1>6. \A r \in Registers : registers[r] = start.registers[r]
  BY <1>1, <1>4 DEF MovedSoFar, RegisterSoFar
<1>7. registers = start.registers
  BY <1>1, <1>6 DEF TransferTypes
<1>8. memory = start.memory
  <2>1. CASE transfer.to_register
    BY <1>1, <2>1 DEF MovedSoFar
  <2>2. CASE ~transfer.to_register
    <3>1. TouchedWords = {}
      BY <1>5 DEF TouchedWords
    <3>2. \A w \in 0 .. MemoryWords - 1 : memory[w] = start.memory[w]
      BY <1>1, <2>2, <3>1 DEF MovedSoFar, StoredSoFar
    <3>3. memory \in [0 .. MemoryWords - 1 -> WordRange]
          /\ start.memory \in [0 .. MemoryWords - 1 -> WordRange]
      BY <1>1 DEF TransferTypes, Memories
    <3> DEFINE m == start.memory
               D == 0 .. MemoryWords - 1
    <3> HIDE DEF m, D
    <3>4. memory \in [D -> WordRange] /\ m \in [D -> WordRange]
          /\ \A w \in D : memory[w] = m[w]
      BY <3>2, <3>3 DEF m, D
    <3>5. memory = m
      BY <3>4
    <3> QED
      BY <3>5 DEF m
  <2> QED
    BY <2>1, <2>2
<1> QED
  BY <1>5, <1>7, <1>8

LEMMA InOrder ==
  ASSUME TransferInv
  PROVE  AccessesInOrder
<1> SUFFICES ASSUME ~(Predecrement /\ transfer.to_register), NEW k \in 1 .. Len(accesses) - 1
             PROVE  Wrap(accesses[k + 1]) = Wrap(accesses[k] + IF Predecrement THEN -2 ELSE 2)
  BY DEF AccessesInOrder
<1>1. TransferTypes /\ accesses \in Seq(Int)
  BY DEF TransferInv, TransferTypes
<1>2. Len(accesses) \in Nat /\ k \in 1 .. Len(accesses) /\ k + 1 \in 1 .. Len(accesses)
      /\ accesses # <<>>
  BY <1>1
<1>3. CASE phase = "idle" \/ IsMOVEP
  BY <1>2, <1>3 DEF TransferInv
<1>4. CASE phase # "idle" /\ ~IsMOVEP
  <2> DEFINE s == BaseBefore
             d == IF Predecrement THEN -2 ELSE 2
             x == accesses[k]
             y == accesses[k + 1]
             u == s + IF Predecrement THEN -2 * k ELSE 2 * (k - 1)
             v == s + IF Predecrement THEN -2 * (k + 1) ELSE 2 * ((k + 1) - 1)
  <2>1. MovedSoFar
    BY <1>1, <1>4 DEF TransferInv, TransferTypes
  <2>2. Wrap(x) = Wrap(u) /\ Wrap(y) = Wrap(v)
    BY <1>2, <2>1 DEF MovedSoFar, AccessesRight
  <2>3. s \in Int /\ x \in Int /\ y \in Int /\ k \in Int
    <3>1. s \in Int
      BY <1>1, TransferFacts
    <3>2. x \in Int /\ y \in Int
      BY <1>1, <1>2
    <3> QED
      BY <3>1, <3>2
  <2>4. u \in Int /\ d \in Int /\ v = u + d
    BY <2>3
  <2> HIDE DEF s, d, x, y, u, v
  <2>5. Wrap(Wrap(x) + d) = Wrap(x + d)
    BY <2>3, <2>4, WrapSum
  <2>6. Wrap(Wrap(u) + d) = Wrap(u + d)
    BY <2>4, WrapSum
  <2>7. Wrap(y) = Wrap(x + d)
    BY <2>2, <2>4, <2>5, <2>6
  <2> QED
    BY <2>7 DEF x, y, d
<1> QED
  BY <1>3, <1>4

(* At the end every register of the list has moved. *)
LEMMA AllMoved ==
  ASSUME TransferInv, phase = "done", ~IsMOVEP
  PROVE  /\ TransferTypes /\ MovedSoFar /\ Moves = Cardinality(transfer.list)
         /\ address = Wrap(BaseBefore + address_delta * Cardinality(transfer.list))
         /\ \A b \in transfer.list : b \in Registers /\ b < i
<1>1. TransferTypes /\ MovedSoFar
  BY DEF TransferInv
<1>2. transfer.list \in SUBSET Registers /\ i = 2 * Group
  BY <1>1, TransferFacts DEF MovedSoFar
<1>3. Moves = Cardinality(transfer.list)
  BY <1>2, CountAll DEF Moves
<1>4. \A b \in transfer.list : b \in Registers /\ b < i
  BY <1>2, RegistersAre
<1> QED
  BY <1>1, <1>3, <1>4 DEF MovedSoFar

LEMMA LoadsInOrder ==
  ASSUME TransferInv
  PROVE  LoadedInOrder
<1> SUFFICES ASSUME phase = "done", transfer.to_register, ~Predecrement, ~IsMOVEP
             PROVE  /\ memory = start.memory
                    /\ \A r \in Registers :
                         LET at == Wrap(start.registers[transfer.base] + Size * Before(r))
                         IN  registers[r] =
                               CASE r = transfer.base /\ transfer.mode = "postincrement" ->
                                      Wrap(start.registers[r] + Size * Cardinality(transfer.list))
                                 [] r \in transfer.list
                                    /\ ~(r = transfer.base /\ transfer.mode = "postincrement") ->
                                      Loaded(at)
                                 [] OTHER -> start.registers[r]
  BY DEF LoadedInOrder
<1>1. /\ TransferTypes /\ MovedSoFar
      /\ address = Wrap(BaseBefore + address_delta * Cardinality(transfer.list))
      /\ \A b \in transfer.list : b < i
  BY AllMoved
<1>2. memory = start.memory /\ memory \in Memories
  BY <1>1 DEF MovedSoFar, TransferTypes
<1>3. address_delta = Size
  BY <1>1, TransferFacts
<1>4. WrittenBack <=> transfer.mode = "postincrement"
  BY <1>1, TransferFacts DEF WrittenBack, Predecrement, IsMOVEP
<1>5. ASSUME NEW r \in Registers
      PROVE  LET at == Wrap(start.registers[transfer.base] + Size * Before(r))
             IN  registers[r] =
                   CASE r = transfer.base /\ transfer.mode = "postincrement" ->
                          Wrap(start.registers[r] + Size * Cardinality(transfer.list))
                     [] r \in transfer.list
                        /\ ~(r = transfer.base /\ transfer.mode = "postincrement") -> Loaded(at)
                     [] OTHER -> start.registers[r]
  <2> DEFINE at == Wrap(start.registers[transfer.base] + Size * Before(r))
  <2>1. CASE r = transfer.base /\ transfer.mode = "postincrement"
    <3>1. registers[r] = address
      BY <1>1, <1>4, <2>1 DEF MovedSoFar
    <3> QED
      BY <1>1, <1>3, <2>1, <3>1 DEF BaseBefore
  <2>2. CASE ~(r = transfer.base /\ transfer.mode = "postincrement")
    <3>1. RegisterSoFar(r)
      BY <1>1, <1>4, <2>2 DEF MovedSoFar
    <3>2. Spot(r) = BaseBefore + Size * Before(r)
      BY <1>3 DEF Spot, Before, Count
    <3>3. Loaded(at) = LoadedFrom(memory, at) /\ at = Wrap(Spot(r)) /\ Spot(r) \in Int
      BY <1>1, <3>2, TransferFacts DEF Loaded, LoadedFrom, BaseBefore
    <3>4. Loaded(at) = LoadedFrom(start.memory, Spot(r))
      BY <1>2, <3>3, HoldsWrapped
    <3> HIDE DEF at
    <3>5. registers[r] = IF r \in transfer.list THEN Loaded(at) ELSE start.registers[r]
      BY <1>1, <3>1, <3>4 DEF RegisterSoFar
    <3>6. registers[r] = CASE r = transfer.base /\ transfer.mode = "postincrement" ->
                                Wrap(start.registers[r] + Size * Cardinality(transfer.list))
                           [] r \in transfer.list
                              /\ ~(r = transfer.base /\ transfer.mode = "postincrement") -> Loaded(at)
                           [] OTHER -> start.registers[r]
      BY <2>2, <3>5
    <3> QED
      BY <3>6 DEF at
  <2> QED
    BY <2>1, <2>2
<1> QED
  BY <1>2, <1>5

(* A MOVEP changes no byte between its own and no other register. *)
LEMMA LanesKeptApart ==
  ASSUME TransferInv
  PROVE  LanesApart
<1> DEFINE own == {Wrap(Lane(start.registers[transfer.base], k)) % (2 * MemoryWords) : k \in 0 .. Size - 1}
<1> SUFFICES ASSUME phase = "done", IsMOVEP
             PROVE  /\ \A b \in 0 .. 2 * MemoryWords - 1 :
                         b \notin own \/ transfer.to_register =>
                           ReadByte(memory, b) = ReadByte(start.memory, b)
                    /\ \A r \in Registers :
                         registers[r] \div WordValues # start.registers[r] \div WordValues =>
                           transfer.to_register /\ transfer.longword /\ r \in transfer.list
  BY DEF LanesApart
<1>1. TransferTypes /\ PairsMoved
  BY DEF TransferInv
<1>2. PICK r \in Registers : transfer.list = {r}
  BY <1>1, MovepRegister
<1>3. own = OwnBytes
  BY DEF OwnBytes, BaseBefore
<1>4. CASE ~transfer.to_register
  BY <1>1, <1>2, <1>3, <1>4 DEF PairsMoved
<1>5. CASE transfer.to_register
  <2> DEFINE v == start.registers[r]
             x == PairOf(start.memory, BaseBefore)
             n == IF transfer.longword THEN x * WordValues + PairOf(start.memory, Lane(BaseBefore, 2))
                                       ELSE (v \div WordValues) * WordValues + x
  <2>1. memory = start.memory /\ registers = [start.registers EXCEPT ![r] = n]
    BY <1>1, <1>2, <1>5 DEF PairsMoved
  <2>2. start.registers \in [Registers -> LongRange] /\ start.memory \in Memories
        /\ BaseBefore \in Int
    BY <1>1, TransferFacts DEF TransferTypes
  <2>3. v \div WordValues \in WordRange /\ x \in WordRange
    <3>1. v \in LongRange
      BY <2>2
    <3> HIDE DEF v
    <3> QED
      BY <2>2, <3>1, WordsOfLong, PairRange
  <2>4. ~transfer.longword => n \div WordValues = v \div WordValues
    <3> DEFINE h == v \div WordValues
    <3> HIDE DEF x, h
    <3>1. (h * WordValues + x) \div WordValues = h
      BY <2>3, LongOfWords DEF h
    <3> QED
      BY <3>1 DEF h
  <2> HIDE DEF n
  <2>5. ASSUME NEW q \in Registers, registers[q] \div WordValues # start.registers[q] \div WordValues
        PROVE  transfer.longword /\ q \in transfer.list
    <3>1. q = r
      BY <2>1, <2>2, <2>5
    <3>2. registers[r] = n
      BY <2>1, <2>2
    <3> QED
      BY <1>2, <2>4, <2>5, <3>1, <3>2
  <2> QED
    BY <1>5, <2>1, <2>5
<1> QED
  BY <1>4, <1>5

(* Where the mode is not predecrement, a register lies at its spot. *)
LEMMA ListedUpwards ==
  ASSUME TransferInv, phase = "done", ~IsMOVEP, ~transfer.to_register, ~Predecrement,
         NEW r \in Registers, Listed(r)
  PROVE  /\ Lowest + Size * ListedBefore(r) \in Int
         /\ Holds(memory, Lowest + Size * ListedBefore(r), start.registers[r])
<1>1. TransferTypes /\ MovedSoFar /\ \A b \in transfer.list : b < i
  BY AllMoved
<1>2. transfer.list \in SUBSET Registers /\ address_delta = Size /\ Spot(r) \in Int
  BY <1>1, TransferFacts
<1>3. r \in transfer.list /\ Lowest = BaseBefore
  BY DEF Listed, Lowest, BaseBefore
<1>4. ListedBefore(r) = Count(transfer.list, r)
  <2>1. {q \in Registers : q < r /\ Listed(q)} = {q \in transfer.list : q < r}
    BY <1>2 DEF Listed
  <2> QED
    BY <2>1 DEF ListedBefore, Count
<1>5. Lowest + Size * ListedBefore(r) = Spot(r)
  BY <1>2, <1>3, <1>4 DEF Spot
<1>6. Holds(memory, Spot(r), start.registers[MovedRegister(r, Predecrement)])
  BY <1>1, <1>3 DEF MovedSoFar, StoredSoFar
<1>7. MovedRegister(r, Predecrement) = r
  BY DEF MovedRegister
<1> QED
  BY <1>2, <1>5, <1>6, <1>7

(* With predecrement, above the address that the base is left with. *)
LEMMA ListedDownwards ==
  ASSUME TransferInv, phase = "done", ~IsMOVEP, ~transfer.to_register, Predecrement,
         NEW r \in Registers, Listed(r)
  PROVE  /\ Lowest + Size * ListedBefore(r) \in Int
         /\ Holds(memory, Lowest + Size * ListedBefore(r), start.registers[r])
<1>1. TransferTypes /\ MovedSoFar
  BY AllMoved
<1>2. transfer.list \in SUBSET Registers
  BY <1>1, TransferFacts
<1>3. Lowest = address
  BY <1>1 DEF Lowest, MovedSoFar, WrittenBack, Predecrement
<1>4. \A q \in Registers : Listed(q) <=> q \in Mirror(transfer.list)
  <2>1. \A q \in Registers : 2 * Group - 1 - q \in transfer.list <=> q \in Mirror(transfer.list)
    BY <1>2, MirrorIs
  <2> QED
    BY <2>1 DEF Listed
<1>5. ListedBefore(r) = Count(Mirror(transfer.list), r)
  <2>1. Mirror(transfer.list) \in SUBSET Registers
    BY <1>2, MirrorIs
  <2>2. {q \in Registers : q < r /\ Listed(q)} = {q \in Mirror(transfer.list) : q < r}
    BY <1>4, <2>1
  <2> QED
    BY <2>2 DEF ListedBefore, Count
<1> QED
  BY <1>1, <1>3, <1>4, <1>5, SavedSpot

LEMMA StoresInOrder ==
  ASSUME TransferInv
  PROVE  LaidOutInOrder
<1> DEFINE At(r) == Wrap(Lowest + Size * ListedBefore(r))
           Touched == {WordIndex(accesses[k]) : k \in DOMAIN accesses}
<1> SUFFICES ASSUME phase = "done", ~transfer.to_register, ~IsMOVEP
             PROVE  /\ \A r \in Registers : Listed(r) =>
                         IF transfer.longword
                         THEN ReadLongWord(memory, At(r)) = start.registers[r]
                         ELSE ReadWord(memory, At(r)) = start.registers[r] % WordValues
                    /\ \A w \in (0 .. MemoryWords - 1) \ Touched : memory[w] = start.memory[w]
                    /\ Len(accesses) = (Size \div 2) * Cardinality(transfer.list)
  BY DEF LaidOutInOrder
<1>1. TransferTypes /\ MovedSoFar /\ Moves = Cardinality(transfer.list)
  BY AllMoved
<1>2. memory \in Memories
  BY <1>1 DEF TransferTypes
<1>3. ASSUME NEW r \in Registers, Listed(r)
      PROVE  IF transfer.longword
             THEN ReadLongWord(memory, At(r)) = start.registers[r]
             ELSE ReadWord(memory, At(r)) = start.registers[r] % WordValues
  <2> DEFINE x == Lowest + Size * ListedBefore(r)
             v == start.registers[r]
  <2>1. x \in Int /\ Holds(memory, x, v)
    <3>1. CASE Predecrement
      BY <1>3, <3>1, ListedDownwards
    <3>2. CASE ~Predecrement
      BY <1>3, <3>2, ListedUpwards
    <3> QED
      BY <3>1, <3>2
  <2> HIDE DEF x, v
  <2>2. Holds(memory, Wrap(x), v)
    BY <1>2, <2>1, HoldsWrapped
  <2> QED
    BY <2>2 DEF Holds, x, v
<1>4. \A w \in (0 .. MemoryWords - 1) \ Touched : memory[w] = start.memory[w]
  <2>1. Touched = TouchedWords
    BY DEF TouchedWords
  <2> HIDE DEF Touched
  <2> QED
    BY <1>1, <2>1 DEF MovedSoFar, StoredSoFar
<1>5. Len(accesses) = (Size \div 2) * Cardinality(transfer.list)
  BY <1>1 DEF MovedSoFar, AccessesRight
<1> QED
  BY <1>3, <1>4, <1>5

(* A restore gives the registers back. *)
LEMMA ListsRestored ==
  ASSUME TransferInv, undone # Nothing, phase = "done", ~IsMOVEP
  PROVE  /\ registers[transfer.base] = undone.registers[transfer.base]
         /\ \A r \in transfer.list \ {transfer.base} :
              registers[r] = IF transfer.longword THEN undone.registers[r]
                             ELSE SignExtendWord(undone.registers[r] % WordValues)
<1>1. /\ TransferTypes /\ MovedSoFar
      /\ address = Wrap(BaseBefore + address_delta * Cardinality(transfer.list))
      /\ \A b \in transfer.list : b \in Registers /\ b < i
  BY AllMoved
<1>2. SavedIn(start.registers, start.memory)
  BY DEF TransferInv
<1>3. /\ transfer.to_register /\ transfer.mode = "postincrement" /\ ~Predecrement
         /\ WrittenBack
      /\ undone.registers \in [Registers -> LongRange]
      /\ BaseBefore = Wrap(undone.registers[transfer.base] - Size * Cardinality(transfer.list))
  BY <1>2 DEF SavedIn, BaseBefore, Predecrement, WrittenBack
<1>4. /\ address_delta = Size /\ Size \in {2, 4} /\ transfer.base \in Registers
      /\ Cardinality(transfer.list) \in Nat
  BY <1>1, <1>3, TransferFacts
<1>5. registers[transfer.base] = undone.registers[transfer.base]
  <2> DEFINE u == undone.registers[transfer.base]
             c == Cardinality(transfer.list)
             d == Size * c
             x == u - d
  <2>1. u \in LongRange
    BY <1>3, <1>4
  <2>2. d \in Int /\ address = Wrap(BaseBefore + d) /\ BaseBefore = Wrap(x)
    BY <1>1, <1>3, <1>4
  <2> HIDE DEF u, d
  <2>3. u \in Int /\ x \in Int /\ x + d = u
    <3>1. u \in Int
      BY <2>1, BusNumbers DEF LongRange
    <3> QED
      BY <2>2, <3>1
  <2> HIDE DEF x
  <2>4. Wrap(Wrap(x) + d) = Wrap(x + d)
    BY <2>2, <2>3, WrapSum
  <2>5. address = Wrap(u)
    BY <2>2, <2>3, <2>4
  <2>6. registers[transfer.base] = address
    BY <1>1, <1>3 DEF MovedSoFar
  <2> QED
    BY <2>1, <2>5, <2>6, WrapSmall DEF u
<1>6. ASSUME NEW r \in transfer.list \ {transfer.base}
      PROVE  registers[r] = IF transfer.longword THEN undone.registers[r]
                            ELSE SignExtendWord(undone.registers[r] % WordValues)
  <2>1. registers[r] = LoadedFrom(start.memory, Spot(r))
    BY <1>1, <1>3 DEF MovedSoFar, RegisterSoFar
  <2>2. Spot(r) = BaseBefore + Size * Count(transfer.list, r)
    BY <1>3, <1>4 DEF Spot
  <2>3. Holds(start.memory, BaseBefore + Size * Count(transfer.list, r), undone.registers[r])
    BY <1>2 DEF SavedIn, BaseBefore
  <2>4. Holds(start.memory, Spot(r), undone.registers[r])
    BY <2>2, <2>3
  <2> QED
    BY <2>1, <2>4 DEF Holds, LoadedFrom
<1> QED
  BY <1>5, <1>6

LEMMA PairsRestored ==
  ASSUME TransferInv, undone # Nothing, phase = "done", IsMOVEP
  PROVE  /\ registers[transfer.base] = undone.registers[transfer.base]
         /\ \A r \in transfer.list :
              registers[r] = IF transfer.longword THEN undone.registers[r]
                             ELSE undone.registers[r] % WordValues
<1>1. TransferTypes /\ PairsMoved /\ SavedIn(start.registers, start.memory)
  BY DEF TransferInv
<1>2. PICK r \in Registers : transfer.list = {r} /\ r # transfer.base
  BY <1>1, MovepRegister
<1> DEFINE u == undone.registers[r]
           x == PairOf(start.memory, BaseBefore)
           y == PairOf(start.memory, Lane(BaseBefore, 2))
           n == IF transfer.longword THEN x * WordValues + y ELSE (0 \div WordValues) * WordValues + x
<1>3. /\ transfer.to_register /\ undone.registers \in [Registers -> LongRange]
      /\ BaseBefore = undone.registers[transfer.base]
      /\ PairsHold(start.memory, BaseBefore, u) /\ start.registers[r] = 0
  BY <1>1, <1>2 DEF SavedIn, BaseBefore
<1>4. registers = [start.registers EXCEPT ![r] = n]
  BY <1>1, <1>2, <1>3 DEF PairsMoved
<1>5. n = IF transfer.longword THEN u ELSE u % WordValues
  <2>1. u \in LongRange
    BY <1>2, <1>3
  <2>2. IF transfer.longword THEN x = u \div WordValues /\ y = u % WordValues ELSE x = u % WordValues
    BY <1>3 DEF PairsHold
  <2> HIDE DEF u, x, y
  <2>3. u % WordValues \in WordRange
        /\ u = (u \div WordValues) * WordValues + (u % WordValues)
    BY <2>1, WordsOfLong
  <2>4. WordValues \in Nat \ {0} /\ 0 \div WordValues = 0
    BY BusNumbers
  <2>5. ASSUME NEW w \in WordRange  PROVE (0 \div WordValues) * WordValues + w = w
    <3>1. w \in Int
      BY BusNumbers DEF WordRange
    <3> QED
      BY <2>4, <3>1
  <2>6. CASE transfer.longword
    BY <2>2, <2>3, <2>6
  <2>7. CASE ~transfer.longword
    <3>1. x \in WordRange /\ n = (0 \div WordValues) * WordValues + x
      BY <2>2, <2>3, <2>7
    <3>2. n = x
      BY <2>5, <3>1
    <3> QED
      BY <2>2, <2>7, <3>2
  <2> QED
    BY <2>6, <2>7
<1> HIDE DEF n
<1>6. start.registers \in [Registers -> LongRange] /\ transfer.base \in Registers
  BY <1>1, TransferFacts DEF TransferTypes
<1>7. registers[r] = n /\ registers[transfer.base] = start.registers[transfer.base]
  BY <1>2, <1>4, <1>6
<1> QED
  BY <1>2, <1>3, <1>5, <1>7 DEF BaseBefore

LEMMA SavesUndone ==
  ASSUME TransferInv
  PROVE  RestoreUndoesSave
<1> SUFFICES ASSUME undone # Nothing, phase = "done"
             PROVE  /\ registers[transfer.base] = undone.registers[transfer.base]
                    /\ \A r \in transfer.list \ {transfer.base} :
                         registers[r] =
                           CASE transfer.longword -> undone.registers[r]
                             [] ~transfer.longword
                             /\ IsMOVEP -> undone.registers[r] % WordValues
                             [] OTHER -> SignExtendWord(undone.registers[r] % WordValues)
  BY DEF RestoreUndoesSave
<1>1. CASE IsMOVEP
  BY <1>1, PairsRestored
<1>2. CASE ~IsMOVEP
  BY <1>2, ListsRestored
<1> QED
  BY <1>1, <1>2

(* Registers lie in memory in their order, are loaded in their order and   *)
(* come back as they were, for any list, and the base keeps its place; an  *)
(* odd address is found before anything has changed.                       *)
THEOREM TransfersRight == TransferSpec => []TransfersKept
<1>1. TransferInv => TransfersKept
  BY StoresInOrder, LoadsInOrder, SavesUndone, LanesKeptApart, InOrder,
       FaultsTouchNothing DEF TransfersKept
<1> QED
  BY <1>1, TransfersHold, PTL
================================================================================
