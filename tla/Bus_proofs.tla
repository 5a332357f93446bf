------------------------------ MODULE Bus_proofs ------------------------------
(***************************************************************************)
(* Lemmas about memory on the bus, for bytes of any even number of values  *)
(* and any number of words that divides the address space: what is written *)
(* is read again, at the address and at those that wrap to it, and nothing *)
(* else has changed.                                                       *)
(***************************************************************************)
EXTENDS Bus, TLAPS

(***************************************************************************)
(* Quotients and remainders.                                               *)
(***************************************************************************)

LEMMA DividedBy ==
  ASSUME NEW x \in Int, NEW n \in Nat \ {0}
  PROVE  x \div n \in Int /\ x % n \in 0 .. n - 1 /\ x = (x \div n) * n + (x % n)
OBVIOUS

LEMMA OneRemainder ==
  ASSUME NEW x, NEW n \in Nat \ {0}, NEW q \in Int, NEW r \in 0 .. n - 1,
         x = q * n + r
  PROVE  x \div n = q /\ x % n = r
OBVIOUS

(* Two numbers with one remainder are apart by a multiple of the divisor. *)
LEMMA SameRemainder ==
  ASSUME NEW x \in Int, NEW y \in Int, NEW n \in Nat \ {0}, x % n = y % n,
         x - y < n, y - x < n
  PROVE  x = y
<1> DEFINE p == x \div n
           q == y \div n
           r == x % n
<1>1. p \in Int /\ q \in Int /\ r \in Int /\ x = p * n + r /\ y = q * n + r
  BY DividedBy
<1> HIDE DEF p, q, r
<1>2. (p - q) * n < n /\ (q - p) * n < n
  BY <1>1
<1>3. p - q < 1
  <2>1. SUFFICES ASSUME p - q >= 1  PROVE FALSE
    BY <1>1
  <2> QED
    BY <1>1, <1>2, <2>1
<1>4. q - p < 1
  <2>1. SUFFICES ASSUME q - p >= 1  PROVE FALSE
    BY <1>1
  <2> QED
    BY <1>1, <1>2, <2>1
<1> QED
  BY <1>1, <1>3, <1>4

(***************************************************************************)
(* Sizes and addresses.                                                    *)
(***************************************************************************)

LEMMA BusNumbers ==
  /\ ByteValues \in Nat /\ ByteValues >= 2
  /\ WordValues \in Nat /\ WordValues = ByteValues * ByteValues /\ WordValues >= 4
  /\ LongValues \in Nat /\ LongValues = WordValues * WordValues /\ LongValues >= 16
  /\ MemoryWords \in Nat /\ MemoryWords >= 2
  /\ \E q \in Nat : q >= 1 /\ LongValues = q * (2 * MemoryWords)
<1>1. ByteValues \in Nat /\ ByteValues >= 2 /\ MemoryWords \in Nat /\ MemoryWords >= 2
  BY BusAssumption
<1>2. WordValues \in Nat /\ WordValues = ByteValues * ByteValues /\ WordValues >= 4
  BY <1>1 DEF WordValues
<1>3. LongValues \in Nat /\ LongValues = WordValues * WordValues /\ LongValues >= 16
  BY <1>2 DEF LongValues
<1> DEFINE n == 2 * MemoryWords
           q == LongValues \div n
<1>a. LongValues % n = 0
  BY BusAssumption
<1>b. n \in Nat \ {0}
  BY <1>1
<1>4. LongValues % n = 0 /\ n \in Nat \ {0}
  BY <1>a, <1>b
<1> HIDE DEF n
<1>5. q \in Int /\ LongValues = q * n + (LongValues % n)
  <2>1. \A x \in Int : x \div n \in Int /\ x = (x \div n) * n + (x % n)
    BY <1>4
  <2> QED
    BY <1>3, <2>1
<1> HIDE DEF q
<1>6. LongValues = q * n
  BY <1>3, <1>4, <1>5
<1>7. q >= 1
  <2>1. SUFFICES ASSUME q <= 0  PROVE FALSE
    BY <1>5
  <2>2. q * n <= 0
    BY <1>4, <1>5, <2>1
  <2> QED
    BY <1>3, <1>6, <2>2
<1>8. q \in Nat /\ LongValues = q * (2 * MemoryWords)
  BY <1>5, <1>6, <1>7 DEF n
<1> QED
  BY <1>1, <1>2, <1>3, <1>7, <1>8

LEMMA WrapRange ==
  ASSUME NEW x \in Int
  PROVE  Wrap(x) \in LongRange /\ Wrap(x) \in Int
BY BusNumbers DEF Wrap, LongRange

LEMMA WrapSmall ==
  ASSUME NEW x \in LongRange
  PROVE  Wrap(x) = x
<1>1. x \in Int /\ x \in 0 .. LongValues - 1
  BY BusNumbers DEF LongRange
<1>2. x = 0 * LongValues + x
  BY <1>1, BusNumbers
<1> QED
  BY <1>1, <1>2, BusNumbers, OneRemainder DEF Wrap

(* What was wrapped has lost a multiple of the address space. *)
LEMMA Unwrapped ==
  ASSUME NEW x \in Int
  PROVE  \E q \in Int : x = q * LongValues + Wrap(x)
<1>1. LongValues \in Nat \ {0}
  BY BusNumbers
<1>2. x \div LongValues \in Int /\ x = (x \div LongValues) * LongValues + (x % LongValues)
  BY <1>1, DividedBy
<1> QED
  BY <1>2 DEF Wrap

LEMMA WrapMultiple ==
  ASSUME NEW x \in Int, NEW q \in Int
  PROVE  Wrap(q * LongValues + x) = Wrap(x)
<1> DEFINE r == Wrap(x)
<1>1. PICK p \in Int : x = p * LongValues + r
  BY Unwrapped
<1>2. r \in 0 .. LongValues - 1
  BY WrapRange DEF LongRange
<1> HIDE DEF r
<1>3. q * LongValues + x = (q + p) * LongValues + r
  BY <1>1, <1>2, BusNumbers
<1>4. q * LongValues + x \in Int /\ q + p \in Int /\ LongValues \in Nat \ {0}
  BY BusNumbers
<1>5. (q * LongValues + x) % LongValues = r
  BY <1>2, <1>3, <1>4, OneRemainder
<1> QED
  BY <1>5 DEF r, Wrap

LEMMA WrapSum ==
  ASSUME NEW x \in Int, NEW y \in Int
  PROVE  Wrap(Wrap(x) + y) = Wrap(x + y) /\ Wrap(y + Wrap(x)) = Wrap(x + y)
<1>1. PICK q \in Int : x = q * LongValues + Wrap(x)
  BY Unwrapped
<1>2. Wrap(x) \in Int /\ q * LongValues \in Int
  BY WrapRange, BusNumbers
<1>3. x + y = q * LongValues + (Wrap(x) + y) /\ y + Wrap(x) = Wrap(x) + y
  BY <1>1, <1>2
<1> QED
  BY <1>2, <1>3, WrapMultiple

LEMMA WrapSame ==
  ASSUME NEW x \in Int, NEW y \in Int, Wrap(x) = Wrap(y), x - y < LongValues,
         y - x < LongValues
  PROVE  x = y
BY BusNumbers, SameRemainder DEF Wrap

(***************************************************************************)
(* Words.                                                                  *)
(***************************************************************************)

LEMMA HalfOf ==
  ASSUME NEW x \in Int
  PROVE  /\ x \div 2 \in Int /\ x % 2 \in {0, 1} /\ x = 2 * (x \div 2) + (x % 2)
         /\ (x + 2) \div 2 = (x \div 2) + 1 /\ (x + 2) % 2 = x % 2
         /\ \A q \in Int : (2 * q + x) \div 2 = q + (x \div 2) /\ (2 * q + x) % 2 = x % 2
OBVIOUS

LEMMA IndexRange ==
  ASSUME NEW x \in Int
  PROVE  WordIndex(x) \in 0 .. MemoryWords - 1
<1>1. x \div 2 \in Int
  BY HalfOf
<1> QED
  BY <1>1, BusNumbers, DividedBy DEF WordIndex

LEMMA RemainderOfSum ==
  ASSUME NEW x \in Int, NEW q \in Int, NEW n \in Nat \ {0}
  PROVE  (q * n + x) % n = x % n
<1> DEFINE p == x \div n
           r == x % n
<1>1. p \in Int /\ r \in 0 .. n - 1 /\ x = p * n + r
  BY DividedBy
<1> HIDE DEF p, r
<1>2. q * n + x = (q + p) * n + r /\ q + p \in Int /\ q * n + x \in Int
  BY <1>1
<1>3. (q * n + x) % n = r
  BY <1>1, <1>2, OneRemainder
<1> QED
  BY <1>3 DEF r

(* The bus sees the address of a register. *)
LEMMA IndexOfWrapped ==
  ASSUME NEW x \in Int
  PROVE  WordIndex(Wrap(x)) = WordIndex(x) /\ Odd(Wrap(x)) = Odd(x)
<1>1. PICK p \in Int : x = p * LongValues + Wrap(x)
  BY Unwrapped
<1>2. PICK q \in Nat : LongValues = q * (2 * MemoryWords)
  BY BusNumbers
<1> DEFINE r == Wrap(x)
           k == p * q
<1>3. r \in Int /\ k \in Int
  BY WrapRange
<1>4. x = 2 * (k * MemoryWords) + r
  BY <1>1, <1>2, BusNumbers
<1> HIDE DEF r, k
<1>5. k * MemoryWords \in Int
  BY <1>3, BusNumbers
<1> DEFINE h == k * MemoryWords
<1>h. h \in Int /\ x = 2 * h + r
  BY <1>4, <1>5
<1> HIDE DEF h
<1>6. x \div 2 = h + (r \div 2) /\ x % 2 = r % 2 /\ r \div 2 \in Int
  <2>1. (2 * h + r) \div 2 = h + (r \div 2) /\ (2 * h + r) % 2 = r % 2
    BY <1>3, <1>h, HalfOf
  <2>2. r \div 2 \in Int
    BY <1>3, HalfOf
  <2> QED
    BY <1>h, <2>1, <2>2
<1>7. (x \div 2) % MemoryWords = (r \div 2) % MemoryWords
  <2>1. MemoryWords \in Nat \ {0}
    BY BusNumbers
  <2>2. \A y \in Int : (k * MemoryWords + y) % MemoryWords = y % MemoryWords
    BY <1>3, <2>1, RemainderOfSum
  <2> QED
    BY <1>6, <2>2 DEF h
<1> QED
  BY <1>6, <1>7 DEF WordIndex, Odd, r

(* Two addresses not too far apart are in one word only if they are in one *)
(* word of an address space that has no end.                               *)
LEMMA IndicesApart ==
  ASSUME NEW x \in Int, NEW y \in Int, WordIndex(x) = WordIndex(y),
         (x \div 2) - (y \div 2) < MemoryWords, (y \div 2) - (x \div 2) < MemoryWords
  PROVE  x \div 2 = y \div 2
<1>1. x \div 2 \in Int /\ y \div 2 \in Int /\ MemoryWords \in Nat \ {0}
  BY HalfOf, BusNumbers
<1> QED
  BY <1>1, SameRemainder DEF WordIndex

(* The two words of a longword. *)
LEMMA NextIndex ==
  ASSUME NEW x \in Int
  PROVE  WordIndex(x + 2) # WordIndex(x)
<1>1. x + 2 \in Int /\ (x + 2) \div 2 = (x \div 2) + 1 /\ x \div 2 \in Int
  BY HalfOf
<1>2. SUFFICES ASSUME WordIndex(x + 2) = WordIndex(x)  PROVE FALSE
  OBVIOUS
<1>3. (x + 2) \div 2 = x \div 2
  BY <1>1, <1>2, BusNumbers, IndicesApart
<1> QED
  BY <1>1, <1>3

(***************************************************************************)
(* Bytes of words, words of longwords.                                     *)
(***************************************************************************)

LEMMA BytesOfWord ==
  ASSUME NEW v \in WordRange
  PROVE  /\ v \div ByteValues \in ByteRange /\ v % ByteValues \in ByteRange
         /\ v = (v \div ByteValues) * ByteValues + (v % ByteValues)
<1>1. v \in Int /\ v >= 0 /\ v < ByteValues * ByteValues /\ ByteValues \in Nat \ {0}
  BY BusNumbers DEF WordRange
<1> DEFINE q == v \div ByteValues
           r == v % ByteValues
<1>2. q \in Int /\ r \in 0 .. ByteValues - 1 /\ v = q * ByteValues + r
  BY <1>1, DividedBy
<1> HIDE DEF q, r
<1>3. q >= 0
  <2>1. SUFFICES ASSUME q <= -1  PROVE FALSE
    BY <1>2
  <2>2. q * ByteValues <= -ByteValues
    BY <1>1, <1>2, <2>1
  <2> QED
    BY <1>1, <1>2, <2>2
<1>4. q < ByteValues
  <2>1. SUFFICES ASSUME q >= ByteValues  PROVE FALSE
    BY <1>1, <1>2
  <2>2. q * ByteValues >= ByteValues * ByteValues
    BY <1>1, <1>2, <2>1
  <2> QED
    BY <1>1, <1>2, <2>2
<1> QED
  BY <1>1, <1>2, <1>3, <1>4 DEF q, r, ByteRange

LEMMA WordOfBytes ==
  ASSUME NEW h \in ByteRange, NEW l \in ByteRange
  PROVE  /\ h * ByteValues + l \in WordRange
         /\ (h * ByteValues + l) \div ByteValues = h
            /\ (h * ByteValues + l) % ByteValues = l
<1>1. h \in Int /\ 0 <= h /\ h <= ByteValues - 1 /\ l \in 0 .. ByteValues - 1
      /\ ByteValues \in Nat \ {0}
  BY BusNumbers DEF ByteRange
<1>2. h * ByteValues <= (ByteValues - 1) * ByteValues /\ h * ByteValues >= 0
      /\ h * ByteValues \in Int
  BY <1>1
<1>3. (ByteValues - 1) * ByteValues = WordValues - ByteValues
  BY <1>1, BusNumbers
<1>4. h * ByteValues + l \in WordRange
  BY <1>1, <1>2, <1>3, BusNumbers DEF WordRange
<1> QED
  BY <1>1, <1>2, <1>4, OneRemainder

LEMMA WordsOfLong ==
  ASSUME NEW v \in LongRange
  PROVE  /\ v \div WordValues \in WordRange /\ v % WordValues \in WordRange
         /\ v = (v \div WordValues) * WordValues + (v % WordValues)
<1>1. v \in Int /\ v >= 0 /\ v < WordValues * WordValues /\ WordValues \in Nat \ {0}
  BY BusNumbers DEF LongRange
<1> DEFINE q == v \div WordValues
           r == v % WordValues
<1>2. q \in Int /\ r \in 0 .. WordValues - 1 /\ v = q * WordValues + r
  BY <1>1, DividedBy
<1> HIDE DEF q, r
<1>3. q >= 0
  <2>1. SUFFICES ASSUME q <= -1  PROVE FALSE
    BY <1>2
  <2>2. q * WordValues <= -WordValues
    BY <1>1, <1>2, <2>1
  <2> QED
    BY <1>1, <1>2, <2>2
<1>4. q < WordValues
  <2>1. SUFFICES ASSUME q >= WordValues  PROVE FALSE
    BY <1>1, <1>2
  <2>2. q * WordValues >= WordValues * WordValues
    BY <1>1, <1>2, <2>1
  <2> QED
    BY <1>1, <1>2, <2>2
<1> QED
  BY <1>1, <1>2, <1>3, <1>4 DEF q, r, WordRange

LEMMA LongOfWords ==
  ASSUME NEW h \in WordRange, NEW l \in WordRange
  PROVE  /\ h * WordValues + l \in LongRange
         /\ (h * WordValues + l) \div WordValues = h
            /\ (h * WordValues + l) % WordValues = l
<1>1. h \in Int /\ 0 <= h /\ h <= WordValues - 1 /\ l \in 0 .. WordValues - 1
      /\ WordValues \in Nat \ {0}
  BY BusNumbers DEF WordRange
<1>2. h * WordValues <= (WordValues - 1) * WordValues /\ h * WordValues >= 0
      /\ h * WordValues \in Int
  BY <1>1
<1>3. (WordValues - 1) * WordValues = LongValues - WordValues
  BY <1>1, BusNumbers
<1>4. h * WordValues + l \in LongRange
  BY <1>1, <1>2, <1>3, BusNumbers DEF LongRange
<1> QED
  BY <1>1, <1>2, <1>4, OneRemainder

(***************************************************************************)
(* Memory.                                                                 *)
(***************************************************************************)

LEMMA WordRead ==
  ASSUME NEW m \in Memories, NEW a \in Int
  PROVE  ReadWord(m, a) \in WordRange /\ ReadWord(m, a) = m[WordIndex(a)]
BY IndexRange DEF ReadWord, Memories

LEMMA LongRead ==
  ASSUME NEW m \in Memories, NEW a \in Int
  PROVE  /\ ReadLongWord(m, a) \in LongRange
         /\ ReadLongWord(m, a) = m[WordIndex(a)] * WordValues + m[WordIndex(a + 2)]
<1>1. a + 2 \in Int
  OBVIOUS
<1>2. ReadWord(m, a) \in WordRange /\ ReadWord(m, a + 2) \in WordRange
      /\ ReadWord(m, a) = m[WordIndex(a)] /\ ReadWord(m, a + 2) = m[WordIndex(a + 2)]
  BY <1>1, WordRead
<1> QED
  BY <1>2, LongOfWords DEF ReadLongWord

LEMMA ByteRead ==
  ASSUME NEW m \in Memories, NEW a \in Int
  PROVE  ReadByte(m, a) \in ByteRange
<1>1. m[WordIndex(a)] \in WordRange
  BY WordRead
<1> QED
  BY <1>1, BytesOfWord DEF ReadByte

(* What the callback leaves, of both halves and of one. *)
LEMMA WordWritten ==
  ASSUME NEW m \in Memories, NEW a \in Int, NEW v \in Int
  PROVE  /\ WriteWord(m, a, v) \in Memories
         /\ v % WordValues \in WordRange
         /\ WriteWord(m, a, v) = [m EXCEPT ![WordIndex(a)] = v % WordValues]
<1>1. v % WordValues \in WordRange
  <2>1. WordValues \in Nat \ {0}
    BY BusNumbers
  <2> QED
    BY <2>1 DEF WordRange
<1> DEFINE u == v % WordValues
<1> HIDE DEF u
<1>2. u \in WordRange /\ u = (u \div ByteValues) * ByteValues + (u % ByteValues)
  BY <1>1, BytesOfWord DEF u
<1>3. WriteWord(m, a, v) = [m EXCEPT ![WordIndex(a)] = u]
  <2>1. WriteWord(m, a, v) =
          [m EXCEPT ![WordIndex(a)] = (u \div ByteValues) * ByteValues + (u % ByteValues)]
    BY DEF WriteWord, write_callback, u
  <2> QED
    BY <1>2, <2>1
<1>4. [m EXCEPT ![WordIndex(a)] = u] \in Memories
  BY <1>2, IndexRange DEF Memories
<1> QED
  BY <1>1, <1>3, <1>4 DEF u

LEMMA ByteWritten ==
  ASSUME NEW m \in Memories, NEW a \in Int, NEW b \in ByteRange
  PROVE  /\ WriteByte(m, a, b) \in Memories
         /\ WriteByte(m, a, b) =
              [m EXCEPT ![WordIndex(a)] =
                 IF Odd(a) THEN (m[WordIndex(a)] \div ByteValues) * ByteValues + b
                           ELSE b * ByteValues + (m[WordIndex(a)] % ByteValues)]
<1> DEFINE w == m[WordIndex(a)]
           h == w \div ByteValues
           l == w % ByteValues
<1>1. w \in WordRange /\ h \in ByteRange /\ l \in ByteRange
  BY WordRead, BytesOfWord
<1>2. (b * ByteValues + b) \div ByteValues = b /\ (b * ByteValues + b) % ByteValues = b
  BY WordOfBytes
<1>3. WriteByte(m, a, b) =
        [m EXCEPT ![WordIndex(a)] = IF Odd(a) THEN h * ByteValues + b ELSE b * ByteValues + l]
  BY <1>2 DEF WriteByte, write_callback
<1>4. h * ByteValues + b \in WordRange /\ b * ByteValues + l \in WordRange
  BY <1>1, WordOfBytes
<1>5. WriteByte(m, a, b) \in Memories
  BY <1>3, <1>4, IndexRange DEF Memories
<1> QED
  BY <1>3, <1>5

(* The bytes of a word that one of them was written to. *)
LEMMA ByteOfWritten ==
  ASSUME NEW m \in Memories, NEW a \in Int, NEW b \in ByteRange, NEW c \in Int
  PROVE  ReadByte(WriteByte(m, a, b), c) =
           IF WordIndex(c) = WordIndex(a) /\ (Odd(c) <=> Odd(a)) THEN b ELSE ReadByte(m, c)
<1> DEFINE w == m[WordIndex(a)]
           h == w \div ByteValues
           l == w % ByteValues
           n == WriteByte(m, a, b)
<1>1. w \in WordRange /\ h \in ByteRange /\ l \in ByteRange
  BY WordRead, BytesOfWord
<1>2. n = [m EXCEPT ![WordIndex(a)] = IF Odd(a) THEN h * ByteValues + b ELSE b * ByteValues + l]
  BY ByteWritten
<1>3. /\ (h * ByteValues + b) \div ByteValues = h /\ (h * ByteValues + b) % ByteValues = b
      /\ (b * ByteValues + l) \div ByteValues = b /\ (b * ByteValues + l) % ByteValues = l
  BY <1>1, WordOfBytes
<1>4. WordIndex(a) \in DOMAIN m /\ WordIndex(c) \in DOMAIN m
  BY IndexRange DEF Memories
<1> HIDE DEF n
<1>5. CASE WordIndex(c) # WordIndex(a)
  <2>1. n[WordIndex(c)] = m[WordIndex(c)]
    BY <1>2, <1>4, <1>5
  <2> QED
    BY <1>5, <2>1 DEF ReadByte, n
<1>6. CASE WordIndex(c) = WordIndex(a)
  <2>1. n[WordIndex(c)] = IF Odd(a) THEN h * ByteValues + b ELSE b * ByteValues + l
    BY <1>2, <1>4, <1>6
  <2>2. ReadByte(m, c) = IF Odd(c) THEN l ELSE h
    BY <1>6 DEF ReadByte
  <2> HIDE DEF h, l
  <2>3. ReadByte(n, c) = IF Odd(c) THEN n[WordIndex(c)] % ByteValues
                                   ELSE n[WordIndex(c)] \div ByteValues
    BY DEF ReadByte
  <2>4. CASE Odd(a)
    <3>1. n[WordIndex(c)] = h * ByteValues + b
      BY <2>1, <2>4
    <3> QED
      BY <1>3, <1>6, <2>2, <2>3, <2>4, <3>1 DEF n
  <2>5. CASE ~Odd(a)
    <3>1. n[WordIndex(c)] = b * ByteValues + l
      BY <2>1, <2>5
    <3> QED
      BY <1>3, <1>6, <2>2, <2>3, <2>5, <3>1 DEF n
  <2> QED
    BY <2>4, <2>5
<1> QED
  BY <1>5, <1>6

(* A longword is written word by word, in either order, and nothing else   *)
(* of memory is changed, across its end too (WriteLongWord and             *)
(* WriteLongWordBackwards).                                                *)
THEOREM LongWritten ==
  ASSUME NEW m \in Memories, NEW a \in Int, NEW v \in LongRange
  PROVE  /\ WriteLongWord(m, a, v) \in Memories
         /\ WriteLongWordBackwards(m, a, v) = WriteLongWord(m, a, v)
         /\ \A w \in 0 .. MemoryWords - 1 :
              WriteLongWord(m, a, v)[w] =
                CASE w = WordIndex(a) -> v \div WordValues
                  [] w = WordIndex(a + 2) -> v % WordValues
                  [] OTHER -> m[w]
<1> DEFINE h == v \div WordValues
           l == v % WordValues
           p == WordIndex(a)
           q == WordIndex(a + 2)
<1>1. h \in WordRange /\ l \in WordRange /\ v \in Int
  <2>1. v \in Int
    BY BusNumbers DEF LongRange
  <2> QED
    BY <2>1, WordsOfLong
<1>2. h \in Int /\ h % WordValues = h
  <2>1. h \in 0 .. WordValues - 1 /\ WordValues \in Nat \ {0}
    BY <1>1, BusNumbers DEF WordRange
  <2> HIDE DEF h
  <2>2. h = 0 * WordValues + h
    BY <2>1
  <2> QED
    BY <2>1, <2>2, OneRemainder
<1>3. p \in 0 .. MemoryWords - 1 /\ q \in 0 .. MemoryWords - 1 /\ p # q /\ a + 2 \in Int
  BY IndexRange, NextIndex
<1> DEFINE first == [m EXCEPT ![p] = h]
           last == [m EXCEPT ![q] = l]
<1>4. WriteWord(m, a, h) = first /\ first \in Memories
  BY <1>1, <1>2, WordWritten
<1>5. WriteWord(m, a + 2, v) = last /\ last \in Memories
  BY <1>1, <1>3, WordWritten
<1> HIDE DEF h, l, p, q
<1>6. WriteLongWord(m, a, v) = [first EXCEPT ![q] = l]
      /\ WriteLongWord(m, a, v) \in Memories
  <2> HIDE DEF first
  <2>1. WriteLongWord(m, a, v) = WriteWord(first, a + 2, v)
    BY <1>4 DEF WriteLongWord, h
  <2>2. /\ WriteWord(first, a + 2, v) \in Memories
        /\ WriteWord(first, a + 2, v) = [first EXCEPT ![WordIndex(a + 2)] = v % WordValues]
    BY <1>1, <1>3, <1>4, WordWritten
  <2> QED
    BY <2>1, <2>2 DEF l, q
<1>7. WriteLongWordBackwards(m, a, v) = [last EXCEPT ![p] = h]
  <2> HIDE DEF last
  <2>1. WriteLongWordBackwards(m, a, v) = WriteWord(last, a, h)
    BY <1>5 DEF WriteLongWordBackwards, h
  <2>2. WriteWord(last, a, h) = [last EXCEPT ![WordIndex(a)] = h % WordValues]
    BY <1>2, <1>5, WordWritten
  <2> QED
    BY <1>2, <2>1, <2>2 DEF p
<1>8. DOMAIN m = 0 .. MemoryWords - 1
  BY DEF Memories
<1>9. [first EXCEPT ![q] = l] = [last EXCEPT ![p] = h]
  BY <1>3, <1>8
<1>10. \A w \in 0 .. MemoryWords - 1 :
         [first EXCEPT ![q] = l][w] = CASE w = p -> h [] w = q -> l [] OTHER -> m[w]
  BY <1>3, <1>8
<1> QED
  BY <1>6, <1>7, <1>9, <1>10 DEF h, l, p, q

(* What is written as a longword is what is read there (WriteLongWord,      *)
(* ReadLongWord).                                                          *)
THEOREM LongReadBack ==
  ASSUME NEW m \in Memories, NEW a \in Int, NEW v \in LongRange
  PROVE  ReadLongWord(WriteLongWord(m, a, v), a) = v
<1>1. WordIndex(a) \in 0 .. MemoryWords - 1 /\ WordIndex(a + 2) \in 0 .. MemoryWords - 1
      /\ WordIndex(a + 2) # WordIndex(a)
  BY IndexRange, NextIndex
<1>2. /\ WriteLongWord(m, a, v)[WordIndex(a)] = v \div WordValues
      /\ WriteLongWord(m, a, v)[WordIndex(a + 2)] = v % WordValues
  BY <1>1, LongWritten
<1>3. v = (v \div WordValues) * WordValues + (v % WordValues)
  BY WordsOfLong
<1> QED
  BY <1>2, <1>3 DEF ReadLongWord, ReadWord

(* Reading takes no notice of how often the address space was gone round.  *)
LEMMA ReadsWrap ==
  ASSUME NEW m, NEW a \in Int
  PROVE  /\ WordIndex(Wrap(a)) = WordIndex(a) /\ Odd(Wrap(a)) = Odd(a)
         /\ ReadByte(m, Wrap(a)) = ReadByte(m, a)
         /\ ReadWord(m, Wrap(a)) = ReadWord(m, a)
         /\ ReadLongWord(m, Wrap(a)) = ReadLongWord(m, a)
         /\ WordIndex(Wrap(a) + 2) = WordIndex(a + 2)
<1>1. WordIndex(Wrap(a)) = WordIndex(a) /\ Odd(Wrap(a)) = Odd(a)
  BY IndexOfWrapped
<1>2. WordIndex(Wrap(a) + 2) = WordIndex(a + 2)
  <2>1. Wrap(a) + 2 \in Int /\ a + 2 \in Int
    BY WrapRange
  <2>2. Wrap(Wrap(a) + 2) = Wrap(a + 2)
    BY WrapSum
  <2>3. WordIndex(Wrap(Wrap(a) + 2)) = WordIndex(Wrap(a) + 2)
    BY <2>1, IndexOfWrapped
  <2>4. WordIndex(Wrap(a + 2)) = WordIndex(a + 2)
    BY <2>1, IndexOfWrapped
  <2> QED
    BY <2>2, <2>3, <2>4
<1>3. ReadByte(m, Wrap(a)) = ReadByte(m, a)
  BY <1>1, Zenon DEF ReadByte
<1>4. ReadWord(m, Wrap(a)) = ReadWord(m, a) /\ ReadWord(m, Wrap(a) + 2) = ReadWord(m, a + 2)
  BY <1>1, <1>2, Zenon DEF ReadWord
<1>5. ReadLongWord(m, Wrap(a)) = ReadLongWord(m, a)
  BY <1>4, Zenon DEF ReadLongWord
<1> QED
  BY <1>1, <1>2, <1>3, <1>4, <1>5

LEMMA WritesWrap ==
  ASSUME NEW m, NEW a \in Int, NEW v
  PROVE  /\ WriteByte(m, Wrap(a), v) = WriteByte(m, a, v)
         /\ WriteWord(m, Wrap(a), v) = WriteWord(m, a, v)
         /\ WriteLongWord(m, Wrap(a), v) = WriteLongWord(m, a, v)
<1>1. /\ WordIndex(Wrap(a)) = WordIndex(a) /\ Odd(Wrap(a)) = Odd(a)
      /\ WordIndex(Wrap(a) + 2) = WordIndex(a + 2)
  BY ReadsWrap
<1>2. WriteByte(m, Wrap(a), v) = WriteByte(m, a, v)
  BY <1>1, Zenon DEF WriteByte
<1>3. WriteWord(m, Wrap(a), v) = WriteWord(m, a, v)
  BY <1>1, Zenon DEF WriteWord
<1>4. \A n : WriteWord(n, Wrap(a) + 2, v) = WriteWord(n, a + 2, v)
  BY <1>1, Zenon DEF WriteWord
<1>5. WriteWord(m, Wrap(a), v \div WordValues) = WriteWord(m, a, v \div WordValues)
  BY <1>1, Zenon DEF WriteWord
<1>6. WriteLongWord(m, Wrap(a), v) = WriteLongWord(m, a, v)
  <2> DEFINE n == WriteWord(m, a, v \div WordValues)
  <2>1. WriteLongWord(m, Wrap(a), v) = WriteWord(n, Wrap(a) + 2, v)
    BY <1>5, Zenon DEF WriteLongWord
  <2>2. WriteLongWord(m, a, v) = WriteWord(n, a + 2, v)
    BY Zenon DEF WriteLongWord
  <2> QED
    BY <1>4, <2>1, <2>2, Zenon
<1> QED
  BY <1>2, <1>3, <1>6

(* The byte that an address is of. *)
LEMMA ByteOfAddress ==
  ASSUME NEW a \in Int, NEW b \in 0 .. 2 * MemoryWords - 1,
         WordIndex(b) = WordIndex(a), Odd(b) <=> Odd(a)
  PROVE  b = Wrap(a) % (2 * MemoryWords)
<1> DEFINE n == 2 * MemoryWords
           w == Wrap(a)
           c == w % n
<1>1. MemoryWords \in Nat \ {0} /\ n \in Nat \ {0} /\ b \in Int
  BY BusNumbers
<1>2. w \in Int /\ WordIndex(w) = WordIndex(a) /\ (Odd(w) <=> Odd(a))
  BY WrapRange, ReadsWrap DEF Odd
<1> HIDE DEF w
<1>3. c \in 0 .. n - 1 /\ w \div n \in Int /\ w = (w \div n) * n + c
  BY <1>1, <1>2
<1> DEFINE q == w \div n
<1> HIDE DEF c, q
<1>4. c \in Int /\ q \in Int /\ w = 2 * (q * MemoryWords) + c /\ q * MemoryWords \in Int
  BY <1>1, <1>3 DEF q
<1> DEFINE k == q * MemoryWords
<1>5. k \in Int /\ w = 2 * k + c
  BY <1>4
<1>6. w \div 2 = k + (c \div 2) /\ w % 2 = c % 2
  <2> HIDE DEF k
  <2> QED
    BY <1>4, <1>5, HalfOf
<1>7. c \div 2 \in 0 .. MemoryWords - 1 /\ b \div 2 \in 0 .. MemoryWords - 1
  BY <1>1, <1>3
<1>8. WordIndex(w) = c \div 2 /\ WordIndex(b) = b \div 2
  <2> DEFINE h == c \div 2
  <2>1. h \in Int /\ h \in 0 .. MemoryWords - 1
    BY <1>7
  <2>2. WordIndex(w) = (q * MemoryWords + h) % MemoryWords
    BY <1>6 DEF WordIndex
  <2> HIDE DEF h
  <2>3. (q * MemoryWords + h) % MemoryWords = h % MemoryWords /\ h % MemoryWords = h
    <3>1. MemoryWords \in Nat \ {0} /\ q \in Int /\ h \in Int /\ h \in 0 .. MemoryWords - 1
      BY <1>1, <1>4, <2>1
    <3>2. (q * MemoryWords + h) % MemoryWords = h % MemoryWords
      BY <3>1, RemainderOfSum
    <3>3. h % MemoryWords = h
      BY <3>1
    <3> QED
      BY <3>2, <3>3
  <2>4. WordIndex(b) = b \div 2
    BY <1>1, <1>7 DEF WordIndex
  <2> QED
    BY <2>2, <2>3, <2>4 DEF h
<1>9. b \div 2 = c \div 2 /\ b % 2 = c % 2
  <2>1. b % 2 \in {0, 1} /\ c % 2 \in {0, 1}
    BY <1>1, <1>4
  <2>2. (b % 2 = 1) <=> (c % 2 = 1)
    BY <1>2, <1>6 DEF Odd
  <2> QED
    BY <1>2, <1>8, <2>1, <2>2
<1>10. b = c
  BY <1>1, <1>4, <1>9
<1> QED
  BY <1>10 DEF c, w

================================================================================
