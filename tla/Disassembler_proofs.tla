------------------------- MODULE Disassembler_proofs -------------------------
(***************************************************************************)
(* Theorems about Disassembler, for every set of opcodes and listings of   *)
(* any length; and about RegisterList, for groups of any size.             *)
(***************************************************************************)
EXTENDS Disassembler, RegisterList, OperandLayout_proofs

(***************************************************************************)
(* The list of registers.                                                  *)
(***************************************************************************)

Pairs == Int \X Int

ShownBy(s) == UNION {s[n][1] .. s[n][2] : n \in DOMAIN s}

Apart(s) ==
  \A n \in DOMAIN s : s[n][1] <= s[n][2] /\ (n > 1 => s[n - 1][2] + 1 < s[n][1])

(* A range behind the others. *)
LEMMA Appended ==
  ASSUME NEW s \in Seq(Pairs), NEW a \in Int, NEW b \in Int
  PROVE  LET t == Append(s, <<a, b>>)
         IN  /\ t \in Seq(Pairs) /\ t # <<>>
             /\ t[Len(t)] = <<a, b>>
             /\ ShownBy(t) = ShownBy(s) \cup (a .. b)
             /\ Apart(s) /\ a <= b /\ (s # <<>> => s[Len(s)][2] + 1 < a) => Apart(t)
<1> DEFINE new == <<a, b>>
           t == Append(s, new)
<1>0. new \in Pairs /\ new[1] = a /\ new[2] = b
  BY DEF Pairs
<1> HIDE DEF new
<1>1. /\ t \in Seq(Pairs) /\ t # <<>> /\ Len(t) = Len(s) + 1 /\ Len(s) \in Nat
      /\ t[Len(t)] = new
      /\ \A n \in 1 .. Len(s) : t[n] = s[n]
      /\ DOMAIN t = DOMAIN s \cup {Len(s) + 1} /\ DOMAIN s = 1 .. Len(s)
  BY <1>0
<1> HIDE DEF t
<1>2. ShownBy(t) = ShownBy(s) \cup (a .. b)
  BY <1>0, <1>1 DEF ShownBy
<1>3. ASSUME Apart(s), a <= b, s # <<>> => s[Len(s)][2] + 1 < a
      PROVE  Apart(t)
  <2>1. ASSUME NEW n \in DOMAIN s
        PROVE  t[n][1] <= t[n][2] /\ (n > 1 => t[n - 1][2] + 1 < t[n][1])
    BY <1>1, <1>3 DEF Apart
  <2>2. t[Len(t)][1] <= t[Len(t)][2]
    BY <1>0, <1>1, <1>3
  <2>3. Len(t) > 1 => t[Len(t) - 1][2] + 1 < t[Len(t)][1]
    <3>1. Len(t) > 1 => s # <<>> /\ Len(t) - 1 = Len(s) /\ Len(s) \in 1 .. Len(s)
      BY <1>1
    <3>2. QED
      BY <1>0, <1>1, <1>3, <3>1
  <2>4. QED
    BY <1>1, <2>1, <2>2, <2>3 DEF Apart
<1>4. QED
  BY <1>1, <1>2, <1>3 DEF t, new

(* The last range becomes longer. *)
LEMMA Widened ==
  ASSUME NEW s \in Seq(Pairs), s # <<>>, NEW b \in Int, s[Len(s)][2] <= b
  PROVE  LET t == [s EXCEPT ![Len(s)][2] = b]
         IN  /\ t \in Seq(Pairs) /\ t # <<>> /\ Len(t) = Len(s)
             /\ t[Len(t)][2] = b
             /\ ShownBy(t) = ShownBy(s) \cup (s[Len(s)][1] .. b)
             /\ Apart(s) => Apart(t)
<1> DEFINE last == s[Len(s)]
           new == [last EXCEPT ![2] = b]
           t == [s EXCEPT ![Len(s)] = new]
<1>1. Len(s) \in DOMAIN s /\ DOMAIN s = 1 .. Len(s) /\ Len(s) \in Nat /\ last \in Pairs
  BY DEF Pairs
<1>2. new \in Pairs /\ new[1] = last[1] /\ new[2] = b /\ last[1] \in Int /\ last[2] \in Int
  BY <1>1 DEF Pairs
<1>3. t = [s EXCEPT ![Len(s)][2] = b]
  OBVIOUS
<1> HIDE DEF new
<1>4. /\ t \in Seq(Pairs) /\ DOMAIN t = DOMAIN s /\ t[Len(s)] = new
      /\ \A n \in DOMAIN s : n # Len(s) => t[n] = s[n]
  BY <1>1, <1>2
<1> HIDE DEF t, last
<1>5. Len(t) = Len(s) /\ t # <<>>
  BY <1>1, <1>4
<1>6. last[1] .. last[2] \subseteq last[1] .. b
  BY <1>1, <1>2 DEF last
<1>7. ShownBy(t) = ShownBy(s) \cup (last[1] .. b)
  <2>1. ASSUME NEW r \in ShownBy(t)
        PROVE  r \in ShownBy(s) \cup (last[1] .. b)
    BY <1>1, <1>2, <1>4, <2>1 DEF ShownBy
  <2>2. ASSUME NEW r \in ShownBy(s)
        PROVE  r \in ShownBy(t)
    <3>1. PICK n \in DOMAIN s : r \in s[n][1] .. s[n][2]
      BY DEF ShownBy
    <3>2. r \in t[n][1] .. t[n][2]
      BY <1>1, <1>2, <1>4, <1>6, <3>1 DEF last
    <3>3. QED
      BY <1>4, <3>2 DEF ShownBy
  <2>3. last[1] .. b \subseteq ShownBy(t)
    BY <1>1, <1>2, <1>4 DEF ShownBy
  <2>4. QED
    BY <2>1, <2>2, <2>3
<1>8. ASSUME Apart(s)
      PROVE  Apart(t)
  <2>1. ASSUME NEW n \in DOMAIN s
        PROVE  t[n][1] <= t[n][2] /\ (n > 1 => t[n - 1][2] + 1 < t[n][1])
    <3>1. n \in 1 .. Len(s) /\ t[n][1] = s[n][1]
      BY <1>1, <1>2, <1>4 DEF last
    <3>2. n > 1 => n - 1 \in DOMAIN s /\ n - 1 # Len(s)
      BY <1>1, <3>1
    <3>3. n > 1 => t[n - 1][2] + 1 < t[n][1]
      BY <1>4, <1>8, <3>1, <3>2 DEF Apart
    <3>4. last[1] <= last[2]
      BY <1>1, <1>8 DEF Apart, last
    <3>5. t[n][1] <= t[n][2]
      <4>1. CASE n = Len(s)
        BY <1>2, <1>4, <3>4, <4>1 DEF last
      <4>2. CASE n # Len(s)
        BY <1>4, <1>8, <4>2 DEF Apart
      <4>3. QED
        BY <4>1, <4>2
    <3>6. QED
      BY <3>3, <3>5
  <2>2. QED
    BY <1>4, <2>1 DEF Apart
<1>9. QED
  BY <1>2, <1>3, <1>4, <1>5, <1>7, <1>8 DEF last

(* The registers of the list below one. *)
ListedBelow(n) == {r \in Registers : r < n /\ IsListed(r)}

LEMMA ListedBetween ==
  ASSUME NEW a \in Nat, NEW b \in Int, a <= b + 1, b <= Last, Last \in Nat,
         \A r \in a .. b : IsListed(r)
  PROVE  ListedBelow(b + 1) = ListedBelow(a) \cup (a .. b)
<1>1. Registers = 0 .. Last
  BY DEF Registers, Last
<1>2. ASSUME NEW r \in ListedBelow(b + 1)
      PROVE  r \in ListedBelow(a) \cup (a .. b)
  <2>1. r \in Registers /\ r < b + 1 /\ IsListed(r) /\ r \in Int
    BY <1>1 DEF ListedBelow
  <2>2. CASE r < a
    BY <2>1, <2>2 DEF ListedBelow
  <2>3. CASE r >= a
    BY <2>1, <2>3
  <2>4. QED
    BY <2>1, <2>2, <2>3
<1>3. ASSUME NEW r \in ListedBelow(a)
      PROVE  r \in ListedBelow(b + 1)
  BY <1>1 DEF ListedBelow
<1>4. ASSUME NEW r \in a .. b
      PROVE  r \in ListedBelow(b + 1)
  BY <1>1 DEF ListedBelow
<1>5. QED
  BY <1>2, <1>3, <1>4

LEMMA NotListed ==
  ASSUME NEW a \in Nat, Last \in Nat, ~(a <= Last /\ IsListed(a))
  PROVE  /\ ListedBelow(a + 1) = ListedBelow(a)
<1>1. Registers = 0 .. Last
  BY DEF Registers, Last
<1>2. ASSUME NEW r \in Registers
      PROVE  r < a + 1 /\ IsListed(r) <=> r < a /\ IsListed(r)
  <2>1. r # a \/ ~IsListed(r)
    BY <1>1
  <2>2. r \in Int
    BY <1>1
  <2>3. QED
    BY <2>1, <2>2
<1>3. QED
  BY <1>2 DEF ListedBelow

(* Between the ranges all that was listed is shown, and the next register  *)
(* does not belong to the last range. In a range, its first register is    *)
(* shown and all up to the index are listed.                               *)
BetweenRanges ==
  /\ ShownBy(ranges) = ListedBelow(i)
  /\ ranges # <<>> =>
       \/ ranges[Len(ranges)][2] + 1 < i
       \/ ranges[Len(ranges)][2] + 1 = i /\ ~(Running /\ IsListed(i))

InRange ==
  /\ i <= Last + 1 /\ ranges # <<>>
  /\ \E first \in Nat :
       /\ ranges[Len(ranges)] = <<first, first>>
       /\ first + 1 < i
       /\ \A r \in first .. i - 1 : IsListed(r)
       /\ ShownBy(ranges) = ListedBelow(first + 1)

ListIInv ==
  /\ bits \in Lists /\ reversed \in BOOLEAN /\ inner \in BOOLEAN
  /\ i \in Nat /\ ranges \in Seq(Pairs)
  /\ Apart(ranges)
  /\ ~inner => BetweenRanges
  /\ inner => InRange

LEMMA LastIs == Last \in Nat /\ Group \in Nat /\ Group > 0
  BY ListsAssumption DEF GroupAssumption, Last

LEMMA ListInitIInv == ListInit => ListIInv
<1> SUFFICES ASSUME ListInit PROVE ListIInv
  OBVIOUS
<1>1. ShownBy(ranges) = {} /\ Apart(ranges) /\ ranges \in Seq(Pairs)
  BY DEF ShownBy, Apart, ListInit
<1>2. ListedBelow(i) = {}
  BY LastIs DEF ListedBelow, ListInit, Registers
<1>3. QED
  BY <1>1, <1>2 DEF ListInit, ListIInv, BetweenRanges

LEMMA SkipIInv == ListIInv /\ Skip => ListIInv'
<1> SUFFICES ASSUME ListIInv, Skip PROVE ListIInv'
  OBVIOUS
<1>1. /\ i \in Nat /\ i' = i + 1 /\ ~inner /\ Running /\ ~IsListed(i)
      /\ UNCHANGED <<bits, reversed, inner, ranges>>
  BY DEF ListIInv, Skip
<1>2. ListedBelow(i + 1) = ListedBelow(i)
  BY <1>1, NotListed, LastIs
<1>4. ListedBelow(i)' = ListedBelow(i)
  BY <1>1, <1>2 DEF ListedBelow, IsListed
<1>5. ShownBy(ranges)' = ListedBelow(i)'
  BY <1>1, <1>4 DEF ListIInv, BetweenRanges, ShownBy
<1>6. ranges # <<>> => ranges[Len(ranges)][2] + 1 < i + 1
  <2>1. ranges # <<>> => ranges[Len(ranges)] \in Pairs
    BY DEF ListIInv
  <2>2. ranges # <<>> => ranges[Len(ranges)][2] \in Int
    BY <2>1 DEF Pairs
  <2>3. QED
    BY <1>1, <2>2 DEF ListIInv, BetweenRanges
<1>7. BetweenRanges'
  BY <1>1, <1>5, <1>6 DEF BetweenRanges
<1>8. QED
  BY <1>1, <1>7 DEF ListIInv, Apart

(* The range that begins does not touch the one before. *)
LEMMA NewRange ==
  ASSUME ListIInv, ~inner, Running, IsListed(i)
  PROVE  /\ i \in Registers /\ i \in Nat
         /\ LET t == Append(ranges, <<i, i>>)
            IN  /\ t \in Seq(Pairs) /\ t # <<>> /\ t[Len(t)] = <<i, i>>
                /\ ShownBy(t) = ListedBelow(i + 1)
                /\ Apart(t)
<1> DEFINE t == Append(ranges, <<i, i>>)
<1>1. /\ i \in Nat /\ i <= Last /\ ranges \in Seq(Pairs) /\ Apart(ranges)
      /\ ShownBy(ranges) = ListedBelow(i)
  BY DEF ListIInv, BetweenRanges, Running
<1>2. ranges # <<>> => ranges[Len(ranges)][2] + 1 < i
  BY DEF ListIInv, BetweenRanges
<1>3. /\ t \in Seq(Pairs) /\ t # <<>> /\ t[Len(t)] = <<i, i>>
      /\ ShownBy(t) = ShownBy(ranges) \cup (i .. i)
      /\ Apart(t)
  BY <1>1, <1>2, Appended
<1> HIDE DEF t
<1>4. ListedBelow(i + 1) = ListedBelow(i) \cup (i .. i)
  <2>1. \A r \in i .. i : IsListed(r)
    BY <1>1
  <2>2. QED
    BY <1>1, <2>1, LastIs, ListedBetween
<1>5. i \in Registers
  BY <1>1, LastIs DEF Registers, Last
<1>6. QED
  BY <1>1, <1>3, <1>4, <1>5 DEF t

LEMMA SingleIInv == ListIInv /\ Single => ListIInv'
<1> SUFFICES ASSUME ListIInv, Single PROVE ListIInv'
  OBVIOUS
<1> DEFINE t == Append(ranges, <<i, i>>)
<1>1. /\ ~inner /\ Running /\ IsListed(i) /\ ~(i + 1 <= Last /\ IsListed(i + 1))
      /\ ranges' = t /\ i' = i + 2 /\ UNCHANGED <<bits, reversed, inner>>
  BY DEF Single
<1>2. /\ i \in Nat
      /\ t \in Seq(Pairs) /\ t # <<>> /\ t[Len(t)] = <<i, i>>
      /\ ShownBy(t) = ListedBelow(i + 1)
      /\ Apart(t)
  BY <1>1, NewRange
<1> HIDE DEF t
<1>3. ListedBelow(i + 1) = ListedBelow(i + 2)
  <2>1. i + 1 \in Nat /\ (i + 1) + 1 = i + 2
    BY <1>2
  <2>2. ListedBelow((i + 1) + 1) = ListedBelow(i + 1)
    BY <1>1, <2>1, NotListed, LastIs
  <2>3. QED
    BY <2>1, <2>2
<1>4. ListedBelow(i)' = ListedBelow(i + 2)
  BY <1>1 DEF ListedBelow, IsListed
<1>5. ShownBy(ranges)' = ShownBy(t)
  BY <1>1 DEF ShownBy
<1>6. BetweenRanges'
  BY <1>1, <1>2, <1>3, <1>4, <1>5 DEF BetweenRanges
<1>7. Apart(ranges)' /\ i' \in Nat
  BY <1>1, <1>2 DEF Apart
<1>8. QED
  BY <1>1, <1>2, <1>6, <1>7 DEF ListIInv

LEMMA StartRangeIInv == ListIInv /\ StartRange => ListIInv'
<1> SUFFICES ASSUME ListIInv, StartRange PROVE ListIInv'
  OBVIOUS
<1> DEFINE t == Append(ranges, <<i, i>>)
<1>1. /\ ~inner /\ Running /\ IsListed(i) /\ i + 1 <= Last /\ IsListed(i + 1)
      /\ ranges' = t /\ i' = i + 2 /\ inner' = TRUE /\ UNCHANGED <<bits, reversed>>
  BY DEF StartRange
<1>2. /\ i \in Nat
      /\ t \in Seq(Pairs) /\ t # <<>> /\ t[Len(t)] = <<i, i>>
      /\ ShownBy(t) = ListedBelow(i + 1)
      /\ Apart(t)
  BY <1>1, NewRange
<1> HIDE DEF t
<1>3. \A r \in i .. i' - 1 : IsListed(r)'
  <2>1. \A r \in i .. i + 1 : r = i \/ r = i + 1
    BY <1>2
  <2>2. \A r \in i .. i + 1 : IsListed(r)
    BY <1>1, <2>1
  <2>3. i' - 1 = i + 1
    BY <1>1, <1>2
  <2>4. QED
    BY <1>1, <2>2, <2>3 DEF IsListed
<1>4. ShownBy(ranges)' = {r \in Registers : r < i + 1 /\ IsListed(r)'}
  BY <1>1, <1>2 DEF ShownBy, ListedBelow, IsListed
<1>5. i' <= Last' + 1 /\ i' \in Nat /\ i + 1 < i'
  BY <1>1, <1>2, LastIs DEF Last
<1>6. InRange'
  BY <1>1, <1>2, <1>3, <1>4, <1>5 DEF InRange, ListedBelow
<1>7. Apart(ranges)'
  BY <1>1, <1>2 DEF Apart
<1>8. QED
  BY <1>1, <1>2, <1>5, <1>6, <1>7 DEF ListIInv

LEMMA ExtendRangeIInv == ListIInv /\ ExtendRange => ListIInv'
<1> SUFFICES ASSUME ListIInv, ExtendRange PROVE ListIInv'
  OBVIOUS
<1>1. /\ inner /\ i <= Last /\ IsListed(i) /\ i' = i + 1 /\ i \in Nat
      /\ UNCHANGED <<bits, reversed, inner, ranges>>
  BY DEF ListIInv, ExtendRange, Running
<1>2. PICK first \in Nat :
        /\ ranges[Len(ranges)] = <<first, first>>
        /\ first + 1 < i
        /\ \A r \in first .. i - 1 : IsListed(r)
        /\ ShownBy(ranges) = ListedBelow(first + 1)
  BY <1>1 DEF ListIInv, InRange
<1>3. \A r \in first .. i' - 1 : IsListed(r)'
  <2>1. \A r \in first .. i : r \in first .. i - 1 \/ r = i
    BY <1>1
  <2>2. \A r \in first .. i : IsListed(r)
    BY <1>1, <1>2, <2>1
  <2>3. i' - 1 = i
    BY <1>1
  <2>4. QED
    BY <1>1, <2>2, <2>3 DEF IsListed
<1>4. ShownBy(ranges)' = {r \in Registers : r < first + 1 /\ IsListed(r)'}
  BY <1>1, <1>2 DEF ShownBy, ListedBelow, IsListed
<1>5. i' <= Last' + 1 /\ i' \in Nat /\ first + 1 < i' /\ ranges # <<>>
  BY <1>1, <1>2, LastIs DEF Last, ListIInv, InRange
<1>6. InRange'
  BY <1>1, <1>2, <1>3, <1>4, <1>5 DEF InRange, ListedBelow
<1>7. Apart(ranges)'
  BY <1>1 DEF Apart, ListIInv
<1>8. QED
  BY <1>1, <1>5, <1>6, <1>7 DEF ListIInv

LEMMA EndRangeIInv == ListIInv /\ EndRange => ListIInv'
<1> SUFFICES ASSUME ListIInv, EndRange PROVE ListIInv'
  OBVIOUS
<1> DEFINE t == [ranges EXCEPT ![Len(ranges)][2] = i - 1]
<1>1. /\ inner /\ ~(Running /\ IsListed(i)) /\ ranges' = t /\ inner' = FALSE
      /\ UNCHANGED <<bits, reversed, i>> /\ i \in Nat /\ ranges \in Seq(Pairs)
      /\ Apart(ranges) /\ InRange
  BY DEF ListIInv, EndRange
<1>2. PICK first \in Nat :
        /\ ranges[Len(ranges)] = <<first, first>>
        /\ first + 1 < i
        /\ \A r \in first .. i - 1 : IsListed(r)
        /\ ShownBy(ranges) = ListedBelow(first + 1)
  BY <1>1 DEF InRange
<1>3. /\ ranges # <<>> /\ i - 1 \in Int /\ i - 1 <= Last
      /\ ranges[Len(ranges)][1] = first /\ ranges[Len(ranges)][2] = first /\ first <= i - 1
  BY <1>1, <1>2, LastIs DEF InRange
<1>4. /\ t \in Seq(Pairs) /\ t # <<>> /\ t[Len(t)][2] = i - 1
      /\ ShownBy(t) = ShownBy(ranges) \cup (first .. i - 1)
      /\ Apart(t)
  BY <1>1, <1>3, Widened
<1> HIDE DEF t
<1>5. ShownBy(t) = ListedBelow(i)
  <2>1. first + 1 \in Nat /\ (i - 1) + 1 = i
    BY <1>1, <1>2
  <2>2. ListedBelow((i - 1) + 1) = ListedBelow(first) \cup (first .. i - 1)
    <3> DEFINE b == i - 1
    <3>1. /\ first \in Nat /\ b \in Int /\ first <= b + 1 /\ b <= Last
          /\ \A r \in first .. b : IsListed(r)
      BY <1>1, <1>2, <1>3
    <3> HIDE DEF b
    <3>2. ListedBelow(b + 1) = ListedBelow(first) \cup (first .. b)
      BY <3>1, LastIs, ListedBetween
    <3>3. QED
      BY <3>2 DEF b
  <2>3. ListedBelow(first + 1) = ListedBelow(first) \cup (first .. first)
    <3>1. \A r \in first .. first : r \in first .. i - 1
      BY <1>1, <1>2, <1>3
    <3>2. first <= first + 1 /\ first <= Last /\ first \in Int
      BY <1>1, <1>2, <1>3, LastIs
    <3>3. QED
      BY <1>2, <3>1, <3>2, LastIs, ListedBetween
  <2>4. first .. first \subseteq first .. i - 1
    BY <1>1, <1>2, <1>3
  <2>5. QED
    BY <1>2, <1>4, <2>1, <2>2, <2>3, <2>4
<1>6. ShownBy(ranges)' = ListedBelow(i)'
  BY <1>1, <1>5 DEF ShownBy, ListedBelow, IsListed
<1>7. BetweenRanges'
  <2>1. ~(Running /\ IsListed(i))'
    BY <1>1 DEF Running, IsListed, Last
  <2>2. ranges'[Len(ranges')][2] + 1 = i'
    BY <1>1, <1>4
  <2>3. QED
    BY <1>6, <2>1, <2>2 DEF BetweenRanges
<1>8. Apart(ranges)'
  BY <1>1, <1>4 DEF Apart
<1>9. QED
  BY <1>1, <1>4, <1>7, <1>8 DEF ListIInv

LEMMA ListInvariant == ListSpec => []ListIInv
<1>1. ListIInv /\ [ListNext]_listVars => ListIInv'
  <2> SUFFICES ASSUME ListIInv, [ListNext]_listVars PROVE ListIInv'
    OBVIOUS
  <2>1. CASE ListNext
    BY <2>1, SkipIInv, SingleIInv, StartRangeIInv, ExtendRangeIInv, EndRangeIInv DEF ListNext
  <2>2. CASE UNCHANGED listVars
    BY <2>2 DEF listVars, ListIInv, BetweenRanges, InRange, Apart, ShownBy, ListedBelow,
                IsListed, Running, Last
  <2>3. QED
    BY <2>1, <2>2
<1>2. QED
  BY <1>1, ListInitIInv, PTL DEF ListSpec

(* The bit that stands for a register in the list is the one MOVEM takes.  *)
LEMMA ReversedIsMoved ==
  ASSUME NEW list \in SUBSET Registers, NEW backwards \in BOOLEAN
  PROVE  {r \in Registers : (IF backwards THEN Last - r ELSE r) \in list}
           = {MovedRegister(bit, backwards) : bit \in list}
<1>1. Registers = 0 .. Last
  BY DEF Registers, Last
<1>2. \A bit \in Registers : MovedRegister(bit, backwards) = IF backwards THEN Last - bit ELSE bit
  BY <1>1, LastIs DEF MovedRegister, Last
<1>3. \A r \in Registers : Last - r \in Registers /\ Last - (Last - r) = r
  BY <1>1, LastIs
<1>4. CASE backwards
  BY <1>2, <1>3, <1>4
<1>5. CASE ~backwards
  BY <1>2, <1>5
<1>6. QED
  BY <1>4, <1>5

(* For groups of any size and every list, the disassembler shows those     *)
(* registers that the interpreter's MOVEM moves, each of them once and in  *)
(* ranges that cannot be joined.                                           *)
THEOREM RegistersShown == ListSpec => []ShowsMovedRegisters
<1>1. ListIInv => ShowsMovedRegisters
  <2> SUFFICES ASSUME ListIInv PROVE ShowsMovedRegisters
    OBVIOUS
  <2>1. RangesApart
    BY DEF ListIInv, Apart, RangesApart
  <2>2. ASSUME Finished
        PROVE  ShownRegisters = {MovedRegister(bit, reversed) : bit \in bits}
    <3>1. ShownRegisters = ListedBelow(i) /\ i > Last /\ i \in Nat
      BY <2>2, LastIs DEF ListIInv, BetweenRanges, Finished, Running, ShownRegisters, ShownBy
    <3>2. \A r \in Registers : r < i
      BY <3>1, LastIs DEF Registers, Last
    <3>3. ListedBelow(i) = {r \in Registers : (IF reversed THEN Last - r ELSE r) \in bits}
      BY <3>2 DEF ListedBelow, IsListed
    <3>4. bits \in SUBSET Registers /\ reversed \in BOOLEAN
      BY ListsAssumption DEF ListIInv
    <3>5. QED
      BY <3>1, <3>3, <3>4, ReversedIsMoved
  <2>3. QED
    BY <2>1, <2>2 DEF ShowsMovedRegisters, ShownAsMoved
<1>2. QED
  BY <1>1, ListInvariant, PTL

(***************************************************************************)
(* What is read for an operand.                                            *)
(***************************************************************************)

ShownAddresses ==
  {"data_register", "address_register", "indirect", "postincrement", "predecrement",
   "displacement", "index", "absolute_short", "absolute_long", "pc_displacement", "pc_index",
   "immediate", "branch", "register_list", "register_list_reversed", "embedded",
   "embedded_address", "status_register", "condition_code_register", "user_stack_pointer", "none"}

ModeNames ==
  {"data_register", "address_register", "indirect", "postincrement", "predecrement",
   "displacement", "index", "absolute_short", "absolute_long", "pc_displacement", "pc_index",
   "immediate"}

ReadFor(s) == [n \in 1 .. WordsOf(s) |-> s.address]

(* Every mode has a name to be shown with. *)
LEMMA ShownMode ==
  ASSUME NEW m \in 0..7, NEW r \in 0..7, NEW z
  PROVE  /\ Shown(m, r, z).address \in ShownAddresses \ {"none"}
         /\ EffectiveAddress(m, r) # "reserved" =>
              Shown(m, r, z).address = EffectiveAddress(m, r)
         /\ EffectiveAddress(m, r) = "reserved" =>
              Shown(m, r, z).address \in {"branch", "register_list", "register_list_reversed"}
         /\ Shown(m, r, z).register = r /\ Shown(m, r, z).size = z
         /\ Shown(7, 4, z).address = "immediate"
         /\ Shown(7, 5, z).address = "branch"
         /\ Shown(7, 6, z).address = "register_list"
         /\ Shown(7, 7, z).address = "register_list_reversed"
         /\ Shown(7, 4, z).size = z /\ Shown(7, 5, z).size = z
         /\ Shown(7, 6, z).size = z /\ Shown(7, 7, z).size = z
<1>1. Shown(m, r, z).register = r /\ Shown(m, r, z).size = z
  BY DEF Shown, Operand
<1>2. CASE m = 7 /\ r >= 5
  <2>1. r \in {5, 6, 7}
    BY <1>2
  <2>2. EffectiveAddress(m, r) = "reserved"
    BY <1>2, <2>1 DEF EffectiveAddress
  <2>3. Shown(m, r, z).address \in {"branch", "register_list", "register_list_reversed"}
    BY <1>2, <2>1 DEF Shown, Operand
  <2>4. QED
    BY <1>1, <2>2, <2>3 DEF ShownAddresses, Shown, Operand, EffectiveAddress
<1>3. CASE ~(m = 7 /\ r >= 5)
  <2>1. Shown(m, r, z).address = EffectiveAddress(m, r)
    BY <1>3 DEF Shown, Operand
  <2>2. EffectiveAddress(m, r) \in ModeNames
    <3>1. m = 7 => r = 0 \/ r = 1 \/ r = 2 \/ r = 3 \/ r = 4
      BY <1>3
    <3>2. m = 0 \/ m = 1 \/ m = 2 \/ m = 3 \/ m = 4 \/ m = 5 \/ m = 6 \/ m = 7
      OBVIOUS
    <3>3. QED
      BY <3>1, <3>2 DEF EffectiveAddress, ModeNames
  <2>3. QED
    BY <1>1, <2>1, <2>2 DEF Shown, Operand, EffectiveAddress, ModeNames, ShownAddresses
<1>4. QED
  BY <1>2, <1>3

LEMMA ShownOperands ==
  ASSUME NEW o \in Splits, NEW a, NEW z
  PROVE  /\ GetSourceOperandShown(o, a, z).address \in ShownAddresses
         /\ GetDestinationOperandShown(o, a, z).address \in ShownAddresses
<1>1. /\ o.primary_address_mode \in 0..7 /\ o.primary_register \in 0..7
      /\ o.secondary_address_mode \in 0..7 /\ o.secondary_register \in 0..7
  BY DEF Splits
<1> DEFINE Good(s) == s.address \in ShownAddresses
<1>2. \A y : /\ Good(ShownPrimary(o, y)) /\ Good(Shown(7, 4, y)) /\ Good(Shown(7, 5, y))
             /\ Good(Shown(7, 6, y)) /\ Good(Shown(7, 7, y))
             /\ Good(Shown(o.secondary_address_mode, o.secondary_register, y))
  BY <1>1, ShownMode DEF ShownPrimary
<1>3. \A r, y : /\ Good(DataRegister(r, y)) /\ Good(AddressRegister(r, y))
                /\ Good(PairOperand(o, r, y))
                /\ \A x \in ShownAddresses : Good(Operand(x, r, y))
  BY DEF DataRegister, AddressRegister, PairOperand, PairAddress, Operand, ShownAddresses
<1>4. \A r, y : /\ Good(Operand("none", r, y)) /\ Good(Operand("embedded", r, y))
                /\ Good(Operand("embedded_address", r, y)) /\ Good(Operand("status_register", r, y))
                /\ Good(Operand("condition_code_register", r, y))
                /\ Good(Operand("user_stack_pointer", r, y)) /\ Good(Operand("displacement", r, y))
                /\ Good(Operand("postincrement", r, y))
  BY <1>3 DEF ShownAddresses
<1> HIDE DEF Good
<1>5. Good(GetSourceOperandShown(o, a, z))
  BY <1>2, <1>3, <1>4 DEF GetSourceOperandShown
<1>6. Good(GetDestinationOperandShown(o, a, z))
  BY <1>2, <1>3, <1>4 DEF GetDestinationOperandShown
<1>7. QED
  BY <1>5, <1>6 DEF Good

LEMMA OperandFits ==
  ASSUME NEW s, s.address \in ShownAddresses \ {"none"}
  PROVE  OperandLength(s) \in 0 .. 32
  BY DEF OperandLength, ShownAddresses, SignedLength, UnsignedLength, ListLength

LEMMA NameFits ==
  ASSUME NEW o, NEW a, NEW z
  PROVE  NameLength(a) \in 1 .. 25 /\ SuffixLength(o, a) \in 0 .. 2 /\ SizeSuffixLength(a, z) \in 0 .. 2
  BY DEF NameLength, SuffixLength, SizeSuffixLength, ConditionLength

LEMMA WordsRange ==
  ASSUME NEW s
  PROVE  /\ WordsOf(s) \in 0 .. 2
         /\ s.address = "none" => WordsOf(s) = 0
  BY DEF WordsOf, TwoWords, Special

LEMMA ReadForType ==
  ASSUME NEW s, s.address \in ShownAddresses
  PROVE  ReadFor(s) \in Seq(ShownAddresses) /\ Len(ReadFor(s)) = WordsOf(s)
  BY WordsRange DEF ReadFor

(***************************************************************************)
(* The line in the making, in each phase: the words read so far are those  *)
(* of the operands done so far, and the position is behind them.           *)
(***************************************************************************)

OpcodeFits      == 39                    \* address, name and suffixes
SourceFits      == OpcodeFits + 32
DestinationFits == SourceFits + 33       \* with its comma

SourceShown      == line.decoded.operands.source
DestinationShown == line.decoded.operands.destination

SourceBases == BaseOf(SourceShown, 2)

OperandBases == SourceBases \cup BaseOf(DestinationShown, 2 + 2 * WordsOf(SourceShown))

LineType ==
  [decoded : {Decoded(raw) : raw \in AllOpcodes}, start : Nat, index : 0 .. DestinationFits,
   words : Seq(ShownAddresses), bases : SUBSET Nat]

LineInv ==
  /\ position \in Nat /\ line \in LineType
  /\ phase \in {"opcode", "source", "destination", "print", "returned"}
  /\ phase = "source" =>
       /\ line.index <= OpcodeFits
       /\ position = line.start + 2
       /\ line.words = <<>> /\ line.bases = {}
  /\ phase = "destination" =>
       /\ line.index <= SourceFits
       /\ position = line.start + 2 + 2 * WordsOf(SourceShown)
       /\ line.words = ReadFor(SourceShown) /\ line.bases = SourceBases
  /\ phase = "print" =>
       /\ line.words = ReadFor(SourceShown) \o ReadFor(DestinationShown)
       /\ line.bases = OperandBases

LEMMA Columns ==
  ASSUME NEW l \in LineType
  PROVE  /\ OpcodeFits = 39 /\ SourceFits = 71 /\ DestinationFits = 104
         /\ l.index \in 0 .. 104
<1>1. OpcodeFits = 39 /\ SourceFits = 71 /\ DestinationFits = 104
  BY DEF DestinationFits, SourceFits, OpcodeFits
<1>2. l.index \in 0 .. DestinationFits
  BY DEF LineType
<1>3. QED
  BY <1>1, <1>2

LEMMA DecodedOperands ==
  ASSUME NEW d \in {Decoded(raw) : raw \in AllOpcodes}
  PROVE  /\ d.operands.source.address \in ShownAddresses
         /\ d.operands.destination.address \in ShownAddresses
<1>1. PICK raw \in AllOpcodes : d = Decoded(raw)
  OBVIOUS
<1> DEFINE o == SplitOpcode(raw)
           a == GetInstruction(o)
           z == DisassembledSize(o, a)
<1>2. /\ d.operands.source = GetSourceOperandShown(o, a, z)
      /\ d.operands.destination = GetDestinationOperandShown(o, a, z)
  BY <1>1 DEF Decoded
<1>3. o \in Splits
  BY Split
<1> HIDE DEF o, a, z
<1>4. QED
  BY <1>2, <1>3, ShownOperands

LEMMA BlankType == Blank \in LineType
<1>1. 0 \in AllOpcodes
  BY DEF AllOpcodes
<1>2. Decoded(0) \in {Decoded(raw) : raw \in AllOpcodes}
  BY <1>1
<1>3. <<>> \in Seq(ShownAddresses) /\ 0 \in 0 .. DestinationFits
  BY DEF DestinationFits, SourceFits, OpcodeFits
<1> DEFINE x == Decoded(0)
<1> HIDE DEF x
<1>4. [decoded |-> x, start |-> 0, index |-> 0, words |-> <<>>, bases |-> {}] \in LineType
  BY <1>2, <1>3 DEF LineType, x
<1>5. QED
  BY <1>4 DEF Blank, x

LEMMA InitLineInv == Init => LineInv
  BY BlankType DEF Init, LineInv

LEMMA ReadOpcodeLineInv == LineInv /\ ReadOpcode => LineInv'
<1> SUFFICES ASSUME LineInv, ReadOpcode PROVE LineInv'
  OBVIOUS
<1>1. PICK raw \in Opcodes :
        LET d     == Decoded(raw)
            index == AddressLength + NameLength(d.instruction)
                       + SuffixLength(d.opcode, d.instruction)
                       + SizeSuffixLength(d.instruction, d.size)
        IN  line' = [Blank EXCEPT !.decoded = d, !.start = position,
                                  !.index = IF index < OperandsColumn THEN OperandsColumn ELSE index]
  BY DEF ReadOpcode
<1> DEFINE d == Decoded(raw)
           index == AddressLength + NameLength(d.instruction)
                      + SuffixLength(d.opcode, d.instruction)
                      + SizeSuffixLength(d.instruction, d.size)
           column == IF index < OperandsColumn THEN OperandsColumn ELSE index
<1>2. line' = [Blank EXCEPT !.decoded = d, !.start = position, !.index = column]
  BY <1>1
<1>3. d \in {Decoded(r) : r \in AllOpcodes}
  BY OpcodesAssumption
<1>4. column \in 0 .. OpcodeFits
  BY NameFits DEF AddressLength, OperandsColumn, OpcodeFits
<1> HIDE DEF d, column
<1>5. line' = [decoded |-> d, start |-> position, index |-> column, words |-> <<>>, bases |-> {}]
  BY <1>2 DEF Blank
<1>6. position \in Nat /\ position' = position + 2 /\ phase' = "source"
  BY DEF LineInv, ReadOpcode
<1>7. line' \in LineType
  BY <1>3, <1>4, <1>5, <1>6 DEF LineType, DestinationFits, SourceFits, OpcodeFits
<1>8. QED
  BY <1>4, <1>5, <1>6, <1>7 DEF LineInv

(* GetOperandName for the operand of a phase. *)
Named(l, s, at, comma) ==
  IF s.address = "none" THEN l
  ELSE [l EXCEPT !.index = @ + comma + OperandLength(s),
                 !.words = @ \o ReadFor(s),
                 !.bases = @ \cup BaseOf(s, at)]

Grown(k, l, s, at, comma) ==
  /\ k.decoded = l.decoded /\ k.start = l.start
  /\ k.words = l.words \o ReadFor(s) /\ k.bases = l.bases \cup BaseOf(s, at)
  /\ k.index <= l.index + 32 + comma

LEMMA NamedLine ==
  ASSUME NEW l \in LineType, NEW s, s.address \in ShownAddresses, NEW at \in Nat, NEW comma \in 0 .. 1,
         s.address # "none" => l.index + comma + OperandLength(s) <= DestinationFits,
         NEW k, k = Named(l, s, at, comma)
  PROVE  /\ k \in LineType
         /\ Grown(k, l, s, at, comma)
<1>1. /\ l.decoded \in {Decoded(raw) : raw \in AllOpcodes} /\ l.start \in Nat
      /\ l.index \in 0 .. DestinationFits /\ l.words \in Seq(ShownAddresses) /\ l.bases \in SUBSET Nat
  BY DEF LineType
<1>2. ReadFor(s) \in Seq(ShownAddresses) /\ WordsOf(s) \in 0 .. 2 /\ BaseOf(s, at) \in SUBSET Nat
  BY ReadForType, WordsRange DEF BaseOf
<1>3. CASE s.address = "none"
  <2>1. ReadFor(s) = <<>>
    BY <1>3, WordsRange, ReadForType
  <2>2. BaseOf(s, at) = {}
    BY <1>3 DEF BaseOf, Relative
  <2>3. l.words \o <<>> = l.words
    BY <1>1
  <2>4. QED
    <3>1. k = l /\ l.index \in Int
      BY <1>3, Columns DEF Named
    <3>2. l.index <= l.index + 32 + comma
      BY <3>1
    <3>3. QED
      BY <2>1, <2>2, <2>3, <3>1, <3>2 DEF Grown
<1>4. CASE s.address # "none"
  <2> DEFINE length == OperandLength(s)
             read == ReadFor(s)
             base == BaseOf(s, at)
             before == l.index
             after == before + comma + length
  <2>1. length \in 0 .. 32
    BY <1>4, OperandFits
  <2>2. l.words \o read \in Seq(ShownAddresses) /\ l.bases \cup base \in SUBSET Nat
    BY <1>1, <1>2
  <2>3. before \in 0 .. 104 /\ before + comma + length <= DestinationFits /\ DestinationFits = 104
    BY <1>4, Columns
  <2>4. k = [l EXCEPT !.index = after, !.words = l.words \o read, !.bases = l.bases \cup base]
    BY <1>4 DEF Named
  <2> HIDE DEF length, read, base, before
  <2>8. after \in 0 .. DestinationFits /\ after <= before + 32 + comma
    BY <2>1, <2>3
  <2> HIDE DEF after
  <2>5. /\ k.decoded = l.decoded /\ k.start = l.start /\ k.index = after
        /\ k.words = l.words \o read /\ k.bases = l.bases \cup base
    BY <2>4 DEF LineType
  <2>6. k \in LineType
    BY <2>2, <2>4, <2>8 DEF LineType
  <2>7. QED
    BY <2>5, <2>6, <2>8 DEF read, base, before, Grown
<1>5. QED
  BY <1>3, <1>4

LEMMA PrintSourceLineInv == LineInv /\ phase = "source" /\ PrintOperand => LineInv'
<1> SUFFICES ASSUME LineInv, phase = "source", PrintOperand PROVE LineInv'
  OBVIOUS
<1> DEFINE s == SourceShown
<1>1. /\ position \in Nat /\ line \in LineType /\ line.index <= OpcodeFits /\ line.index \in Nat
      /\ position = line.start + 2 /\ line.start \in Nat
      /\ line.words = <<>> /\ line.bases = {}
  BY DEF LineInv, LineType
<1>2. s.address \in ShownAddresses
  BY <1>1, DecodedOperands DEF LineType, SourceShown
<1>3. /\ line' = IF s.address = "none" THEN line
                 ELSE [line EXCEPT !.index = @ + 0 + OperandLength(s),
                                   !.words = @ \o ReadFor(s),
                                   !.bases = @ \cup BaseOf(s, position - line.start)]
      /\ position' = IF s.address = "none" THEN position ELSE position + 2 * WordsOf(s)
      /\ phase' = "destination"
  BY DEF PrintOperand, GetOperandName, SourceShown, ReadFor
<1>4. position - line.start = 2
  BY <1>1
<1>5. line' = IF s.address = "none" THEN line
              ELSE [line EXCEPT !.index = @ + 0 + OperandLength(s),
                                !.words = @ \o ReadFor(s),
                                !.bases = @ \cup BaseOf(s, 2)]
  BY <1>3, <1>4
<1>6. s.address # "none" => line.index + 0 + OperandLength(s) <= DestinationFits
  <2>1. /\ line.index \in 0 .. 104 /\ line.index <= 39 /\ DestinationFits = 104
    BY <1>1, Columns
  <2>2. s.address # "none" => OperandLength(s) \in 0 .. 32
    BY <1>2, OperandFits
  <2>3. QED
    BY <2>1, <2>2
<1>7. position' = line.start + 2 + 2 * WordsOf(s) /\ position' \in Nat
  BY <1>1, <1>3, WordsRange
<1> HIDE DEF s
<1>8. /\ line' \in LineType
      /\ line'.decoded = line.decoded /\ line'.start = line.start
      /\ line'.words = line.words \o ReadFor(s) /\ line'.bases = line.bases \cup BaseOf(s, 2)
      /\ line'.index <= line.index + 32
  <2> DEFINE l == line
             k == line'
  <2>1. /\ l \in LineType /\ 2 \in Nat /\ 0 \in 0 .. 1
        /\ s.address # "none" => l.index + 0 + OperandLength(s) <= DestinationFits
        /\ k = Named(l, s, 2, 0)
    BY <1>1, <1>5, <1>6 DEF Named
  <2> HIDE DEF l, k
  <2>2. k \in LineType /\ Grown(k, l, s, 2, 0)
    BY <1>2, <2>1, NamedLine
  <2>3. l.index + 32 + 0 = l.index + 32
    BY <2>1, Columns
  <2>4. QED
    BY <2>2, <2>3 DEF l, k, Grown
<1>9. SourceShown' = s
  BY <1>8 DEF SourceShown, s
<1>10. line'.words = ReadFor(s) /\ line'.bases = BaseOf(s, 2) /\ line'.index <= SourceFits
  <2>1. <<>> \o ReadFor(s) = ReadFor(s)
    BY <1>2, ReadForType
  <2>2. line'.index \in Nat
    BY <1>8 DEF LineType
  <2>3. QED
    BY <1>1, <1>8, <2>1, <2>2 DEF SourceFits, OpcodeFits
<1>11. ReadFor(SourceShown)' = ReadFor(s) /\ SourceBases' = BaseOf(s, 2)
       /\ WordsOf(SourceShown)' = WordsOf(s)
  BY <1>9 DEF ReadFor, SourceBases, BaseOf, WordsOf, TwoWords
<1>12. QED
  BY <1>3, <1>7, <1>8, <1>10, <1>11 DEF LineInv, SourceFits, OpcodeFits

LEMMA PrintDestinationLineInv == LineInv /\ phase = "destination" /\ PrintOperand => LineInv'
<1> SUFFICES ASSUME LineInv, phase = "destination", PrintOperand PROVE LineInv'
  OBVIOUS
<1> DEFINE s == SourceShown
           t == DestinationShown
           comma == IF s.address # "none" THEN 1 ELSE 0
           at == 2 + 2 * WordsOf(s)
<1>1. /\ position \in Nat /\ line \in LineType /\ line.index <= SourceFits /\ line.index \in Nat
      /\ position = line.start + 2 + 2 * WordsOf(s) /\ line.start \in Nat
      /\ line.words = ReadFor(s) /\ line.bases = SourceBases
  BY DEF LineInv, LineType
<1>2. t.address \in ShownAddresses /\ WordsOf(s) \in 0 .. 2 /\ at \in Nat /\ comma \in 0 .. 1
  BY <1>1, DecodedOperands, WordsRange DEF LineType, DestinationShown
<1>3. /\ line' = IF t.address = "none" THEN line
                 ELSE [line EXCEPT !.index = @ + comma + OperandLength(t),
                                   !.words = @ \o ReadFor(t),
                                   !.bases = @ \cup BaseOf(t, position - line.start)]
      /\ position' = IF t.address = "none" THEN position ELSE position + 2 * WordsOf(t)
      /\ phase' = "print"
  BY DEF PrintOperand, GetOperandName, SourceShown, DestinationShown, ReadFor
<1>4. position - line.start = at
  BY <1>1, <1>2
<1>5. line' = IF t.address = "none" THEN line
              ELSE [line EXCEPT !.index = @ + comma + OperandLength(t),
                                !.words = @ \o ReadFor(t),
                                !.bases = @ \cup BaseOf(t, at)]
  BY <1>3, <1>4
<1>6. t.address # "none" => line.index + comma + OperandLength(t) <= DestinationFits
  <2>1. /\ line.index \in 0 .. 104 /\ line.index <= 71 /\ DestinationFits = 104
    BY <1>1, Columns
  <2>2. t.address # "none" => OperandLength(t) \in 0 .. 32
    BY <1>2, OperandFits
  <2>3. QED
    BY <1>2, <2>1, <2>2
<1>7. position' \in Nat
  BY <1>1, <1>3, WordsRange
<1> HIDE DEF s, t, comma, at
<1>8. /\ line' \in LineType
      /\ line'.decoded = line.decoded
      /\ line'.words = line.words \o ReadFor(t) /\ line'.bases = line.bases \cup BaseOf(t, at)
  <2> DEFINE l == line
             k == line'
  <2>1. /\ l \in LineType
        /\ t.address # "none" => l.index + comma + OperandLength(t) <= DestinationFits
        /\ k = Named(l, t, at, comma)
    BY <1>1, <1>5, <1>6 DEF Named
  <2> HIDE DEF l, k
  <2>2. k \in LineType /\ Grown(k, l, t, at, comma)
    BY <1>2, <2>1, NamedLine
  <2>3. QED
    BY <2>2 DEF l, k, Grown
<1>9. SourceShown' = s /\ DestinationShown' = t
  BY <1>8 DEF SourceShown, DestinationShown, s, t
<1>10. /\ ReadFor(SourceShown)' = ReadFor(s) /\ ReadFor(DestinationShown)' = ReadFor(t)
       /\ OperandBases' = SourceBases \cup BaseOf(t, at)
  BY <1>9 DEF ReadFor, OperandBases, SourceBases, BaseOf, WordsOf, TwoWords, s, t, at
<1>11. QED
  BY <1>1, <1>3, <1>7, <1>8, <1>10 DEF LineInv, s

LEMMA LineInvariant == Spec => []LineInv
<1>1. LineInv /\ [Next]_vars => LineInv'
  <2> SUFFICES ASSUME LineInv, [Next]_vars PROVE LineInv'
    OBVIOUS
  <2>1. CASE ReadOpcode
    BY <2>1, ReadOpcodeLineInv
  <2>2. CASE ReadEnd
    BY <2>2 DEF ReadEnd, LineInv
  <2>3. CASE PrintOperand
    <3>1. phase = "source" \/ phase = "destination"
      BY <2>3 DEF PrintOperand
    <3>2. QED
      BY <2>3, <3>1, PrintSourceLineInv, PrintDestinationLineInv
  <2>4. CASE PrintLine
    BY <2>4 DEF PrintLine, LineInv
  <2>5. CASE UNCHANGED vars
    <3>1. /\ SourceShown' = SourceShown /\ DestinationShown' = DestinationShown
          /\ line' = line /\ position' = position /\ phase' = phase
      BY <2>5 DEF vars, SourceShown, DestinationShown
    <3>2. /\ ReadFor(SourceShown)' = ReadFor(SourceShown)
          /\ ReadFor(DestinationShown)' = ReadFor(DestinationShown)
          /\ WordsOf(SourceShown)' = WordsOf(SourceShown)
          /\ SourceBases' = SourceBases /\ OperandBases' = OperandBases
      BY <3>1 DEF SourceBases, OperandBases, ReadFor, BaseOf, WordsOf, TwoWords
    <3>3. QED
      BY <3>1, <3>2 DEF LineInv
  <2>6. QED
    BY <2>1, <2>2, <2>3, <2>4, <2>5 DEF Next
<1>2. QED
  BY <1>1, InitLineInv, PTL DEF Spec

(* For every set of opcodes and however long the listing, a line and its   *)
(* terminator fit string_buffer.                                           *)
THEOREM LinesFit == Spec => []LineFits
<1>1. LineInv => LineFits
  <2> SUFFICES ASSUME LineInv PROVE LineFits
    OBVIOUS
  <2>1. line.index \in 0 .. 104
    BY Columns DEF LineInv
  <2>2. QED
    BY <2>1 DEF LineFits, BufferSize
<1>2. QED
  BY <1>1, LineInvariant, PTL

(***************************************************************************)
(* Sizes.                                                                  *)
(***************************************************************************)

OtherSizes == {"DIVS", "DIVU", "MULS", "MULU", "ADDA", "SUBA", "CMPA", "MOVEM"}

Sized == {"byte", "word", "longword"}

Immediates == {"ORI", "ANDI", "SUBI", "ADDI", "EORI", "CMPI"}

(* The sizes of both tables. *)
LEMMA SizesAgree ==
  ASSUME NEW o \in Splits, NEW a \in Names, SizeKept(o, a), a \notin OtherSizes,
         GetSize(a) # "none",
         NEW z, z = DisassembledSize(o, a),
         NEW n, n = OperationSize(o, GetSize(a))
  PROVE  /\ ~(a \in Immediates /\ o.bits_6_and_7 = 3) => z \in Sized /\ Bytes(z) = n
         /\ a \in Immediates /\ o.bits_6_and_7 = 3 => z = "none" /\ n = 4
<1>1. o.raw \in AllOpcodes /\ o.bits_6_and_7 \in 0..3
  BY DEF Splits
<1>2. CASE GetSize(a) = "byte"
  <2>1. n = 1
    BY <1>2 DEF OperationSize
  <2>2. z = "byte" /\ a \notin Immediates
    BY <1>2 DEF GetSize, DisassembledSize, Immediates
  <2>3. QED
    BY <2>1, <2>2 DEF Bytes, Sized
<1>3. CASE GetSize(a) = "word"
  <2>1. n = 2
    BY <1>3 DEF OperationSize
  <2>2. z = "word" /\ a \notin Immediates
    BY <1>3 DEF GetSize, DisassembledSize, Immediates, OtherSizes
  <2>3. QED
    BY <2>1, <2>2 DEF Bytes, Sized
<1>4. CASE GetSize(a) = "longword"
  <2>1. n = 4
    BY <1>4 DEF OperationSize
  <2>2. z = "longword" /\ a \notin Immediates
    BY <1>4 DEF GetSize, DisassembledSize, Immediates, OtherSizes
  <2>3. QED
    BY <2>1, <2>2 DEF Bytes, Sized
<1>5. CASE GetSize(a) = "longword_register_byte_memory"
  <2>1. n = IF o.primary_address_mode = 0 THEN 4 ELSE 1
    BY <1>5 DEF OperationSize
  <2>2. z = (IF o.primary_address_mode = 0 THEN "longword" ELSE "byte") /\ a \notin Immediates
    BY <1>5 DEF GetSize, DisassembledSize, Immediates, OtherSizes
  <2>3. QED
    BY <2>1, <2>2 DEF Bytes, Sized
<1>6. CASE GetSize(a) = "move"
  <2>0. a \in {"MOVE", "MOVEA"}
    BY <1>6 DEF GetSize
  <2>1. n = <<1, 1, 4, 2>>[Bits(o.raw, 12, 2) + 1]
    BY <1>6 DEF OperationSize
  <2>2. z = <<"byte", "longword", "word">>[Bits(o.raw, 12, 2)] /\ a \notin Immediates
    BY <2>0 DEF DisassembledSize, Immediates
  <2>3. Bits(o.raw, 12, 2) \in 1..3
    BY <1>1, <2>0, BitsBelow DEF SizeKept
  <2>4. QED
    BY <2>1, <2>2, <2>3 DEF Bytes, Sized
<1>7. CASE GetSize(a) = "ext"
  <2>0. a = "EXT"
    BY <1>7 DEF GetSize
  <2>1. n = IF Bits(o.raw, 6, 1) = 1 THEN 4 ELSE 2
    BY <1>7 DEF OperationSize
  <2>2. z = (IF Bits(o.raw, 6, 1) = 1 THEN "longword" ELSE "word") /\ a \notin Immediates
    BY <2>0 DEF DisassembledSize, Immediates
  <2>3. QED
    BY <2>1, <2>2 DEF Bytes, Sized
<1>8. CASE GetSize(a) = "standard"
  <2>0. a \in Immediates \cup NeverSize3
    BY <1>8 DEF GetSize, Immediates, NeverSize3
  <2>1. n = <<1, 2, 4, 4>>[o.bits_6_and_7 + 1]
    BY <1>8 DEF OperationSize
  <2>2. z = <<"byte", "word", "longword", "none">>[o.bits_6_and_7 + 1]
    BY <2>0 DEF DisassembledSize, Immediates, NeverSize3
  <2>3. a \notin Immediates => o.bits_6_and_7 # 3
    BY <2>0 DEF SizeKept
  <2>4. QED
    BY <1>1, <2>1, <2>2, <2>3 DEF Bytes, Sized
<1>9. GetSize(a) \in {"byte", "word", "longword", "longword_register_byte_memory", "move", "ext",
                      "standard", "none"}
  BY DEF GetSize
<1>10. QED
  BY <1>2, <1>3, <1>4, <1>5, <1>6, <1>7, <1>8, <1>9

LEMMA OtherSizesAre ==
  ASSUME NEW o \in Splits, NEW a \in OtherSizes
  PROVE  /\ a \in {"DIVS", "DIVU", "MULS", "MULU"} => DisassembledSize(o, a) = "word"
         /\ a \in {"ADDA", "SUBA", "CMPA"} =>
              DisassembledSize(o, a) = IF o.bit_8 THEN "longword" ELSE "word"
         /\ a = "MOVEM" =>
              DisassembledSize(o, a) = IF Bits(o.raw, 6, 1) = 1 THEN "longword" ELSE "word"
  BY DEF OtherSizes, DisassembledSize

(***************************************************************************)
(* Operands.                                                               *)
(***************************************************************************)

StatusRegisters == {"status_register", "condition_code_register"}

(* How an operand the interpreter decodes and one that is shown correspond:*)
(* none is decoded, and nothing is read for the one shown; they are the    *)
(* same; the address of immediate data, which the interpreter reads no     *)
(* word for; a mode the 68000 has not.                                     *)
Quiet(x, s) == x.address = "none" /\ WordsOf(s) = 0 /\ s.address \notin Relative

Same(x, s) ==
  /\ x.address \in ModeNames \cup StatusRegisters
  /\ ShownAs(x, s) /\ s.size \in Sized \cup {"none"}
  /\ x.address = "immediate" => s.size # "none"

Unread(x, s) ==
  x.address = "immediate" /\ x.size = 0 /\ s.address = "immediate" /\ s.size = "none"

Nameless(x, s) ==
  x.address = "reserved" /\ s.address \in {"branch", "register_list", "register_list_reversed"}

Ordinary(x, s) == Quiet(x, s) \/ Same(x, s) \/ Unread(x, s) \/ Nameless(x, s)

LEMMA OperandFields ==
  ASSUME NEW x, NEW r, NEW z
  PROVE  /\ Operand(x, r, z).address = x /\ Operand(x, r, z).register = r
         /\ Operand(x, r, z).size = z
  BY DEF Operand

LEMMA BytesOf ==
  /\ Bytes("byte") = 1 /\ Bytes("word") = 2 /\ Bytes("longword") = 4 /\ Bytes("none") = 0
  /\ \A z \in Sized : Bytes(z) \in {1, 2, 4}
  BY DEF Bytes, Sized

LEMMA ModeOrdinary ==
  ASSUME NEW m \in 0..7, NEW r \in 0..7, NEW z \in Sized \cup {"none"}, NEW n, n = Bytes(z)
  PROVE  Ordinary(Operand(EffectiveAddress(m, r), r, n), Shown(m, r, z))
<1> DEFINE e == EffectiveAddress(m, r)
           x == Operand(e, r, n)
           s == Shown(m, r, z)
<1>1. x.address = e /\ x.register = r /\ x.size = n /\ s.register = r /\ s.size = z
  BY OperandFields, ShownMode
<1>2. e = "reserved" => s.address \in {"branch", "register_list", "register_list_reversed"}
  BY ShownMode
<1>3. e # "reserved" => s.address = e /\ e \in ModeNames
  <2>1. e # "reserved" => s.address = e
    BY ShownMode
  <2>2. e \in ModeNames \cup {"reserved"}
    <3>1. m = 0 \/ m = 1 \/ m = 2 \/ m = 3 \/ m = 4 \/ m = 5 \/ m = 6 \/ m = 7
      OBVIOUS
    <3>2. QED
      BY <3>1 DEF EffectiveAddress, ModeNames
  <2>3. QED
    BY <2>1, <2>2
<1>4. n = 0 <=> z = "none"
  BY BytesOf DEF Sized
<1> HIDE DEF x, s, e
<1>5. e = "reserved" => Ordinary(x, s)
  BY <1>1, <1>2 DEF Ordinary, Nameless
<1>6. e # "reserved" /\ ~(e = "immediate" /\ z = "none") => Ordinary(x, s)
  BY <1>1, <1>3 DEF Ordinary, Same, ShownAs
<1>7. e = "immediate" /\ z = "none" => Ordinary(x, s)
  BY <1>1, <1>3, <1>4 DEF Ordinary, Unread
<1>8. QED
  BY <1>5, <1>6, <1>7 DEF x, s, e

(* Operands of one mode. *)
LEMMA NamedOrdinary ==
  ASSUME NEW e \in (ModeNames \ {"immediate"}) \cup StatusRegisters, NEW r, NEW z \in Sized \cup {"none"}
  PROVE  Ordinary(Operand(e, r, Bytes(z)), Operand(e, r, z))
<1> DEFINE x == Operand(e, r, Bytes(z))
           s == Operand(e, r, z)
<1>1. /\ x.address = e /\ x.register = r /\ x.size = Bytes(z)
      /\ s.address = e /\ s.register = r /\ s.size = z
  BY OperandFields
<1>2. e # "immediate" /\ e \in ModeNames \cup StatusRegisters
  BY DEF StatusRegisters
<1> HIDE DEF x, s
<1>3. Ordinary(x, s)
  BY <1>1, <1>2 DEF Ordinary, Same, ShownAs
<1>4. QED
  BY <1>3 DEF x, s

LEMMA ImmediateOrdinary ==
  ASSUME NEW r, NEW z \in Sized
  PROVE  Ordinary(Operand("immediate", r, Bytes(z)), Shown(7, 4, z))
<1>1. Shown(7, 4, z).address = "immediate" /\ Shown(7, 4, z).size = z
  BY ShownMode
<1>2. z # "none" /\ ~HasRegister("immediate") /\ "immediate" \in ModeNames
  BY DEF Sized, HasRegister, ModeNames
<1>3. QED
  BY <1>1, <1>2, OperandFields DEF Ordinary, Same, ShownAs

LEMMA NoneOrdinary ==
  ASSUME NEW s, s.address \in ShownAddresses \ (Special \cup Relative \cup {"displacement", "index"})
  PROVE  Ordinary(NoOperand("none"), s)
<1>1. WordsOf(s) = 0
  BY DEF WordsOf, TwoWords, Special
<1>2. QED
  BY <1>1, OperandFields DEF Ordinary, Quiet, NoOperand

LEMMA SourceIs ==
  ASSUME NEW o, NEW a, IsSourceOperandRead(a),
         NEW rule, rule = GetSourceOperand(a), rule # "status_register",
         NEW n, n = OperationSize(o, GetSize(a))
  PROVE  SourceOperand(o, a) =
           Operand(SourceAddress(o, rule), SourceRegister(o, rule),
                   SourceSize(o, rule, IF rule \in SizedSources THEN n ELSE 0))
  BY DEF SourceOperand

LEMMA DestinationIs ==
  ASSUME NEW o, NEW a, IsDestinationOperandRead(a) \/ IsDestinationOperandWritten(a),
         NEW rule, rule = GetDestinationOperand(a),
         rule \notin {"condition_code_register", "status_register"},
         NEW n, n = OperationSize(o, GetSize(a))
  PROVE  DestinationOperand(o, a) =
           Operand(DestinationAddress(o, rule), DestinationRegister(o, rule),
                   DestinationSize(rule, IF rule \in SizedDestinations THEN n ELSE 0))
  BY DEF DestinationOperand

(* Instructions whose operands are not in their usual places. *)
Unusual == BranchWord \cup BranchShort \cup {"MOVEM", "MOVEP"}

LEMMA PrimaryOrdinary ==
  ASSUME NEW o \in Splits, NEW z \in Sized \cup {"none"}, NEW n, n = Bytes(z)
  PROVE  /\ Ordinary(Operand(Primary(o), o.primary_register, n), ShownPrimary(o, z))
         /\ Ordinary(Operand(Secondary(o), o.secondary_register, n),
                     Shown(o.secondary_address_mode, o.secondary_register, z))
<1>1. /\ o.primary_address_mode \in 0..7 /\ o.primary_register \in 0..7
      /\ o.secondary_address_mode \in 0..7 /\ o.secondary_register \in 0..7
  BY DEF Splits
<1>2. QED
  BY <1>1, ModeOrdinary DEF Primary, Secondary, ShownPrimary

LEMMA OrdinarySource ==
  ASSUME NEW o \in Splits, NEW a \in Names, SizeKept(o, a), a \notin Unusual,
         ~(a \in Immediates /\ o.bits_6_and_7 = 3),
         NEW z, z = DisassembledSize(o, a)
  PROVE  Ordinary(SourceOperand(o, a), GetSourceOperandShown(o, a, z))
<1> DEFINE rule == GetSourceOperand(a)
           n == OperationSize(o, GetSize(a))
           x == SourceOperand(o, a)
           s == GetSourceOperandShown(o, a, z)
<1>1. GetSize(a) # "none" /\ a \notin OtherSizes => z \in Sized /\ Bytes(z) = n
  BY SizesAgree
<1>2. IsSourceOperandRead(a) /\ rule # "status_register" =>
        x = Operand(SourceAddress(o, rule), SourceRegister(o, rule),
                    SourceSize(o, rule, IF rule \in SizedSources THEN n ELSE 0))
  BY SourceIs
<1> DEFINE at == SourceAddress(o, rule)
           register == SourceRegister(o, rule)
           size == SourceSize(o, rule, IF rule \in SizedSources THEN n ELSE 0)
<1>3. CASE rule = "immediate_data"
  <2>1. a \in Immediates \cup {"ORI_TO_CCR", "ORI_TO_SR", "ANDI_TO_CCR", "ANDI_TO_SR",
                               "EORI_TO_CCR", "EORI_TO_SR", "LINK", "STOP"}
    BY <1>3 DEF GetSourceOperand, Immediates, Unusual, BranchWord
  <2>2. IsSourceOperandRead(a) /\ GetSize(a) # "none" /\ a \notin OtherSizes /\ s = Shown(7, 4, z)
    BY <2>1 DEF IsSourceOperandRead, GetSize, OtherSizes, GetSourceOperandShown, Immediates
  <2>3. at = "immediate" /\ size = n
    BY <1>3 DEF SourceAddress, SourceSize, SizedSources
  <2>4. x = Operand("immediate", register, Bytes(z)) /\ z \in Sized
    BY <1>1, <1>2, <1>3, <2>2, <2>3
  <2>5. QED
    BY <2>2, <2>4, ImmediateOrdinary
<1>4. CASE rule = "data_register_secondary"
  <2>1. a \in {"BTST_DYNAMIC", "BCHG_DYNAMIC", "BCLR_DYNAMIC", "BSET_DYNAMIC", "EOR"}
    BY <1>4 DEF GetSourceOperand
  <2>2. /\ IsSourceOperandRead(a) /\ GetSize(a) # "none" /\ a \notin OtherSizes
        /\ s = Operand("data_register", o.secondary_register, z)
    BY <2>1 DEF IsSourceOperandRead, GetSize, OtherSizes, GetSourceOperandShown, DataRegister
  <2>3. at = "data_register" /\ size = n /\ register = o.secondary_register
    BY <1>4 DEF SourceAddress, SourceSize, SizedSources, SourceRegister
  <2>4. x = Operand("data_register", o.secondary_register, Bytes(z)) /\ z \in Sized
    BY <1>1, <1>2, <1>4, <2>2, <2>3
  <2>5. QED
    BY <2>2, <2>4, NamedOrdinary DEF ModeNames
<1>5. CASE rule = "immediate_data_byte"
  <2>1. a \in {"BTST_STATIC", "BCHG_STATIC", "BCLR_STATIC", "BSET_STATIC"}
    BY <1>5 DEF GetSourceOperand
  <2>2. IsSourceOperandRead(a) /\ s = Shown(7, 4, "byte")
    BY <2>1 DEF IsSourceOperandRead, GetSourceOperandShown
  <2>3. at = "immediate" /\ size = 1
    BY <1>5 DEF SourceAddress, SourceSize, SizedSources
  <2>4. x = Operand("immediate", register, Bytes("byte")) /\ "byte" \in Sized
    BY <1>2, <1>5, <2>2, <2>3, BytesOf DEF Sized
  <2>5. QED
    BY <2>2, <2>4, ImmediateOrdinary
<1>6. CASE rule = "memory_address_primary"
  <2>1. a \in {"PEA", "JSR", "JMP", "LEA"}
    BY <1>6 DEF GetSourceOperand
  <2>2. IsSourceOperandRead(a) /\ s = ShownPrimary(o, "none")
    BY <2>1 DEF IsSourceOperandRead, GetSourceOperandShown
  <2>3. at = Primary(o) /\ size = 0 /\ register = o.primary_register
    BY <1>6 DEF SourceAddress, SourceSize, SizedSources, SourceRegister
  <2>4. x = Operand(Primary(o), o.primary_register, Bytes("none"))
    BY <1>2, <1>6, <2>2, <2>3, BytesOf
  <2>5. QED
    BY <2>2, <2>4, PrimaryOrdinary
<1>7. CASE rule = "status_register"
  <2>1. a = "MOVE_FROM_SR"
    BY <1>7 DEF GetSourceOperand
  <2>2. x = Operand("status_register", 0, Bytes("none")) /\ s = Operand("status_register", 0, "none")
    BY <1>7, <2>1, BytesOf DEF IsSourceOperandRead, SourceOperand, GetSourceOperandShown, NoOperand
  <2>3. QED
    BY <2>2, NamedOrdinary DEF StatusRegisters
<1>8. CASE rule = "bcd_x"
  <2>1. a \in {"SBCD", "ABCD", "SUBX", "ADDX"}
    BY <1>8 DEF GetSourceOperand
  <2>2. /\ IsSourceOperandRead(a) /\ GetSize(a) # "none" /\ a \notin OtherSizes
        /\ s = Operand(PairAddress(o), o.primary_register, z)
    BY <2>1 DEF IsSourceOperandRead, GetSize, OtherSizes, GetSourceOperandShown, PairOperand
  <2>3. at = PairAddress(o) /\ size = n /\ register = o.primary_register
    BY <1>8 DEF SourceAddress, SourceSize, SizedSources, SourceRegister
  <2>4. x = Operand(PairAddress(o), o.primary_register, Bytes(z)) /\ z \in Sized
    BY <1>1, <1>2, <1>8, <2>2, <2>3
  <2>5. PairAddress(o) \in ModeNames \ {"immediate"}
    BY DEF PairAddress, ModeNames
  <2>6. QED
    BY <2>2, <2>4, <2>5, NamedOrdinary
<1>9. CASE rule = "data_register_secondary_or_primary_address_mode"
  <2>1. a \in {"OR", "SUB", "AND", "ADD"}
    BY <1>9 DEF GetSourceOperand
  <2>2. /\ IsSourceOperandRead(a) /\ GetSize(a) # "none" /\ a \notin OtherSizes
        /\ s = IF o.bit_8 THEN Operand("data_register", o.secondary_register, z)
               ELSE ShownPrimary(o, z)
    BY <2>1 DEF IsSourceOperandRead, GetSize, OtherSizes, GetSourceOperandShown, DataRegister
  <2>3. /\ size = n
        /\ at = IF o.bit_8 THEN "data_register" ELSE Primary(o)
        /\ register = IF o.bit_8 THEN o.secondary_register ELSE o.primary_register
    BY <1>9 DEF SourceAddress, SourceSize, SizedSources, SourceRegister
  <2>4. /\ x = Operand(at, register, Bytes(z)) /\ z \in Sized
    BY <1>1, <1>2, <1>9, <2>2, <2>3
  <2>5. CASE o.bit_8
    BY <2>2, <2>3, <2>4, <2>5, NamedOrdinary DEF ModeNames
  <2>6. CASE ~o.bit_8
    BY <2>2, <2>3, <2>4, <2>6, PrimaryOrdinary
  <2>7. QED
    BY <2>5, <2>6
<1>10. CASE rule = "address_register_primary_postincrement"
  <2>1. a = "CMPM"
    BY <1>10 DEF GetSourceOperand
  <2>2. /\ IsSourceOperandRead(a) /\ GetSize(a) # "none" /\ a \notin OtherSizes
        /\ s = Operand("postincrement", o.primary_register, z)
    BY <2>1 DEF IsSourceOperandRead, GetSize, OtherSizes, GetSourceOperandShown
  <2>3. at = "postincrement" /\ size = n /\ register = o.primary_register
    BY <1>10 DEF SourceAddress, SourceSize, SizedSources, SourceRegister
  <2>4. x = Operand("postincrement", o.primary_register, Bytes(z)) /\ z \in Sized
    BY <1>1, <1>2, <1>10, <2>2, <2>3
  <2>5. QED
    BY <2>2, <2>4, NamedOrdinary DEF ModeNames
<1>11. CASE rule = "primary_address_mode"
  <2>1. a \in {"MOVEA", "MOVE", "MOVE_TO_CCR", "MOVE_TO_SR", "CHK", "CMP", "TST"}
    BY <1>11 DEF GetSourceOperand
  <2>2. /\ IsSourceOperandRead(a) /\ GetSize(a) # "none" /\ a \notin OtherSizes
        /\ s = ShownPrimary(o, z)
    BY <2>1 DEF IsSourceOperandRead, GetSize, OtherSizes, GetSourceOperandShown
  <2>3. at = Primary(o) /\ size = n /\ register = o.primary_register
    BY <1>11 DEF SourceAddress, SourceSize, SizedSources, SourceRegister
  <2>4. x = Operand(Primary(o), o.primary_register, Bytes(z)) /\ z \in Sized
    BY <1>1, <1>2, <1>11, <2>2, <2>3
  <2>5. QED
    BY <2>2, <2>4, PrimaryOrdinary
<1>12. CASE rule = "primary_address_mode_sized"
  <2>1. a \in {"SUBA", "CMPA", "ADDA"}
    BY <1>12 DEF GetSourceOperand
  <2>2. IsSourceOperandRead(a) /\ s = ShownPrimary(o, z)
    BY <2>1 DEF IsSourceOperandRead, GetSourceOperandShown
  <2>3. at = Primary(o) /\ size = (IF o.bit_8 THEN 4 ELSE 2) /\ register = o.primary_register
    BY <1>12 DEF SourceAddress, SourceSize, SizedSources, SourceRegister
  <2>4. z = IF o.bit_8 THEN "longword" ELSE "word"
    BY <2>1, OtherSizesAre DEF OtherSizes
  <2>5. x = Operand(Primary(o), o.primary_register, Bytes(z)) /\ z \in Sized
    BY <1>2, <1>12, <2>2, <2>3, <2>4, BytesOf DEF Sized
  <2>6. QED
    BY <2>2, <2>5, PrimaryOrdinary
<1>13. CASE rule = "primary_address_mode_word"
  <2>1. a \in {"DIVU", "DIVS", "MULU", "MULS"}
    BY <1>13 DEF GetSourceOperand
  <2>2. IsSourceOperandRead(a) /\ s = ShownPrimary(o, "word")
    BY <2>1 DEF IsSourceOperandRead, GetSourceOperandShown
  <2>3. at = Primary(o) /\ size = 2 /\ register = o.primary_register
    BY <1>13 DEF SourceAddress, SourceSize, SizedSources, SourceRegister
  <2>4. x = Operand(Primary(o), o.primary_register, Bytes("word")) /\ "word" \in Sized
    BY <1>2, <1>13, <2>2, <2>3, BytesOf DEF Sized
  <2>5. QED
    BY <2>2, <2>4, PrimaryOrdinary
<1>14. CASE rule \in {"none", "immediate_data_word"}
  <2>1. ~IsSourceOperandRead(a)
    BY <1>14 DEF GetSourceOperand, IsSourceOperandRead, Unusual, BranchWord, BranchShort, Names
  <2>2. x = NoOperand("none")
    BY <2>1 DEF SourceOperand
  <2>3. \/ s \in {Operand("embedded", 0, "byte"), Operand("embedded", 0, "word"),
                  Operand("user_stack_pointer", 0, "longword"), Operand("none", 0, "none")}
        \/ s = Operand("address_register", o.primary_register, "longword")
    BY <1>14, <2>1 DEF IsSourceOperandRead, GetSourceOperandShown, Unusual, BranchWord, BranchShort,
                       AddressRegister
  <2>4. s.address \in {"embedded", "user_stack_pointer", "none", "address_register"}
    BY <2>3, OperandFields
  <2>5. s.address \in ShownAddresses \ (Special \cup Relative \cup {"displacement", "index"})
    BY <2>4 DEF ShownAddresses, Special, Relative
  <2>6. QED
    BY <2>2, <2>5, NoneOrdinary
<1>15. rule \in {"immediate_data", "data_register_secondary", "immediate_data_byte",
                 "memory_address_primary", "status_register", "bcd_x",
                 "data_register_secondary_or_primary_address_mode",
                 "address_register_primary_postincrement", "primary_address_mode",
                 "primary_address_mode_sized", "primary_address_mode_word", "none",
                 "immediate_data_word"}
  BY DEF GetSourceOperand
<1>16. QED
  BY <1>3, <1>4, <1>5, <1>6, <1>7, <1>8, <1>9, <1>10, <1>11, <1>12, <1>13, <1>14, <1>15

LEMMA HasDestination ==
  ASSUME NEW a
  PROVE  IsDestinationOperandRead(a) \/ IsDestinationOperandWritten(a) <=> a \notin NoDestination
  BY DEF IsDestinationOperandRead, IsDestinationOperandWritten, WrittenOnly, ReadOnly

LEMMA OrdinaryDestination ==
  ASSUME NEW o \in Splits, NEW a \in Names, SizeKept(o, a), a \notin Unusual,
         ~(a \in Immediates /\ o.bits_6_and_7 = 3),
         NEW z, z = DisassembledSize(o, a)
  PROVE  Ordinary(DestinationOperand(o, a), GetDestinationOperandShown(o, a, z))
<1> DEFINE rule == GetDestinationOperand(a)
           n == OperationSize(o, GetSize(a))
           y == DestinationOperand(o, a)
           t == GetDestinationOperandShown(o, a, z)
<1>1. GetSize(a) # "none" /\ a \notin OtherSizes => z \in Sized /\ Bytes(z) = n
  BY SizesAgree
<1> DEFINE at == DestinationAddress(o, rule)
           register == DestinationRegister(o, rule)
           size == DestinationSize(rule, IF rule \in SizedDestinations THEN n ELSE 0)
<1>2. a \notin NoDestination /\ rule \notin {"condition_code_register", "status_register"} =>
        y = Operand(at, register, size)
  BY DestinationIs, HasDestination
<1>3. CASE rule = "data_register_primary"
  <2>1. a \in {"EXT", "SWAP", "ASD_REGISTER", "LSD_REGISTER", "ROXD_REGISTER", "ROD_REGISTER"}
    BY <1>3 DEF GetDestinationOperand
  <2>2. /\ a \notin NoDestination /\ GetSize(a) # "none" /\ a \notin OtherSizes
        /\ t = Operand("data_register", o.primary_register, z)
    BY <2>1 DEF NoDestination, GetSize, OtherSizes, GetDestinationOperandShown, DataRegister
  <2>3. at = "data_register" /\ size = n /\ register = o.primary_register
    BY <1>3 DEF DestinationAddress, DestinationSize, SizedDestinations, DestinationRegister
  <2>4. y = Operand("data_register", o.primary_register, Bytes(z)) /\ z \in Sized
    BY <1>1, <1>2, <1>3, <2>2, <2>3
  <2>5. QED
    BY <2>2, <2>4, NamedOrdinary DEF ModeNames
<1>4. CASE rule = "data_register_secondary"
  <2>1. a \in {"MOVEQ", "CMP", "DIVU", "DIVS", "MULU", "MULS"}
    BY <1>4 DEF GetDestinationOperand
  <2>2. a \notin NoDestination
    BY <2>1 DEF NoDestination
  <2>3. at = "data_register" /\ size = n /\ register = o.secondary_register
    BY <1>4 DEF DestinationAddress, DestinationSize, SizedDestinations, DestinationRegister
  <2>4. y = Operand("data_register", o.secondary_register, n)
    BY <1>2, <1>4, <2>2, <2>3
  <2>5. CASE a \in {"MOVEQ", "CMP"}
    <3>1. /\ GetSize(a) # "none" /\ a \notin OtherSizes
          /\ t = Operand("data_register", o.secondary_register, z)
      BY <2>5 DEF GetSize, OtherSizes, GetDestinationOperandShown, DataRegister
    <3>2. QED
      BY <1>1, <2>4, <3>1, NamedOrdinary DEF ModeNames
  <2>6. CASE a \in {"DIVU", "DIVS", "MULU", "MULS"}
    <3>1. t = Operand("data_register", o.secondary_register, "longword")
      BY <2>6 DEF GetDestinationOperandShown, DataRegister
    <3>2. n = Bytes("longword") /\ "longword" \in Sized
      BY <2>6, BytesOf DEF GetSize, OperationSize, Sized
    <3>3. QED
      BY <2>4, <3>1, <3>2, NamedOrdinary DEF ModeNames
  <2>7. QED
    BY <2>1, <2>5, <2>6
<1>5. CASE rule = "address_register_secondary"
  <2>1. a \in {"LEA", "SUBA", "CMPA", "ADDA"}
    BY <1>5 DEF GetDestinationOperand
  <2>2. /\ a \notin NoDestination
        /\ t = Operand("address_register", o.secondary_register, "longword")
    BY <2>1 DEF NoDestination, GetDestinationOperandShown, AddressRegister
  <2>3. at = "address_register" /\ size = n /\ register = o.secondary_register
    BY <1>5 DEF DestinationAddress, DestinationSize, SizedDestinations, DestinationRegister
  <2>4. n = Bytes("longword") /\ "longword" \in Sized
    BY <2>1, BytesOf DEF GetSize, OperationSize, Sized
  <2>5. y = Operand("address_register", o.secondary_register, Bytes("longword"))
    BY <1>2, <1>5, <2>2, <2>3, <2>4
  <2>6. QED
    BY <2>2, <2>4, <2>5, NamedOrdinary DEF ModeNames
<1>6. CASE rule = "address_register_secondary_full"
  <2>1. a = "MOVEA"
    BY <1>6 DEF GetDestinationOperand
  <2>2. /\ a \notin NoDestination
        /\ t = Operand("address_register", o.secondary_register, "longword")
    BY <2>1 DEF NoDestination, GetDestinationOperandShown, AddressRegister
  <2>3. at = "address_register" /\ size = 4 /\ register = o.secondary_register
    BY <1>6 DEF DestinationAddress, DestinationSize, SizedDestinations, DestinationRegister
  <2>4. y = Operand("address_register", o.secondary_register, Bytes("longword"))
        /\ "longword" \in Sized
    BY <1>2, <1>6, <2>2, <2>3, BytesOf DEF Sized
  <2>5. QED
    BY <2>2, <2>4, NamedOrdinary DEF ModeNames
<1>7. CASE rule = "secondary_address_mode"
  <2>1. a \in {"MOVE"}
    BY <1>7 DEF GetDestinationOperand
  <2>2. /\ a \notin NoDestination /\ GetSize(a) # "none" /\ a \notin OtherSizes
        /\ t = Shown(o.secondary_address_mode, o.secondary_register, z)
    BY <2>1 DEF NoDestination, GetSize, OtherSizes, GetDestinationOperandShown
  <2>3. at = Secondary(o) /\ size = n /\ register = o.secondary_register
    BY <1>7 DEF DestinationAddress, DestinationSize, SizedDestinations, DestinationRegister
  <2>4. y = Operand(Secondary(o), o.secondary_register, Bytes(z)) /\ z \in Sized
    BY <1>1, <1>2, <1>7, <2>2, <2>3
  <2>5. QED
    BY <2>2, <2>4, PrimaryOrdinary
<1>8. CASE rule = "bcd_x"
  <2>1. a \in {"SBCD", "ABCD", "SUBX", "ADDX"}
    BY <1>8 DEF GetDestinationOperand
  <2>2. /\ a \notin NoDestination /\ GetSize(a) # "none" /\ a \notin OtherSizes
        /\ t = Operand(PairAddress(o), o.secondary_register, z)
    BY <2>1 DEF NoDestination, GetSize, OtherSizes, GetDestinationOperandShown, PairOperand
  <2>3. at = PairAddress(o) /\ size = n /\ register = o.secondary_register
    BY <1>8 DEF DestinationAddress, DestinationSize, SizedDestinations, DestinationRegister
  <2>4. y = Operand(PairAddress(o), o.secondary_register, Bytes(z)) /\ z \in Sized
    BY <1>1, <1>2, <1>8, <2>2, <2>3
  <2>5. PairAddress(o) \in ModeNames \ {"immediate"}
    BY DEF PairAddress, ModeNames
  <2>6. QED
    BY <2>2, <2>4, <2>5, NamedOrdinary
<1>9. CASE rule = "data_register_secondary_or_primary_address_mode"
  <2>1. a \in {"OR", "SUB", "AND", "ADD"}
    BY <1>9 DEF GetDestinationOperand
  <2>2. /\ a \notin NoDestination /\ GetSize(a) # "none" /\ a \notin OtherSizes
        /\ t = IF o.bit_8 THEN ShownPrimary(o, z)
               ELSE Operand("data_register", o.secondary_register, z)
    BY <2>1 DEF NoDestination, GetSize, OtherSizes, GetDestinationOperandShown, DataRegister
  <2>3. /\ size = n
        /\ at = IF o.bit_8 THEN Primary(o) ELSE "data_register"
        /\ register = IF o.bit_8 THEN o.primary_register ELSE o.secondary_register
    BY <1>9 DEF DestinationAddress, DestinationSize, SizedDestinations, DestinationRegister
  <2>4. y = Operand(at, register, Bytes(z)) /\ z \in Sized
    BY <1>1, <1>2, <1>9, <2>2, <2>3
  <2>5. CASE o.bit_8
    BY <2>2, <2>3, <2>4, <2>5, PrimaryOrdinary
  <2>6. CASE ~o.bit_8
    BY <2>2, <2>3, <2>4, <2>6, NamedOrdinary DEF ModeNames
  <2>7. QED
    BY <2>5, <2>6
<1>10. CASE rule = "address_register_secondary_postincrement"
  <2>1. a \in {"CMPM"}
    BY <1>10 DEF GetDestinationOperand
  <2>2. /\ a \notin NoDestination /\ GetSize(a) # "none" /\ a \notin OtherSizes
        /\ t = Operand("postincrement", o.secondary_register, z)
    BY <2>1 DEF NoDestination, GetSize, OtherSizes, GetDestinationOperandShown
  <2>3. at = "postincrement" /\ size = n /\ register = o.secondary_register
    BY <1>10 DEF DestinationAddress, DestinationSize, SizedDestinations, DestinationRegister
  <2>4. y = Operand("postincrement", o.secondary_register, Bytes(z)) /\ z \in Sized
    BY <1>1, <1>2, <1>10, <2>2, <2>3
  <2>5. QED
    BY <2>2, <2>4, NamedOrdinary DEF ModeNames
<1>11. CASE rule = "primary_address_mode"
  <2>1. a \in {"ORI", "ANDI", "SUBI", "ADDI", "EORI", "CMPI", "BTST_STATIC", "BCHG_STATIC", "BCLR_STATIC",
               "BSET_STATIC", "BTST_DYNAMIC", "BCHG_DYNAMIC", "BCLR_DYNAMIC", "BSET_DYNAMIC",
               "NEGX", "NEG", "NOT", "NBCD", "TAS", "MOVE_FROM_SR", "CLR", "ADDAQ", "SUBAQ",
               "ADDQ", "SUBQ", "SCC", "EOR", "ASD_MEMORY", "LSD_MEMORY", "ROXD_MEMORY",
               "ROD_MEMORY"}
    BY <1>11 DEF GetDestinationOperand
  <2>2. /\ a \notin NoDestination /\ GetSize(a) # "none" /\ a \notin OtherSizes
        /\ t = ShownPrimary(o, z)
    BY <2>1 DEF NoDestination, GetSize, OtherSizes, GetDestinationOperandShown
  <2>3. at = Primary(o) /\ size = n /\ register = o.primary_register
    BY <1>11 DEF DestinationAddress, DestinationSize, SizedDestinations, DestinationRegister
  <2>4. y = Operand(Primary(o), o.primary_register, Bytes(z)) /\ z \in Sized
    BY <1>1, <1>2, <1>11, <2>2, <2>3
  <2>5. QED
    BY <2>2, <2>4, PrimaryOrdinary
<1>12. CASE rule = "condition_code_register"
  <2>1. a \in {"ORI_TO_CCR", "ANDI_TO_CCR", "EORI_TO_CCR", "MOVE_TO_CCR"}
    BY <1>12 DEF GetDestinationOperand
  <2>2. a \notin NoDestination /\ t = Operand("condition_code_register", 0, "none")
    BY <2>1 DEF NoDestination, GetDestinationOperandShown
  <2>3. y = Operand("condition_code_register", 0, Bytes("none"))
    BY <1>12, <2>2, HasDestination, BytesOf DEF DestinationOperand, NoOperand
  <2>4. QED
    BY <2>2, <2>3, NamedOrdinary DEF StatusRegisters
<1>13. CASE rule = "status_register"
  <2>1. a \in {"ORI_TO_SR", "ANDI_TO_SR", "EORI_TO_SR", "MOVE_TO_SR"}
    BY <1>13 DEF GetDestinationOperand
  <2>2. a \notin NoDestination /\ t = Operand("status_register", 0, "none")
    BY <2>1 DEF NoDestination, GetDestinationOperandShown
  <2>3. y = Operand("status_register", 0, Bytes("none"))
    BY <1>13, <2>2, HasDestination, BytesOf DEF DestinationOperand, NoOperand
  <2>4. QED
    BY <2>2, <2>3, NamedOrdinary DEF StatusRegisters
<1>14. CASE rule \in {"none", "movem", "movep"}
  <2>1. a \in NoDestination
    BY <1>14 DEF GetDestinationOperand, NoDestination, Unusual, Names
  <2>2. y = NoOperand("none")
    BY <1>14, <2>1, HasDestination DEF DestinationOperand
  <2>3. \/ t \in {Operand("user_stack_pointer", 0, "longword"), Operand("none", 0, "none")}
        \/ t = Operand("address_register", o.primary_register, "longword")
    BY <1>14, <2>1 DEF NoDestination, GetDestinationOperandShown, Unusual, BranchWord,
                       AddressRegister
  <2>4. t.address \in {"user_stack_pointer", "none", "address_register"}
    BY <2>3, OperandFields
  <2>5. t.address \in ShownAddresses \ (Special \cup Relative \cup {"displacement", "index"})
    BY <2>4 DEF ShownAddresses, Special, Relative
  <2>6. QED
    BY <2>2, <2>5, NoneOrdinary
<1>15. rule \in {"data_register_primary", "data_register_secondary", "address_register_secondary",
                 "address_register_secondary_full", "secondary_address_mode", "bcd_x",
                 "data_register_secondary_or_primary_address_mode",
                 "address_register_secondary_postincrement", "primary_address_mode",
                 "condition_code_register", "status_register", "none", "movem", "movep"}
  BY DEF GetDestinationOperand
<1>16. QED
  BY <1>3, <1>4, <1>5, <1>6, <1>7, <1>8, <1>9, <1>10, <1>11, <1>12, <1>13, <1>14, <1>15

(* The operands of the instructions that have them in unusual places. *)
LEMMA UnusualOperands ==
  ASSUME NEW o \in Splits, NEW a \in Unusual, NEW z, z = DisassembledSize(o, a),
         NEW x, x = SourceOperand(o, a), NEW y, y = DestinationOperand(o, a),
         NEW s, s = GetSourceOperandShown(o, a, z), NEW t, t = GetDestinationOperandShown(o, a, z)
  PROVE  /\ a \in BranchShort =>
              /\ x = NoOperand("none") /\ y = NoOperand("none")
              /\ s = Operand("embedded_address", 0, "byte") /\ t = Operand("none", 0, "none")
         /\ a \in BranchWord =>
              /\ x = Operand("immediate", o.primary_register, 2) /\ y = NoOperand("none")
         /\ a \in BranchWord \ {"DBCC"} =>
              s = Shown(7, 5, "word") /\ t = Operand("none", 0, "none")
         /\ a = "DBCC" =>
              s = Operand("data_register", o.primary_register, "word") /\ t = Shown(7, 5, "word")
         /\ a = "MOVEM" =>
              /\ x = Operand("immediate", o.primary_register, 2)
              /\ y = Operand(Primary(o), o.primary_register, 0)
         /\ a = "MOVEM" /\ MovesToRegisters(o) =>
              s = ShownPrimary(o, "none") /\ t = Shown(7, 6, "word")
         /\ a = "MOVEM" /\ ~MovesToRegisters(o) =>
              /\ s \in {Shown(7, 6, "word"), Shown(7, 7, "word")}
              /\ t = ShownPrimary(o, "none")
         /\ a = "MOVEP" =>
              /\ x = NoOperand("none") /\ y = Operand("displacement", o.primary_register, 0)
         /\ a = "MOVEP" /\ Bits(o.raw, 7, 1) = 1 =>
              /\ s = Operand("data_register", o.secondary_register, "none")
              /\ t = Operand("displacement", o.primary_register, "none")
         /\ a = "MOVEP" /\ Bits(o.raw, 7, 1) # 1 =>
              /\ s = Operand("displacement", o.primary_register, "none")
              /\ t = Operand("data_register", o.secondary_register, "none")
<1>1. ASSUME a \in BranchShort
      PROVE  /\ x = NoOperand("none") /\ y = NoOperand("none")
             /\ s = Operand("embedded_address", 0, "byte") /\ t = Operand("none", 0, "none")
  <2>1. ~IsSourceOperandRead(a) /\ a \in NoDestination
    BY <1>1 DEF BranchShort, IsSourceOperandRead, NoDestination
  <2>2. GetDestinationOperand(a) = "none"
    BY <1>1 DEF BranchShort, GetDestinationOperand
  <2>3. x = NoOperand("none") /\ y = NoOperand("none")
    BY <2>1, <2>2, HasDestination DEF SourceOperand, DestinationOperand
  <2>4. QED
    BY <1>1, <2>3 DEF BranchShort, GetSourceOperandShown, GetDestinationOperandShown
<1>2. ASSUME a \in BranchWord
      PROVE  /\ x = Operand("immediate", o.primary_register, 2) /\ y = NoOperand("none")
  <2>1. IsSourceOperandRead(a) /\ a \in NoDestination /\ GetDestinationOperand(a) = "none"
    BY <1>2 DEF BranchWord, IsSourceOperandRead, NoDestination, GetDestinationOperand
  <2>2. CASE a = "DBCC"
    <3>1. GetSourceOperand(a) = "immediate_data" /\ GetSize(a) = "word"
      BY <2>2 DEF GetSourceOperand, GetSize
    <3>2. OperationSize(o, GetSize(a)) = 2
      BY <3>1 DEF OperationSize
    <3>3. x = Operand("immediate", o.primary_register, 2)
      BY <2>1, <3>1, <3>2, SourceIs DEF SourceAddress, SourceSize, SourceRegister, SizedSources
    <3>4. QED
      BY <2>1, <3>3, HasDestination DEF DestinationOperand
  <2>3. CASE a # "DBCC"
    <3>1. GetSourceOperand(a) = "immediate_data_word"
      BY <1>2, <2>3 DEF GetSourceOperand, BranchWord
    <3>2. x = Operand("immediate", o.primary_register, 2)
      BY <2>1, <3>1, SourceIs DEF SourceAddress, SourceSize, SourceRegister, SizedSources
    <3>3. QED
      BY <2>1, <3>2, HasDestination DEF DestinationOperand
  <2>4. QED
    BY <2>2, <2>3
<1>3. a \in BranchWord \ {"DBCC"} => s = Shown(7, 5, "word") /\ t = Operand("none", 0, "none")
  BY DEF BranchWord, GetSourceOperandShown, GetDestinationOperandShown
<1>4. a = "DBCC" =>
        s = Operand("data_register", o.primary_register, "word") /\ t = Shown(7, 5, "word")
  BY DEF GetSourceOperandShown, GetDestinationOperandShown, DataRegister, DisassembledSize
<1>5. ASSUME a = "MOVEM"
      PROVE  /\ x = Operand("immediate", o.primary_register, 2)
             /\ y = Operand(Primary(o), o.primary_register, 0)
  <2>1. /\ IsSourceOperandRead(a) /\ a \notin NoDestination /\ GetDestinationOperand(a) = "movem"
        /\ GetSourceOperand(a) = "immediate_data" /\ GetSize(a) = "word"
    BY <1>5 DEF IsSourceOperandRead, NoDestination, GetDestinationOperand, GetSourceOperand, GetSize
  <2>2. OperationSize(o, GetSize(a)) = 2
    BY <2>1 DEF OperationSize
  <2>3. x = Operand("immediate", o.primary_register, 2)
    BY <2>1, <2>2, SourceIs DEF SourceAddress, SourceSize, SourceRegister, SizedSources
  <2>4. y = Operand(Primary(o), o.primary_register, 0)
    BY <2>1, HasDestination, DestinationIs
    DEF DestinationAddress, DestinationSize, DestinationRegister, SizedDestinations
  <2>5. QED
    BY <2>3, <2>4
<1>6. /\ a = "MOVEM" /\ MovesToRegisters(o) =>
           s = ShownPrimary(o, "none") /\ t = Shown(7, 6, "word")
      /\ a = "MOVEM" /\ ~MovesToRegisters(o) =>
           /\ s \in {Shown(7, 6, "word"), Shown(7, 7, "word")}
           /\ t = ShownPrimary(o, "none")
  BY DEF GetSourceOperandShown, GetDestinationOperandShown
<1>7. ASSUME a = "MOVEP"
      PROVE  /\ x = NoOperand("none") /\ y = Operand("displacement", o.primary_register, 0)
  <2>1. /\ ~IsSourceOperandRead(a) /\ a \notin NoDestination /\ GetDestinationOperand(a) = "movep"
    BY <1>7 DEF IsSourceOperandRead, NoDestination, GetDestinationOperand
  <2>2. x = NoOperand("none")
    BY <2>1 DEF SourceOperand
  <2>3. y = Operand("displacement", o.primary_register, 0)
    BY <2>1, HasDestination, DestinationIs
    DEF DestinationAddress, DestinationSize, DestinationRegister, SizedDestinations
  <2>4. QED
    BY <2>2, <2>3
<1>8. /\ a = "MOVEP" /\ Bits(o.raw, 7, 1) = 1 =>
           /\ s = Operand("data_register", o.secondary_register, "none")
           /\ t = Operand("displacement", o.primary_register, "none")
      /\ a = "MOVEP" /\ Bits(o.raw, 7, 1) # 1 =>
           /\ s = Operand("displacement", o.primary_register, "none")
           /\ t = Operand("data_register", o.secondary_register, "none")
  BY DEF GetSourceOperandShown, GetDestinationOperandShown, DataRegister
<1>9. QED
  BY <1>1, <1>2, <1>3, <1>4, <1>5, <1>6, <1>7, <1>8

(* Immediate data of size 3. *)
LEMMA Size3Operands ==
  ASSUME NEW o \in Splits, NEW a \in Immediates, o.bits_6_and_7 = 3,
         NEW z, z = DisassembledSize(o, a)
  PROVE  /\ SourceOperand(o, a) = Operand("immediate", o.primary_register, 4)
         /\ DestinationOperand(o, a) = Operand(Primary(o), o.primary_register, 4)
         /\ GetSourceOperandShown(o, a, z) = Shown(7, 4, "none")
         /\ GetDestinationOperandShown(o, a, z) = ShownPrimary(o, "none")
         /\ GetSize(a) = "standard"
<1>1. /\ IsSourceOperandRead(a) /\ a \notin NoDestination /\ GetSize(a) = "standard"
      /\ GetSourceOperand(a) = "immediate_data"
      /\ GetDestinationOperand(a) = "primary_address_mode"
  BY DEF Immediates, IsSourceOperandRead, NoDestination, GetSize, GetSourceOperand,
         GetDestinationOperand
<1>2. OperationSize(o, GetSize(a)) = 4
  BY <1>1 DEF OperationSize
<1>3. z = "none"
  BY DEF DisassembledSize, Immediates
<1>4. SourceOperand(o, a) = Operand("immediate", o.primary_register, 4)
  BY <1>1, <1>2, SourceIs DEF SourceAddress, SourceSize, SourceRegister, SizedSources
<1>5. DestinationOperand(o, a) = Operand(Primary(o), o.primary_register, 4)
  BY <1>1, <1>2, HasDestination, DestinationIs
  DEF DestinationAddress, DestinationSize, DestinationRegister, SizedDestinations
<1>6. /\ GetSourceOperandShown(o, a, z) = Shown(7, 4, "none")
      /\ GetDestinationOperandShown(o, a, z) = ShownPrimary(o, "none")
  BY <1>3 DEF GetSourceOperandShown, GetDestinationOperandShown, Immediates
<1>7. QED
  BY <1>1, <1>4, <1>5, <1>6

(***************************************************************************)
(* A listing and an execution of the same words.                           *)
(***************************************************************************)

SizeShown == line.decoded.size

LEMMA DecodedLine ==
  ASSUME LineInv
  PROVE  /\ opcode \in Splits /\ instruction \in Names /\ SizeKept(opcode, instruction)
         /\ SizeShown = DisassembledSize(opcode, instruction)
         /\ SourceShown = GetSourceOperandShown(opcode, instruction, SizeShown)
         /\ DestinationShown = GetDestinationOperandShown(opcode, instruction, SizeShown)
<1>1. PICK raw \in AllOpcodes : line.decoded = Decoded(raw)
  BY DEF LineInv, LineType
<1> DEFINE o == SplitOpcode(raw)
           a == GetInstruction(o)
           z == DisassembledSize(o, a)
<1>2. /\ opcode = o /\ instruction = a /\ SizeShown = z
      /\ SourceShown = GetSourceOperandShown(o, a, z)
      /\ DestinationShown = GetDestinationOperandShown(o, a, z)
  BY <1>1 DEF Decoded, opcode, instruction, SizeShown, SourceShown, DestinationShown
<1>3. o \in Splits /\ a \in Names /\ SizeKept(o, a)
  BY Split, DecodedInstruction, DecodedSize DEF DecodeOpcode
<1> HIDE DEF o, a, z
<1>4. z = DisassembledSize(o, a)
  BY DEF z
<1>5. QED
  BY <1>2, <1>3, <1>4

(* For every set of opcodes, the size in an instruction's name is the one  *)
(* the interpreter operates with, but for those that are told.             *)
THEOREM SizesShown == Spec => []SizesAsExecuted
<1>1. LineInv => SizesAsExecuted
  <2> SUFFICES ASSUME LineInv, GetSize(instruction) # "none"
               PROVE  SizesAsExecuted
    BY DEF SizesAsExecuted
  <2> DEFINE o == opcode
             a == instruction
             z == SizeShown
             n == OperationSize(o, GetSize(a))
  <2>1. o \in Splits /\ a \in Names /\ SizeKept(o, a) /\ z = DisassembledSize(o, a)
    BY DecodedLine
  <2>0. a \in OtherSizes => GetSize(a) # "standard"
    BY DEF GetSize, OtherSizes
  <2>2. CASE a \in {"DIVS", "DIVU", "MULS", "MULU"}
    <3>1. /\ IsSourceOperandRead(a) /\ GetSourceOperand(a) = "primary_address_mode_word"
      BY <2>2 DEF IsSourceOperandRead, GetSourceOperand
    <3>2. Source.size = 2
      BY <3>1, SourceIs, OperandFields DEF Source, SourceSize, SizedSources
    <3>3. Bytes(z) = 2
      BY <2>1, <2>2, OtherSizesAre, BytesOf DEF OtherSizes
    <3>4. QED
      BY <2>0, <2>2, <3>2, <3>3 DEF SizesAsExecuted, SizeShown, OtherSizes
  <2>3. CASE a \in {"ADDA", "SUBA", "CMPA"}
    <3>1. /\ IsSourceOperandRead(a) /\ GetSourceOperand(a) = "primary_address_mode_sized"
      BY <2>3 DEF IsSourceOperandRead, GetSourceOperand
    <3>2. Source.size = IF o.bit_8 THEN 4 ELSE 2
      BY <3>1, SourceIs, OperandFields DEF Source, SourceSize, SizedSources
    <3>3. z = IF o.bit_8 THEN "longword" ELSE "word"
      BY <2>1, <2>3, OtherSizesAre DEF OtherSizes
    <3>4. QED
      BY <2>0, <2>3, <3>2, <3>3, BytesOf DEF SizesAsExecuted, SizeShown, OtherSizes
  <2>4. CASE a = "MOVEM"
    <3>1. z = IF Bits(o.raw, 6, 1) = 1 THEN "longword" ELSE "word"
      BY <2>1, <2>4, OtherSizesAre DEF OtherSizes
    <3>2. QED
      BY <2>0, <2>4, <3>1, BytesOf DEF SizesAsExecuted, SizeShown, OtherSizes
  <2>5. CASE a \notin OtherSizes
    <3>1. /\ ~(a \in Immediates /\ o.bits_6_and_7 = 3) => Bytes(z) = n
          /\ a \in Immediates /\ o.bits_6_and_7 = 3 => z = "none"
      BY <2>1, <2>5, SizesAgree
    <3>2. GetSize(a) = "standard" /\ o.bits_6_and_7 = 3 => a \in Immediates
      BY <2>1 DEF GetSize, SizeKept, NeverSize3, Immediates
    <3>3. a \in Immediates => GetSize(a) = "standard"
      BY DEF GetSize, Immediates
    <3>4. CASE GetSize(a) = "standard" /\ o.bits_6_and_7 = 3
      BY <2>5, <3>1, <3>2, <3>4 DEF SizesAsExecuted, SizeShown, OtherSizes
    <3>5. CASE ~(GetSize(a) = "standard" /\ o.bits_6_and_7 = 3)
      BY <2>5, <3>1, <3>3, <3>5 DEF SizesAsExecuted, SizeShown, OtherSizes
    <3>6. QED
      BY <3>4, <3>5
  <2>6. QED
    BY <2>2, <2>3, <2>4, <2>5 DEF OtherSizes
<1>2. QED
  BY <1>1, LineInvariant, PTL

(* Operands that correspond are shown as they are. *)
LEMMA OrdinaryShown ==
  ASSUME NEW x, NEW s, Ordinary(x, s), x.address \notin {"none", "reserved"}
  PROVE  ShownAs(x, s)
<1>1. Unread(x, s) => ShownAs(x, s)
  BY BytesOf DEF Unread, ShownAs, HasRegister
<1>2. QED
  BY <1>1 DEF Ordinary, Quiet, Same, Nameless

(* The operands of a line correspond, in the places the property names.    *)
LEMMA OrdinaryLine ==
  ASSUME LineInv, instruction \notin Unusual,
         ~(instruction \in Immediates /\ opcode.bits_6_and_7 = 3)
  PROVE  Ordinary(Source, SourceShown) /\ Ordinary(Destination, DestinationShown)
  BY DecodedLine, OrdinarySource, OrdinaryDestination DEF Source, Destination

LEMMA Size3Line ==
  ASSUME LineInv, instruction \in Immediates, opcode.bits_6_and_7 = 3
  PROVE  /\ Source = Operand("immediate", opcode.primary_register, 4)
         /\ Destination = Operand(Primary(opcode), opcode.primary_register, 4)
         /\ SourceShown = Shown(7, 4, "none")
         /\ DestinationShown = ShownPrimary(opcode, "none")
         /\ ImmediateOfSize3
  BY DecodedLine, Size3Operands, OperandFields DEF Source, Destination, ImmediateOfSize3

(* For every set of opcodes, each operand that is decoded is shown in its  *)
(* place, with its mode, register and size.                                *)
THEOREM OperandsShown == Spec => []OperandsAsExecuted
<1>1. LineInv => OperandsAsExecuted
  <2> SUFFICES ASSUME LineInv, ~ReservedMode, ~ImmediateOfSize3
               PROVE  OperandsAsExecuted
    BY DEF OperandsAsExecuted
  <2> DEFINE o == opcode
             a == instruction
             z == SizeShown
             x == Source
             y == Destination
             s == SourceShown
             t == DestinationShown
  <2>1. o \in Splits /\ a \in Names /\ z = DisassembledSize(o, a)
    BY DecodedLine
  <2>2. /\ x = SourceOperand(o, a) /\ y = DestinationOperand(o, a)
        /\ s = GetSourceOperandShown(o, a, z) /\ t = GetDestinationOperandShown(o, a, z)
    BY DecodedLine DEF Source, Destination
  <2>3. x.address # "reserved" /\ y.address # "reserved"
    BY DEF ReservedMode
  <2>4. SUFFICES
          /\ x.address # "none" =>
               CASE a \in BranchWord -> "branch" \in {s.address, t.address}
                 [] a = "MOVEM" ->
                      AsRead((IF MovesToRegisters(o) THEN t ELSE s).address) = "immediate"
                 [] OTHER -> ShownAs(x, s)
          /\ y.address # "none" =>
               ShownAs(y, IF \/ a = "MOVEM" /\ MovesToRegisters(o)
                             \/ a = "MOVEP" /\ Bits(o.raw, 7, 1) = 0
                          THEN s ELSE t)
    BY DEF OperandsAsExecuted, SourceShown, DestinationShown
  <2> HIDE DEF o, a, z, x, y, s, t
  <2>5. CASE a \notin Unusual
    <3>1. ~(a \in Immediates /\ o.bits_6_and_7 = 3)
      BY Size3Line DEF a, o
    <3>2. Ordinary(x, s) /\ Ordinary(y, t)
      BY <2>5, <3>1, OrdinaryLine DEF a, o, x, y, s, t
    <3>3. /\ x.address # "none" => ShownAs(x, s)
          /\ y.address # "none" => ShownAs(y, t)
      BY <2>3, <3>2, OrdinaryShown
    <3>4. a \notin BranchWord /\ a # "MOVEM" /\ a # "MOVEP"
      BY <2>5 DEF Unusual
    <3>5. QED
      BY <3>3, <3>4
  <2>6. CASE a \in BranchShort
    <3>1. x.address = "none" /\ y.address = "none"
      BY <2>1, <2>2, <2>6, UnusualOperands, OperandFields DEF Unusual, NoOperand
    <3>2. QED
      BY <3>1
  <2>7. CASE a \in BranchWord
    <3>1. y.address = "none"
      BY <2>1, <2>2, <2>7, UnusualOperands, OperandFields DEF Unusual, NoOperand
    <3>2. s = Shown(7, 5, "word") \/ t = Shown(7, 5, "word")
      BY <2>1, <2>2, <2>7, UnusualOperands DEF Unusual
    <3>3. s.address = "branch" \/ t.address = "branch"
      BY <3>2, ShownMode
    <3>4. a # "MOVEM"
      BY <2>7 DEF BranchWord
    <3>5. QED
      BY <2>7, <3>1, <3>3, <3>4
  <2>8. CASE a = "MOVEM"
    <3>1. /\ y = Operand(Primary(o), o.primary_register, 0)
          /\ MovesToRegisters(o) => s = ShownPrimary(o, "none") /\ t = Shown(7, 6, "word")
          /\ ~MovesToRegisters(o) =>
               /\ s \in {Shown(7, 6, "word"), Shown(7, 7, "word")}
               /\ t = ShownPrimary(o, "none")
      BY <2>1, <2>2, <2>8, UnusualOperands DEF Unusual
    <3>2. (IF MovesToRegisters(o) THEN t ELSE s).address
            \in {"register_list", "register_list_reversed"}
      BY <3>1, ShownMode
    <3>3. AsRead((IF MovesToRegisters(o) THEN t ELSE s).address) = "immediate"
      BY <2>8, <3>2 DEF AsRead, a
    <3>4. Ordinary(y, ShownPrimary(o, "none"))
      BY <2>1, <3>1, PrimaryOrdinary, BytesOf
    <3>5. y.address # "none" => ShownAs(y, ShownPrimary(o, "none"))
      BY <2>3, <3>4, OrdinaryShown
    <3>6. a \notin BranchWord /\ a # "MOVEP"
      BY <2>8 DEF BranchWord
    <3>7. QED
      BY <2>8, <3>1, <3>3, <3>5, <3>6
  <2>9. CASE a = "MOVEP"
    <3>1. /\ x = NoOperand("none") /\ y = Operand("displacement", o.primary_register, 0)
          /\ Bits(o.raw, 7, 1) = 1 => t = Operand("displacement", o.primary_register, "none")
          /\ Bits(o.raw, 7, 1) # 1 => s = Operand("displacement", o.primary_register, "none")
      BY <2>1, <2>2, <2>9, UnusualOperands DEF Unusual
    <3>2. Bits(o.raw, 7, 1) \in 0..1
      BY <2>1, BitsRange DEF Splits
    <3>3. ShownAs(y, Operand("displacement", o.primary_register, "none"))
      BY <3>1, OperandFields, BytesOf DEF ShownAs
    <3>4. x.address = "none" /\ a # "MOVEM"
      BY <2>9, <3>1, OperandFields DEF NoOperand
    <3>5. QED
      BY <2>9, <3>1, <3>2, <3>3, <3>4
  <2>10. QED
    BY <2>5, <2>6, <2>7, <2>8, <2>9 DEF Unusual
<1>2. QED
  BY <1>1, LineInvariant, PTL

(***************************************************************************)
(* The words of both.                                                      *)
(***************************************************************************)

(* count words of a kind, and other of another behind them. *)
Words(kind, count) == [n \in 1 .. count |-> kind]

Followed(A, a, B, b) == [n \in 1 .. a + b |-> IF n <= a THEN A ELSE B]

BothOf(A, a, B, b) == Words(A, a) \o Words(B, b)

LEMMA Joined ==
  ASSUME NEW A, NEW a \in 0 .. 2, NEW B, NEW b \in 0 .. 2
  PROVE  BothOf(A, a, B, b) = Followed(A, a, B, b)
<1> DEFINE S == {A, B}
           v == Words(A, a)
           w == Words(B, b)
<1>1. v \in Seq(S) /\ Len(v) = a /\ \A n \in 1 .. a : v[n] = A
  BY DEF Words
<1>2. w \in Seq(S) /\ Len(w) = b /\ \A n \in 1 .. b : w[n] = B
  BY DEF Words
<1> HIDE DEF v, w, S
<1>3. /\ v \o w \in Seq(S) /\ Len(v \o w) = a + b
      /\ \A n \in 1 .. a + b : (v \o w)[n] = IF n <= a THEN A ELSE B
  BY <1>1, <1>2
<1> DEFINE u == v \o w
<1>4. u \in Seq(S) /\ Len(u) = a + b /\ \A n \in 1 .. a + b : u[n] = IF n <= a THEN A ELSE B
  BY <1>3
<1> HIDE DEF u
<1>5. u = [n \in 1 .. a + b |-> u[n]]
  BY <1>4
<1>6. u = Followed(A, a, B, b)
  BY <1>4, <1>5 DEF Followed
<1>7. QED
  BY <1>6 DEF u, v, w, BothOf

Count(x) == Len(ExtensionWords(x.address, x.size))

LEMMA Counted ==
  ASSUME NEW x, x.address = "immediate" => x.size \in {0, 1, 2, 4}
  PROVE  /\ Count(x) \in 0 .. 2
         /\ ExtensionWords(x.address, x.size) = Words(x.address, Count(x))
         /\ Count(x) =
              CASE x.address = "immediate" -> (CASE x.size = 0 -> 0 [] x.size = 4 -> 2 [] OTHER -> 1)
                [] x.address = "absolute_long" -> 2
                [] x.address \in {"absolute_short", "displacement", "index", "pc_displacement",
                                  "pc_index"} -> 1
                [] OTHER -> 0
<1> DEFINE count == CASE x.address = "immediate" -> <<0, 1, 1, 1, 2>>[x.size + 1]
                      [] x.address = "absolute_long" -> 2
                      [] x.address \in {"absolute_short", "displacement", "index",
                                        "pc_displacement", "pc_index"} -> 1
                      [] OTHER -> 0
           told == CASE x.address = "immediate" -> (CASE x.size = 0 -> 0 [] x.size = 4 -> 2 [] OTHER -> 1)
                     [] x.address = "absolute_long" -> 2
                     [] x.address \in {"absolute_short", "displacement", "index", "pc_displacement",
                                       "pc_index"} -> 1
                     [] OTHER -> 0
<1>1. ExtensionWords(x.address, x.size) = Words(x.address, count)
  BY DEF ExtensionWords, Words
<1>2. x.address = "immediate" =>
        <<0, 1, 1, 1, 2>>[x.size + 1] = CASE x.size = 0 -> 0 [] x.size = 4 -> 2 [] OTHER -> 1
  OBVIOUS
<1>3. count = told
  BY <1>2
<1>4. told \in 0 .. 2
  OBVIOUS
<1> HIDE DEF count, told
<1>5. Len(Words(x.address, count)) = count
  BY <1>3, <1>4 DEF Words
<1>6. Count(x) = count
  BY <1>1, <1>5 DEF Count
<1>7. QED
  BY <1>1, <1>3, <1>4, <1>6 DEF told

(* What the two read for operands that correspond. *)
LEMMA OrdinaryWords ==
  ASSUME NEW x, NEW s, Ordinary(x, s)
  PROVE  /\ x.address = "immediate" => x.size \in {0, 1, 2, 4}
         /\ Quiet(x, s) => Count(x) = 0 /\ WordsOf(s) = 0
         /\ Same(x, s) => Count(x) = WordsOf(s) /\ s.address = x.address
         /\ Unread(x, s) => Count(x) = 0 /\ WordsOf(s) = 1
         /\ Nameless(x, s) => Count(x) = 0 /\ WordsOf(s) \in 1 .. 2
<1>1. x.address = "immediate" => x.size \in {0, 1, 2, 4}
  BY BytesOf DEF Ordinary, Quiet, Same, Unread, Nameless, ShownAs
<1>2. Quiet(x, s) => Count(x) = 0 /\ WordsOf(s) = 0
  BY <1>1, Counted DEF Quiet
<1>3. ASSUME Same(x, s)
      PROVE  Count(x) = WordsOf(s) /\ s.address = x.address
  <2>1. /\ s.address = x.address /\ x.size = Bytes(s.size) /\ s.size \in Sized \cup {"none"}
        /\ x.address \in ModeNames \cup StatusRegisters
        /\ x.address = "immediate" => s.size # "none"
    BY <1>3 DEF Same, ShownAs
  <2>2. CASE x.address = "immediate"
    <3>1. s.size \in Sized
      BY <2>1, <2>2
    <3>2. WordsOf(s) = IF s.size = "longword" THEN 2 ELSE 1
      BY <2>1, <2>2 DEF WordsOf, TwoWords, Special
    <3>3. Count(x) = IF s.size = "longword" THEN 2 ELSE 1
      BY <1>1, <2>1, <2>2, <3>1, Counted, BytesOf DEF Sized
    <3>4. QED
      BY <2>1, <3>2, <3>3
  <2>3. CASE x.address # "immediate"
    <3>1. WordsOf(s) = CASE x.address = "absolute_long" -> 2
                         [] x.address \in {"absolute_short", "displacement", "index",
                                           "pc_displacement", "pc_index"} -> 1
                         [] OTHER -> 0
      BY <2>1, <2>3 DEF WordsOf, TwoWords, Special, ModeNames, StatusRegisters
    <3>2. QED
      BY <1>1, <2>1, <2>3, <3>1, Counted
  <2>4. QED
    BY <2>2, <2>3
<1>4. Unread(x, s) => Count(x) = 0 /\ WordsOf(s) = 1
  BY <1>1, Counted DEF Unread, WordsOf, TwoWords, Special
<1>5. Nameless(x, s) => Count(x) = 0 /\ WordsOf(s) \in 1 .. 2
  <2>1. Nameless(x, s) => Count(x) = 0
    BY <1>1, Counted DEF Nameless
  <2>2. Nameless(x, s) => WordsOf(s) \in 1 .. 2
    BY DEF Nameless, WordsOf, TwoWords, Special
  <2>3. QED
    BY <2>1, <2>2
<1>6. QED
  BY <1>1, <1>2, <1>3, <1>4, <1>5

(* The n-th word of a line, and of an execution. *)
WordShown(n) == AsRead(IF n <= WordsOf(SourceShown) THEN SourceShown.address
                       ELSE DestinationShown.address)

WordExecuted(n) == IF n <= Count(Source) THEN Source.address ELSE Destination.address

LEMMA LineWords ==
  ASSUME LineInv, phase = "print",
         NEW a, a = WordsOf(SourceShown), NEW b, b = WordsOf(DestinationShown),
         NEW c, c = Count(Source), NEW d, d = Count(Destination),
         Source.address = "immediate" => Source.size \in {0, 1, 2, 4},
         Destination.address = "immediate" => Destination.size \in {0, 1, 2, 4}
  PROVE  /\ a \in 0 .. 2 /\ b \in 0 .. 2 /\ c \in 0 .. 2 /\ d \in 0 .. 2
         /\ WordsRead = [n \in 1 .. a + b |-> WordShown(n)]
         /\ InterpreterWords = [n \in 1 .. c + d |-> WordExecuted(n)]
         /\ WordsRead = InterpreterWords <=>
              a + b = c + d /\ \A n \in 1 .. a + b : WordShown(n) = WordExecuted(n)
<1>1. a \in 0 .. 2 /\ b \in 0 .. 2 /\ c \in 0 .. 2 /\ d \in 0 .. 2
  BY WordsRange, Counted
<1>2. line.words = Words(SourceShown.address, a) \o Words(DestinationShown.address, b)
  BY DEF LineInv, ReadFor, Words
<1>3. line.words = Followed(SourceShown.address, a, DestinationShown.address, b)
  <2> DEFINE A == SourceShown.address
             B == DestinationShown.address
  <2> HIDE DEF A, B
  <2>1. BothOf(A, a, B, b) = Followed(A, a, B, b)
    BY <1>1, Joined
  <2>2. QED
    BY <1>2, <2>1 DEF A, B, BothOf
<1>4. WordsRead = [n \in 1 .. a + b |-> WordShown(n)]
  BY <1>3 DEF WordsRead, WordShown, Followed
<1>5. InterpreterWords = Words(Source.address, c) \o Words(Destination.address, d)
  BY Counted DEF InterpreterWords
<1>6. InterpreterWords = [n \in 1 .. c + d |-> WordExecuted(n)]
  <2> DEFINE A == Source.address
             B == Destination.address
  <2> HIDE DEF A, B
  <2>1. BothOf(A, c, B, d) = Followed(A, c, B, d)
    BY <1>1, Joined
  <2>2. QED
    BY <1>5, <2>1 DEF WordExecuted, Followed, BothOf, A, B
<1>7. ASSUME WordsRead = InterpreterWords
      PROVE  a + b = c + d /\ \A n \in 1 .. a + b : WordShown(n) = WordExecuted(n)
  <2>1. 1 .. a + b = 1 .. c + d
    BY <1>4, <1>6, <1>7
  <2>2. a + b = c + d
    <3>1. a + b \in Nat /\ c + d \in Nat
      BY <1>1
    <3> DEFINE p == a + b
               q == c + d
    <3>2. p \in Nat /\ q \in Nat /\ 1 .. p = 1 .. q
      BY <2>1, <3>1
    <3> HIDE DEF p, q
    <3>3. p = q
      BY <3>2
    <3>4. QED
      BY <3>3 DEF p, q
  <2>3. ASSUME NEW n \in 1 .. a + b
        PROVE  WordShown(n) = WordExecuted(n)
    BY <1>4, <1>6, <1>7, <2>1
  <2>4. QED
    BY <2>2, <2>3
<1>8. ASSUME a + b = c + d, \A n \in 1 .. a + b : WordShown(n) = WordExecuted(n)
      PROVE  WordsRead = InterpreterWords
  BY <1>4, <1>6, <1>8
<1>9. QED
  BY <1>1, <1>4, <1>6, <1>7, <1>8

(* The words agree: as many, and each for the same.                        *)
ReadAt(n, s, t) == AsRead(IF n <= WordsOf(s) THEN s.address ELSE t.address)

UsedAt(n, x, y) == IF n <= Count(x) THEN x.address ELSE y.address

Agree(x, y, s, t) ==
  /\ WordsOf(s) + WordsOf(t) = Count(x) + Count(y)
  /\ \A n \in 1 .. Count(x) + Count(y) : ReadAt(n, s, t) = UsedAt(n, x, y)

(* An operand of which both read the same words, and one of which the      *)
(* interpreter reads fewer.                                                *)
Regular(x, s) == Quiet(x, s) \/ Same(x, s)
Wordy(x, s) == Unread(x, s) \/ Nameless(x, s)

LEMMA RegularWords ==
  ASSUME NEW x, NEW s, Ordinary(x, s)
  PROVE  /\ Regular(x, s) \/ Wordy(x, s)
         /\ Regular(x, s) =>
              /\ Count(x) = WordsOf(s) /\ WordsOf(s) \in 0 .. 2
              /\ WordsOf(s) # 0 => s.address = x.address /\ x.address \in ModeNames
              /\ s.address \in Relative =>
                   s.address \in {"pc_displacement", "pc_index"} /\ WordsOf(s) = 1
              /\ x.address # "reserved" /\ ~(x.address = "immediate" /\ x.size = 0)
         /\ Wordy(x, s) =>
              /\ Count(x) = 0 /\ WordsOf(s) \in 1 .. 2
              /\ x.address = "reserved" \/ (x.address = "immediate" /\ x.size = 0)
<1>1. Regular(x, s) \/ Wordy(x, s)
  BY DEF Ordinary, Regular, Wordy
<1>2. WordsOf(s) \in 0 .. 2
  BY WordsRange
<1>3. CASE Quiet(x, s)
  <2>1. Count(x) = 0 /\ WordsOf(s) = 0 /\ s.address \notin Relative /\ x.address = "none"
    BY <1>3, OrdinaryWords DEF Quiet
  <2>2. ~Wordy(x, s)
    BY <2>1 DEF Wordy, Unread, Nameless
  <2>3. QED
    BY <1>1, <2>1, <2>2
<1>4. CASE Same(x, s)
  <2>1. Count(x) = WordsOf(s) /\ s.address = x.address /\ x.address \in ModeNames \cup StatusRegisters
    BY <1>4, OrdinaryWords DEF Same
  <2>2. x.address = "immediate" => x.size # 0
    BY <1>4, BytesOf DEF Same, ShownAs
  <2>3. x.address # "reserved" /\ ~Wordy(x, s)
    BY <2>1, <2>2 DEF Wordy, Unread, Nameless, ModeNames, StatusRegisters
  <2>4. s.address \in Relative => s.address \in {"pc_displacement", "pc_index"}
    BY <2>1 DEF Relative, ModeNames, StatusRegisters
  <2>5. s.address \in {"pc_displacement", "pc_index"} => WordsOf(s) = 1
    BY DEF WordsOf, TwoWords, Special
  <2>6. s.address \in StatusRegisters => WordsOf(s) = 0
    BY DEF WordsOf, TwoWords, Special, StatusRegisters
  <2>7. QED
    BY <1>1, <1>2, <2>1, <2>2, <2>3, <2>4, <2>5, <2>6
<1>5. CASE Unread(x, s)
  <2>1. /\ Count(x) = 0 /\ WordsOf(s) = 1 /\ x.address = "immediate" /\ x.size = 0
        /\ s.size = "none"
    BY <1>5, OrdinaryWords DEF Unread
  <2>2. ~Regular(x, s)
    BY <2>1 DEF Regular, Quiet, Same
  <2>3. QED
    BY <1>1, <2>1, <2>2
<1>6. CASE Nameless(x, s)
  <2>1. Count(x) = 0 /\ WordsOf(s) \in 1 .. 2 /\ x.address = "reserved"
    BY <1>6, OrdinaryWords DEF Nameless
  <2>2. ~Regular(x, s)
    BY <2>1 DEF Regular, Quiet, Same, ModeNames, StatusRegisters
  <2>3. QED
    BY <1>1, <2>1, <2>2
<1>7. QED
  BY <1>3, <1>4, <1>5, <1>6 DEF Ordinary

(* Both operands in their places. *)
LEMMA OrdinaryAgree ==
  ASSUME instruction \notin BranchWord, instruction # "MOVEM",
         NEW x, NEW y, NEW s, NEW t, Ordinary(x, s), Ordinary(y, t)
  PROVE  Agree(x, y, s, t) <=> Regular(x, s) /\ Regular(y, t)
<1>1. \A e : AsRead(e) = e
  BY DEF AsRead
<1>2. /\ WordsOf(s) \in 0 .. 2 /\ WordsOf(t) \in 0 .. 2
      /\ Count(x) \in 0 .. 2 /\ Count(y) \in 0 .. 2
  BY RegularWords
<1>3. ASSUME Regular(x, s), Regular(y, t)
      PROVE  Agree(x, y, s, t)
  <2>1. /\ Count(x) = WordsOf(s) /\ (WordsOf(s) # 0 => s.address = x.address)
        /\ Count(y) = WordsOf(t) /\ (WordsOf(t) # 0 => t.address = y.address)
    BY <1>3, RegularWords
  <2>2. ASSUME NEW n \in 1 .. Count(x) + Count(y)
        PROVE  ReadAt(n, s, t) = UsedAt(n, x, y)
    <3>1. CASE n <= Count(x)
      <4>1. s.address = x.address
        BY <1>2, <2>1, <3>1
      <4>2. QED
        BY <1>1, <2>1, <3>1, <4>1 DEF ReadAt, UsedAt
    <3>2. CASE ~(n <= Count(x))
      <4>1. t.address = y.address
        BY <1>2, <2>1, <3>2
      <4>2. QED
        BY <1>1, <2>1, <3>2, <4>1 DEF ReadAt, UsedAt
    <3>3. QED
      BY <3>1, <3>2
  <2>3. QED
    BY <2>1, <2>2 DEF Agree
<1>4. ASSUME ~(Regular(x, s) /\ Regular(y, t))
      PROVE  ~Agree(x, y, s, t)
  <2> DEFINE a == WordsOf(s)
             b == WordsOf(t)
             c == Count(x)
             d == Count(y)
  <2>1. /\ a \in 0 .. 2 /\ b \in 0 .. 2 /\ c \in 0 .. 2 /\ d \in 0 .. 2
        /\ a = c \/ (a > 0 /\ c = 0)
        /\ b = d \/ (b > 0 /\ d = 0)
        /\ (a > 0 /\ c = 0) \/ (b > 0 /\ d = 0)
    BY <1>2, <1>4, RegularWords
  <2> HIDE DEF a, b, c, d
  <2>2. a + b # c + d
    BY <2>1
  <2>3. QED
    BY <2>2 DEF Agree, a, b, c, d
<1>5. QED
  BY <1>3, <1>4

(* Unusual operands, case by case: the words agree as the property tells.  *)
LEMMA BranchWords ==
  ASSUME NEW x, NEW y, NEW s, NEW t, instruction \in BranchWord \cup BranchShort,
         instruction \in BranchShort =>
           /\ x = NoOperand("none") /\ y = NoOperand("none")
           /\ s = Operand("embedded_address", 0, "byte") /\ t = Operand("none", 0, "none"),
         instruction \in BranchWord =>
           /\ x.address = "immediate" /\ x.size = 2 /\ y = NoOperand("none")
           /\ \/ s = Shown(7, 5, "word") /\ t = Operand("none", 0, "none")
              \/ s.address = "data_register" /\ t = Shown(7, 5, "word")
  PROVE  /\ Agree(x, y, s, t)
         /\ instruction \in BranchShort => Count(x) = 0 /\ Count(y) = 0
         /\ instruction \in BranchWord => Count(x) = 1 /\ Count(y) = 0
         /\ BaseOf(s, 2) \cup BaseOf(t, 2 + 2 * WordsOf(s)) = {2}
<1>1. BranchWord \cap BranchShort = {}
  BY DEF BranchWord, BranchShort
<1>2. CASE instruction \in BranchShort
  <2>1. /\ x.address = "none" /\ y.address = "none"
        /\ s.address = "embedded_address" /\ t.address = "none"
    BY <1>2, OperandFields DEF NoOperand
  <2>2. WordsOf(s) = 0 /\ WordsOf(t) = 0 /\ Count(x) = 0 /\ Count(y) = 0
    <3>1. WordsOf(s) = 0 /\ WordsOf(t) = 0
      BY <2>1 DEF WordsOf, TwoWords, Special
    <3>2. Count(x) = 0 /\ Count(y) = 0
      BY <2>1, Counted
    <3>3. QED
      BY <3>1, <3>2
  <2>3. BaseOf(s, 2) = {2} /\ BaseOf(t, 2 + 2 * WordsOf(s)) = {}
    BY <2>1 DEF BaseOf, Relative
  <2>4. QED
    BY <1>1, <1>2, <2>2, <2>3 DEF Agree
<1>3. CASE instruction \in BranchWord
  <2>1. x.address = "immediate" /\ x.size = 2 /\ y.address = "none"
    BY <1>3, OperandFields DEF NoOperand
  <2>2. Count(x) = 1 /\ Count(y) = 0
    BY <2>1, Counted
  <2>3. \/ s.address = "branch" /\ s.size = "word" /\ t.address = "none"
        \/ s.address = "data_register" /\ t.address = "branch" /\ t.size = "word"
    BY <1>3, OperandFields, ShownMode
  <2>4. \/ s.address = "branch" /\ WordsOf(s) = 1 /\ WordsOf(t) = 0 /\ t.address = "none"
        \/ s.address = "data_register" /\ WordsOf(s) = 0 /\ t.address = "branch" /\ WordsOf(t) = 1
    BY <2>3 DEF WordsOf, TwoWords, Special
  <2>5. AsRead("branch") = "immediate"
    BY <1>3 DEF AsRead
  <2>6. ReadAt(1, s, t) = "immediate" /\ UsedAt(1, x, y) = "immediate"
    BY <2>1, <2>2, <2>4, <2>5 DEF ReadAt, UsedAt
  <2>7. Agree(x, y, s, t)
    BY <2>2, <2>4, <2>6 DEF Agree
  <2>8. BaseOf(s, 2) \cup BaseOf(t, 2 + 2 * WordsOf(s)) = {2}
    <3>1. CASE s.address = "branch" /\ t.address = "none"
      BY <3>1 DEF BaseOf, Relative
    <3>2. CASE s.address = "data_register" /\ WordsOf(s) = 0 /\ t.address = "branch"
      BY <3>2 DEF BaseOf, Relative
    <3>3. QED
      BY <2>4, <3>1, <3>2
  <2>9. QED
    BY <1>1, <1>3, <2>2, <2>7, <2>8
<1>4. QED
  BY <1>2, <1>3

ListAddresses == {"register_list", "register_list_reversed"}

LEMMA ListWord ==
  ASSUME NEW s, s.address \in ListAddresses, s.size = "word"
  PROVE  WordsOf(s) = 1 /\ s.address \notin Relative
  BY DEF ListAddresses, WordsOf, TwoWords, Special, Relative

(* The list first: it agrees if the operand does. *)
LEMMA MovedToMemory ==
  ASSUME instruction = "MOVEM",
         NEW x, NEW y, NEW s, NEW t, x.address = "immediate", x.size = 2,
         s.address \in ListAddresses, s.size = "word", Ordinary(y, t)
  PROVE  Agree(x, y, s, t) <=> Regular(y, t)
<1>1. Count(x) = 1 /\ WordsOf(s) = 1
  BY Counted, ListWord
<1>2. AsRead(s.address) = "immediate"
  BY DEF AsRead, ListAddresses
<1>3. ReadAt(1, s, t) = "immediate" /\ UsedAt(1, x, y) = "immediate"
  BY <1>1, <1>2 DEF ReadAt, UsedAt
<1>4. WordsOf(t) \in 0 .. 2 /\ Count(y) \in 0 .. 2
  BY RegularWords
<1>5. ASSUME Regular(y, t)
      PROVE  Agree(x, y, s, t)
  <2>1. Count(y) = WordsOf(t) /\ (WordsOf(t) # 0 => t.address = y.address /\ y.address \in ModeNames)
    BY <1>5, RegularWords
  <2>2. ASSUME NEW n \in 1 .. Count(x) + Count(y)
        PROVE  ReadAt(n, s, t) = UsedAt(n, x, y)
    <3>1. CASE n = 1
      BY <1>3, <3>1
    <3>2. CASE n # 1
      <4>1. WordsOf(t) # 0 /\ ~(n <= 1)
        BY <1>1, <1>4, <2>1, <3>2
      <4>2. AsRead(t.address) = t.address
        BY <2>1, <4>1 DEF AsRead, ModeNames, BranchWord
      <4>3. QED
        BY <1>1, <2>1, <4>1, <4>2 DEF ReadAt, UsedAt
    <3>3. QED
      BY <3>1, <3>2
  <2>3. QED
    BY <1>1, <2>1, <2>2 DEF Agree
<1>6. ASSUME ~Regular(y, t)
      PROVE  ~Agree(x, y, s, t)
  BY <1>1, <1>4, <1>6, RegularWords DEF Agree
<1>7. QED
  BY <1>5, <1>6

(* The list second: it agrees if there is no word before it. *)
LEMMA MovedToRegisters ==
  ASSUME instruction = "MOVEM",
         NEW x, NEW y, NEW s, NEW t, x.address = "immediate", x.size = 2,
         t.address \in ListAddresses, t.size = "word", Ordinary(y, s), s.size = "none"
  PROVE  Agree(x, y, s, t) <=> Regular(y, s) /\ WordsOf(s) = 0
<1>1. Count(x) = 1 /\ WordsOf(t) = 1
  BY Counted, ListWord
<1>2. AsRead(t.address) = "immediate"
  BY DEF AsRead, ListAddresses
<1>3. WordsOf(s) \in 0 .. 2 /\ Count(y) \in 0 .. 2
  BY RegularWords
<1>4. ASSUME Regular(y, s), WordsOf(s) = 0
      PROVE  Agree(x, y, s, t)
  <2>1. Count(y) = 0
    BY <1>4, RegularWords
  <2>2. ReadAt(1, s, t) = "immediate" /\ UsedAt(1, x, y) = "immediate"
    BY <1>1, <1>2, <1>4 DEF ReadAt, UsedAt
  <2>3. QED
    BY <1>1, <1>4, <2>1, <2>2 DEF Agree
<1>5. ASSUME ~Regular(y, s)
      PROVE  ~Agree(x, y, s, t)
  BY <1>1, <1>3, <1>5, RegularWords DEF Agree
<1>6. ASSUME Regular(y, s), WordsOf(s) # 0
      PROVE  ~Agree(x, y, s, t)
  <2>1. s.address = y.address /\ y.address \in ModeNames
    BY <1>6, RegularWords
  <2>2. s.address # "immediate"
    BY <1>6, <2>1 DEF Regular, Same, Quiet, ModeNames
  <2>3. AsRead(s.address) = s.address
    BY <2>1 DEF AsRead, ModeNames, BranchWord
  <2>4. 1 <= WordsOf(s) /\ 1 \in 1 .. Count(x) + Count(y)
    BY <1>1, <1>3, <1>6
  <2>5. ReadAt(1, s, t) # UsedAt(1, x, y)
    BY <1>1, <2>2, <2>3, <2>4 DEF ReadAt, UsedAt
  <2>6. QED
    BY <2>4, <2>5 DEF Agree
<1>7. QED
  BY <1>4, <1>5, <1>6

(* MOVEP: its operand is shown first or second. *)
LEMMA PeripheralWords ==
  ASSUME instruction = "MOVEP",
         NEW x, NEW y, NEW s, NEW t, x.address = "none", y.address = "displacement",
         \/ s.address = "data_register" /\ t.address = "displacement"
         \/ s.address = "displacement" /\ t.address = "data_register"
  PROVE  /\ Agree(x, y, s, t) /\ Count(x) = 0 /\ Count(y) = 1
         /\ BaseOf(s, 2) \cup BaseOf(t, 2 + 2 * WordsOf(s)) = {}
<1>1. Count(x) = 0 /\ Count(y) = 1
  BY Counted
<1>2. \/ s.address = "data_register" /\ t.address = "displacement" /\ WordsOf(s) = 0 /\ WordsOf(t) = 1
      \/ s.address = "displacement" /\ t.address = "data_register" /\ WordsOf(s) = 1 /\ WordsOf(t) = 0
  BY DEF WordsOf, TwoWords, Special
<1>3. AsRead("displacement") = "displacement"
  BY DEF AsRead
<1>4. ReadAt(1, s, t) = "displacement" /\ UsedAt(1, x, y) = "displacement"
  BY <1>1, <1>2, <1>3 DEF ReadAt, UsedAt
<1>5. Agree(x, y, s, t)
  BY <1>1, <1>2, <1>4 DEF Agree
<1>6. BaseOf(s, 2) = {} /\ BaseOf(t, 2 + 2 * WordsOf(s)) = {}
  BY DEF BaseOf, Relative
<1>7. QED
  BY <1>1, <1>5, <1>6

(* Immediate data of size 3: a word to the one and two to the other. *)
LEMMA Size3Words ==
  ASSUME instruction \in Immediates,
         NEW x, NEW y, NEW s, NEW t, x.address = "immediate", x.size = 4,
         s.address = "immediate", s.size = "none",
         NEW m \in 0..7, NEW r \in 0..7,
         y = Operand(EffectiveAddress(m, r), r, 4), t = Shown(m, r, "none")
  PROVE  ~Agree(x, y, s, t) /\ (y.address = "immediate" => y.size \in {0, 1, 2, 4})
<1> DEFINE e == EffectiveAddress(m, r)
<1>1. y.address = e /\ y.size = 4 /\ t.size = "none"
  BY OperandFields, ShownMode
<1>2. Count(x) = 2 /\ WordsOf(s) = 1
  <2>1. Count(x) = 2
    BY Counted
  <2>2. WordsOf(s) = 1
    BY DEF WordsOf, TwoWords, Special
  <2>3. QED
    BY <2>1, <2>2
<1>3. CASE e = "reserved"
  <2>1. t.address \in {"branch", "register_list", "register_list_reversed"}
    BY <1>3, ShownMode
  <2>2. AsRead(t.address) # "immediate"
    BY <2>1 DEF AsRead, Immediates, BranchWord
  <2>3. WordsOf(t) = 1
    BY <1>1, <2>1 DEF WordsOf, TwoWords, Special
  <2>4. Count(y) = 0
    BY <1>1, <1>3, Counted
  <2>5. ReadAt(2, s, t) # "immediate" /\ UsedAt(2, x, y) = "immediate"
    BY <1>2, <2>2 DEF ReadAt, UsedAt
  <2>6. 2 \in 1 .. Count(x) + Count(y)
    BY <1>2, <2>4
  <2>7. ~Agree(x, y, s, t)
    BY <2>5, <2>6 DEF Agree
  <2>8. QED
    BY <1>1, <2>7
<1>4. CASE e # "reserved"
  <2>1. t.address = e
    BY <1>4, ShownMode
  <2>2. WordsOf(t) = CASE e = "absolute_long" -> 2
                       [] e \in {"absolute_short", "displacement", "index", "pc_displacement",
                                 "pc_index", "immediate", "branch", "register_list",
                                 "register_list_reversed"} -> 1
                       [] OTHER -> 0
    BY <1>1, <2>1 DEF WordsOf, TwoWords, Special
  <2>3. Count(y) = CASE e = "immediate" -> 2
                     [] e = "absolute_long" -> 2
                     [] e \in {"absolute_short", "displacement", "index", "pc_displacement",
                               "pc_index"} -> 1
                     [] OTHER -> 0
    BY <1>1, Counted
  <2>4. e \notin {"branch", "register_list", "register_list_reversed"}
    BY DEF EffectiveAddress
  <2>5. WordsOf(t) \in 0 .. 2 /\ Count(y) \in 0 .. 2 /\ WordsOf(t) <= Count(y)
    BY <2>2, <2>3, <2>4
  <2>6. WordsOf(s) + WordsOf(t) # Count(x) + Count(y)
    BY <1>2, <2>5
  <2>7. QED
    BY <1>1, <2>6 DEF Agree
<1>5. QED
  BY <1>3, <1>4

(* What a line's immediate data may be. *)
LEMMA ImmediateSizes ==
  ASSUME LineInv
  PROVE  /\ Source.address = "immediate" => Source.size \in {0, 1, 2, 4}
         /\ Destination.address = "immediate" => Destination.size \in {0, 1, 2, 4}
<1> DEFINE o == opcode
           a == instruction
           x == Source
           y == Destination
<1>1. o \in Splits /\ a \in Names
  BY DecodedLine
<1>2. CASE a \notin Unusual /\ ~(a \in Immediates /\ o.bits_6_and_7 = 3)
  BY <1>2, OrdinaryLine, OrdinaryWords
<1>3. CASE a \in Immediates /\ o.bits_6_and_7 = 3
  BY <1>3, Size3Line, OperandFields
<1>4. CASE a \in Unusual
  <2>1. x = SourceOperand(o, a) /\ y = DestinationOperand(o, a)
    BY DEF Source, Destination
  <2>2. \/ x = NoOperand("none")
        \/ x = Operand("immediate", o.primary_register, 2)
    BY <1>1, <1>4, <2>1, UnusualOperands DEF Unusual
  <2>3. \/ y = NoOperand("none")
        \/ y = Operand(Primary(o), o.primary_register, 0)
        \/ y = Operand("displacement", o.primary_register, 0)
    BY <1>1, <1>4, <2>1, UnusualOperands DEF Unusual
  <2>4. QED
    BY <2>2, <2>3, OperandFields DEF NoOperand
<1>5. QED
  BY <1>2, <1>3, <1>4

(* The line as a whole. *)
LineAgrees == Agree(Source, Destination, SourceShown, DestinationShown)

LEMMA OrdinaryAgrees ==
  ASSUME LineInv, instruction \notin Unusual,
         ~(instruction \in Immediates /\ opcode.bits_6_and_7 = 3)
  PROVE  /\ LineAgrees <=> ~Divergent
         /\ LineAgrees <=> Regular(Source, SourceShown) /\ Regular(Destination, DestinationShown)
<1> DEFINE x == Source
           y == Destination
           s == SourceShown
           t == DestinationShown
<1>1. Ordinary(x, s) /\ Ordinary(y, t)
  BY OrdinaryLine
<1>2. instruction \notin BranchWord /\ instruction # "MOVEM"
  BY DEF Unusual
<1>3. LineAgrees <=> Regular(x, s) /\ Regular(y, t)
  BY <1>1, <1>2, OrdinaryAgree DEF LineAgrees
<1>4. /\ ~Regular(x, s) <=> x.address = "reserved" \/ (x.address = "immediate" /\ x.size = 0)
      /\ ~Regular(y, t) <=> y.address = "reserved" \/ (y.address = "immediate" /\ y.size = 0)
  BY <1>1, RegularWords
<1>5. ~ImmediateOfSize3
  <2>1. GetSize(instruction) = "standard" => instruction \in Immediates \cup NeverSize3
    BY DEF GetSize, Immediates, NeverSize3
  <2>2. instruction \in NeverSize3 => opcode.bits_6_and_7 # 3
    BY DecodedLine DEF SizeKept
  <2>3. QED
    BY <2>1, <2>2 DEF ImmediateOfSize3
<1>6. ~MovemListSecond
  BY <1>2 DEF MovemListSecond
<1>7. Divergent <=> ~Regular(x, s) \/ ~Regular(y, t)
  BY <1>4, <1>5, <1>6 DEF Divergent, ReservedMode, ImmediateAddress
<1>8. QED
  BY <1>3, <1>7

(* What the line of a branch, a MOVEM or a MOVEP shows. *)
LEMMA UnusualLine ==
  ASSUME LineInv, instruction \in Unusual,
         NEW x, x = Source, NEW y, y = Destination,
         NEW s, s = SourceShown, NEW t, t = DestinationShown
  PROVE  /\ instruction \in BranchShort =>
              /\ x = NoOperand("none") /\ y = NoOperand("none")
              /\ s = Operand("embedded_address", 0, "byte") /\ t = Operand("none", 0, "none")
         /\ instruction \in BranchWord =>
              /\ x.address = "immediate" /\ x.size = 2 /\ y = NoOperand("none")
              /\ \/ s = Shown(7, 5, "word") /\ t = Operand("none", 0, "none")
                 \/ s.address = "data_register" /\ t = Shown(7, 5, "word")
         /\ instruction = "MOVEM" =>
              /\ x.address = "immediate" /\ x.size = 2 /\ y.address = Primary(opcode)
         /\ instruction = "MOVEM" /\ MovesToRegisters(opcode) =>
              t.address \in ListAddresses /\ t.size = "word" /\ Ordinary(y, s) /\ s.size = "none"
         /\ instruction = "MOVEM" /\ ~MovesToRegisters(opcode) =>
              s.address \in ListAddresses /\ s.size = "word" /\ Ordinary(y, t) /\ t.size = "none"
         /\ instruction = "MOVEP" =>
              /\ x.address = "none" /\ y.address = "displacement"
              /\ \/ s.address = "data_register" /\ t.address = "displacement"
                 \/ s.address = "displacement" /\ t.address = "data_register"
<1> DEFINE o == opcode
           a == instruction
           z == SizeShown
<1>1. o \in Splits /\ a \in Unusual /\ z = DisassembledSize(o, a)
  BY DecodedLine
<1>2. /\ x = SourceOperand(o, a) /\ y = DestinationOperand(o, a)
      /\ s = GetSourceOperandShown(o, a, z) /\ t = GetDestinationOperandShown(o, a, z)
  BY DecodedLine DEF Source, Destination
<1> HIDE DEF o, a, z
<1>3. Ordinary(Operand(Primary(o), o.primary_register, 0), ShownPrimary(o, "none"))
  BY <1>1, PrimaryOrdinary, BytesOf
<1>4. ShownPrimary(o, "none").size = "none"
  BY DEF ShownPrimary, Shown, Operand
<1>5. a \in BranchShort =>
        /\ x = NoOperand("none") /\ y = NoOperand("none")
        /\ s = Operand("embedded_address", 0, "byte") /\ t = Operand("none", 0, "none")
  BY <1>1, <1>2, UnusualOperands
<1>6. a \in BranchWord =>
        /\ x.address = "immediate" /\ x.size = 2 /\ y = NoOperand("none")
        /\ \/ s = Shown(7, 5, "word") /\ t = Operand("none", 0, "none")
           \/ s.address = "data_register" /\ t = Shown(7, 5, "word")
  <2>1. ASSUME a \in BranchWord
        PROVE  x = Operand("immediate", o.primary_register, 2) /\ y = NoOperand("none")
    BY <1>1, <1>2, <2>1, UnusualOperands
  <2>2. ASSUME a \in BranchWord \ {"DBCC"}
        PROVE  s = Shown(7, 5, "word") /\ t = Operand("none", 0, "none")
    BY <1>1, <1>2, <2>2, UnusualOperands
  <2>3. ASSUME a = "DBCC"
        PROVE  s = Operand("data_register", o.primary_register, "word") /\ t = Shown(7, 5, "word")
    BY <1>1, <1>2, <2>3, UnusualOperands
  <2>4. QED
    BY <2>1, <2>2, <2>3, OperandFields
<1>7. a = "MOVEM" =>
        /\ x.address = "immediate" /\ x.size = 2 /\ y.address = Primary(o)
        /\ y = Operand(Primary(o), o.primary_register, 0)
  <2>1. a = "MOVEM" =>
          /\ x = Operand("immediate", o.primary_register, 2)
          /\ y = Operand(Primary(o), o.primary_register, 0)
    BY <1>1, <1>2, UnusualOperands
  <2>2. QED
    BY <2>1, OperandFields
<1>8. a = "MOVEM" /\ MovesToRegisters(o) =>
        t.address \in ListAddresses /\ t.size = "word" /\ Ordinary(y, s) /\ s.size = "none"
  <2>1. a = "MOVEM" /\ MovesToRegisters(o) =>
          s = ShownPrimary(o, "none") /\ t = Shown(7, 6, "word")
    BY <1>1, <1>2, UnusualOperands
  <2>2. QED
    BY <1>3, <1>4, <1>7, <2>1, ShownMode DEF ListAddresses
<1>9. a = "MOVEM" /\ ~MovesToRegisters(o) =>
        s.address \in ListAddresses /\ s.size = "word" /\ Ordinary(y, t) /\ t.size = "none"
  <2>1. a = "MOVEM" /\ ~MovesToRegisters(o) =>
          s \in {Shown(7, 6, "word"), Shown(7, 7, "word")} /\ t = ShownPrimary(o, "none")
    BY <1>1, <1>2, UnusualOperands
  <2>2. QED
    BY <1>3, <1>4, <1>7, <2>1, ShownMode DEF ListAddresses
<1>10. a = "MOVEP" =>
         /\ x.address = "none" /\ y.address = "displacement"
         /\ \/ s.address = "data_register" /\ t.address = "displacement"
            \/ s.address = "displacement" /\ t.address = "data_register"
  <2>1. a = "MOVEP" =>
          /\ x = NoOperand("none") /\ y = Operand("displacement", o.primary_register, 0)
    BY <1>1, <1>2, UnusualOperands
  <2>2. a = "MOVEP" /\ Bits(o.raw, 7, 1) = 1 =>
          /\ s = Operand("data_register", o.secondary_register, "none")
          /\ t = Operand("displacement", o.primary_register, "none")
    BY <1>1, <1>2, UnusualOperands
  <2>3. a = "MOVEP" /\ Bits(o.raw, 7, 1) # 1 =>
          /\ s = Operand("displacement", o.primary_register, "none")
          /\ t = Operand("data_register", o.secondary_register, "none")
    BY <1>1, <1>2, UnusualOperands
  <2>4. QED
    BY <2>1, <2>2, <2>3, OperandFields DEF NoOperand
<1>11. QED
  BY <1>5, <1>6, <1>7, <1>8, <1>9, <1>10 DEF o, a

LEMMA RegularHasWords ==
  ASSUME NEW y, NEW s, Ordinary(y, s), Regular(y, s)
  PROVE  WordsOf(s) # 0 <=>
           y.address \in {"displacement", "index", "absolute_short", "absolute_long",
                          "pc_displacement", "pc_index", "immediate"}
<1>1. CASE Quiet(y, s)
  BY <1>1 DEF Quiet
<1>2. CASE Same(y, s)
  <2>1. s.address = y.address /\ y.address \in ModeNames \cup StatusRegisters
    BY <1>2 DEF Same, ShownAs
  <2>2. WordsOf(s) # 0 <=> s.address \in Special \cup {"displacement", "index"}
    BY DEF WordsOf, TwoWords, Special
  <2>3. QED
    BY <2>1, <2>2 DEF Special, ModeNames, StatusRegisters
<1>3. QED
  BY <1>1, <1>2 DEF Regular

(* A MOVEM agrees if its operand does and its list is read first. *)
LEMMA MovemAgrees ==
  ASSUME LineInv, instruction = "MOVEM"
  PROVE  /\ LineAgrees <=> ~Divergent
         /\ MovesToRegisters(opcode) =>
              (LineAgrees <=> Regular(Destination, SourceShown) /\ WordsOf(SourceShown) = 0)
         /\ ~MovesToRegisters(opcode) => (LineAgrees <=> Regular(Destination, DestinationShown))
<1> DEFINE x == Source
           y == Destination
           s == SourceShown
           t == DestinationShown
           u == IF MovesToRegisters(opcode) THEN s ELSE t
<1>1. instruction \in Unusual
  BY DEF Unusual
<1>2. /\ x.address = "immediate" /\ x.size = 2 /\ y.address = Primary(opcode)
      /\ MovesToRegisters(opcode) =>
           t.address \in ListAddresses /\ t.size = "word" /\ Ordinary(y, s) /\ s.size = "none"
      /\ ~MovesToRegisters(opcode) =>
           s.address \in ListAddresses /\ s.size = "word" /\ Ordinary(y, t) /\ t.size = "none"
  BY <1>1, UnusualLine
<1>3. Ordinary(y, u)
  BY <1>2
<1>4. ~Regular(y, u) <=> ReservedMode \/ ImmediateAddress
  <2>1. ~Regular(y, u) <=> y.address = "reserved" \/ (y.address = "immediate" /\ y.size = 0)
    BY <1>3, RegularWords
  <2>2. QED
    BY <1>2, <2>1 DEF ReservedMode, ImmediateAddress
<1>5. ~ImmediateOfSize3
  BY DEF ImmediateOfSize3, GetSize
<1>6. CASE MovesToRegisters(opcode)
  <2>1. LineAgrees <=> Regular(y, s) /\ WordsOf(s) = 0
    BY <1>2, <1>6, MovedToRegisters DEF LineAgrees
  <2>2. Regular(y, s) => (WordsOf(s) # 0 <=> MovemListSecond)
    BY <1>2, <1>6, RegularHasWords DEF MovemListSecond
  <2>3. QED
    BY <1>4, <1>5, <1>6, <2>1, <2>2 DEF Divergent
<1>7. CASE ~MovesToRegisters(opcode)
  <2>1. LineAgrees <=> Regular(y, t)
    BY <1>2, <1>7, MovedToMemory DEF LineAgrees
  <2>2. ~MovemListSecond
    BY <1>7 DEF MovemListSecond
  <2>3. QED
    BY <1>4, <1>5, <1>7, <2>1, <2>2 DEF Divergent
<1>8. QED
  BY <1>6, <1>7

(* Branches and MOVEP always agree. *)
LEMMA PlainAgrees ==
  ASSUME LineInv, instruction \in Unusual \ {"MOVEM"}
  PROVE  LineAgrees /\ ~Divergent
<1> DEFINE x == Source
           y == Destination
           s == SourceShown
           t == DestinationShown
<1>1. /\ instruction \in BranchShort =>
           /\ x = NoOperand("none") /\ y = NoOperand("none")
           /\ s = Operand("embedded_address", 0, "byte") /\ t = Operand("none", 0, "none")
      /\ instruction \in BranchWord =>
           /\ x.address = "immediate" /\ x.size = 2 /\ y = NoOperand("none")
           /\ \/ s = Shown(7, 5, "word") /\ t = Operand("none", 0, "none")
              \/ s.address = "data_register" /\ t = Shown(7, 5, "word")
      /\ instruction = "MOVEP" =>
           /\ x.address = "none" /\ y.address = "displacement"
           /\ \/ s.address = "data_register" /\ t.address = "displacement"
              \/ s.address = "displacement" /\ t.address = "data_register"
  BY UnusualLine
<1>2. instruction \in BranchWord \cup BranchShort \/ instruction = "MOVEP"
  BY DEF Unusual
<1>3. Agree(x, y, s, t)
  <2>1. CASE instruction \in BranchWord \cup BranchShort
    BY <1>1, <2>1, BranchWords
  <2>2. CASE instruction = "MOVEP"
    BY <1>1, <2>2, PeripheralWords
  <2>3. QED
    BY <1>2, <2>1, <2>2
<1>4. /\ x.address \in {"none", "immediate"} /\ (x.address = "immediate" => x.size = 2)
      /\ y.address \in {"none", "displacement"}
  BY <1>1, <1>2, OperandFields DEF NoOperand
<1>5. GetSize(instruction) # "standard" /\ instruction # "MOVEM"
  BY <1>2 DEF GetSize, BranchWord, BranchShort
<1>6. ~Divergent
  BY <1>4, <1>5 DEF Divergent, ReservedMode, ImmediateAddress, ImmediateOfSize3, MovemListSecond
<1>7. QED
  BY <1>3, <1>6 DEF LineAgrees

LEMMA Size3Agrees ==
  ASSUME LineInv, instruction \in Immediates, opcode.bits_6_and_7 = 3
  PROVE  ~LineAgrees /\ Divergent
<1> DEFINE x == Source
           y == Destination
           s == SourceShown
           t == DestinationShown
           m == opcode.primary_address_mode
           r == opcode.primary_register
<1>1. /\ x = Operand("immediate", r, 4) /\ y = Operand(EffectiveAddress(m, r), r, 4)
      /\ s = Shown(7, 4, "none") /\ t = Shown(m, r, "none")
      /\ ImmediateOfSize3
  BY Size3Line DEF Primary, ShownPrimary
<1>2. m \in 0..7 /\ r \in 0..7
  BY DecodedLine DEF Splits
<1>3. /\ x.address = "immediate" /\ x.size = 4
      /\ s.address = "immediate" /\ s.size = "none"
  BY <1>1, OperandFields, ShownMode
<1> HIDE DEF x, y, s, t, m, r
<1>4. ~Agree(x, y, s, t)
  BY <1>1, <1>2, <1>3, Size3Words
<1>5. QED
  BY <1>1, <1>4 DEF LineAgrees, Divergent, x, y, s, t

(* For every set of opcodes, the disassembler reads the words the          *)
(* interpreter reads, in the same order and for the same purpose, but of   *)
(* the opcodes that are told.                                              *)
THEOREM WordsShown == Spec => []WordsAsExecuted
<1>1. LineInv => WordsAsExecuted
  <2> SUFFICES ASSUME LineInv, phase = "print"
               PROVE  WordsRead = InterpreterWords <=> ~Divergent
    BY DEF WordsAsExecuted
  <2>1. LineAgrees <=> ~Divergent
    <3>1. CASE instruction \notin Unusual /\ ~(instruction \in Immediates /\ opcode.bits_6_and_7 = 3)
      BY <3>1, OrdinaryAgrees
    <3>2. CASE instruction = "MOVEM"
      BY <3>2, MovemAgrees
    <3>3. CASE instruction \in Unusual \ {"MOVEM"}
      BY <3>3, PlainAgrees
    <3>4. CASE instruction \in Immediates /\ opcode.bits_6_and_7 = 3
      BY <3>4, Size3Agrees
    <3>5. QED
      BY <3>1, <3>2, <3>3, <3>4
  <2> DEFINE a == WordsOf(SourceShown)
             b == WordsOf(DestinationShown)
             c == Count(Source)
             d == Count(Destination)
  <2>2. WordsRead = InterpreterWords <=>
          a + b = c + d /\ \A n \in 1 .. a + b : WordShown(n) = WordExecuted(n)
    BY ImmediateSizes, LineWords
  <2>3. LineAgrees <=>
          a + b = c + d /\ \A n \in 1 .. c + d : WordShown(n) = WordExecuted(n)
    BY DEF LineAgrees, Agree, ReadAt, UsedAt, WordShown, WordExecuted
  <2> HIDE DEF a, b, c, d
  <2>4. QED
    BY <2>1, <2>2, <2>3
<1>2. QED
  BY <1>1, LineInvariant, PTL

(***************************************************************************)
(* The addresses displacements are added to.                               *)
(***************************************************************************)

ToCounter == {"pc_displacement", "pc_index"}

UsedBases(x, y) == {2 * n : n \in {m \in 1 .. Count(x) + Count(y) : UsedAt(m, x, y) \in ToCounter}}

LEMMA CounterWords ==
  ASSUME NEW x, NEW s, Ordinary(x, s), Regular(x, s)
  PROVE  /\ s.address \in Relative <=> x.address \in ToCounter
         /\ x.address \in ToCounter => Count(x) = 1
         /\ Count(x) = WordsOf(s) /\ WordsOf(s) \in 0 .. 2
<1>1. Count(x) = WordsOf(s) /\ WordsOf(s) \in 0 .. 2
  BY RegularWords
<1>2. CASE Quiet(x, s)
  BY <1>1, <1>2 DEF Quiet, ToCounter
<1>3. CASE Same(x, s)
  <2>1. s.address = x.address /\ s.address \in ModeNames \cup StatusRegisters
    BY <1>3 DEF Same, ShownAs
  <2>2. s.address \in ToCounter => WordsOf(s) = 1
    BY DEF ToCounter, WordsOf, TwoWords, Special
  <2>3. s.address \in Relative <=> s.address \in ToCounter
    BY <2>1 DEF Relative, ToCounter, ModeNames, StatusRegisters
  <2>4. QED
    BY <1>1, <2>1, <2>2, <2>3
<1>4. QED
  BY <1>2, <1>3 DEF Regular

(* Of two operands: at the place where its word is. *)
LEMMA RegularBases ==
  ASSUME NEW x, NEW y, NEW s, NEW t,
         NEW c, c = Count(x), NEW d, d = Count(y), c \in 0 .. 2, d \in 0 .. 2,
         c = WordsOf(s),
         s.address \in Relative <=> x.address \in ToCounter,
         t.address \in Relative <=> y.address \in ToCounter,
         x.address \in ToCounter => c = 1,
         y.address \in ToCounter => d = 1
  PROVE  BaseOf(s, 2) \cup BaseOf(t, 2 + 2 * WordsOf(s)) = UsedBases(x, y)
<1> DEFINE X == x.address \in ToCounter
           Y == y.address \in ToCounter
           at == 2 + 2 * c
           places == {m \in 1 .. c + d : UsedAt(m, x, y) \in ToCounter}
<1>1. BaseOf(s, 2) = IF X THEN {2} ELSE {}
  BY DEF BaseOf
<1>2. BaseOf(t, 2 + 2 * WordsOf(s)) = IF Y THEN {at} ELSE {}
  BY DEF BaseOf
<1>3. places = (IF X THEN {1} ELSE {}) \cup (IF Y THEN {c + 1} ELSE {})
  <2>1. ASSUME NEW m \in 1 .. c + d
        PROVE  UsedAt(m, x, y) \in ToCounter <=> IF m <= c THEN X ELSE Y
    BY DEF UsedAt
  <2>2. places = {m \in 1 .. c + d : IF m <= c THEN X ELSE Y}
    BY <2>1
  <2> HIDE DEF X, Y, places
  <2>3. /\ c \in 0 .. 2 /\ d \in 0 .. 2 /\ (X => c = 1) /\ (Y => d = 1)
    BY DEF X, Y
  <2>4. {m \in 1 .. c + d : IF m <= c THEN X ELSE Y}
          = (IF X THEN {1} ELSE {}) \cup (IF Y THEN {c + 1} ELSE {})
    BY <2>3
  <2>5. QED
    BY <2>2, <2>4
<1>4. UsedBases(x, y) = {2 * n : n \in places}
  BY DEF UsedBases
<1> HIDE DEF X, Y, places
<1>5. {2 * n : n \in places} = (IF X THEN {2} ELSE {}) \cup (IF Y THEN {at} ELSE {})
  <2> DEFINE e == c + 1
             D(S) == {2 * n : n \in S}
  <2>1. e \in Nat /\ 2 * e = at
    OBVIOUS
  <2>2. places = (IF X THEN {1} ELSE {}) \cup (IF Y THEN {e} ELSE {})
    BY <1>3
  <2> HIDE DEF e, at
  <2>3. D({}) = {} /\ D({1}) = {2} /\ D({e}) = {at} /\ D({1} \cup {e}) = {2} \cup {at}
    BY <2>1
  <2> HIDE DEF D
  <2>4. D(places) = (IF X THEN {2} ELSE {}) \cup (IF Y THEN {at} ELSE {})
    <3>1. /\ {1} \cup {} = {1} /\ {} \cup {e} = {e} /\ {} \cup {} = {}
          /\ {2} \cup {} = {2} /\ {} \cup {at} = {at}
      OBVIOUS
    <3>2. CASE X /\ Y
      BY <2>2, <2>3, <3>2
    <3>3. CASE X /\ ~Y
      BY <2>2, <2>3, <3>1, <3>3
    <3>4. CASE ~X /\ Y
      BY <2>2, <2>3, <3>1, <3>4
    <3>5. CASE ~X /\ ~Y
      BY <2>2, <2>3, <3>1, <3>5
    <3>6. QED
      BY <3>2, <3>3, <3>4, <3>5
  <2>5. QED
    BY <2>4 DEF D
<1>6. QED
  BY <1>1, <1>2, <1>4, <1>5

LEMMA LineBases ==
  ASSUME LineInv
  PROVE  /\ instruction \notin BranchWord \cup BranchShort =>
              InterpreterBases = UsedBases(Source, Destination)
         /\ instruction \in BranchShort /\ Count(Source) = 0 /\ Count(Destination) = 0 =>
              InterpreterBases = {2}
         /\ instruction \in BranchWord /\ Count(Source) = 1 /\ Count(Destination) = 0 =>
              InterpreterBases = {2}
<1> DEFINE c == Count(Source)
           d == Count(Destination)
           w == InterpreterWords
           last == {m \in 1 .. c + d : \/ UsedAt(m, Source, Destination) \in ToCounter
                                       \/ m = c + d /\ instruction \in BranchWord}
<1>1. c \in 0 .. 2 /\ d \in 0 .. 2
  BY ImmediateSizes, Counted
<1>2. w = [n \in 1 .. c + d |-> UsedAt(n, Source, Destination)]
  <2>1. w = Words(Source.address, c) \o Words(Destination.address, d)
    BY ImmediateSizes, Counted DEF InterpreterWords
  <2> DEFINE A == Source.address
             B == Destination.address
  <2> HIDE DEF A, B
  <2>2. BothOf(A, c, B, d) = Followed(A, c, B, d)
    BY <1>1, Joined
  <2>3. QED
    BY <2>1, <2>2 DEF UsedAt, Followed, BothOf, A, B
<1>3. DOMAIN w = 1 .. c + d /\ Len(w) = c + d
  BY <1>1, <1>2
<1>4. InterpreterBases = {2 * n : n \in last} \cup IF instruction \in BranchShort THEN {2} ELSE {}
  <2>1. {m \in DOMAIN w : \/ w[m] \in ToCounter
                          \/ m = Len(w) /\ instruction \in BranchWord} = last
    BY <1>2, <1>3
  <2>2. QED
    BY <2>1 DEF InterpreterBases, ToCounter
<1>5. ASSUME instruction \notin BranchWord \cup BranchShort
      PROVE  InterpreterBases = UsedBases(Source, Destination)
  BY <1>4, <1>5 DEF UsedBases
<1>6. BranchWord \cap BranchShort = {}
  BY DEF BranchWord, BranchShort
<1>7. ASSUME instruction \in BranchShort, c = 0, d = 0
      PROVE  InterpreterBases = {2}
  <2>1. last = {}
    BY <1>7
  <2>2. QED
    BY <1>4, <1>7, <2>1
<1>8. ASSUME instruction \in BranchWord, c = 1, d = 0
      PROVE  InterpreterBases = {2}
  <2>1. last = {1}
    BY <1>8
  <2>2. {2 * n : n \in {1}} = {2}
    OBVIOUS
  <2>3. QED
    BY <1>4, <1>6, <1>8, <2>1, <2>2
<1>9. QED
  BY <1>5, <1>7, <1>8

LEMMA NoCounter ==
  ASSUME NEW x, NEW y, x.address \notin ToCounter, y.address \notin ToCounter
  PROVE  UsedBases(x, y) = {}
<1>1. \A m : UsedAt(m, x, y) \notin ToCounter
  BY DEF UsedAt
<1>2. QED
  BY <1>1 DEF UsedBases

(* For every set of opcodes, an address relative to the program counter is *)
(* shown relative to the address the interpreter uses.                     *)
THEOREM TargetsShown == Spec => []TargetsAsExecuted
<1>1. LineInv => TargetsAsExecuted
  <2> SUFFICES ASSUME LineInv, phase = "print", ~Divergent
               PROVE  line.bases = InterpreterBases
    BY DEF TargetsAsExecuted
  <2> DEFINE x == Source
             y == Destination
             s == SourceShown
             t == DestinationShown
             bases == BaseOf(s, 2) \cup BaseOf(t, 2 + 2 * WordsOf(s))
  <2>1. line.bases = bases
    BY DEF LineInv, OperandBases, SourceBases
  <2>2. CASE instruction \notin Unusual
    <3>1. ~(instruction \in Immediates /\ opcode.bits_6_and_7 = 3)
      BY Size3Agrees
    <3>2. Ordinary(x, s) /\ Ordinary(y, t) /\ Regular(x, s) /\ Regular(y, t)
      BY <2>2, <3>1, OrdinaryLine, OrdinaryAgrees
    <3>3. /\ s.address \in Relative <=> x.address \in ToCounter
          /\ x.address \in ToCounter => Count(x) = 1
          /\ Count(x) = WordsOf(s) /\ Count(x) \in 0 .. 2
          /\ t.address \in Relative <=> y.address \in ToCounter
          /\ y.address \in ToCounter => Count(y) = 1
          /\ Count(y) \in 0 .. 2
      BY <3>2, CounterWords
    <3>4. bases = UsedBases(x, y)
      BY <3>3, RegularBases
    <3>5. instruction \notin BranchWord \cup BranchShort
      BY <2>2 DEF Unusual
    <3>6. QED
      BY <2>1, <3>4, <3>5, LineBases
  <2>3. CASE instruction \in BranchWord \cup BranchShort
    <3>1. instruction \in Unusual
      BY <2>3 DEF Unusual
    <3>2. /\ bases = {2}
          /\ instruction \in BranchShort => Count(x) = 0 /\ Count(y) = 0
          /\ instruction \in BranchWord => Count(x) = 1 /\ Count(y) = 0
      BY <2>3, <3>1, UnusualLine, BranchWords
    <3>3. QED
      BY <2>1, <2>3, <3>2, LineBases
  <2>4. CASE instruction = "MOVEP"
    <3>1. instruction \in Unusual /\ instruction \notin BranchWord \cup BranchShort
      BY <2>4 DEF Unusual, BranchWord, BranchShort
    <3>2. /\ x.address = "none" /\ y.address = "displacement"
          /\ \/ s.address = "data_register" /\ t.address = "displacement"
             \/ s.address = "displacement" /\ t.address = "data_register"
      BY <2>4, <3>1, UnusualLine
    <3>3. bases = {}
      BY <2>4, <3>2, PeripheralWords
    <3>4. UsedBases(x, y) = {}
      BY <3>2, NoCounter DEF ToCounter
    <3>5. QED
      BY <2>1, <3>1, <3>3, <3>4, LineBases
  <2>5. CASE instruction = "MOVEM"
    <3>1. instruction \in Unusual /\ instruction \notin BranchWord \cup BranchShort
      BY <2>5 DEF Unusual, BranchWord, BranchShort
    <3>2. /\ x.address = "immediate" /\ x.size = 2
          /\ MovesToRegisters(opcode) =>
               t.address \in ListAddresses /\ t.size = "word" /\ Ordinary(y, s)
          /\ ~MovesToRegisters(opcode) =>
               s.address \in ListAddresses /\ s.size = "word" /\ Ordinary(y, t)
      BY <2>5, <3>1, UnusualLine
    <3>3. x.address \notin ToCounter /\ Count(x) = 1
      BY <3>2, Counted DEF ToCounter
    <3>4. InterpreterBases = UsedBases(x, y)
      BY <3>1, LineBases
    <3>5. CASE MovesToRegisters(opcode)
      <4>1. Regular(y, s) /\ WordsOf(s) = 0
        BY <2>5, <3>5, MovemAgrees
      <4>2. s.address \notin Relative /\ y.address \notin ToCounter
        BY <3>2, <3>5, <4>1, CounterWords
      <4>3. t.address \notin Relative
        BY <3>2, <3>5, ListWord
      <4>4. bases = {}
        BY <4>2, <4>3 DEF BaseOf
      <4>5. UsedBases(x, y) = {}
        BY <3>3, <4>2, NoCounter
      <4>6. QED
        BY <2>1, <3>4, <4>4, <4>5
    <3>6. CASE ~MovesToRegisters(opcode)
      <4>1. Ordinary(y, t) /\ Regular(y, t)
        BY <2>5, <3>2, <3>6, MovemAgrees
      <4>2. /\ t.address \in Relative <=> y.address \in ToCounter
            /\ y.address \in ToCounter => Count(y) = 1
            /\ Count(y) \in 0 .. 2
        BY <4>1, CounterWords
      <4>3. WordsOf(s) = 1 /\ s.address \notin Relative
        BY <3>2, <3>6, ListWord
      <4>4. Count(x) \in 0 .. 2 /\ Count(x) = WordsOf(s)
        BY <3>3, <4>3
      <4>5. bases = UsedBases(x, y)
        BY <3>3, <4>2, <4>3, <4>4, RegularBases
      <4>6. QED
        BY <2>1, <3>4, <4>5
    <3>7. QED
      BY <3>5, <3>6
  <2>6. QED
    BY <2>2, <2>3, <2>4, <2>5 DEF Unusual
<1>2. QED
  BY <1>1, LineInvariant, PTL
=============================================================================
