--------------------------- MODULE Arithmetic_proofs ---------------------------
(***************************************************************************)
(* The instructions that compute: the condition codes of sums, differences *)
(* and comparisons, numbers of several words, shifts and rotations,        *)
(* products and quotients, and decimal numbers. Every result is the one of *)
(* the integers, for every size of operand and every length of number.     *)
(***************************************************************************)
EXTENDS LongArithmetic, Shift, WordArithmetic, Decimal, FiniteSetTheorems, TLAPS

(***************************************************************************)
(* The formulas of the modifiers, each for the results it is used for.     *)
(***************************************************************************)

(* Results and overflow, named, so that the lemmas about them are found.   *)
Sum(s, d, x)        == Wrapped(d + s + x)
Difference(s, d, x) == Wrapped(d - s - x)
Negated(d, x)         == Wrapped(0 - d - x)

SumOverflow(s, d, r) ==
  \/ Negative(s) /\ Negative(d) /\ ~Negative(r)
  \/ ~Negative(s) /\ ~Negative(d) /\ Negative(r)

DifferenceOverflow(s, d, r) ==
  \/ ~Negative(s) /\ Negative(d) /\ ~Negative(r)
  \/ Negative(s) /\ ~Negative(d) /\ Negative(r)

NegativeCarry(d, r) == Negative(d) \/ Negative(r)

NegativeOverflow(d, r) == Negative(d) /\ Negative(r)

(* The result and the carry make up the whole sum, or difference. *)
SumParts(s, d, x, r, c)        == d + s + x = r + Bit(c) * Modulus
DifferenceParts(s, d, x, r, c) == d - s - x = r - Bit(c) * Modulus
MinusParts(d, x, r, c)         == 0 - d - x = r - Bit(c) * Modulus

(* Carry and overflow of a sum. *)
LEMMA SumCodes ==
  ASSUME NEW s \in Values, NEW d \in Values, NEW x \in {0, 1}, NEW r, r = Sum(s, d, x)
  PROVE  /\ r \in Values
         /\ StandardCarry(s, d, r) <=> d + s + x >= Modulus
         /\ SumParts(s, d, x, r, StandardCarry(s, d, r))
         /\ SumOverflow(s, d, r) <=> ~Representable(Signed(d) + Signed(s) + x)
  BY SignBitAssumption
  DEF Sum, SumOverflow, SumParts, Bit, Values, Wrapped, Modulus, StandardCarry, Negative, Representable, Signed

(* Borrow and overflow of a difference. *)
LEMMA DifferenceCodes ==
  ASSUME NEW s \in Values, NEW d \in Values, NEW x \in {0, 1}, NEW r, r = Difference(s, d, x)
  PROVE  /\ r \in Values
         /\ StandardBorrow(s, d, r) <=> d < s + x
         /\ DifferenceParts(s, d, x, r, StandardBorrow(s, d, r))
         /\ DifferenceOverflow(s, d, r) <=> ~Representable(Signed(d) - Signed(s) - x)
  BY SignBitAssumption
  DEF Difference, DifferenceOverflow, DifferenceParts, Bit, Values, Wrapped, Modulus, StandardBorrow, Negative, Representable, Signed

(* Carry and overflow of a negation. *)
LEMMA NegativeCodes ==
  ASSUME NEW d \in Values, NEW x \in {0, 1}, NEW r, r = Negated(d, x)
  PROVE  /\ r \in Values
         /\ NegativeCarry(d, r) <=> d + x > 0
         /\ MinusParts(d, x, r, NegativeCarry(d, r))
         /\ NegativeOverflow(d, r) <=> ~Representable(0 - Signed(d) - x)
  BY SignBitAssumption DEF NegativeCarry, NegativeOverflow, Negated, MinusParts, Bit, Values, Wrapped, Modulus, Negative, Representable, Signed

(***************************************************************************)
(* One instruction.                                                        *)
(***************************************************************************)

(* What it leaves, field by field. *)
LEMMA Executed ==
  ASSUME NEW op, NEW s, NEW d, Execute(op, s, d)
  PROVE  /\ last'.instruction = op /\ last'.source = s /\ last'.destination = d
         /\ last'.extend = codes.X /\ last'.zero = codes.Z
         /\ last'.result = Result(op, s, d, ExtendOf(op, codes))
         /\ codes' = Updated(op, s, d, last'.result, codes)
         /\ last' = [instruction |-> op, source |-> s, destination |-> d, extend |-> codes.X,
                     zero |-> codes.Z, result |-> last'.result]
  BY DEF Execute

(* The modifiers of the instructions here. *)
LEMMA Modifiers ==
  /\ \A op \in Additions :
       /\ GetCarryModifier(op) = "standard_carry"
       /\ GetOverflowModifier(op) = "add"
       /\ GetExtendModifier(op) = "set_to_carry"
  /\ \A op \in Subtractions :
       /\ GetCarryModifier(op) = "standard_borrow"
       /\ GetOverflowModifier(op) = "sub"
  /\ \A op \in Subtractions \ Comparisons : GetExtendModifier(op) = "set_to_carry"
  /\ \A op \in Comparisons \cup Tests : GetExtendModifier(op) = "unaffected"
  /\ \A op \in Negations :
       /\ GetCarryModifier(op) = "neg"
       /\ GetOverflowModifier(op) = "neg"
       /\ GetExtendModifier(op) = "set_to_carry"
  /\ \A op \in Tests :
       /\ GetCarryModifier(op) = "clear"
       /\ GetOverflowModifier(op) = "cleared"
  /\ \A op \in Extended : GetZeroModifier(op) = "clear_if_nonzero_unaffected_otherwise"
  /\ \A op \in (Arithmetic \cup Tests) \ Extended :
       GetZeroModifier(op) = "set_if_zero_clear_otherwise"
  /\ \A op \in Arithmetic \cup Tests :
       GetNegativeModifier(op) = "set_if_negative_clear_otherwise"
  BY SMTT(60)
  DEF Additions, Subtractions, Comparisons, Negations, Tests, Extended, Arithmetic,
      GetCarryModifier, GetOverflowModifier, GetZeroModifier, GetNegativeModifier,
      GetExtendModifier

LEMMA ExtendOfBit ==
  ASSUME NEW op, NEW c PROVE ExtendOf(op, c) \in {0, 1}
  BY DEF ExtendOf, Bit

(* The code fields after any instruction. *)
LEMMA UpdatedFields ==
  ASSUME NEW op \in Arithmetic \cup Tests, NEW s, NEW d, NEW r, NEW c,
         NEW u, u = Updated(op, s, d, r, c)
  PROVE  /\ u.C = Carry(op, s, d, r, c)
         /\ u.V = Overflow(op, s, d, r, c)
         /\ u.Z = Zero(op, r, c)
         /\ u.N = Negative(r)
         /\ u.X = IF GetExtendModifier(op) = "set_to_carry" THEN u.C ELSE c.X
         /\ u = [C |-> u.C, V |-> u.V, Z |-> u.Z, N |-> u.N, X |-> u.X]
  <1>1. GetNegativeModifier(op) = "set_if_negative_clear_otherwise"
    BY Modifiers
  <1> QED BY <1>1 DEF Updated

LEMMA FlagsAreBoolean ==
  ASSUME NEW op \in Arithmetic \cup Tests, NEW s, NEW d, NEW r, NEW c \in Codes
  PROVE  /\ Carry(op, s, d, r, c) \in BOOLEAN
         /\ Overflow(op, s, d, r, c) \in BOOLEAN
         /\ Zero(op, r, c) \in BOOLEAN
         /\ Negative(r) \in BOOLEAN
  <1>1. c.C \in BOOLEAN /\ c.V \in BOOLEAN /\ c.Z \in BOOLEAN
    BY DEF Codes
  <1>2. Negative(r) \in BOOLEAN
    BY DEF Negative
  <1>3. Carry(op, s, d, r, c) \in BOOLEAN
    BY <1>1 DEF Carry, StandardCarry, StandardBorrow, Negative
  <1>4. Overflow(op, s, d, r, c) \in BOOLEAN
    BY <1>1 DEF Overflow, Negative
  <1>5. Zero(op, r, c) \in BOOLEAN
    BY <1>1 DEF Zero
  <1> QED BY <1>2, <1>3, <1>4, <1>5

(* Codes stay codes. *)
LEMMA CodesKept ==
  ASSUME NEW op \in Arithmetic \cup Tests, NEW s, NEW d, codes \in Codes, Execute(op, s, d)
  PROVE  codes' \in Codes
  <1> DEFINE r == last'.result
  <1>1. codes' = Updated(op, s, d, r, codes)
    BY Executed
  <1>2. /\ codes'.C \in BOOLEAN /\ codes'.V \in BOOLEAN
        /\ codes'.Z \in BOOLEAN /\ codes'.N \in BOOLEAN
    BY <1>1, UpdatedFields, FlagsAreBoolean
  <1>3. codes'.X \in BOOLEAN
    <2>1. codes.X \in BOOLEAN
      BY DEF Codes
    <2> QED BY <1>1, <1>2, <2>1, UpdatedFields
  <1>4. codes' = [C |-> codes'.C, V |-> codes'.V, Z |-> codes'.Z, N |-> codes'.N, X |-> codes'.X]
    BY <1>1, UpdatedFields
  <1> QED BY <1>2, <1>3, <1>4 DEF Codes

LEMMA Results ==
  ASSUME NEW op, NEW s, NEW d, NEW x
  PROVE  /\ op \in Additions => Result(op, s, d, x) = Sum(s, d, x)
         /\ op \in Subtractions => Result(op, s, d, x) = Difference(s, d, x)
         /\ op \in Negations => Result(op, s, d, x) = Negated(d, x)
         /\ op \in Tests => Result(op, s, d, x) = s
  BY DEF Result, Sum, Difference, Negated, Additions, Subtractions, Comparisons, Negations, Tests

(* The formulas that the modifiers of an instruction stand for. *)
LEMMA CarryFormula ==
  ASSUME NEW op, NEW s, NEW d, NEW r, NEW c
  PROVE  /\ GetCarryModifier(op) = "standard_carry" =>
              (Carry(op, s, d, r, c) <=> StandardCarry(s, d, r))
         /\ GetCarryModifier(op) = "standard_borrow" =>
              (Carry(op, s, d, r, c) <=> StandardBorrow(s, d, r))
         /\ GetCarryModifier(op) = "neg" => (Carry(op, s, d, r, c) <=> NegativeCarry(d, r))
         /\ GetCarryModifier(op) = "clear" => ~Carry(op, s, d, r, c)
  BY DEF Carry, NegativeCarry

LEMMA OverflowFormula ==
  ASSUME NEW op, NEW s, NEW d, NEW r, NEW c
  PROVE  /\ GetOverflowModifier(op) = "add" =>
              (Overflow(op, s, d, r, c) <=> SumOverflow(s, d, r))
         /\ GetOverflowModifier(op) = "sub" =>
              (Overflow(op, s, d, r, c) <=> DifferenceOverflow(s, d, r))
         /\ GetOverflowModifier(op) = "neg" => (Overflow(op, s, d, r, c) <=> NegativeOverflow(d, r))
         /\ GetOverflowModifier(op) = "cleared" => ~Overflow(op, s, d, r, c)
  BY DEF Overflow, SumOverflow, DifferenceOverflow, NegativeOverflow

(* What an addition does. *)
LEMMA AdditionEffect ==
  ASSUME NEW op \in Additions, NEW s \in Values, NEW d \in Values, codes \in Codes,
         Execute(op, s, d), NEW x, x = ExtendOf(op, codes)
  PROVE  /\ last'.result \in Values
         /\ codes'.C <=> d + s + x >= Modulus
         /\ codes'.V <=> ~Representable(Signed(d) + Signed(s) + x)
         /\ SumParts(s, d, x, last'.result, codes'.C)
  <1> DEFINE r == last'.result
  <1>1. x \in {0, 1}
    BY ExtendOfBit
  <1>2. r = Sum(s, d, x)
    BY Executed, Results
  <1>3. GetCarryModifier(op) = "standard_carry" /\ GetOverflowModifier(op) = "add"
    BY Modifiers
  <1>4. op \in Arithmetic \cup Tests
    BY DEF Arithmetic
  <1>5. codes' = Updated(op, s, d, r, codes)
    BY Executed
  <1>6. codes'.C = Carry(op, s, d, r, codes) /\ codes'.V = Overflow(op, s, d, r, codes)
    BY <1>4, <1>5, UpdatedFields
  <1>7. codes'.C <=> StandardCarry(s, d, r)
    BY <1>3, <1>6, CarryFormula, Zenon
  <1>8. codes'.V <=> SumOverflow(s, d, r)
    BY <1>3, <1>6, OverflowFormula, Zenon
  <1> HIDE DEF r
  <1>9. r \in Values
    BY <1>1, <1>2, SumCodes
  <1>10. StandardCarry(s, d, r) <=> d + s + x >= Modulus
    BY <1>1, <1>2, SumCodes
  <1>11. SumOverflow(s, d, r) <=> ~Representable(Signed(d) + Signed(s) + x)
    BY <1>1, <1>2, SumCodes
  <1>12. SumParts(s, d, x, r, codes'.C)
    <2>1. SumParts(s, d, x, r, StandardCarry(s, d, r))
      BY <1>1, <1>2, SumCodes
    <2> QED BY <2>1, <1>7 DEF SumParts, Bit
  <1> QED BY <1>7, <1>8, <1>9, <1>10, <1>11, <1>12 DEF r

(* What a subtraction or a comparison does. *)
LEMMA SubtractionEffect ==
  ASSUME NEW op \in Subtractions, NEW s \in Values, NEW d \in Values, codes \in Codes,
         Execute(op, s, d), NEW x, x = ExtendOf(op, codes)
  PROVE  /\ last'.result \in Values
         /\ codes'.C <=> d < s + x
         /\ codes'.V <=> ~Representable(Signed(d) - Signed(s) - x)
         /\ DifferenceParts(s, d, x, last'.result, codes'.C)
  <1> DEFINE r == last'.result
  <1>1. x \in {0, 1}
    BY ExtendOfBit
  <1>2. r = Difference(s, d, x)
    BY Executed, Results
  <1>3. GetCarryModifier(op) = "standard_borrow" /\ GetOverflowModifier(op) = "sub"
    BY Modifiers
  <1>4. op \in Arithmetic \cup Tests
    BY DEF Arithmetic
  <1>5. codes' = Updated(op, s, d, r, codes)
    BY Executed
  <1>6. codes'.C = Carry(op, s, d, r, codes) /\ codes'.V = Overflow(op, s, d, r, codes)
    BY <1>4, <1>5, UpdatedFields
  <1>7. codes'.C <=> StandardBorrow(s, d, r)
    BY <1>3, <1>6, CarryFormula, Zenon
  <1>8. codes'.V <=> DifferenceOverflow(s, d, r)
    BY <1>3, <1>6, OverflowFormula, Zenon
  <1> HIDE DEF r
  <1>9. r \in Values
    BY <1>1, <1>2, DifferenceCodes
  <1>10. StandardBorrow(s, d, r) <=> d < s + x
    BY <1>1, <1>2, DifferenceCodes
  <1>11. DifferenceOverflow(s, d, r) <=> ~Representable(Signed(d) - Signed(s) - x)
    BY <1>1, <1>2, DifferenceCodes
  <1>12. DifferenceParts(s, d, x, r, codes'.C)
    <2>1. DifferenceParts(s, d, x, r, StandardBorrow(s, d, r))
      BY <1>1, <1>2, DifferenceCodes
    <2> QED BY <2>1, <1>7 DEF DifferenceParts, Bit
  <1> QED BY <1>7, <1>8, <1>9, <1>10, <1>11, <1>12 DEF r

(* What a negation does. *)
LEMMA NegationEffect ==
  ASSUME NEW op \in Negations, NEW s \in Values, NEW d \in Values, codes \in Codes,
         Execute(op, s, d), NEW x, x = ExtendOf(op, codes)
  PROVE  /\ last'.result \in Values
         /\ codes'.C <=> d + x > 0
         /\ codes'.V <=> ~Representable(0 - Signed(d) - x)
         /\ MinusParts(d, x, last'.result, codes'.C)
  <1> DEFINE r == last'.result
  <1>1. x \in {0, 1}
    BY ExtendOfBit
  <1>2. r = Negated(d, x)
    BY Executed, Results
  <1>3. GetCarryModifier(op) = "neg" /\ GetOverflowModifier(op) = "neg"
    BY Modifiers
  <1>4. op \in Arithmetic \cup Tests
    BY DEF Arithmetic
  <1>5. codes' = Updated(op, s, d, r, codes)
    BY Executed
  <1>6. codes'.C = Carry(op, s, d, r, codes) /\ codes'.V = Overflow(op, s, d, r, codes)
    BY <1>4, <1>5, UpdatedFields
  <1>7. codes'.C <=> NegativeCarry(d, r)
    BY <1>3, <1>6, CarryFormula, Zenon
  <1>8. codes'.V <=> NegativeOverflow(d, r)
    BY <1>3, <1>6, OverflowFormula, Zenon
  <1> HIDE DEF r
  <1>9. r \in Values
    BY <1>1, <1>2, NegativeCodes
  <1>10. NegativeCarry(d, r) <=> d + x > 0
    BY <1>1, <1>2, NegativeCodes
  <1>11. NegativeOverflow(d, r) <=> ~Representable(0 - Signed(d) - x)
    BY <1>1, <1>2, NegativeCodes
  <1>12. MinusParts(d, x, r, codes'.C)
    <2>1. MinusParts(d, x, r, NegativeCarry(d, r))
      BY <1>1, <1>2, NegativeCodes
    <2> QED BY <2>1, <1>7 DEF MinusParts, Bit
  <1> QED BY <1>7, <1>8, <1>9, <1>10, <1>11, <1>12 DEF r

LEMMA ExtendKept ==
  ASSUME NEW op \in Comparisons \cup Tests, NEW s, NEW d, Execute(op, s, d)
  PROVE  codes'.X = codes.X
  <1>1. GetExtendModifier(op) = "unaffected" /\ op \in Arithmetic \cup Tests
    BY Modifiers DEF Arithmetic, Subtractions
  <1> QED BY <1>1, Executed, UpdatedFields

LEMMA ExtendIsCarry ==
  ASSUME NEW op \in Arithmetic \ Comparisons, NEW s, NEW d, Execute(op, s, d)
  PROVE  codes'.X = codes'.C
  <1>1. GetExtendModifier(op) = "set_to_carry"
    BY Modifiers DEF Arithmetic, Subtractions
  <1> QED BY <1>1, Executed, UpdatedFields

(* Z, of the extended instructions and of the others. *)
LEMMA ZeroEffect ==
  ASSUME NEW op \in Arithmetic \cup Tests, NEW s, NEW d, Execute(op, s, d)
  PROVE  /\ op \in Extended => (codes'.Z <=> codes.Z /\ last'.result = 0)
         /\ op \notin Extended => (codes'.Z <=> last'.result = 0)
         /\ codes'.N <=> Negative(last'.result)
  <1>1. codes'.Z = Zero(op, last'.result, codes) /\ codes'.N = Negative(last'.result)
    BY Executed, UpdatedFields
  <1>2. CASE op \in Extended
    <2>1. GetZeroModifier(op) = "clear_if_nonzero_unaffected_otherwise"
      BY <1>2, Modifiers
    <2> QED BY <1>1, <1>2, <2>1 DEF Zero
  <1>3. CASE op \notin Extended
    <2>1. GetZeroModifier(op) = "set_if_zero_clear_otherwise"
      BY <1>3, Modifiers
    <2> QED BY <1>1, <1>3, <2>1 DEF Zero
  <1> QED BY <1>2, <1>3

LEMMA TestEffect ==
  ASSUME NEW op \in Tests, NEW s, NEW d, Execute(op, s, d)
  PROVE  last'.result = s /\ ~codes'.C /\ ~codes'.V
  <1>1. GetCarryModifier(op) = "clear" /\ GetOverflowModifier(op) = "cleared"
    BY Modifiers
  <1>2. /\ codes'.C = Carry(op, s, d, last'.result, codes)
        /\ codes'.V = Overflow(op, s, d, last'.result, codes)
    BY Executed, UpdatedFields
  <1>3. ~codes'.C /\ ~codes'.V
    BY <1>1, <1>2, CarryFormula, OverflowFormula, Zenon
  <1> QED BY <1>3, Executed, Results

(***************************************************************************)
(* ConditionCodes.                                                         *)
(***************************************************************************)

LEMMA ResultTyped ==
  ASSUME NEW op \in Arithmetic \cup Tests, NEW s \in Values, NEW d \in Values, codes \in Codes,
         Execute(op, s, d)
  PROVE  last'.result \in Values
  <1>1. CASE op \in Additions BY <1>1, AdditionEffect
  <1>2. CASE op \in Subtractions BY <1>2, SubtractionEffect
  <1>3. CASE op \in Negations BY <1>3, NegationEffect
  <1>4. CASE op \in Tests BY <1>4, TestEffect
  <1> QED BY <1>1, <1>2, <1>3, <1>4 DEF Arithmetic

LEMMA TypeKept ==
  ASSUME NEW op \in Arithmetic \cup Tests, NEW s \in Values, NEW d \in Values, TypeOK,
         Execute(op, s, d)
  PROVE  TypeOK'
  <1>1. codes \in Codes /\ codes.X \in BOOLEAN /\ codes.Z \in BOOLEAN
    BY DEF TypeOK, Codes
  <1>2. codes' \in Codes
    BY <1>1, CodesKept
  <1>3. last'.result \in Values
    BY <1>1, ResultTyped
  <1>4. last' = [instruction |-> op, source |-> s, destination |-> d, extend |-> codes.X,
                 zero |-> codes.Z, result |-> last'.result]
    BY Executed
  <1>5. last' \in [instruction : Arithmetic \cup Tests \cup {"NOP"},
                   source : Values, destination : Values, extend : BOOLEAN, zero : BOOLEAN,
                   result : Values]
    BY <1>1, <1>3, <1>4
  <1> QED BY <1>2, <1>5 DEF TypeOK

(* The invariant's instances for a step's instruction. *)
LEMMA OverflowMeant ==
  ASSUME NEW op \in Arithmetic \cup Tests, NEW s \in Values, NEW d \in Values, codes \in Codes,
         Execute(op, s, d)
  PROVE  CodesMeanOverflow'
  <1> DEFINE x == ExtendOf(op, codes)
  <1>1. /\ last'.instruction = op /\ last'.source = s /\ last'.destination = d
        /\ last'.extend = codes.X
    BY Executed
  <1>2. x = Bit(last'.instruction \in Extended /\ last'.extend)
    BY <1>1 DEF ExtendOf
  <1> HIDE DEF x
  <1>3. ASSUME op \in Additions
        PROVE  /\ codes'.C <=> d + s + x >= Modulus
               /\ codes'.V <=> ~Representable(Signed(d) + Signed(s) + x)
    BY <1>3, AdditionEffect DEF x
  <1>4. ASSUME op \in Subtractions
        PROVE  /\ codes'.C <=> d < s + x
               /\ codes'.V <=> ~Representable(Signed(d) - Signed(s) - x)
    BY <1>4, SubtractionEffect DEF x
  <1>5. ASSUME op \in Negations
        PROVE  /\ codes'.C <=> d + x > 0
               /\ codes'.V <=> ~Representable(0 - Signed(d) - x)
    BY <1>5, NegationEffect DEF x
  <1>6. op \in Comparisons \cup Tests => codes'.X = last'.extend
    BY <1>1, ExtendKept
  <1>7. op \in Arithmetic \ Comparisons => codes'.X = codes'.C
    BY ExtendIsCarry
  <1> QED BY <1>1, <1>2, <1>3, <1>4, <1>5, <1>6, <1>7 DEF CodesMeanOverflow, LastExtend

(* What the codes of a comparison say of its operands. *)
LEMMA Relations ==
  ASSUME NEW op \in Comparisons, NEW s \in Values, NEW d \in Values, codes \in Codes,
         Execute(op, s, d)
  PROVE  /\ codes'.C <=> d < s
         /\ codes'.Z <=> d = s
         /\ (codes'.N <=> codes'.V) <=> Signed(d) >= Signed(s)
  <1> DEFINE r == last'.result
  <1>1. op \in Subtractions /\ op \in Arithmetic \cup Tests /\ op \notin Extended
    BY DEF Subtractions, Arithmetic, Comparisons, Extended
  <1>2. ExtendOf(op, codes) = 0
    BY <1>1 DEF ExtendOf, Bit
  <1>3. codes'.C <=> d < s + 0
    BY <1>1, <1>2, SubtractionEffect
  <1>4. codes'.V <=> ~Representable(Signed(d) - Signed(s) - 0)
    BY <1>1, <1>2, SubtractionEffect
  <1>5. (codes'.Z <=> r = 0) /\ (codes'.N <=> Negative(r))
    BY <1>1, ZeroEffect
  <1>6. r = Wrapped(d - s - 0)
    BY <1>1, <1>2, Executed, Results DEF Difference
  <1> HIDE DEF r
  <1>7. r = 0 <=> d = s
    BY <1>6, SignBitAssumption DEF Wrapped, Values, Modulus
  <1>8. (Negative(r) <=> ~Representable(Signed(d) - Signed(s) - 0)) <=> Signed(d) >= Signed(s)
    BY <1>6, SignBitAssumption DEF Wrapped, Values, Modulus, Negative, Representable, Signed
  <1>9. d < s + 0 <=> d < s
    BY DEF Values
  <1> QED BY <1>3, <1>4, <1>5, <1>7, <1>8, <1>9

(* From the three facts about the codes to the ten conditions. *)
LEMMA Conditions ==
  ASSUME NEW c, NEW s \in Values, NEW d \in Values,
         c.C <=> d < s, c.Z <=> d = s, (c.N <=> c.V) <=> Signed(d) >= Signed(s)
  PROVE  /\ IsOpcodeConditionTrue(2, c) <=> d > s
         /\ IsOpcodeConditionTrue(3, c) <=> d <= s
         /\ IsOpcodeConditionTrue(4, c) <=> d >= s
         /\ IsOpcodeConditionTrue(5, c) <=> d < s
         /\ IsOpcodeConditionTrue(6, c) <=> d # s
         /\ IsOpcodeConditionTrue(7, c) <=> d = s
         /\ IsOpcodeConditionTrue(12, c) <=> Signed(d) >= Signed(s)
         /\ IsOpcodeConditionTrue(13, c) <=> Signed(d) < Signed(s)
         /\ IsOpcodeConditionTrue(14, c) <=> Signed(d) > Signed(s)
         /\ IsOpcodeConditionTrue(15, c) <=> Signed(d) <= Signed(s)
  <1>1. /\ IsOpcodeConditionTrue(2, c) <=> ~c.C /\ ~c.Z
        /\ IsOpcodeConditionTrue(3, c) <=> c.C \/ c.Z
        /\ IsOpcodeConditionTrue(4, c) <=> ~c.C
        /\ IsOpcodeConditionTrue(5, c) <=> c.C
        /\ IsOpcodeConditionTrue(6, c) <=> ~c.Z
        /\ IsOpcodeConditionTrue(7, c) <=> c.Z
        /\ IsOpcodeConditionTrue(12, c) <=> (c.N <=> c.V)
        /\ IsOpcodeConditionTrue(13, c) <=> ~(c.N <=> c.V)
        /\ IsOpcodeConditionTrue(14, c) <=> ~c.Z /\ (c.N <=> c.V)
        /\ IsOpcodeConditionTrue(15, c) <=> c.Z \/ ~(c.N <=> c.V)
    BY DEF IsOpcodeConditionTrue
  <1>2. s \in Int /\ d \in Int /\ Signed(s) \in Int /\ Signed(d) \in Int
    BY SignBitAssumption DEF Values, Signed, Modulus
  <1>3. d = s <=> Signed(d) = Signed(s)
    BY SignBitAssumption DEF Values, Signed, Modulus, Negative
  <1> QED BY <1>1, <1>2, <1>3

LEMMA RelationsMeant ==
  ASSUME NEW op \in Arithmetic \cup Tests, NEW s \in Values, NEW d \in Values, codes \in Codes,
         Execute(op, s, d)
  PROVE  ConditionsAreRelations'
  <1>1. last'.instruction = op /\ last'.source = s /\ last'.destination = d
    BY Executed
  <1>2. CASE op \in Comparisons
    <2>1. op \notin Tests
      BY <1>2 DEF Comparisons, Tests
    <2>2. /\ codes'.C <=> d < s
          /\ codes'.Z <=> d = s
          /\ (codes'.N <=> codes'.V) <=> Signed(d) >= Signed(s)
      BY <1>2, Relations
    <2> QED BY <1>1, <1>2, <2>1, <2>2, Conditions DEF ConditionsAreRelations
  <1>3. CASE op \in Tests
    <2>1. op \notin Extended /\ 0 \in Values
      BY <1>3, SignBitAssumption DEF Tests, Extended, Values, Modulus
    <2>2. last'.result = s /\ ~codes'.C /\ ~codes'.V
      BY <1>3, TestEffect
    <2>3. (codes'.Z <=> s = 0) /\ (codes'.N <=> Negative(s))
      BY <2>1, <2>2, ZeroEffect
    <2>4. Signed(0) = 0 /\ (Negative(s) <=> Signed(s) < 0) /\ ~(s < 0)
      BY SignBitAssumption DEF Signed, Negative, Modulus, Values
    <2>5. Signed(s) \in Int
      BY SignBitAssumption DEF Values, Signed, Modulus
    <2>6. /\ codes'.C <=> s < 0
          /\ codes'.Z <=> s = 0
          /\ (codes'.N <=> codes'.V) <=> Signed(s) >= Signed(0)
      BY <2>2, <2>3, <2>4, <2>5
    <2> QED BY <1>1, <1>3, <2>1, <2>6, Conditions DEF ConditionsAreRelations
  <1>4. CASE op \notin Comparisons \cup Tests
    BY <1>1, <1>4 DEF ConditionsAreRelations
  <1> QED BY <1>2, <1>3, <1>4

(* Codes, operands and results are of their kinds: a result never leaves   *)
(* the range of its size.                                                  *)
THEOREM CodesTyped == Spec => []TypeOK
  <1>1. Init => TypeOK
    BY SignBitAssumption DEF Init, TypeOK, Nothing, Values, Modulus
  <1>2. TypeOK /\ [Next]_vars => TypeOK'
    <2>1. ASSUME TypeOK, Next PROVE TypeOK'
      BY <2>1, TypeKept DEF Next
    <2>2. ASSUME TypeOK, UNCHANGED vars PROVE TypeOK'
      BY <2>2 DEF vars, TypeOK
    <2> QED BY <2>1, <2>2
  <1> QED BY <1>1, <1>2, PTL DEF Spec

(* For operands of every size, C is the overflow of the unsigned and V     *)
(* that of the signed result.                                              *)
THEOREM OverflowsFound == Spec => []CodesMeanOverflow
  <1>1. Init => CodesMeanOverflow
    BY DEF Init, CodesMeanOverflow, Nothing, Additions, Subtractions, Comparisons, Negations,
           Tests, Arithmetic
  <1>2. TypeOK /\ CodesMeanOverflow /\ [Next]_vars => CodesMeanOverflow'
    <2>1. ASSUME TypeOK, Next PROVE CodesMeanOverflow'
      BY <2>1, OverflowMeant DEF Next, TypeOK
    <2>2. ASSUME CodesMeanOverflow, UNCHANGED vars PROVE CodesMeanOverflow'
      BY <2>2 DEF vars, CodesMeanOverflow, LastExtend
    <2> QED BY <2>1, <2>2
  <1> QED BY <1>1, <1>2, CodesTyped, PTL DEF Spec

(* For operands of every size, the conditions of branches are the ten      *)
(* relations between the operands of the comparison before them.           *)
THEOREM BranchesCompare == Spec => []ConditionsAreRelations
  <1>1. Init => ConditionsAreRelations
    BY DEF Init, ConditionsAreRelations, Nothing, Comparisons, Tests
  <1>2. TypeOK /\ ConditionsAreRelations /\ [Next]_vars => ConditionsAreRelations'
    <2>1. ASSUME TypeOK, Next PROVE ConditionsAreRelations'
      BY <2>1, RelationsMeant DEF Next, TypeOK
    <2>2. ASSUME ConditionsAreRelations, UNCHANGED vars PROVE ConditionsAreRelations'
      BY <2>2 DEF vars, ConditionsAreRelations
    <2> QED BY <2>1, <2>2
  <1> QED BY <1>1, <1>2, CodesTyped, PTL DEF Spec

(***************************************************************************)
(* LongArithmetic.                                                         *)
(***************************************************************************)

(* Positional notation: a digit of weight w decides, whatever is below it. *)
LEMMA DigitDecides ==
  ASSUME NEW w \in Nat \ {0}, NEW t \in 0 .. w - 1, NEW k \in Int, NEW m \in Int
  PROVE  t + k * w < m * w <=> k < m
  <1>1. ASSUME k < m PROVE t + k * w < m * w
    <2>1. PICK n \in Nat : m = k + 1 + n
      <3>1. m - k - 1 \in Nat /\ m = k + 1 + (m - k - 1)
        BY <1>1
      <3> QED BY <3>1
    <2>2. m * w = k * w + w + n * w
      BY <2>1
    <2>3. n * w >= 0 /\ k * w \in Int
      OBVIOUS
    <2> QED BY <2>2, <2>3
  <1>2. ASSUME ~(k < m) PROVE ~(t + k * w < m * w)
    <2>1. PICK n \in Nat : k = m + n
      <3>1. k - m \in Nat /\ k = m + (k - m)
        BY <1>2
      <3> QED BY <3>1
    <2>2. k * w = m * w + n * w
      BY <2>1
    <2>3. n * w >= 0 /\ m * w \in Int
      OBVIOUS
    <2> QED BY <2>2, <2>3
  <1> QED BY <1>1, <1>2

LEMMA Products ==
  ASSUME NEW w \in Nat \ {0}, NEW r \in Values
  PROVE  /\ w * Modulus \in Nat \ {0}
         /\ r * w \in Nat
         /\ r * w = 0 <=> r = 0
         /\ r * w <= w * Modulus - w
  <1>1. r \in Nat /\ Modulus \in Nat \ {0} /\ r <= Modulus - 1
    BY SignBitAssumption DEF Values, Modulus
  <1>2. w * Modulus \in Nat \ {0} /\ r * w \in Nat
    BY <1>1
  <1>3. r * w = 0 <=> r = 0
    BY <1>1
  <1>4. PICK n \in Nat : Modulus = r + 1 + n
    <2>1. Modulus - r - 1 \in Nat /\ Modulus = r + 1 + (Modulus - r - 1)
      BY <1>1
    <2> QED BY <2>1
  <1>5. w * Modulus = r * w + w + n * w
    BY <1>1, <1>4
  <1>6. n * w >= 0
    OBVIOUS
  <1> QED BY <1>1, <1>2, <1>3, <1>5, <1>6

(* The chain's part in the invariant: what is below the next part.         *)
BelowWeight == number < weight /\ other < weight /\ total < weight

ChainInv == ChainTypeOK /\ BelowWeight

LEMMA ChainStepKeeps ==
  ASSUME ChainInv, NEW s \in Values, NEW d \in Values, Execute(instruction, s, d),
         number' = number + d * weight, other' = other + s * weight,
         total' = total + last'.result * weight, weight' = weight * Modulus,
         part' = part + 1, UNCHANGED instruction
  PROVE  ChainInv'
  <1> DEFINE r == last'.result
  <1>1. /\ codes \in Codes /\ instruction \in Extended /\ part \in Nat
        /\ number \in Nat /\ other \in Nat /\ total \in Nat /\ weight \in Nat \ {0}
        /\ number < weight /\ other < weight /\ total < weight
    BY DEF ChainInv, ChainTypeOK, BelowWeight
  <1>2. instruction \in Arithmetic \cup Tests
    BY <1>1 DEF Extended, Arithmetic, Additions, Subtractions, Negations
  <1>3. codes' \in Codes /\ r \in Values
    BY <1>1, <1>2, CodesKept, ResultTyped
  <1> HIDE DEF r
  <1>4. /\ weight * Modulus \in Nat \ {0}
        /\ r * weight \in Nat /\ r * weight <= weight * Modulus - weight
        /\ d * weight \in Nat /\ d * weight <= weight * Modulus - weight
        /\ s * weight \in Nat /\ s * weight <= weight * Modulus - weight
    BY <1>1, <1>3, Products
  <1>5. total' = total + r * weight
    BY DEF r
  <1>6. /\ number' \in Nat /\ other' \in Nat /\ total' \in Nat /\ part' \in Nat
        /\ weight' \in Nat \ {0} /\ instruction' \in Extended
    BY <1>1, <1>4, <1>5
  <1>7. BelowWeight'
    BY <1>1, <1>4, <1>5 DEF BelowWeight
  <1> QED BY <1>3, <1>6, <1>7 DEF ChainInv, ChainTypeOK

(* One more part leaves the equation of ADDX, SUBX and NEGX in force.      *)
LEMMA SumExtended ==
  ASSUME NEW n \in Int, NEW o \in Int, NEW t \in Int, NEW w \in Int, NEW m \in Int,
         NEW s \in Int, NEW d \in Int, NEW x \in Int, NEW r \in Int, NEW c \in Int,
         t + x * w = n + o, d + s + x = r + c * m
  PROVE  (t + r * w) + c * (w * m) = (n + d * w) + (o + s * w)
  <1>1. r * w + c * (w * m) = (r + c * m) * w
    OBVIOUS
  <1>2. (d + s + x) * w = d * w + s * w + x * w
    OBVIOUS
  <1>3. r * w + c * (w * m) = d * w + s * w + x * w
    BY <1>1, <1>2
  <1>4. r * w \in Int /\ c * (w * m) \in Int /\ d * w \in Int /\ s * w \in Int /\ x * w \in Int
    OBVIOUS
  <1> QED BY <1>3, <1>4

LEMMA DifferenceExtended ==
  ASSUME NEW n \in Int, NEW o \in Int, NEW t \in Int, NEW w \in Int, NEW m \in Int,
         NEW s \in Int, NEW d \in Int, NEW x \in Int, NEW r \in Int, NEW c \in Int,
         t - x * w = n - o, d - s - x = r - c * m
  PROVE  (t + r * w) - c * (w * m) = (n + d * w) - (o + s * w)
  <1>1. r * w - c * (w * m) = (r - c * m) * w
    OBVIOUS
  <1>2. (d - s - x) * w = d * w - s * w - x * w
    OBVIOUS
  <1>3. r * w - c * (w * m) = d * w - s * w - x * w
    BY <1>1, <1>2
  <1>4. r * w \in Int /\ c * (w * m) \in Int /\ d * w \in Int /\ s * w \in Int /\ x * w \in Int
    OBVIOUS
  <1> QED BY <1>3, <1>4

(* The numbers of a step, typed. *)
LEMMA ChainNumbers ==
  ASSUME ChainInv, NEW s \in Values, NEW d \in Values, Execute(instruction, s, d)
  PROVE  /\ number \in Nat /\ other \in Nat /\ total \in Nat /\ weight \in Nat \ {0}
         /\ s \in Int /\ d \in Int /\ last'.result \in Int /\ Modulus \in Int
         /\ Bit(codes.X) \in {0, 1} /\ Bit(codes'.X) \in {0, 1}
         /\ ExtendOf(instruction, codes) = Bit(codes.X)
         /\ codes'.X = codes'.C
  <1>1. instruction \in Arithmetic \cup Tests /\ instruction \in Arithmetic \ Comparisons /\ codes \in Codes
    BY DEF ChainInv, ChainTypeOK, Extended, Arithmetic, Additions, Subtractions, Comparisons,
           Negations
  <1>2. last'.result \in Values
    BY <1>1, ResultTyped
  <1>3. s \in Int /\ d \in Int /\ last'.result \in Int /\ Modulus \in Int
    BY <1>2, SignBitAssumption DEF Values, Modulus
  <1>4. Bit(codes.X) \in {0, 1} /\ Bit(codes'.X) \in {0, 1}
    BY DEF Bit
  <1>5. ExtendOf(instruction, codes) = Bit(codes.X)
    BY DEF ChainInv, ChainTypeOK, ExtendOf, Bit
  <1>6. codes'.X = codes'.C
    BY <1>1, ExtendIsCarry
  <1> QED BY <1>3, <1>4, <1>5, <1>6 DEF ChainInv, ChainTypeOK

LEMMA ChainStepComputes ==
  ASSUME ChainInv, ChainComputes, NEW s \in Values, NEW d \in Values, Execute(instruction, s, d),
         number' = number + d * weight, other' = other + s * weight,
         total' = total + last'.result * weight, weight' = weight * Modulus, UNCHANGED instruction
  PROVE  ChainComputes'
  <1> DEFINE r == last'.result
             x == Bit(codes.X)
             c == Bit(codes'.X)
  <1>1. /\ number \in Nat /\ other \in Nat /\ total \in Nat /\ weight \in Nat \ {0}
        /\ s \in Int /\ d \in Int /\ r \in Int /\ Modulus \in Int /\ x \in Int /\ c \in Int
        /\ ExtendOf(instruction, codes) = x /\ Bit(codes'.C) = c
    BY ChainNumbers
  <1>2. codes \in Codes
    BY DEF ChainInv, ChainTypeOK
  <1>3. total' = total + r * weight
    OBVIOUS
  <1>4. /\ instruction = "ADDX" => total + x * weight = number + other
        /\ instruction = "SUBX" => total - x * weight = number - other
        /\ instruction = "NEGX" => total - x * weight = 0 - number
    BY DEF ChainComputes
  <1>5. instruction = "ADDX" => d + s + x = r + c * Modulus
    <2>1. ASSUME instruction = "ADDX" PROVE SumParts(s, d, ExtendOf(instruction, codes), r, codes'.C)
      BY <2>1, <1>2, AdditionEffect DEF Additions
    <2> QED BY <2>1, <1>1 DEF SumParts
  <1>6. instruction = "SUBX" => d - s - x = r - c * Modulus
    <2>1. ASSUME instruction = "SUBX" PROVE DifferenceParts(s, d, ExtendOf(instruction, codes), r, codes'.C)
      BY <2>1, <1>2, SubtractionEffect DEF Subtractions
    <2> QED BY <2>1, <1>1 DEF DifferenceParts
  <1>7. instruction = "NEGX" => 0 - d - x = r - c * Modulus
    <2>1. ASSUME instruction = "NEGX" PROVE MinusParts(d, ExtendOf(instruction, codes), r, codes'.C)
      BY <2>1, <1>2, NegationEffect DEF Negations
    <2> QED BY <2>1, <1>1 DEF MinusParts
  <1> SUFFICES /\ instruction = "ADDX" => total' + c * weight' = number' + other'
               /\ instruction = "SUBX" => total' - c * weight' = number' - other'
               /\ instruction = "NEGX" => total' - c * weight' = 0 - number'
    BY DEF ChainComputes
  <1> HIDE DEF r, x, c
  <1>8. ASSUME instruction = "ADDX" PROVE total' + c * weight' = number' + other'
    BY <1>1, <1>3, <1>4, <1>5, <1>8, SumExtended
  <1>9. ASSUME instruction = "SUBX" PROVE total' - c * weight' = number' - other'
    BY <1>1, <1>3, <1>4, <1>6, <1>9, DifferenceExtended
  <1>10. ASSUME instruction = "NEGX" PROVE total' - c * weight' = 0 - number'
    <2>1. total - x * weight = 0 - number /\ 0 - d - x = r - c * Modulus
      BY <1>4, <1>7, <1>10
    <2>2. (total + r * weight) - c * (weight * Modulus) = (0 + 0 * weight) - (number + d * weight)
      BY <1>1, <2>1, DifferenceExtended
    <2> QED BY <1>1, <1>3, <2>2
  <1> QED BY <1>8, <1>9, <1>10

LEMMA ChainStepZero ==
  ASSUME ChainInv, ChainZero, NEW s \in Values, NEW d \in Values, Execute(instruction, s, d),
         total' = total + last'.result * weight
  PROVE  ChainZero'
  <1>1. instruction \in Arithmetic \cup Tests /\ instruction \in Extended /\ codes \in Codes
    BY DEF ChainInv, ChainTypeOK, Extended, Arithmetic, Additions, Subtractions, Negations
  <1>2. codes'.Z <=> codes.Z /\ last'.result = 0
    BY <1>1, ZeroEffect
  <1>3. last'.result \in Values
    BY <1>1, ResultTyped
  <1>4. total \in Nat /\ weight \in Nat \ {0}
    BY ChainNumbers
  <1>5. last'.result * weight \in Nat /\ (last'.result * weight = 0 <=> last'.result = 0)
    BY <1>3, <1>4, Products
  <1> QED BY <1>2, <1>4, <1>5 DEF ChainZero

(* The highest digit of a number decides on its sign ...                   *)
LEMMA TopDigit ==
  ASSUME NEW w \in Nat \ {0}, NEW t \in 0 .. w - 1, NEW d \in Values
  PROVE  /\ 2 * (t + d * w) >= w * Modulus <=> Negative(d)
         /\ 2 * (t + d * w) >= w * Modulus => (t + d * w) - w * Modulus = t + Signed(d) * w
         /\ ~(2 * (t + d * w) >= w * Modulus) => t + d * w = t + Signed(d) * w
  <1>1. d \in Int /\ SignBit \in Int /\ Modulus = 2 * SignBit
    BY SignBitAssumption DEF Values, Modulus
  <1>2. t + d * w < SignBit * w <=> d < SignBit
    BY <1>1, DigitDecides
  <1>3. w * Modulus = 2 * (SignBit * w) /\ SignBit * w \in Int /\ d * w \in Int
    BY <1>1
  <1>4. 2 * (t + d * w) >= w * Modulus <=> Negative(d)
    BY <1>1, <1>2, <1>3 DEF Negative
  <1>5. ASSUME Negative(d) PROVE (t + d * w) - w * Modulus = t + Signed(d) * w
    <2>1. Signed(d) = d - 2 * SignBit
      BY <1>1, <1>5 DEF Signed
    <2>2. (d - 2 * SignBit) * w = d * w - 2 * (SignBit * w)
      BY <1>1
    <2> QED BY <1>3, <2>1, <2>2
  <1>6. ASSUME ~Negative(d) PROVE t + d * w = t + Signed(d) * w
    BY <1>6 DEF Signed
  <1> QED BY <1>4, <1>5, <1>6

(* ... and on whether it fits.                                             *)
LEMMA TopDigitFits ==
  ASSUME NEW w \in Nat \ {0}, NEW t \in 0 .. w - 1, NEW k \in Int
  PROVE  /\ -(w * Modulus) <= 2 * (t + k * w) /\ 2 * (t + k * w) < w * Modulus
         <=> Representable(k)
  <1>1. SignBit \in Int /\ -SignBit \in Int /\ Modulus = 2 * SignBit
    BY SignBitAssumption DEF Modulus
  <1>2. t + k * w < SignBit * w <=> k < SignBit
    BY <1>1, DigitDecides
  <1>3. t + k * w < (-SignBit) * w <=> k < -SignBit
    BY <1>1, DigitDecides
  <1>4. /\ w * Modulus = 2 * (SignBit * w) /\ (-SignBit) * w = -(SignBit * w)
        /\ SignBit * w \in Int /\ k * w \in Int
    BY <1>1
  <1> QED BY <1>1, <1>2, <1>3, <1>4 DEF Representable

(* The long numbers, signed, after a step. *)
LEMMA ChainSignedNumbers ==
  ASSUME ChainInv, NEW s \in Values, NEW d \in Values,
         number' = number + d * weight, other' = other + s * weight, weight' = weight * Modulus
  PROVE  /\ LongSigned(number)' = number + Signed(d) * weight
         /\ LongSigned(other)'  = other + Signed(s) * weight
  <1>1. /\ weight \in Nat \ {0} /\ number \in 0 .. weight - 1 /\ other \in 0 .. weight - 1
    BY DEF ChainInv, ChainTypeOK, BelowWeight
  <1>2. LongSigned(number)' = IF 2 * (number + d * weight) >= weight * Modulus
                              THEN (number + d * weight) - weight * Modulus
                              ELSE number + d * weight
    BY DEF LongSigned
  <1>3. LongSigned(other)' = IF 2 * (other + s * weight) >= weight * Modulus
                             THEN (other + s * weight) - weight * Modulus
                             ELSE other + s * weight
    BY DEF LongSigned
  <1>4. LongSigned(number)' = number + Signed(d) * weight
    BY <1>1, <1>2, TopDigit
  <1>5. LongSigned(other)' = other + Signed(s) * weight
    BY <1>1, <1>3, TopDigit
  <1> QED BY <1>4, <1>5

(* What V of the highest part is: the combination of its signed digits. *)
LEMMA ChainOverflow ==
  ASSUME ChainInv, NEW s \in Values, NEW d \in Values, Execute(instruction, s, d),
         NEW x, x = Bit(codes.X)
  PROVE  /\ instruction = "ADDX" => (codes'.V <=> ~Representable(Signed(d) + Signed(s) + x))
         /\ instruction = "SUBX" => (codes'.V <=> ~Representable(Signed(d) - Signed(s) - x))
         /\ instruction = "NEGX" => (codes'.V <=> ~Representable(0 - Signed(d) - x))
  <1>1. codes \in Codes /\ x = ExtendOf(instruction, codes)
    BY ChainNumbers DEF ChainInv, ChainTypeOK
  <1>2. ASSUME instruction = "ADDX" PROVE codes'.V <=> ~Representable(Signed(d) + Signed(s) + x)
    BY <1>1, <1>2, AdditionEffect DEF Additions
  <1>3. ASSUME instruction = "SUBX" PROVE codes'.V <=> ~Representable(Signed(d) - Signed(s) - x)
    BY <1>1, <1>3, SubtractionEffect DEF Subtractions
  <1>4. ASSUME instruction = "NEGX" PROVE codes'.V <=> ~Representable(0 - Signed(d) - x)
    BY <1>1, <1>4, NegationEffect DEF Negations
  <1> QED BY <1>2, <1>3, <1>4

LEMMA ChainStepSigned ==
  ASSUME ChainInv, ChainComputes, NEW s \in Values, NEW d \in Values, Execute(instruction, s, d),
         number' = number + d * weight, other' = other + s * weight,
         total' = total + last'.result * weight, weight' = weight * Modulus, UNCHANGED instruction
  PROVE  ChainSigned'
  <1> DEFINE x == Bit(codes.X)
             r == last'.result
             Whole == CASE instruction = "ADDX" -> LongSigned(number)' + LongSigned(other)'
                        [] instruction = "SUBX" -> LongSigned(number)' - LongSigned(other)'
                        [] instruction = "NEGX" -> 0 - LongSigned(number)'
             Top == CASE instruction = "ADDX" -> Signed(d) + Signed(s) + x
                      [] instruction = "SUBX" -> Signed(d) - Signed(s) - x
                      [] instruction = "NEGX" -> 0 - Signed(d) - x
  <1>1. /\ number \in Nat /\ other \in Nat /\ weight \in Nat \ {0}
        /\ total \in 0 .. weight - 1 /\ instruction \in Extended
        /\ x \in Int
    BY ChainNumbers DEF ChainInv, ChainTypeOK, BelowWeight
  <1>2. r \in Values
    <2>1. instruction \in Arithmetic \cup Tests /\ codes \in Codes
      BY DEF ChainInv, ChainTypeOK, Extended, Arithmetic, Additions, Subtractions, Negations
    <2> QED BY <2>1, ResultTyped
  <1>3. Signed(s) \in Int /\ Signed(d) \in Int
    BY SignBitAssumption DEF Signed, Values, Modulus
  <1>4. codes'.N <=> 2 * total' >= weight'
    <2>1. instruction \in Arithmetic \cup Tests
      BY DEF ChainInv, ChainTypeOK, Extended, Arithmetic, Additions, Subtractions, Negations
    <2>2. codes'.N <=> Negative(r)
      BY <2>1, ZeroEffect
    <2>3. 2 * (total + r * weight) >= weight * Modulus <=> Negative(r)
      BY <1>1, <1>2, TopDigit
    <2> QED BY <2>2, <2>3
  <1>5. /\ LongSigned(number)' = number + Signed(d) * weight
        /\ LongSigned(other)'  = other + Signed(s) * weight
    BY ChainSignedNumbers
  <1>6. /\ instruction = "ADDX" => total + x * weight = number + other
        /\ instruction = "SUBX" => total - x * weight = number - other
        /\ instruction = "NEGX" => total - x * weight = 0 - number
    BY DEF ChainComputes
  <1>7. /\ instruction = "ADDX" => (codes'.V <=> ~Representable(Signed(d) + Signed(s) + x))
        /\ instruction = "SUBX" => (codes'.V <=> ~Representable(Signed(d) - Signed(s) - x))
        /\ instruction = "NEGX" => (codes'.V <=> ~Representable(0 - Signed(d) - x))
    BY ChainOverflow
  <1> HIDE DEF x, r
  <1>8. Top \in Int /\ Whole = total + Top * weight
    <2>1. ASSUME instruction = "ADDX" PROVE Top \in Int /\ Whole = total + Top * weight
      <3>1. Whole = (number + Signed(d) * weight) + (other + Signed(s) * weight)
        BY <1>5, <2>1
      <3>2. Top = Signed(d) + Signed(s) + x
        BY <2>1
      <3>3. total + x * weight = number + other
        BY <1>6, <2>1
      <3> HIDE DEF Whole, Top
      <3>4. Signed(d) * weight \in Int /\ Signed(s) * weight \in Int /\ x * weight \in Int
        BY <1>1, <1>3
      <3>5. (Signed(d) + Signed(s) + x) * weight
              = Signed(d) * weight + Signed(s) * weight + x * weight
        BY <1>1, <1>3
      <3>6. Top \in Int /\ Top * weight = Signed(d) * weight + Signed(s) * weight + x * weight
        BY <1>1, <1>3, <3>2, <3>5
      <3> QED BY <1>1, <3>1, <3>3, <3>4, <3>6
    <2>2. ASSUME instruction = "SUBX" PROVE Top \in Int /\ Whole = total + Top * weight
      <3>1. Whole = (number + Signed(d) * weight) - (other + Signed(s) * weight)
        BY <1>5, <2>2
      <3>2. Top = Signed(d) - Signed(s) - x
        BY <2>2
      <3>3. total - x * weight = number - other
        BY <1>6, <2>2
      <3> HIDE DEF Whole, Top
      <3>4. Signed(d) * weight \in Int /\ Signed(s) * weight \in Int /\ x * weight \in Int
        BY <1>1, <1>3
      <3>5. (Signed(d) - Signed(s) - x) * weight
              = Signed(d) * weight - Signed(s) * weight - x * weight
        BY <1>1, <1>3
      <3>6. Top \in Int /\ Top * weight = Signed(d) * weight - Signed(s) * weight - x * weight
        BY <1>1, <1>3, <3>2, <3>5
      <3> QED BY <1>1, <3>1, <3>3, <3>4, <3>6
    <2>3. ASSUME instruction = "NEGX" PROVE Top \in Int /\ Whole = total + Top * weight
      <3>1. Whole = 0 - (number + Signed(d) * weight)
        BY <1>5, <2>3
      <3>2. Top = 0 - Signed(d) - x
        BY <2>3
      <3>3. total - x * weight = 0 - number
        BY <1>6, <2>3
      <3> HIDE DEF Whole, Top
      <3>4. Signed(d) * weight \in Int /\ x * weight \in Int
        BY <1>1, <1>3
      <3>5. (0 - Signed(d) - x) * weight = 0 - Signed(d) * weight - x * weight
        BY <1>1, <1>3
      <3>6. Top \in Int /\ Top * weight = 0 - Signed(d) * weight - x * weight
        BY <1>1, <1>3, <3>2, <3>5
      <3> QED BY <1>1, <3>1, <3>3, <3>4, <3>6
    <2> QED BY <1>1, <2>1, <2>2, <2>3 DEF Extended
  <1>9. codes'.V <=> ~Representable(Top)
    BY <1>1, <1>7 DEF Extended
  <1> HIDE DEF Top
  <1>10. -weight' <= 2 * Whole /\ 2 * Whole < weight' <=> Representable(Top)
    BY <1>1, <1>8, TopDigitFits
  <1>11. codes'.V <=> ~(-weight' <= 2 * Whole /\ 2 * Whole < weight')
    BY <1>9, <1>10
  <1> QED BY <1>4, <1>11 DEF ChainSigned, LongRepresentable

(* However many parts there were, the long numbers end below the next one. *)
LEMMA ChainInvariant == ChainSpec => []ChainInv
  <1>1. ChainInit => ChainInv
    BY DEF ChainInit, Init, NoNumbers, ChainInv, ChainTypeOK, BelowWeight
  <1>2. ChainInv /\ [ChainStep]_chainVars => ChainInv'
    <2>1. ASSUME ChainInv, ChainStep PROVE ChainInv'
      BY <2>1, ChainStepKeeps DEF ChainStep
    <2>2. ASSUME ChainInv, UNCHANGED chainVars PROVE ChainInv'
      BY <2>2 DEF chainVars, ChainInv, ChainTypeOK, BelowWeight
    <2> QED BY <2>1, <2>2
  <1> QED BY <1>1, <1>2, PTL DEF ChainSpec

(* The codes and the long numbers stay of their kinds, however many parts  *)
(* a number has.                                                           *)
THEOREM ChainTyped == ChainSpec => []ChainTypeOK
  <1>1. ChainInv => ChainTypeOK
    BY DEF ChainInv
  <1> QED BY <1>1, ChainInvariant, PTL

(* ADDX, SUBX and NEGX over the parts of numbers of any length add,        *)
(* subtract and negate the whole numbers.                                  *)
THEOREM ChainsCompute == ChainSpec => []ChainComputes
  <1>1. ChainInit => ChainComputes
    <2>1. ChainInit => Bit(codes.X) = 0
      BY DEF ChainInit, NoNumbers, Bit
    <2> QED BY <2>1 DEF ChainInit, NoNumbers, ChainComputes
  <1>2. ChainInv /\ ChainComputes /\ [ChainStep]_chainVars => ChainComputes'
    <2>1. ASSUME ChainInv, ChainComputes, ChainStep PROVE ChainComputes'
      BY <2>1, ChainStepComputes DEF ChainStep
    <2>2. ASSUME ChainComputes, UNCHANGED chainVars PROVE ChainComputes'
      BY <2>2 DEF chainVars, ChainComputes
    <2> QED BY <2>1, <2>2
  <1> QED BY <1>1, <1>2, ChainInvariant, PTL DEF ChainSpec

(* Z after the last part is set exactly when the whole result is zero.     *)
THEOREM ChainsZero == ChainSpec => []ChainZero
  <1>1. ChainInit => ChainZero
    BY DEF ChainInit, NoNumbers, ChainZero
  <1>2. ChainInv /\ ChainZero /\ [ChainStep]_chainVars => ChainZero'
    <2>1. ASSUME ChainInv, ChainZero, ChainStep PROVE ChainZero'
      BY <2>1, ChainStepZero DEF ChainStep
    <2>2. ASSUME ChainZero, UNCHANGED chainVars PROVE ChainZero'
      BY <2>2 DEF chainVars, ChainZero
    <2> QED BY <2>1, <2>2
  <1> QED BY <1>1, <1>2, ChainInvariant, PTL DEF ChainSpec

(* N and V after the last part are the sign of the whole result and the    *)
(* overflow of the whole signed numbers.                                   *)
THEOREM ChainsSigned == ChainSpec => []ChainSigned
  <1>1. ChainInit => ChainSigned
    BY DEF ChainInit, NoNumbers, ChainSigned
  <1>2. ChainInv /\ ChainComputes /\ ChainSigned /\ [ChainStep]_chainVars => ChainSigned'
    <2>1. ASSUME ChainInv, ChainComputes, ChainStep PROVE ChainSigned'
      BY <2>1, ChainStepSigned DEF ChainStep
    <2>2. ASSUME ChainSigned, UNCHANGED chainVars PROVE ChainSigned'
      BY <2>2 DEF chainVars, ChainSigned, LongSigned, LongRepresentable
    <2> QED BY <2>1, <2>2
  <1> QED BY <1>1, <1>2, ChainInvariant, ChainsCompute, PTL DEF ChainSpec

(* The condition codes of a chain of ADDX, SUBX or NEGX are those of the   *)
(* long numbers, of any number of parts of any width.                      *)
THEOREM ChainsCoded == ChainSpec => []ChainCodes
  <1>1. ChainZero /\ ChainSigned => ChainCodes
    BY DEF ChainCodes
  <1> QED BY <1>1, ChainsZero, ChainsSigned, PTL

(***************************************************************************)
(* Quotients and remainders.                                               *)
(***************************************************************************)

Composed(a, w, q, m) == q \in Int /\ m \in 0 .. w - 1 /\ a = q * w + m

LEMMA DivMod ==
  ASSUME NEW a \in Int, NEW w \in Nat \ {0}
  PROVE  Composed(a, w, a \div w, a % w)
  BY DEF Composed

QuotientIs(a, w, q, m) == a \div w = q /\ a % w = m

LEMMA Divided ==
  ASSUME NEW w \in Nat \ {0}, NEW q \in Int, NEW m \in 0 .. w - 1, NEW a, a = q * w + m
  PROVE  QuotientIs(a, w, q, m)
  BY DEF QuotientIs

(* A product modulo w, and twice the product. *)
LEMMA DoubledProduct ==
  ASSUME NEW p \in Int, NEW h \in Nat \ {0}, NEW b \in 0 .. 1, NEW r,
         r = p % (2 * h), b = IF r >= h THEN 1 ELSE 0
  PROVE  /\ (2 * p) % (2 * h) = 2 * r - 2 * h * b
         /\ (2 * p) \div (2 * h) = 2 * (p \div (2 * h)) + b
<1> DEFINE w == 2 * h
           q == p \div w
<1>2. w = 2 * h /\ w \in Nat \ {0} /\ r = p % w /\ q = p \div w
  OBVIOUS
<1> HIDE DEF w, q
<1>1. q \in Int /\ r \in 0 .. w - 1 /\ p = q * w + r
  <2>1. Composed(p, w, q, r)
    BY <1>2, DivMod
  <2> QED
    BY <2>1 DEF Composed
<1>3. 2 * r - w * b \in 0 .. w - 1
  <2>1. CASE b = 0
    BY <1>1, <1>2, <2>1
  <2>2. CASE b = 1
    BY <1>1, <1>2, <2>2
  <2> QED
    BY <2>1, <2>2
<1>4. 2 * p = (2 * q + b) * w + (2 * r - w * b)
  BY <1>1, <1>2
<1>5. QuotientIs(2 * p, w, 2 * q + b, 2 * r - w * b)
  <2> DEFINE k == 2 * q + b
             m == 2 * r - w * b
  <2>1. k \in Int /\ m \in 0 .. w - 1 /\ 2 * p = k * w + m
    BY <1>1, <1>3, <1>4
  <2> HIDE DEF k, m
  <2>2. QuotientIs(2 * p, w, k, m)
    BY <1>2, <2>1, Divided
  <2> QED
    BY <2>2 DEF k, m
<1> QED
  BY <1>5 DEF w, q, QuotientIs

(* A quotient, and half of it. *)
Halved(a, w) ==
  /\ a \div (2 * w) = (a \div w) \div 2
  /\ (2 * a) \div (2 * w) = a \div w

LEMMA HalvedQuotient ==
  ASSUME NEW a \in Int, NEW w \in Nat \ {0}
  PROVE  Halved(a, w)
<1> DEFINE q == a \div w
           m == a % w
           p == q \div 2
           c == q % 2
<1>1. q \in Int /\ m \in 0 .. w - 1 /\ a = q * w + m
  BY DivMod DEF Composed
<1> HIDE DEF q, m
<1>2. p \in Int /\ c \in 0 .. 1 /\ q = p * 2 + c
  BY <1>1, DivMod DEF Composed
<1> HIDE DEF p, c
<1> DEFINE v == 2 * w
<1>3. v \in Nat \ {0} /\ c * w + m \in 0 .. v - 1 /\ 2 * m \in 0 .. v - 1
  BY <1>1, <1>2
<1>4. a = p * v + (c * w + m) /\ 2 * a = q * v + 2 * m
  BY <1>1, <1>2
<1> HIDE DEF v
<1>5. QuotientIs(a, v, p, c * w + m) /\ QuotientIs(2 * a, v, q, 2 * m)
  BY <1>1, <1>2, <1>3, <1>4, Divided
<1> QED
  BY <1>5 DEF v, p, q, QuotientIs, Halved

(* Multiples of a number. *)
Multiple(a, m) == a % m = 0

Differ(b, a, k, m) == b = a + k * m \/ b = 2 * a + k * m

LEMMA Multiples ==
  ASSUME NEW m \in Nat \ {0}, NEW a \in Int, NEW k \in Int, Multiple(a, m),
         NEW b, Differ(b, a, k, m)
  PROVE  Multiple(b, m)
<1> DEFINE q == a \div m
<1>1. q \in Int /\ a = q * m
  <2>1. Composed(a, m, q, a % m)
    BY DivMod
  <2> QED
    BY <2>1 DEF Composed, Multiple
<1> HIDE DEF q
<1>2. (q + k) * m = q * m + k * m /\ (2 * q + k) * m = 2 * (q * m) + k * m
  BY <1>1
<1>3. PICK p \in Int : b = p * m + 0
  <2>1. CASE b = a + k * m
    <3>1. b = (q + k) * m + 0 /\ q + k \in Int
      BY <1>1, <1>2, <2>1
    <3> QED
      BY <3>1
  <2>2. CASE b = 2 * a + k * m
    <3>1. b = (2 * q + k) * m + 0 /\ 2 * q + k \in Int
      BY <1>1, <1>2, <2>2
    <3> QED
      BY <3>1
  <2> QED
    BY <2>1, <2>2 DEF Differ
<1>4. QuotientIs(b, m, p, 0)
  BY <1>3, Divided
<1> QED
  BY <1>4 DEF QuotientIs, Multiple

(***************************************************************************)
(* Types, and what a step changes.                                         *)
(***************************************************************************)

ShiftTypeOK ==
  /\ instruction \in ShiftInstructions /\ left \in BOOLEAN
  /\ destination \in Values /\ result \in Values
  /\ codes \in Codes /\ before \in Codes
  /\ weight \in Nat \ {0} /\ i \in Nat /\ done \in BOOLEAN

LEMMA Sizes ==
  /\ SignBit \in Nat \ {0} /\ Modulus = 2 * SignBit /\ Modulus \in Nat \ {0}
  /\ Values = 0 .. Modulus - 1
BY SignBitAssumption DEF Modulus, Values

LEMMA Kinds ==
  /\ ShiftInstructions = ASD \cup LSD \cup ROD \cup ROXD
  /\ ASD \cap LSD = {} /\ ASD \cap ROD = {} /\ ASD \cap ROXD = {}
  /\ LSD \cap ROD = {} /\ LSD \cap ROXD = {} /\ ROD \cap ROXD = {}
BY DEF ShiftInstructions, Registers, Memory, ASD, LSD, ROD, ROXD

(* The bit that leaves at the left, at the right, and X. *)
Upper == Bit(Negative(result))
Lower == result % 2
XBit  == Bit(codes.X)

LEMMA SingleBits ==
  ASSUME ShiftTypeOK
  PROVE  /\ Upper \in 0 .. 1 /\ Lower \in 0 .. 1 /\ XBit \in 0 .. 1
         /\ Upper = IF result >= SignBit THEN 1 ELSE 0
         /\ Negative(result) <=> Upper = 1
         /\ codes.X \in BOOLEAN
         /\ codes.X <=> XBit = 1
         /\ result \div 2 \in 0 .. SignBit - 1 /\ result = 2 * (result \div 2) + Lower
  BY Sizes DEF ShiftTypeOK, Upper, Lower, XBit, Bit, Negative, Codes

CodesWith(c, a, x, v) == [c EXCEPT !.C = a, !.X = x, !.V = v]

HasCodes(n, a, x, v) == n \in Codes /\ n.C = a /\ n.X = x /\ n.V = v

LEMMA CodesChanged ==
  ASSUME NEW c, NEW a, NEW x, NEW v, c \in Codes,
         a \in BOOLEAN, x \in BOOLEAN, v \in BOOLEAN
  PROVE  HasCodes(CodesWith(c, a, x, v), a, x, v)
  BY DEF Codes, CodesWith, HasCodes

LEMMA CodesKeepV ==
  ASSUME NEW c \in Codes, NEW a, NEW x
  PROVE  [c EXCEPT !.C = a, !.X = x] = CodesWith(c, a, x, c.V)
  BY DEF Codes, CodesWith

LEMMA LeftStep ==
  ASSUME ShiftTypeOK, ShiftLeft
  PROVE  /\ left /\ left' = left /\ instruction' = instruction /\ destination' = destination
         /\ before' = before /\ done' = done
         /\ i' = i + 1 /\ weight' = 2 * weight
         /\ result' = 2 * result - Modulus * Upper
                        + (IF instruction \in ROD THEN Upper
                           ELSE IF instruction \in ROXD THEN XBit ELSE 0)
         /\ result' \in Values
         /\ codes' \in Codes
         /\ codes'.C = Negative(result)
         /\ codes'.X = IF instruction \in ROD THEN codes.X ELSE Negative(result)
         /\ codes'.V = OverflowAfter(instruction, destination, result', codes)
<1> DEFINE r == Wrapped(2 * result) + Entering(instruction, result, codes)
<1>1. /\ left /\ result' = r
      /\ codes' = CodesWith(codes, Negative(result),
                            ExtendAfter(instruction, Negative(result), codes),
                            OverflowAfter(instruction, destination, r, codes))
      /\ i' = i + 1 /\ weight' = 2 * weight
      /\ UNCHANGED <<instruction, left, destination, done, before>>
  BY DEF ShiftLeft, CodesWith
<1>2. Wrapped(2 * result) = 2 * result - Modulus * Upper
  BY Sizes, SingleBits DEF ShiftTypeOK, Wrapped
<1>3. Entering(instruction, result, codes) =
        (IF instruction \in ROD THEN Upper ELSE IF instruction \in ROXD THEN XBit ELSE 0)
  BY Kinds DEF Entering, Upper, XBit, Bit
<1> HIDE DEF r
<1>4. result' \in Values
  <2> DEFINE e == Entering(instruction, result, codes)
  <2>1. e \in 0 .. 1
    BY <1>3, SingleBits
  <2>2. result' = 2 * result - Modulus * Upper + e
    BY <1>1, <1>2 DEF r
  <2> HIDE DEF e
  <2>3. result \in 0 .. Modulus - 1
    BY Sizes DEF ShiftTypeOK
  <2> QED
    BY <2>1, <2>2, <2>3, Sizes, SingleBits
<1>5. codes \in Codes /\ codes.X \in BOOLEAN /\ codes.V \in BOOLEAN
  BY DEF ShiftTypeOK, Codes
<1>6. Negative(result) \in BOOLEAN
  BY DEF Negative
<1>7. /\ ExtendAfter(instruction, Negative(result), codes) \in BOOLEAN
      /\ OverflowAfter(instruction, destination, r, codes) \in BOOLEAN
  BY <1>5, <1>6, Zenon DEF ExtendAfter, OverflowAfter
<1>8. /\ codes' \in Codes /\ codes'.C = Negative(result)
      /\ codes'.X = ExtendAfter(instruction, Negative(result), codes)
      /\ codes'.V = OverflowAfter(instruction, destination, r, codes)
  <2> DEFINE a == Negative(result)
             x == ExtendAfter(instruction, Negative(result), codes)
             v == OverflowAfter(instruction, destination, r, codes)
  <2>1. codes' = CodesWith(codes, a, x, v)
    BY <1>1
  <2>2. a \in BOOLEAN /\ x \in BOOLEAN /\ v \in BOOLEAN
    BY <1>6, <1>7
  <2> HIDE DEF a, x, v
  <2>3. HasCodes(CodesWith(codes, a, x, v), a, x, v)
    BY <1>5, <2>2, CodesChanged
  <2> QED
    BY <2>1, <2>3 DEF a, x, v, HasCodes
<1> QED
  BY <1>1, <1>2, <1>3, <1>4, <1>8 DEF ExtendAfter, r

LEMMA RightStep ==
  ASSUME ShiftTypeOK, ShiftRight
  PROVE  /\ ~left /\ left' = left /\ instruction' = instruction /\ destination' = destination
         /\ before' = before /\ done' = done
         /\ i' = i + 1 /\ weight' = 2 * weight
         /\ result' = (result \div 2)
                        + SignBit * (IF instruction \in ASD THEN Bit(Negative(destination))
                                     ELSE IF instruction \in ROD THEN Lower
                                     ELSE IF instruction \in ROXD THEN XBit ELSE 0)
         /\ result' \in Values
         /\ codes' \in Codes
         /\ codes'.C = (Lower = 1)
         /\ codes'.X = IF instruction \in ROD THEN codes.X ELSE Lower = 1
         /\ codes'.V = codes.V
<1> DEFINE e == Bit(EnteringAbove(instruction, destination, result, codes))
<1>1. /\ ~left /\ result' = (result \div 2) + SignBit * e
      /\ codes' = [codes EXCEPT !.C = Lower = 1,
                                !.X = ExtendAfter(instruction, Lower = 1, codes)]
      /\ i' = i + 1 /\ weight' = 2 * weight
      /\ UNCHANGED <<instruction, left, destination, done, before>>
  BY DEF ShiftRight, Lower
<1>2. e = (IF instruction \in ASD THEN Bit(Negative(destination))
           ELSE IF instruction \in ROD THEN Lower
           ELSE IF instruction \in ROXD THEN XBit ELSE 0)
  BY Kinds, SingleBits DEF EnteringAbove, XBit, Lower, Bit
<1>3. e \in 0 .. 1
  BY DEF Bit
<1> HIDE DEF e
<1>4. result' \in Values
  BY <1>1, <1>3, Sizes, SingleBits
<1>5. codes \in Codes /\ codes.X \in BOOLEAN /\ codes.V \in BOOLEAN
  BY DEF ShiftTypeOK, Codes
<1>6. (Lower = 1) \in BOOLEAN
  OBVIOUS
<1>7. ExtendAfter(instruction, Lower = 1, codes) \in BOOLEAN
  BY <1>5, <1>6, Zenon DEF ExtendAfter
<1>8. /\ codes' \in Codes /\ codes'.C = (Lower = 1)
      /\ codes'.X = ExtendAfter(instruction, Lower = 1, codes)
      /\ codes'.V = codes.V
  <2> DEFINE a == Lower = 1
             x == ExtendAfter(instruction, Lower = 1, codes)
  <2>1. codes' = [codes EXCEPT !.C = a, !.X = x]
    BY <1>1
  <2>2. a \in BOOLEAN /\ x \in BOOLEAN
    BY <1>6, <1>7
  <2> HIDE DEF a, x
  <2>3. codes' = CodesWith(codes, a, x, codes.V)
    BY <1>5, <2>1, CodesKeepV
  <2>4. HasCodes(CodesWith(codes, a, x, codes.V), a, x, codes.V)
    BY <1>5, <2>2, CodesChanged
  <2> QED
    BY <2>3, <2>4 DEF a, x, HasCodes
<1> QED
  BY <1>1, <1>2, <1>4, <1>8 DEF ExtendAfter

(***************************************************************************)
(* To the left.                                                            *)
(***************************************************************************)

(* The product so far, and the next. *)
LEMMA NextProduct ==
  ASSUME ShiftTypeOK, result = (destination * weight) % Modulus
  PROVE  /\ (destination * (2 * weight)) % Modulus = 2 * result - Modulus * Upper
         /\ (destination * (2 * weight)) \div Modulus
              = 2 * ((destination * weight) \div Modulus) + Upper
         /\ (destination * weight) \div Modulus \in Int
<1> DEFINE p == destination * weight
<1>1. p \in Int /\ destination * (2 * weight) = 2 * p /\ result = p % Modulus
  BY Sizes DEF ShiftTypeOK
<1> HIDE DEF p
<1>2. /\ (2 * p) % (2 * SignBit) = 2 * result - 2 * SignBit * Upper
      /\ (2 * p) \div (2 * SignBit) = 2 * (p \div (2 * SignBit)) + Upper
  BY <1>1, Sizes, SingleBits, DoubledProduct
<1>3. p \div Modulus \in Int
  BY <1>1, Sizes
<1> QED
  BY <1>1, <1>2, <1>3, Sizes DEF p

LEMMA LeftScales ==
  ASSUME ShiftTypeOK, ShiftsScale, ShiftLeft
  PROVE  ShiftsScale'
<1>1. ASSUME instruction \in ASD \cup LSD PROVE result' = (destination * (2 * weight)) % Modulus
  <2>1. result = (destination * weight) % Modulus
    BY <1>1, LeftStep DEF ShiftsScale
  <2>2. result' = 2 * result - Modulus * Upper + 0
    BY <1>1, LeftStep, Kinds
  <2>3. 2 * result - Modulus * Upper \in Int
    BY Sizes, SingleBits
  <2> QED
    BY <2>1, <2>2, <2>3, NextProduct
<1> QED
  BY <1>1, LeftStep DEF ShiftsScale

LEMMA LeftLeaves ==
  ASSUME ShiftTypeOK, ShiftsScale, LastBitLeaves, ShiftLeft
  PROVE  LastBitLeaves'
<1>1. /\ i' # 0 /\ left' = left /\ left /\ instruction' = instruction /\ before' = before
      /\ destination' = destination /\ weight' = 2 * weight
      /\ codes'.C = Negative(result)
      /\ codes'.X = IF instruction \in ROD THEN codes.X ELSE Negative(result)
  BY LeftStep DEF ShiftTypeOK
<1>2. ASSUME instruction \in ROD PROVE Negative(result) <=> result' % 2 = 1
  <2>1. result' = 2 * result - Modulus * Upper + Upper
    BY <1>2, LeftStep
  <2>2. result' = 2 * (result - SignBit * Upper) + Upper /\ result - SignBit * Upper \in Int
    <3>1. Modulus * Upper = 2 * (SignBit * Upper) /\ SignBit * Upper \in Int /\ result \in Int
      BY Sizes, SingleBits DEF ShiftTypeOK
    <3> QED
      BY <2>1, <3>1, SingleBits
  <2> QED
    BY <2>2, SingleBits
<1>3. ASSUME instruction \in ASD \cup LSD
      PROVE  Negative(result) <=> ((destination * (2 * weight)) \div Modulus) % 2 = 1
  <2>1. result = (destination * weight) % Modulus
    BY <1>1, <1>3 DEF ShiftsScale
  <2>2. (2 * ((destination * weight) \div Modulus) + Upper) % 2 = Upper
    BY <2>1, NextProduct, SingleBits
  <2>3. (destination * (2 * weight)) \div Modulus
          = 2 * ((destination * weight) \div Modulus) + Upper
    BY <2>1, NextProduct
  <2> QED
    BY <2>2, <2>3, SingleBits
<1>4. instruction \in ROD => (codes.X <=> before.X)
  BY DEF LastBitLeaves
<1>5. codes'.C <=> Negative(result)
  BY <1>1
<1>6. /\ instruction \in ASD \cup LSD => (codes'.X <=> codes'.C)
      /\ instruction \in ROD => (codes'.X <=> before.X)
  BY <1>1, <1>4, Kinds
<1>7. instruction \in ROXD => (codes'.X <=> Negative(result))
  BY <1>1, Kinds
<1> QED
  BY <1>1, <1>2, <1>3, <1>5, <1>6, <1>7 DEF LastBitLeaves

(* As long as the signed product fits, the result is the product.          *)
SignedKept ==
  instruction \in ASD /\ left /\ Representable(Signed(destination) * weight) =>
    Signed(result) = Signed(destination) * weight

LEMMA SignedValues ==
  ASSUME NEW v \in Values
  PROVE  /\ Signed(v) \in -SignBit .. SignBit - 1
         /\ Negative(v) <=> Signed(v) < 0
         /\ Signed(v) = v - Modulus * Bit(Negative(v))
  BY Sizes DEF Signed, Negative, Bit

(* A number that is doubled in the size of the operands.                   *)
LEMMA DoubledFits ==
  ASSUME NEW r \in Values, NEW q \in Values, q = 2 * r - Modulus * Bit(Negative(r))
  PROVE  /\ Representable(2 * Signed(r)) <=> (Negative(q) <=> Negative(r))
         /\ Representable(2 * Signed(r)) => Signed(q) = 2 * Signed(r)
  BY Sizes DEF Signed, Negative, Bit, Representable

LEMMA DoubledLarger ==
  ASSUME NEW v \in Int, Representable(2 * v)
  PROVE  Representable(v)
  BY Sizes DEF Representable

LEMMA LeftOverflows ==
  ASSUME ShiftTypeOK, SignedKept, OverflowRemembered, ShiftLeft
  PROVE  SignedKept' /\ OverflowRemembered'
<1> DEFINE v == Signed(destination) * weight
           r == result'
<1>1. /\ left' = left /\ left /\ instruction' = instruction
      /\ destination' = destination /\ weight' = 2 * weight
      /\ codes'.V = OverflowAfter(instruction, destination, r, codes)
      /\ r \in Values
  BY LeftStep
<1>2. /\ v \in Int /\ Signed(destination) * (2 * weight) = 2 * v
      /\ v < 0 <=> Negative(destination)
  <2>1. Signed(destination) \in Int /\ weight \in Nat \ {0}
    BY SignedValues, Sizes DEF ShiftTypeOK
  <2> QED
    BY <2>1, SignedValues DEF ShiftTypeOK
<1> HIDE DEF v, r
<1>3. ASSUME instruction \in ASD
      PROVE  /\ Representable(2 * v) => Signed(r) = 2 * v
             /\ codes.V \/ ~(Negative(r) <=> Negative(destination)) <=> ~Representable(2 * v)
  <2>1. codes.V <=> ~Representable(v)
    BY <1>1, <1>3 DEF OverflowRemembered, ShiftTypeOK, v
  <2>2. Representable(v) => Signed(result) = v
    BY <1>1, <1>3 DEF SignedKept, v
  <2>3. r = 2 * result - Modulus * Bit(Negative(result))
    <3>1. r = 2 * result - Modulus * Upper + 0
      BY <1>3, LeftStep, Kinds DEF r
    <3> QED
      BY <3>1, Sizes, SingleBits DEF Upper
  <2>4. /\ Representable(2 * Signed(result)) <=> (Negative(r) <=> Negative(result))
        /\ Representable(2 * Signed(result)) => Signed(r) = 2 * Signed(result)
    BY <1>1, <2>3, DoubledFits DEF ShiftTypeOK
  <2>5. Representable(2 * v) => Representable(v)
    BY <1>2, DoubledLarger
  <2>6. Negative(result) <=> Signed(result) < 0
    BY SignedValues DEF ShiftTypeOK
  <2>7. CASE Representable(v)
    <3>1. Signed(result) = v /\ ~codes.V
      BY <2>1, <2>2, <2>7
    <3>2. Negative(result) <=> Negative(destination)
      BY <1>2, <2>6, <3>1
    <3>3. Representable(2 * v) <=> (Negative(r) <=> Negative(result))
      BY <2>4, <3>1
    <3>4. Representable(2 * v) => Signed(r) = 2 * v
      BY <2>4, <3>1
    <3> QED
      BY <3>1, <3>2, <3>3, <3>4
  <2>8. CASE ~Representable(v)
    BY <2>1, <2>5, <2>8
  <2> QED
    BY <2>7, <2>8
<1>4. SignedKept'
  <2>1. Signed(destination') * weight' = 2 * v
    BY <1>1, <1>2
  <2>2. instruction \in ASD /\ Representable(2 * v) => Signed(result') = 2 * v
    BY <1>3 DEF r
  <2> DEFINE k == Signed(destination') * weight'
  <2>3. k = 2 * v /\ instruction' = instruction
    BY <1>1, <2>1
  <2> HIDE DEF v, k
  <2>4. instruction' \in ASD /\ Representable(k) => Signed(result') = k
    BY <2>2, <2>3
  <2> QED
    BY <2>4 DEF SignedKept, k
<1>5. OverflowRemembered'
  <2>1. codes'.V <=> codes.V \/ (instruction \in ASD /\ ~(Negative(r) <=> Negative(destination)))
    <3>1. (Negative(r) # Negative(destination)) <=> ~(Negative(r) <=> Negative(destination))
      <4>1. Negative(r) \in BOOLEAN /\ Negative(destination) \in BOOLEAN
        BY DEF Negative
      <4>2. \A p, q \in BOOLEAN : (p # q) <=> ~(p <=> q)
        OBVIOUS
      <4> QED
        BY <4>1, <4>2
    <3>2. OverflowAfter(instruction, destination, r, codes)
            <=> codes.V \/ (instruction \in ASD /\ Negative(r) # Negative(destination))
      BY Zenon DEF OverflowAfter
    <3>3. codes'.V <=> OverflowAfter(instruction, destination, r, codes)
      BY <1>1, Zenon
    <3> QED
      BY <3>1, <3>2, <3>3, Zenon
  <2>2. instruction \notin ASD => ~codes.V
    BY DEF OverflowRemembered, ShiftTypeOK
  <2>3. codes'.V <=> instruction \in ASD /\ ~Representable(2 * v)
    BY <1>3, <2>1, <2>2
  <2> QED
    BY <1>1, <1>2, <2>3 DEF OverflowRemembered
<1> QED
  BY <1>4, <1>5

LEMMA LeftTurns ==
  ASSUME ShiftTypeOK, RotationsTurn, ShiftLeft
  PROVE  RotationsTurn'
<1> DEFINE n == Modulus - 1
           m == 2 * Modulus - 1
           from == destination + Bit(before.X) * Modulus
           to == result + XBit * Modulus
           next == result' + Bit(codes'.X) * Modulus
<1>1. /\ left' = left /\ left /\ instruction' = instruction /\ before' = before
      /\ destination' = destination /\ weight' = 2 * weight
  BY LeftStep
<1>2. /\ destination \in Nat /\ result \in Nat /\ weight \in Nat \ {0}
      /\ n \in Nat \ {0} /\ m \in Nat \ {0} /\ from \in Nat /\ to \in Nat
  BY Sizes DEF ShiftTypeOK, Bit, XBit
<1>3. ASSUME instruction \in ROD PROVE Turned(destination, result, n)'
  <2>1. result' = 2 * result - n * Upper
    BY <1>3, LeftStep, Sizes, SingleBits
  <2>2. result' = 0 <=> result = 0
    BY <2>1, <1>2, Sizes, SingleBits
  <2> DEFINE a == destination * weight - result
             b == destination * (2 * weight) - result'
  <2>3. /\ destination = 0 <=> result = 0
        /\ Multiple(a, n)
    BY <1>1, <1>3 DEF RotationsTurn, Turned, Multiple
  <2> HIDE DEF n
  <2>4. a \in Int /\ Differ(b, a, Upper, n)
    BY <1>2, <2>1, SingleBits DEF Differ
  <2> HIDE DEF a, b
  <2>5. Multiple(b, n)
    BY <1>2, <2>3, <2>4, SingleBits, Multiples
  <2> QED
    BY <1>1, <2>2, <2>3, <2>5 DEF Turned, Multiple, n, b
<1>4. ASSUME instruction \in ROXD
      PROVE  Turned(destination + Bit(before.X) * Modulus, result + Bit(codes.X) * Modulus, m)'
  <2>1. next = 2 * to - XBit * m
    <3>1. result' = 2 * result - Modulus * Upper + XBit
      BY <1>4, LeftStep, Kinds
    <3>2. Bit(codes'.X) = Upper
      <4>1. codes'.X = Negative(result)
        BY <1>4, LeftStep, Kinds
      <4> QED
        BY <4>1 DEF Upper
    <3>3. next = 2 * result + XBit
      BY <3>1, <3>2, <1>2, Sizes, SingleBits
    <3>4. XBit * m = 2 * (XBit * Modulus) - XBit /\ XBit * Modulus \in Int
      BY Sizes, SingleBits
    <3> QED
      BY <3>3, <3>4, <1>2, SingleBits
  <2>2. next = 0 <=> to = 0
    BY <2>1, <1>2, Sizes, SingleBits
  <2> DEFINE a == from * weight - to
             b == from * (2 * weight) - next
  <2>3. /\ from = 0 <=> to = 0
        /\ Multiple(a, m)
    BY <1>1, <1>4 DEF RotationsTurn, Turned, XBit, Multiple
  <2> HIDE DEF from, to, m, next
  <2>4. a \in Int /\ Differ(b, a, XBit, m)
    BY <1>2, <2>1, SingleBits DEF Differ
  <2> HIDE DEF a, b
  <2>5. Multiple(b, m)
    BY <1>2, <2>3, <2>4, SingleBits, Multiples
  <2> QED
    BY <1>1, <2>2, <2>3, <2>5 DEF Turned, Multiple, from, next, m, b
<1> QED
  BY <1>1, <1>3, <1>4 DEF RotationsTurn

(***************************************************************************)
(* To the right.                                                           *)
(***************************************************************************)

LEMMA NextQuotients ==
  ASSUME ShiftTypeOK
  PROVE  Halved(destination, weight) /\ Halved(Signed(destination), weight)
<1>1. destination \in Int /\ Signed(destination) \in Int /\ weight \in Nat \ {0}
  BY Sizes, SignedValues DEF ShiftTypeOK
<1> DEFINE d == destination
           s == Signed(destination)
<1> HIDE DEF d, s
<1>2. d \in Int /\ s \in Int
  BY <1>1 DEF d, s
<1>3. Halved(d, weight) /\ Halved(s, weight)
  BY <1>1, <1>2, HalvedQuotient
<1> QED
  BY <1>3 DEF d, s

(* The sign goes in again, and the signed number is halved.                *)
LEMMA SignedParity ==
  ASSUME NEW v \in Values
  PROVE  Signed(v) % 2 = v % 2
<1> DEFINE b == Bit(Negative(v))
<1>1. Signed(v) = v - Modulus * b /\ b \in {0, 1}
  BY SignedValues DEF Bit
<1>2. CASE b = 0
  BY <1>1, <1>2, Sizes
<1>3. CASE b = 1
  BY <1>1, <1>3, Sizes
<1> QED
  BY <1>1, <1>2, <1>3

LEMMA RightKeepsSign ==
  ASSUME ShiftTypeOK, ShiftRight, instruction \in ASD,
         Signed(result) = Signed(destination) \div weight
  PROVE  Signed(result') = Signed(result) \div 2
<1> DEFINE s == Signed(destination)
<1>1. s \in Int /\ weight \in Nat \ {0} /\ (s < 0 <=> Negative(destination))
  BY SignedValues, Sizes DEF ShiftTypeOK
<1>2. Signed(result) = s \div weight
  OBVIOUS
<1> HIDE DEF s
<1>3. s < 0 <=> s \div weight < 0
  <2> DEFINE q == s \div weight
             m == s % weight
  <2>1. q \in Int /\ m \in 0 .. weight - 1 /\ s = q * weight + m
    BY <1>1, DivMod DEF Composed
  <2> HIDE DEF q, m
  <2>2. CASE q < 0
    <3>1. (q + 1) * weight <= 0 /\ (q + 1) * weight = q * weight + weight
      BY <1>1, <2>1, <2>2
    <3> QED
      BY <1>1, <2>1, <2>2, <3>1 DEF q
  <2>3. CASE q >= 0
    <3>1. q * weight >= 0
      BY <1>1, <2>1, <2>3
    <3> QED
      BY <1>1, <2>1, <2>3, <3>1 DEF q
  <2> QED
    BY <2>1, <2>2, <2>3
<1>4. Negative(destination) <=> Negative(result)
  BY <1>1, <1>2, <1>3, SignedValues DEF ShiftTypeOK
<1>5. result' = (result \div 2) + SignBit * Bit(Negative(destination))
  BY RightStep
<1>6. CASE Negative(result)
  <2>1. result' = (result \div 2) + SignBit
    BY <1>4, <1>5, <1>6, Sizes, SingleBits DEF Bit
  <2>2. result >= SignBit /\ result \in Int /\ result' >= SignBit
    BY <1>6, <2>1, Sizes, SingleBits DEF Negative, ShiftTypeOK
  <2> QED
    BY <2>1, <2>2, Sizes, SingleBits DEF Signed, Negative
<1>7. CASE ~Negative(result)
  <2>1. result' = result \div 2
    BY <1>4, <1>5, <1>7, Sizes, SingleBits DEF Bit
  <2> QED
    BY <1>7, <2>1, Sizes, SingleBits DEF Signed, Negative
<1> QED
  BY <1>6, <1>7

LEMMA RightScales ==
  ASSUME ShiftTypeOK, ShiftsScale, ShiftRight
  PROVE  ShiftsScale'
<1>1. /\ ~left' /\ ~left /\ instruction' = instruction
      /\ destination' = destination /\ weight' = 2 * weight
  BY RightStep
<1>2. ASSUME instruction \in LSD PROVE result' = destination \div (2 * weight)
  <2>1. result = destination \div weight
    BY <1>1, <1>2 DEF ShiftsScale
  <2>2. result' = (result \div 2) + SignBit * 0
    BY <1>2, RightStep, Kinds
  <2>3. destination \div (2 * weight) = (destination \div weight) \div 2
    BY NextQuotients DEF Halved
  <2> QED
    BY <2>1, <2>2, <2>3, Sizes, SingleBits
<1>3. ASSUME instruction \in ASD PROVE Signed(result') = Signed(destination) \div (2 * weight)
  <2>1. Signed(result) = Signed(destination) \div weight
    BY <1>1, <1>3 DEF ShiftsScale
  <2>2. Signed(destination) \div (2 * weight) = (Signed(destination) \div weight) \div 2
    BY NextQuotients DEF Halved
  <2>3. Signed(result') = Signed(result) \div 2
    BY <1>3, <2>1, RightKeepsSign
  <2> QED
    BY <2>1, <2>2, <2>3
<1> QED
  BY <1>1, <1>2, <1>3 DEF ShiftsScale

LEMMA RightLeaves ==
  ASSUME ShiftTypeOK, ShiftsScale, LastBitLeaves, ShiftRight
  PROVE  LastBitLeaves'
<1>1. /\ i' # 0 /\ ~left' /\ ~left /\ instruction' = instruction /\ before' = before
      /\ destination' = destination /\ weight' = 2 * weight
      /\ codes'.C = (Lower = 1)
      /\ codes'.X = IF instruction \in ROD THEN codes.X ELSE Lower = 1
  BY RightStep DEF ShiftTypeOK
<1>2. ASSUME instruction \in ROD PROVE Lower = 1 <=> Negative(result')
  <2>1. result' = (result \div 2) + SignBit * Lower
    BY <1>2, RightStep, Kinds
  <2>2. Lower = 0 \/ Lower = 1
    BY SingleBits
  <2> QED
    BY <2>1, <2>2, Sizes, SingleBits DEF Negative
<1>3. ASSUME instruction \in LSD
      PROVE  Lower = 1 <=> ((2 * destination) \div (2 * weight)) % 2 = 1
  <2>1. result = destination \div weight
    BY <1>1, <1>3 DEF ShiftsScale
  <2>2. (2 * destination) \div (2 * weight) = destination \div weight
    BY NextQuotients DEF Halved
  <2> QED
    BY <2>1, <2>2 DEF Lower
<1>4. ASSUME instruction \in ASD
      PROVE  Lower = 1 <=> ((2 * Signed(destination)) \div (2 * weight)) % 2 = 1
  <2>1. Signed(result) = Signed(destination) \div weight
    BY <1>1, <1>4 DEF ShiftsScale
  <2>2. (2 * Signed(destination)) \div (2 * weight) = Signed(destination) \div weight
    BY NextQuotients DEF Halved
  <2>3. Signed(result) % 2 = result % 2
    BY SignedParity DEF ShiftTypeOK
  <2> QED
    BY <2>1, <2>2, <2>3 DEF Lower
<1>5. instruction \in ROD => (codes.X <=> before.X)
  BY DEF LastBitLeaves
<1>6. codes'.C <=> Lower = 1
  BY <1>1
<1>7. /\ instruction \in ASD \cup LSD => (codes'.X <=> codes'.C)
      /\ instruction \in ROD => (codes'.X <=> before.X)
  BY <1>1, <1>5, Kinds
<1>8. instruction \in ROXD => (codes'.X <=> Lower = 1)
  BY <1>1, Kinds
<1> QED
  BY <1>1, <1>2, <1>3, <1>4, <1>6, <1>7, <1>8 DEF LastBitLeaves

(* A rotation by one bit turns twice the new value into the old one.       *)
LEMMA TurnedBack ==
  ASSUME NEW m \in Nat \ {0}, NEW to \in Nat, NEW next \in Nat, NEW from \in Nat,
         NEW w \in Nat \ {0}, NEW b \in 0 .. 1, 2 * next = to + m * b,
         Multiple(to * w - from, m)
  PROVE  Multiple(next * (2 * w) - from, m)
<1> DEFINE k == w * b
           old == to * w - from
           new == next * (2 * w) - from
<1>1. k \in Int /\ old \in Int
  <2>1. to * w \in Int /\ w * b \in Int
    OBVIOUS
  <2> QED
    BY <2>1
<1>2. next * (2 * w) = (2 * next) * w
  OBVIOUS
<1>3. (to + m * b) * w = to * w + k * m
  <2>1. CASE b = 0
    BY <2>1
  <2>2. CASE b = 1
    BY <2>2
  <2> QED
    BY <2>1, <2>2
<1>4. new = old + k * m
  <2>1. to * w \in Int /\ k * m \in Int
    OBVIOUS
  <2> QED
    BY <1>2, <1>3, <2>1
<1> HIDE DEF k, old, new
<1>5. Multiple(old, m)
  BY DEF old
<1>6. Multiple(new, m)
  BY <1>1, <1>4, <1>5, Multiples DEF Differ
<1> QED
  BY <1>6 DEF new

LEMMA RightTurns ==
  ASSUME ShiftTypeOK, RotationsTurn, ShiftRight
  PROVE  RotationsTurn'
<1> DEFINE n == Modulus - 1
           m == 2 * Modulus - 1
           from == destination + Bit(before.X) * Modulus
           to == result + XBit * Modulus
           e == Bit(codes'.X)
           next == result' + e * Modulus
<1>1. /\ ~left' /\ ~left /\ instruction' = instruction /\ before' = before
      /\ destination' = destination /\ weight' = 2 * weight /\ result' \in Values
  BY RightStep
<1>2. /\ destination \in Nat /\ result \in Nat /\ result' \in Nat /\ weight \in Nat \ {0}
      /\ n \in Nat \ {0} /\ m \in Nat \ {0} /\ from \in Nat /\ to \in Nat /\ next \in Nat
  <2>1. e \in {0, 1} /\ Bit(before.X) \in {0, 1} /\ XBit \in {0, 1}
    BY DEF Bit, XBit
  <2> DEFINE x == Bit(before.X)
  <2> HIDE DEF e, x
  <2>2. x \in {0, 1}
    BY <2>1 DEF x
  <2>3. e * Modulus \in Nat /\ x * Modulus \in Nat /\ XBit * Modulus \in Nat
    BY <2>1, <2>2, Sizes
  <2>4. from = destination + x * Modulus
    BY DEF x
  <2> QED
    BY <1>1, <2>3, <2>4, Sizes DEF ShiftTypeOK
<1>3. ASSUME instruction \in ROD PROVE Turned(destination, result, n)'
  <2>1. 2 * result' = result + n * Lower
    <3>1. result' = (result \div 2) + SignBit * Lower
      BY <1>3, RightStep, Kinds
    <3> QED
      BY <3>1, Sizes, SingleBits
  <2>2. result' = 0 <=> result = 0
    BY <2>1, <1>2, SingleBits
  <2>3. /\ destination = 0 <=> result = 0
        /\ Multiple(result * weight - destination, n)
    BY <1>1, <1>3 DEF RotationsTurn, Turned, Multiple
  <2> HIDE DEF n
  <2>4. Multiple(result' * (2 * weight) - destination, n)
    BY <1>2, <2>1, <2>3, SingleBits, TurnedBack
  <2> QED
    BY <1>1, <2>2, <2>3, <2>4 DEF Turned, Multiple, n
<1>4. ASSUME instruction \in ROXD
      PROVE  Turned(destination + Bit(before.X) * Modulus, result + Bit(codes.X) * Modulus, m)'
  <2>1. 2 * next = to + m * Lower
    <3>1. result' = (result \div 2) + SignBit * XBit
      BY <1>4, RightStep, Kinds
    <3>2. e = Lower
      <4>1. codes'.X <=> Lower = 1
        BY <1>4, RightStep, Kinds
      <4>2. CASE Lower = 1
        BY <4>1, <4>2 DEF Bit
      <4>3. CASE Lower # 1
        BY <4>1, <4>3, SingleBits DEF Bit
      <4> QED
        BY <4>2, <4>3
    <3> HIDE DEF e
    <3>3. next = result' + Lower * Modulus
      BY <3>2
    <3>4. /\ m * Lower = 2 * (Lower * Modulus) - Lower /\ Lower * Modulus \in Int
          /\ XBit * Modulus = 2 * (SignBit * XBit) /\ SignBit * XBit \in Int
      <4>1. m * Lower = 2 * (Lower * Modulus) - Lower /\ Lower * Modulus \in Int
        <5>1. CASE Lower = 0
          BY <5>1, Sizes
        <5>2. CASE Lower = 1
          BY <5>2, Sizes
        <5> QED
          BY <5>1, <5>2, SingleBits
      <4>2. XBit * Modulus = 2 * (SignBit * XBit) /\ SignBit * XBit \in Int
        <5>1. CASE XBit = 0
          BY <5>1, Sizes
        <5>2. CASE XBit = 1
          BY <5>2, Sizes
        <5> QED
          BY <5>1, <5>2, SingleBits
      <4> QED
        BY <4>1, <4>2
    <3> HIDE DEF m, next
    <3>5. 2 * next = (result - Lower) + 2 * (SignBit * XBit) + 2 * (Lower * Modulus)
      BY <3>1, <3>3, <3>4, SingleBits
    <3> QED
      BY <3>4, <3>5, <1>2, SingleBits
  <2>2. next = 0 <=> to = 0
    <3>1. to = 0 => Lower = 0
      <4>1. XBit * Modulus >= 0 /\ XBit * Modulus \in Int
        BY Sizes, SingleBits
      <4>2. to = 0 => result = 0
        BY <4>1, <1>2
      <4> QED
        BY <4>2 DEF Lower
    <3> HIDE DEF to, next, m
    <3>2. Lower = 0 \/ Lower = 1
      BY SingleBits
    <3> QED
      BY <2>1, <1>2, <3>1, <3>2
  <2>3. /\ from = 0 <=> to = 0
        /\ Multiple(to * weight - from, m)
    BY <1>1, <1>4 DEF RotationsTurn, Turned, XBit, Multiple
  <2> HIDE DEF from, to, m, next
  <2>4. Multiple(next * (2 * weight) - from, m)
    BY <1>2, <2>1, <2>3, SingleBits, TurnedBack
  <2> QED
    BY <1>1, <2>2, <2>3, <2>4 DEF Turned, Multiple, from, next, e, m
<1> QED
  BY <1>1, <1>3, <1>4 DEF RotationsTurn

(***************************************************************************)
(* The modifiers, the beginning, and the theorems.                         *)
(***************************************************************************)

(* No modifier touches C, V or X after a shift. *)
LEMMA ShiftModifiers ==
  ASSUME NEW n \in ShiftInstructions
  PROVE  /\ GetCarryModifier(n) = "unaffected"
         /\ GetOverflowModifier(n) = "unaffected"
         /\ GetZeroModifier(n) = "set_if_zero_clear_otherwise"
         /\ GetNegativeModifier(n) = "set_if_negative_clear_otherwise"
         /\ GetExtendModifier(n) = "unaffected"
  BY SMTT(60)
  DEF ShiftInstructions, Registers, Memory, GetCarryModifier, GetOverflowModifier,
      GetZeroModifier, GetNegativeModifier, GetExtendModifier

Modified(u, c, d, r) ==
  /\ u \in Codes
  /\ u.C = c.C /\ u.V = c.V /\ u.X = c.X

LEMMA ShiftUpdated ==
  ASSUME NEW n \in ShiftInstructions, NEW d, NEW r, NEW c \in Codes
  PROVE  Modified(Updated(n, 0, d, r, c), c, d, r)
<1>1. Carry(n, 0, d, r, c) = c.C
  BY ShiftModifiers DEF Carry
<1>2. Overflow(n, 0, d, r, c) = c.V
  BY ShiftModifiers DEF Overflow
<1>3. Zero(n, 0, c) \in BOOLEAN /\ Zero(n, r, c) = (r = 0)
  BY ShiftModifiers DEF Zero
<1>4. Negative(r) \in BOOLEAN
  BY DEF Negative
<1> DEFINE z == Zero(n, r, c)
           m == Negative(r)
<1>5. z \in BOOLEAN
  BY <1>3
<1>6. Updated(n, 0, d, r, c) = [C |-> c.C, V |-> c.V, Z |-> z, N |-> m, X |-> c.X]
  BY <1>1, <1>2, ShiftModifiers DEF Updated
<1>7. m \in BOOLEAN
  BY <1>4
<1> HIDE DEF z, m
<1> QED
  BY <1>5, <1>6, <1>7 DEF Modified, Codes

(* The modifiers keep what the loop has left in C, V and X.                *)
LEMMA ModifiersKeep ==
  ASSUME ShiftTypeOK, Modify
  PROVE  /\ UNCHANGED <<instruction, left, destination, i, result, weight, before>>
         /\ codes' \in Codes /\ done' \in BOOLEAN
         /\ codes'.C = codes.C /\ codes'.V = codes.V /\ codes'.X = codes.X
<1>1. /\ codes' = Updated(instruction, 0, destination, result, codes) /\ done' = TRUE
      /\ UNCHANGED <<instruction, left, destination, i, result, weight, before>>
  BY DEF Modify
<1>2. Modified(codes', codes, destination, result)
  BY <1>1, ShiftUpdated DEF ShiftTypeOK
<1> QED
  BY <1>1, <1>2 DEF Modified

LEMMA ShiftInitially ==
  ShiftInit => ShiftTypeOK /\ SignedKept /\ ShiftsScale /\ RotationsTurn /\ LastBitLeaves
            /\ OverflowRemembered
<1> SUFFICES ASSUME ShiftInit
             PROVE  ShiftTypeOK /\ SignedKept /\ ShiftsScale /\ RotationsTurn
                      /\ LastBitLeaves /\ OverflowRemembered
  OBVIOUS
<1>1. /\ instruction \in ShiftInstructions /\ left \in BOOLEAN /\ destination \in Values
      /\ i = 0 /\ result = destination /\ weight = 1 /\ done = FALSE
      /\ before \in Codes
      /\ codes = [before EXCEPT !.V = FALSE, !.C = CarryBefore(instruction, before)]
  BY DEF ShiftInit
<1>2. before.X \in BOOLEAN
  BY <1>1 DEF Codes
<1>3. /\ codes \in Codes /\ ~codes.V
      /\ codes.X <=> before.X
      /\ codes.C <=> CarryBefore(instruction, before)
  <2> DEFINE a == CarryBefore(instruction, before)
  <2>1. a \in BOOLEAN
    BY <1>2 DEF CarryBefore
  <2>2. codes = [before EXCEPT !.V = FALSE, !.C = a]
    BY <1>1
  <2> HIDE DEF a
  <2>3. /\ codes \in Codes /\ codes.C = a /\ codes.V = FALSE /\ codes.X = before.X
    BY <1>1, <2>1, <2>2 DEF Codes
  <2> QED
    BY <1>2, <2>3 DEF a
<1>4. codes.C <=> instruction \in ROXD /\ before.X
  BY <1>2, <1>3 DEF CarryBefore
<1>5. ShiftTypeOK
  <2>1. result \in Values /\ weight \in Nat \ {0} /\ i \in Nat /\ done \in BOOLEAN
    <3>1. done \in BOOLEAN
      BY <1>1, Zenon
    <3> QED
      BY <1>1, <3>1
  <2> QED
    BY <1>1, <1>3, <2>1 DEF ShiftTypeOK
<1>6. Signed(destination) \in -SignBit .. SignBit - 1 /\ destination \in 0 .. Modulus - 1
  BY <1>1, SignedValues, Sizes
<1>7. ShiftsScale
  BY <1>1, <1>6, Sizes DEF ShiftsScale
<1>8. SignedKept /\ OverflowRemembered
  BY <1>1, <1>3, <1>6, Sizes DEF SignedKept, OverflowRemembered, Representable
<1>9. LastBitLeaves
  BY <1>1, <1>3, <1>4, Kinds DEF LastBitLeaves
<1>10. RotationsTurn
  <2>1. Turned(destination, result, Modulus - 1)
    BY <1>1, <1>6, Sizes DEF Turned
  <2> DEFINE from == destination + Bit(before.X) * Modulus
             to == result + Bit(codes.X) * Modulus
  <2>2. from = to /\ from \in Int
    <3>1. Bit(before.X) = Bit(codes.X) /\ Bit(before.X) \in {0, 1}
      BY <1>3 DEF Bit
    <3> QED
      BY <1>1, <1>6, <3>1, Sizes
  <2> HIDE DEF from, to
  <2>3. Turned(from, to, 2 * Modulus - 1)
    BY <1>1, <2>2, Sizes DEF Turned
  <2> QED
    BY <2>1, <2>3 DEF RotationsTurn, from, to
<1> QED
  BY <1>5, <1>7, <1>8, <1>9, <1>10

(* The inductive invariant.  Each part but SignedKept is a property; that  *)
(* one says why V can be told from the signs alone: until the first        *)
(* overflow, the signed result is the signed product.                      *)
ShiftInv ==
  /\ ShiftTypeOK /\ SignedKept
  /\ ShiftsScale /\ RotationsTurn /\ LastBitLeaves /\ OverflowRemembered

LEMMA RightKeepsOverflow ==
  ASSUME ShiftTypeOK, OverflowRemembered, ShiftRight
  PROVE  SignedKept' /\ OverflowRemembered'
<1>1. ~left' /\ ~left /\ codes'.V = codes.V
  BY RightStep
<1> QED
  BY <1>1, RightStep DEF SignedKept, OverflowRemembered, ShiftTypeOK

LEMMA ModifyKeeps ==
  ASSUME ShiftInv, Modify
  PROVE  ShiftInv'
<1>1. ShiftTypeOK'
  BY ModifiersKeep DEF ShiftInv, ShiftTypeOK
<1>2. SignedKept' /\ ShiftsScale'
  BY ModifiersKeep DEF ShiftInv, SignedKept, ShiftsScale
<1>3. RotationsTurn'
  BY ModifiersKeep DEF ShiftInv, RotationsTurn, Turned
<1>4. LastBitLeaves' /\ OverflowRemembered'
  BY ModifiersKeep DEF ShiftInv, LastBitLeaves, OverflowRemembered
<1> QED
  BY <1>1, <1>2, <1>3, <1>4 DEF ShiftInv

LEMMA ShiftSteps ==
  ASSUME ShiftInv, [ShiftNext]_shiftVars
  PROVE  ShiftInv'
<1> USE DEF ShiftInv
<1>1. CASE ShiftLeft
  <2>1. ShiftTypeOK'
    BY <1>1, LeftStep DEF ShiftTypeOK
  <2> QED
    BY <1>1, <2>1, LeftScales, LeftLeaves, LeftOverflows, LeftTurns
<1>2. CASE ShiftRight
  <2>1. ShiftTypeOK'
    BY <1>2, RightStep DEF ShiftTypeOK
  <2> QED
    BY <1>2, <2>1, RightScales, RightLeaves, RightKeepsOverflow, RightTurns
<1>3. CASE Modify
  BY <1>3, ModifyKeeps
<1>4. CASE UNCHANGED shiftVars
  BY <1>4 DEF shiftVars, ShiftTypeOK, SignedKept, ShiftsScale, RotationsTurn, Turned,
              LastBitLeaves, OverflowRemembered
<1> QED
  BY <1>1, <1>2, <1>3, <1>4 DEF ShiftNext

(* The invariant holds throughout.                                         *)
LEMMA ShiftAlways == ShiftSpec => []ShiftInv
<1>1. ShiftInit => ShiftInv
  BY ShiftInitially DEF ShiftInv
<1>2. ShiftInv /\ [ShiftNext]_shiftVars => ShiftInv'
  BY ShiftSteps
<1> QED
  BY <1>1, <1>2, PTL DEF ShiftSpec

(* Arithmetic and logical shifts by any number of bits, also by more than  *)
(* the operand has, multiply and divide by a power of two, in operands of  *)
(* any size: DO_INSTRUCTION_ACTION_SHIFT.                                  *)
THEOREM ShiftsAreProducts == ShiftSpec => []ShiftsScale
<1>1. ShiftInv => ShiftsScale
  BY DEF ShiftInv
<1> QED
  BY <1>1, ShiftAlways, PTL

(* The rotations, ROXD's with X as one more bit of the operand, lose       *)
(* nothing: they multiply or divide modulo the number with all bits set.   *)
THEOREM RotationsHold == ShiftSpec => []RotationsTurn
<1>1. ShiftInv => RotationsTurn
  BY DEF ShiftInv
<1> QED
  BY <1>1, ShiftAlways, PTL

(* C is the last bit that left the operand and X goes with it, also when   *)
(* more bits leave than the operand has and when none does.                *)
THEOREM LastBitHolds == ShiftSpec => []LastBitLeaves
<1>1. ShiftInv => LastBitLeaves
  BY DEF ShiftInv
<1> QED
  BY <1>1, ShiftAlways, PTL

(* V after ASL tells that the signed product does not fit, although the    *)
(* code looks at one sign after the other and never at the product.        *)
THEOREM OverflowHolds == ShiftSpec => []OverflowRemembered
<1>1. ShiftInv => OverflowRemembered
  BY DEF ShiftInv
<1> QED
  BY <1>1, ShiftAlways, PTL

(* What DO_INSTRUCTION_ACTION_SHIFT leaves of the operand, one bit after   *)
(* the other, is what the whole shift or rotation leaves.                  *)
THEOREM ShiftsHold == ShiftSpec => []ShiftsCompute
<1>1. ShiftInv => ShiftsCompute
  BY DEF ShiftInv, ShiftsCompute
<1> QED
  BY <1>1, ShiftAlways, PTL

(* The same of C, X and V.                                                *)
THEOREM ShiftCodesHold == ShiftSpec => []ShiftCodes
<1>1. ShiftInv => ShiftCodes
  BY DEF ShiftInv, ShiftCodes
<1> QED
  BY <1>1, ShiftAlways, PTL

(***************************************************************************)
(* Words and longwords.                                                    *)
(***************************************************************************)

WordTypeOK ==
  /\ instruction \in WordInstructions
  /\ source \in Values /\ destination \in Longs /\ result \in Longs
  /\ codes \in Codes
  /\ trap \in {0, 5, 6}
  /\ phase \in {"start", "duration", "quotient", "done"}

(* A number, or its negative. *)
Sign(negative, v) == IF negative THEN 0 - v ELSE v

LEMMA LongSizes ==
  /\ LongModulus \in Nat \ {0} /\ LongModulus = 2 * (SignBit * Modulus)
  /\ SignBit * Modulus \in Nat \ {0} /\ Long!Modulus = LongModulus
  /\ Longs = 0 .. LongModulus - 1
<1>1. SignBit * Modulus \in Nat \ {0} /\ Modulus * Modulus = 2 * (SignBit * Modulus)
  BY Sizes
<1> QED
  BY <1>1 DEF LongModulus, Longs, Long!Modulus

(* What a word stands for: its absolute value with its sign. *)
WordParts(v, a, n) ==
  /\ a \in 0 .. Modulus - 1
  /\ IsSigned => a <= SignBit
  /\ n => IsSigned /\ a > 0
  /\ Number(v) = Sign(n, a)

LEMMA WordNumbers ==
  ASSUME NEW v \in Values
  PROVE  WordParts(v, AbsoluteWord(v), IsSigned /\ Negative(v))
  BY Sizes DEF WordParts, AbsoluteWord, Number, Signed, Sign, Negative

LEMMA LowWord ==
  ASSUME NEW v \in Longs
  PROVE  Word(v) \in Values /\ v \div Modulus \in Values
<1>1. v \in Nat /\ v < Modulus * Modulus
  BY LongSizes, Sizes DEF Longs, LongModulus
<1>2. Composed(v, Modulus, v \div Modulus, v % Modulus)
  BY <1>1, Sizes, DivMod
<1> DEFINE q == v \div Modulus
           m == v % Modulus
<1>3. q \in Int /\ m \in 0 .. Modulus - 1 /\ v = q * Modulus + m
  BY <1>2 DEF Composed
<1> HIDE DEF q, m
<1>4. q >= 0
  <2>1. CASE q < 0
    <3>1. (q + 1) * Modulus <= 0 /\ (q + 1) * Modulus = q * Modulus + Modulus
      BY <1>3, <2>1, Sizes
    <3> QED
      BY <1>1, <1>3, <3>1, Sizes
  <2> QED
    BY <1>3, <2>1
<1>5. q < Modulus
  <2>1. CASE q >= Modulus
    <3>1. q * Modulus >= Modulus * Modulus
      BY <1>3, <2>1, Sizes
    <3> QED
      BY <1>1, <1>3, <3>1, Sizes
  <2> QED
    BY <1>3, <2>1, Sizes
<1> QED
  BY <1>3, <1>4, <1>5, Sizes DEF Word, q, m

(* A longword from two words. *)
LEMMA TwoWords ==
  ASSUME NEW q \in Values, NEW m \in Values, NEW r, r = q + m * Modulus
  PROVE  r \in Longs /\ Word(r) = q /\ r \div Modulus = m
<1>1. r = m * Modulus + q /\ q \in 0 .. Modulus - 1 /\ m \in Int /\ m * Modulus \in Nat
  BY Sizes
<1>2. QuotientIs(r, Modulus, m, q)
  BY <1>1, Sizes, Divided
<1>3. m * Modulus <= Modulus * Modulus - Modulus
  <2>1. (m + 1) * Modulus <= Modulus * Modulus /\ (m + 1) * Modulus = m * Modulus + Modulus
    BY Sizes
  <2> QED
    BY <2>1, Sizes
<1>4. r \in Longs
  BY <1>1, <1>3, Sizes, LongSizes DEF LongModulus
<1> QED
  BY <1>2, <1>4 DEF QuotientIs, Word

LEMMA LongNumbers ==
  ASSUME NEW v \in Longs
  PROVE  /\ Long!Signed(v) = Sign(Long!Negative(v), IF Long!Negative(v) THEN LongModulus - v
                                                    ELSE v)
         /\ Long!Negative(v) <=> Long!Signed(v) < 0
         /\ Long!Negative(v) <=> v >= SignBit * Modulus
  BY LongSizes DEF Long!Signed, Long!Negative, Sign

(***************************************************************************)
(* Products.                                                               *)
(***************************************************************************)

LEMMA Magnitudes ==
  ASSUME NEW h \in Nat \ {0}, NEW a \in 0 .. h, NEW b \in 0 .. h
  PROVE  a * b \in 0 .. h * h
<1>1. a * b >= 0 /\ a * b \in Int
  OBVIOUS
<1>2. a * b <= a * h
  OBVIOUS
<1>3. a * h <= h * h
  OBVIOUS
<1> QED
  BY <1>1, <1>2, <1>3

LEMMA Signs ==
  ASSUME NEW a \in Nat, NEW b \in Nat, NEW x, x \in BOOLEAN, NEW y, y \in BOOLEAN
  PROVE  Sign(x, a) * Sign(y, b) = Sign(~(x <=> y), a * b)
<1>1. CASE x /\ y
  BY <1>1 DEF Sign
<1>2. CASE x /\ ~y
  BY <1>2 DEF Sign
<1>3. CASE ~x /\ y
  BY <1>3 DEF Sign
<1>4. CASE ~x /\ ~y
  BY <1>4 DEF Sign
<1> QED
  BY <1>1, <1>2, <1>3, <1>4

ProductCodes(u, c, r) ==
  /\ u \in Codes
  /\ u.C = FALSE /\ u.V = FALSE
  /\ u.Z = (r = 0) /\ u.N = Long!Negative(r)

LEMMA ProductModifiers ==
  ASSUME NEW n \in {"MULU", "MULS"}
  PROVE  /\ Long!GetCarryModifier(n) = "clear"
         /\ Long!GetOverflowModifier(n) = "cleared"
         /\ Long!GetZeroModifier(n) = "set_if_zero_clear_otherwise"
         /\ Long!GetNegativeModifier(n) = "set_if_negative_clear_otherwise"
         /\ Long!GetExtendModifier(n) = "unaffected"
  BY SMTT(60)
  DEF Long!GetCarryModifier, Long!GetOverflowModifier, Long!GetZeroModifier, Long!GetNegativeModifier,
      Long!GetExtendModifier

LEMMA ProductUpdated ==
  ASSUME NEW n \in {"MULU", "MULS"}, NEW s, NEW d, NEW r, NEW c \in Codes
  PROVE  ProductCodes(Long!Updated(n, s, d, r, c), c, r)
<1>1. Long!Carry(n, s, d, r, c) = FALSE
  BY ProductModifiers DEF Long!Carry
<1>2. Long!Overflow(n, s, d, r, c) = FALSE
  BY ProductModifiers DEF Long!Overflow
<1> DEFINE z == r = 0
           m == Long!Negative(r)
<1>3. Long!Zero(n, r, c) = z
  BY ProductModifiers DEF Long!Zero
<1>4. Long!Updated(n, s, d, r, c) = [C |-> FALSE, V |-> FALSE, Z |-> z, N |-> m, X |-> c.X]
  BY <1>1, <1>2, <1>3, ProductModifiers DEF Long!Updated
<1>5. z \in BOOLEAN /\ m \in BOOLEAN
  BY DEF Long!Negative
<1> HIDE DEF z, m
<1>6. ProductCodes([C |-> FALSE, V |-> FALSE, Z |-> z, N |-> m, X |-> c.X], c, r)
        <=> z = (r = 0) /\ m = Long!Negative(r)
  BY <1>5 DEF ProductCodes, Codes
<1> QED
  BY <1>4, <1>6 DEF z, m

(* The result of a multiplication, for operands s and d. *)
ProductOf(s, d) ==
  LET product == AbsoluteWord(d) * AbsoluteWord(s)
  IN  IF ProductNegative(s, d) /\ product # 0 THEN LongModulus - product ELSE product

ProductHolds(s, d, r) ==
  /\ r \in Longs
  /\ LongNumber(r) = Number(d) * Number(s)

LEMMA Product ==
  ASSUME NEW s \in Values, NEW d \in Values
  PROVE  ProductHolds(s, d, ProductOf(s, d))
<1> DEFINE a == AbsoluteWord(d)
           b == AbsoluteWord(s)
           x == IsSigned /\ Negative(d)
           y == IsSigned /\ Negative(s)
           p == a * b
           r == ProductOf(s, d)
           h == IF IsSigned THEN SignBit ELSE Modulus - 1
<1>1. WordParts(d, a, x) /\ WordParts(s, b, y)
  BY WordNumbers
<1>2. ProductNegative(s, d) <=> ~(x <=> y)
  <2>1. Negative(s) \in BOOLEAN /\ Negative(d) \in BOOLEAN
    BY DEF Negative
  <2>2. \A e, f \in BOOLEAN : (e # f) <=> ~(e <=> f)
    OBVIOUS
  <2>3. (Negative(s) # Negative(d)) <=> ~(Negative(s) <=> Negative(d))
    BY <2>1, <2>2
  <2> QED
    BY <2>3, Zenon DEF ProductNegative
<1>3. r = IF ~(x <=> y) /\ p # 0 THEN LongModulus - p ELSE p
  BY <1>2, Zenon DEF ProductOf
<1>4. x \in BOOLEAN /\ y \in BOOLEAN /\ (x => IsSigned) /\ (y => IsSigned)
  BY DEF IsSigned, Negative
<1> HIDE DEF a, b, x, y, p, r
<1>5. /\ a \in 0 .. h /\ b \in 0 .. h /\ h \in Nat \ {0}
      /\ Number(d) = Sign(x, a) /\ Number(s) = Sign(y, b)
  BY <1>1, Sizes DEF WordParts
<1>6. p \in 0 .. h * h
  BY <1>5, Magnitudes DEF p
<1>7. Number(d) * Number(s) = Sign(~(x <=> y), p)
  BY <1>4, <1>5, Signs DEF p
<1>8. CASE IsSigned
  <2>1. h = SignBit
    BY <1>8
  <2> HIDE DEF h
  <2>2. /\ SignBit * Modulus = 2 * (h * h) /\ LongModulus = 2 * (SignBit * Modulus)
        /\ h * h \in Nat \ {0}
    BY <2>1, Sizes, LongSizes
  <2> DEFINE k == h * h
  <2>3. k \in Nat \ {0} /\ p \in 0 .. k /\ SignBit * Modulus = 2 * k /\ LongModulus = 4 * k
    BY <2>1, <2>2, <1>6
  <2> HIDE DEF k
  <2>4. r \in Longs
    BY <1>3, <2>3, LongSizes
  <2>5. Long!Negative(r) <=> r >= 2 * k
    BY <2>3, <2>4, LongNumbers
  <2>6. Long!Signed(r) = IF r >= 2 * k THEN 0 - (4 * k - r) ELSE r
    BY <2>3, <2>4, <2>5, LongNumbers DEF Sign
  <2>7. CASE ~(x <=> y) /\ p # 0
    <3>1. r = 4 * k - p
      BY <1>3, <2>3, <2>7
    <3>2. Long!Signed(r) = 0 - p
      BY <2>3, <2>6, <3>1
    <3> QED
      <4>1. Sign(~(x <=> y), p) = 0 - p
        BY <2>7, Zenon DEF Sign
      <4>2. LongNumber(r) = Long!Signed(r)
        BY <1>8, Zenon DEF LongNumber
      <4> QED
        BY <1>7, <2>4, <3>2, <4>1, <4>2 DEF ProductHolds, r
  <2>8. CASE (x <=> y) \/ p = 0
    <3>1. r = p
      BY <1>3, <2>8
    <3>2. Long!Signed(r) = p
      BY <2>3, <2>6, <3>1
    <3>3. Sign(~(x <=> y), p) = p
      <4>1. CASE p = 0
        <5>1. 0 - p = p
          BY <4>1
        <5> QED
          BY <5>1, Zenon DEF Sign
      <4>2. CASE x <=> y
        BY <4>2, Zenon DEF Sign
      <4> QED
        BY <2>8, <4>1, <4>2
    <3>4. LongNumber(r) = Long!Signed(r)
      BY <1>8, Zenon DEF LongNumber
    <3> QED
      BY <1>7, <2>4, <3>2, <3>3, <3>4 DEF ProductHolds, r
  <2> QED
    BY <2>7, <2>8
<1>9. CASE ~IsSigned
  <2>1. ~x /\ ~y
    BY <1>4, <1>9
  <2>2. r = p
    BY <1>3, <2>1
  <2>3. h * h < Modulus * Modulus /\ h * h \in Nat /\ Modulus * Modulus \in Nat
    <3>1. h = Modulus - 1
      BY <1>9
    <3> HIDE DEF h
    <3>2. h * h <= h * Modulus /\ h * Modulus = Modulus * Modulus - Modulus
      BY <3>1, <1>5, Sizes
    <3> QED
      BY <1>5, <3>2, Sizes
  <2>4. r \in Longs
    BY <1>6, <2>2, <2>3, LongSizes DEF LongModulus
  <2> QED
    <3>1. Sign(~(x <=> y), p) = p
      BY <2>1, Zenon DEF Sign
    <3>2. LongNumber(r) = r
      BY <1>9, Zenon DEF LongNumber
    <3> QED
      BY <1>7, <2>2, <2>4, <3>1, <3>2 DEF ProductHolds, r
<1> QED
  BY <1>8, <1>9

(***************************************************************************)
(* Quotients.                                                              *)
(***************************************************************************)

(* Two numbers are quotient and remainder of dividend and divisor: the     *)
(* remainder is smaller than the divisor and has the sign of the dividend. *)
Quotient(dividend, divisor, b, q, m) ==
  /\ dividend = q * divisor + m
  /\ -b < m /\ m < b
  /\ m # 0 => (m < 0 <=> dividend < 0)

LEMMA QuotientBounds ==
  ASSUME NEW a \in Nat, NEW b \in Nat \ {0}
  PROVE  /\ a \div b \in Nat /\ a % b \in 0 .. b - 1
         /\ a = (a \div b) * b + (a % b)
<1> DEFINE q == a \div b
           m == a % b
<1>1. q \in Int /\ m \in 0 .. b - 1 /\ a = q * b + m
  BY DivMod DEF Composed
<1> HIDE DEF q, m
<1>2. q >= 0
  <2>1. CASE q < 0
    <3>1. (q + 1) * b <= 0 /\ (q + 1) * b = q * b + b
      BY <1>1, <2>1
    <3> QED
      BY <1>1, <3>1
  <2> QED
    BY <1>1, <2>1
<1> QED
  BY <1>1, <1>2 DEF q, m

(* There is one quotient: that of the absolute values, with its sign. *)
LEMMA QuotientOfSigns ==
  ASSUME NEW a \in Nat, NEW b \in Nat \ {0}, NEW x, x \in BOOLEAN, NEW y, y \in BOOLEAN,
         x => a > 0
  PROVE  Quotient(Sign(x, a), Sign(y, b), b, Sign(~(x <=> y), a \div b), Sign(x, a % b))
<1> DEFINE q == a \div b
           m == a % b
<1>1. q \in Nat /\ m \in 0 .. b - 1 /\ a = q * b + m
  BY QuotientBounds
<1> HIDE DEF q, m
<1>2. Sign(~(x <=> y), q) * Sign(y, b) = Sign(x, q * b)
  <2>1. CASE x /\ y
    BY <1>1, <2>1 DEF Sign
  <2>2. CASE x /\ ~y
    BY <1>1, <2>2 DEF Sign
  <2>3. CASE ~x /\ y
    BY <1>1, <2>3 DEF Sign
  <2>4. CASE ~x /\ ~y
    BY <1>1, <2>4 DEF Sign
  <2> QED
    BY <2>1, <2>2, <2>3, <2>4
<1>3. CASE x
  <2> DEFINE k == q * b
  <2>1. k \in Int /\ a = k + m
    BY <1>1
  <2>2. Sign(x, a) = 0 - a /\ Sign(x, m) = 0 - m /\ Sign(x, k) = 0 - k
    BY <1>3 DEF Sign
  <2>3. Sign(~(x <=> y), q) * Sign(y, b) = 0 - k
    BY <1>2, <2>2
  <2> HIDE DEF k
  <2>4. /\ 0 - a = (0 - k) + (0 - m) /\ -b < 0 - m /\ 0 - m < b
        /\ 0 - m # 0 => (0 - m < 0 <=> 0 - a < 0)
    BY <1>1, <1>3, <2>1
  <2>5. Quotient(Sign(x, a), Sign(y, b), b, Sign(~(x <=> y), q), Sign(x, m))
    BY <2>2, <2>3, <2>4 DEF Quotient
  <2> QED
    BY <2>5 DEF q, m
<1>4. CASE ~x
  <2> DEFINE k == q * b
  <2>1. k \in Int /\ a = k + m
    BY <1>1
  <2>2. Sign(x, a) = a /\ Sign(x, m) = m /\ Sign(x, k) = k
    BY <1>4 DEF Sign
  <2>3. Sign(~(x <=> y), q) * Sign(y, b) = k
    BY <1>2, <2>2
  <2> HIDE DEF k
  <2> QED
    BY <1>1, <1>4, <2>1, <2>2, <2>3 DEF Quotient, q, m
<1> QED
  BY <1>3, <1>4

LEMMA OneQuotient ==
  ASSUME NEW a \in Nat, NEW b \in Nat \ {0}, NEW x, x \in BOOLEAN, NEW y, y \in BOOLEAN,
         x => a > 0,
         NEW q \in Int, NEW m \in Int, Quotient(Sign(x, a), Sign(y, b), b, q, m)
  PROVE  q = Sign(~(x <=> y), a \div b)
<1> DEFINE p == Sign(~(x <=> y), q)
           n == Sign(x, m)
<1>1. p \in Int /\ n \in Int
  BY DEF Sign
<1>2. /\ Sign(x, a) = q * Sign(y, b) + m
      /\ -b < m /\ m < b
      /\ m # 0 => (m < 0 <=> Sign(x, a) < 0)
  BY DEF Quotient
<1>3. Sign(x, a) < 0 <=> x
  BY DEF Sign
<1>4. n \in 0 .. b - 1
  BY <1>2, <1>3 DEF Sign
<1>5. a = p * b + n
  <2>1. CASE x /\ y
    BY <1>2, <2>1 DEF Sign
  <2>2. CASE x /\ ~y
    BY <1>2, <2>2 DEF Sign
  <2>3. CASE ~x /\ y
    BY <1>2, <2>3 DEF Sign
  <2>4. CASE ~x /\ ~y
    BY <1>2, <2>4 DEF Sign
  <2> QED
    BY <2>1, <2>2, <2>3, <2>4
<1> HIDE DEF p, n
<1>6. QuotientIs(a, b, p, n)
  BY <1>1, <1>4, <1>5, Divided
<1>7. a \div b = p
  BY <1>6 DEF QuotientIs
<1> QED
  BY <1>7 DEF p, Sign

(* The two tests for overflow: the quotient fits in a word. *)
LEMMA FirstTest ==
  ASSUME NEW a \in Nat, NEW b \in Nat
  PROVE  b > a \div Modulus <=> a < b * Modulus
<1> DEFINE q == a \div Modulus
           m == a % Modulus
<1>1. q \in Nat /\ m \in 0 .. Modulus - 1 /\ a = q * Modulus + m
  BY Sizes, QuotientBounds
<1> HIDE DEF q, m
<1>2. CASE b > q
  <2>1. (q + 1) * Modulus <= b * Modulus /\ (q + 1) * Modulus = q * Modulus + Modulus
    BY <1>1, <1>2, Sizes
  <2> QED
    BY <1>1, <1>2, <2>1, Sizes DEF q
<1>3. CASE b <= q
  <2>1. b * Modulus <= q * Modulus
    BY <1>1, <1>3, Sizes
  <2> QED
    BY <1>1, <1>3, <2>1, Sizes DEF q
<1> QED
  BY <1>1, <1>2, <1>3

LEMMA QuotientLimit ==
  ASSUME NEW a \in Nat, NEW b \in Nat \ {0}, NEW limit \in Nat
  PROVE  a \div b < limit <=> a < b * limit
<1> DEFINE q == a \div b
           m == a % b
<1>1. q \in Nat /\ m \in 0 .. b - 1 /\ a = q * b + m
  BY QuotientBounds
<1> HIDE DEF q, m
<1>2. CASE q < limit
  <2>1. (q + 1) * b <= limit * b /\ (q + 1) * b = q * b + b /\ limit * b = b * limit
    BY <1>1, <1>2
  <2> QED
    BY <1>1, <1>2, <2>1 DEF q
<1>3. CASE limit <= q
  <2>1. limit * b <= q * b /\ limit * b = b * limit
    BY <1>1, <1>3
  <2> QED
    BY <1>1, <1>3, <2>1 DEF q
<1> QED
  BY <1>1, <1>2, <1>3

(***************************************************************************)
(* The operands of a division, and its tests.                              *)
(***************************************************************************)

LEMMA DivisionNumbers ==
  ASSUME WordTypeOK, IsDivision, source # 0
  PROVE  /\ AbsoluteDestination \in Nat /\ AbsoluteSource \in 1 .. Modulus - 1
         /\ IsSigned => AbsoluteSource <= SignBit
         /\ DestinationNegative \in BOOLEAN /\ SourceNegative \in BOOLEAN
         /\ DestinationNegative => IsSigned /\ AbsoluteDestination > 0
         /\ SourceNegative => IsSigned
         /\ LongNumber(destination) = Sign(DestinationNegative, AbsoluteDestination)
         /\ Number(source) = Sign(SourceNegative, AbsoluteSource)
         /\ QuotientNegative <=> ~(DestinationNegative <=> SourceNegative)
<1>1. SourceNegative <=> IsSigned /\ Negative(source)
  BY DEF SourceNegative
<1>2. DestinationNegative <=> IsSigned /\ Long!Negative(destination)
  BY DEF DestinationNegative
<1>3. DestinationNegative \in BOOLEAN /\ SourceNegative \in BOOLEAN
  BY DEF DestinationNegative, SourceNegative, IsSigned, Negative, Long!Negative
<1>4. WordParts(source, AbsoluteSource, IsSigned /\ Negative(source))
  BY WordNumbers DEF WordTypeOK, AbsoluteSource
<1>5. /\ AbsoluteSource \in 1 .. Modulus - 1
      /\ IsSigned => AbsoluteSource <= SignBit
      /\ Number(source) = Sign(SourceNegative, AbsoluteSource)
  <2>1. AbsoluteSource # 0
    BY Sizes DEF AbsoluteSource, AbsoluteWord, WordTypeOK, Negative
  <2>2. Number(source) = Sign(IsSigned /\ Negative(source), AbsoluteSource)
    BY <1>4 DEF WordParts
  <2>3. Sign(IsSigned /\ Negative(source), AbsoluteSource) = Sign(SourceNegative, AbsoluteSource)
    BY <1>1, Zenon DEF Sign
  <2> QED
    BY <1>4, <2>1, <2>2, <2>3, Sizes DEF WordParts
<1>6. /\ AbsoluteDestination \in Nat
      /\ DestinationNegative => IsSigned /\ AbsoluteDestination > 0
      /\ LongNumber(destination) = Sign(DestinationNegative, AbsoluteDestination)
  <2>1. destination \in Longs /\ destination \in 0 .. LongModulus - 1 /\ LongModulus \in Nat
    BY LongSizes DEF WordTypeOK
  <2>2. CASE DestinationNegative
    <3>1. IsSigned /\ Long!Negative(destination)
      BY <1>2, <2>2
    <3>2. AbsoluteDestination = LongModulus - destination
      BY <2>2 DEF AbsoluteDestination
    <3>3. LongNumber(destination) = Long!Signed(destination)
      BY <3>1, Zenon DEF LongNumber
    <3>4. Long!Signed(destination) = 0 - (LongModulus - destination)
      BY <2>1, <3>1, LongNumbers DEF Sign
    <3>5. Sign(DestinationNegative, AbsoluteDestination) = 0 - AbsoluteDestination
      BY <2>2, Zenon DEF Sign
    <3> QED
      BY <2>1, <3>1, <3>2, <3>3, <3>4, <3>5
  <2>3. CASE ~DestinationNegative
    <3>1. AbsoluteDestination = destination
      BY <2>3 DEF AbsoluteDestination
    <3>2. LongNumber(destination) = destination
      <4>1. CASE IsSigned
        <5>1. ~Long!Negative(destination)
          BY <1>2, <2>3, <4>1
        <5>2. Long!Signed(destination) = destination
          BY <2>1, <5>1, LongNumbers DEF Sign
        <5> QED
          BY <4>1, <5>2, Zenon DEF LongNumber
      <4>2. CASE ~IsSigned
        BY <4>2, Zenon DEF LongNumber
      <4> QED
        BY <4>1, <4>2
    <3>3. Sign(DestinationNegative, AbsoluteDestination) = AbsoluteDestination
      BY <2>3, Zenon DEF Sign
    <3> QED
      BY <2>1, <2>3, <3>1, <3>2, <3>3
  <2> QED
    BY <2>2, <2>3
<1>7. QuotientNegative <=> ~(DestinationNegative <=> SourceNegative)
  <2>1. \A e, f \in BOOLEAN : (e # f) <=> ~(f <=> e)
    OBVIOUS
  <2> QED
    BY <1>3, <2>1 DEF QuotientNegative
<1>8. SourceNegative => IsSigned
  BY <1>1
<1> QED
  BY <1>3, <1>5, <1>6, <1>7, <1>8

(* A number's word, as the code writes it. *)
LEMMA WrittenWord ==
  ASSUME NEW k \in Nat, NEW n, n \in BOOLEAN, n => IsSigned /\ k <= SignBit,
         ~n => k <= IF IsSigned THEN SignBit - 1 ELSE Modulus - 1,
         NEW w, w = IF n THEN Minus(k, Modulus) ELSE k
  PROVE  w \in Values /\ Number(w) = Sign(n, k) /\ (w = 0 <=> k = 0)
<1>1. CASE n
  <2>1. w = IF k = 0 THEN 0 ELSE Modulus - k
    BY <1>1 DEF Minus
  <2>2. Number(w) = Signed(w)
    BY <1>1, Zenon DEF Number
  <2>3. Sign(n, k) = 0 - k
    BY <1>1 DEF Sign
  <2>4. w \in Values /\ Signed(w) = 0 - k /\ (w = 0 <=> k = 0)
    BY <1>1, <2>1, Sizes DEF Signed, Negative
  <2> QED
    BY <2>2, <2>3, <2>4
<1>2. CASE ~n
  <2>1. w = k
    BY <1>2
  <2>2. Sign(n, k) = k
    BY <1>2 DEF Sign
  <2>3. CASE IsSigned
    <3>1. Number(w) = Signed(w)
      BY <2>3, Zenon DEF Number
    <3>2. w \in Values /\ Signed(w) = k
      BY <1>2, <2>1, <2>3, Sizes DEF Signed, Negative
    <3> QED
      BY <2>1, <2>2, <3>1, <3>2
  <2>4. CASE ~IsSigned
    <3>1. Number(w) = w
      BY <2>4, Zenon DEF Number
    <3>2. w \in Values
      BY <1>2, <2>1, <2>4, Sizes
    <3> QED
      BY <2>1, <2>2, <3>1, <3>2
  <2> QED
    BY <2>3, <2>4
<1> QED
  BY <1>1, <1>2

Fits == FitsUnsigned /\ FitsSigned

LEMMA QuotientsFit ==
  ASSUME WordTypeOK, IsDivision, source # 0
  PROVE  /\ AbsoluteQuotient \in Nat
         /\ FitsUnsigned <=> AbsoluteQuotient < Modulus
         /\ FitsSigned <=> (IsSigned => AbsoluteQuotient <= IF QuotientNegative THEN SignBit
                                                            ELSE SignBit - 1)
         /\ QuotientNegative \in BOOLEAN /\ (QuotientNegative => IsSigned)
<1> DEFINE a == AbsoluteDestination
           b == AbsoluteSource
<1>1. a \in Nat /\ b \in 1 .. Modulus - 1 /\ b \in Nat \ {0}
  BY DivisionNumbers, Sizes
<1>2. FitsUnsigned <=> b > a \div Modulus
  BY DEF FitsUnsigned
<1>3. AbsoluteQuotient = a \div b
  BY DEF AbsoluteQuotient
<1> HIDE DEF a, b
<1>4. a \div b \in Nat
  BY <1>1, QuotientBounds
<1>5. b > a \div Modulus <=> a < b * Modulus
  BY <1>1, FirstTest
<1>6. a \div b < Modulus <=> a < b * Modulus
  BY <1>1, QuotientLimit, Sizes
<1>7. FitsSigned <=> (IsSigned => AbsoluteQuotient <= IF QuotientNegative THEN SignBit
                                                      ELSE SignBit - 1)
  BY DEF FitsSigned
<1>8. QuotientNegative \in BOOLEAN
  BY DEF QuotientNegative
<1>9. QuotientNegative => IsSigned
  BY DivisionNumbers
<1> QED
  BY <1>2, <1>3, <1>4, <1>5, <1>6, <1>7, <1>8, <1>9

QuotientHeld ==
  \E q \in IF IsSigned THEN -SignBit .. SignBit - 1 ELSE Values : IsQuotient(q)

TheQuotient == Sign(QuotientNegative, AbsoluteQuotient)

TheRemainder == Sign(DestinationNegative, AbsoluteDestination % AbsoluteSource)

LEMMA QuotientsAre ==
  ASSUME WordTypeOK, IsDivision, source # 0
  PROVE  /\ IsQuotient(TheQuotient)
         /\ LongNumber(destination) - TheQuotient * Number(source) = TheRemainder
         /\ \A q \in Int : IsQuotient(q) => q = TheQuotient
<1> DEFINE a == AbsoluteDestination
           b == AbsoluteSource
           x == DestinationNegative
           y == SourceNegative
           d == LongNumber(destination)
           n == Number(source)
<1>1. /\ a \in Nat /\ b \in Nat \ {0} /\ x \in BOOLEAN /\ y \in BOOLEAN /\ (x => a > 0)
      /\ d = Sign(x, a) /\ n = Sign(y, b)
      /\ QuotientNegative <=> ~(x <=> y)
  BY DivisionNumbers, Sizes
<1>2. \A q : IsQuotient(q) <=>
               /\ -b < d - q * n /\ d - q * n < b
               /\ d - q * n # 0 => (d - q * n < 0 <=> d < 0)
  BY DEF IsQuotient
<1>3. TheQuotient = Sign(~(x <=> y), a \div b) /\ TheRemainder = Sign(x, a % b)
  <2>1. Sign(QuotientNegative, a \div b) = Sign(~(x <=> y), a \div b)
    BY <1>1, Zenon DEF Sign
  <2> QED
    BY <2>1, Zenon DEF TheQuotient, TheRemainder, AbsoluteQuotient
<1> HIDE DEF a, b, x, y, d, n
<1>4. d \in Int /\ n \in Int
  BY <1>1 DEF Sign
<1>5. \A q \in Int : IsQuotient(q) <=> Quotient(d, n, b, q, d - q * n)
  <2> TAKE q \in Int
  <2>1. q * n \in Int
    BY <1>4
  <2>2. d = q * n + (d - q * n)
    BY <1>4, <2>1
  <2> QED
    BY <1>2, <2>2 DEF Quotient
<1>6. a \div b \in Nat /\ a % b \in 0 .. b - 1
  BY <1>1, QuotientBounds
<1>7. TheQuotient \in Int /\ TheRemainder \in Int
  BY <1>3, <1>6 DEF Sign
<1>8. Quotient(Sign(x, a), Sign(y, b), b, Sign(~(x <=> y), a \div b), Sign(x, a % b))
  BY <1>1, QuotientOfSigns
<1>9. Quotient(d, n, b, TheQuotient, TheRemainder)
  BY <1>1, <1>3, <1>8
<1>10. d - TheQuotient * n = TheRemainder
  <2>1. d = TheQuotient * n + TheRemainder
    BY <1>9 DEF Quotient
  <2>2. TheQuotient * n \in Int
    BY <1>4, <1>7
  <2> QED
    BY <1>7, <2>1, <2>2
<1>11. IsQuotient(TheQuotient)
  BY <1>5, <1>7, <1>9, <1>10
<1>12. ASSUME NEW q \in Int, IsQuotient(q) PROVE q = TheQuotient
  <2> DEFINE m == d - q * n
  <2>1. m \in Int
    BY <1>4
  <2>2. Quotient(d, n, b, q, m)
    BY <1>5, <1>12
  <2> HIDE DEF m
  <2>3. Quotient(Sign(x, a), Sign(y, b), b, q, m)
    BY <1>1, <2>2
  <2>4. q = Sign(~(x <=> y), a \div b)
    BY <1>1, <2>1, <2>3, OneQuotient
  <2> QED
    BY <1>3, <2>4
<1> QED
  BY <1>10, <1>11, <1>12 DEF d, n

LEMMA TestsAreExact ==
  ASSUME WordTypeOK, IsDivision, source # 0
  PROVE  QuotientHeld <=> FitsUnsigned /\ FitsSigned
<1>1. QuotientHeld <=> TheQuotient \in IF IsSigned THEN -SignBit .. SignBit - 1 ELSE Values
  <2>1. \A q \in IF IsSigned THEN -SignBit .. SignBit - 1 ELSE Values : q \in Int
    BY Sizes
  <2> QED
    BY <2>1, QuotientsAre DEF QuotientHeld
<1> DEFINE k == AbsoluteQuotient
           n == QuotientNegative
<1>2. /\ k \in Nat /\ n \in BOOLEAN /\ (n => IsSigned)
      /\ FitsUnsigned <=> k < Modulus
      /\ FitsSigned <=> (IsSigned => k <= IF n THEN SignBit ELSE SignBit - 1)
      /\ TheQuotient = Sign(n, k)
  BY QuotientsFit DEF TheQuotient
<1> HIDE DEF k, n
<1>3. CASE IsSigned
  <2>1. TheQuotient \in -SignBit .. SignBit - 1 <=> k <= IF n THEN SignBit ELSE SignBit - 1
    <3>1. CASE n
      BY <1>2, <3>1, Sizes DEF Sign
    <3>2. CASE ~n
      BY <1>2, <3>2, Sizes DEF Sign
    <3> QED
      BY <1>2, <3>1, <3>2
  <2>2. (k <= IF n THEN SignBit ELSE SignBit - 1) => k < Modulus
    BY <1>2, Sizes
  <2> QED
    BY <1>1, <1>2, <1>3, <2>1, <2>2
<1>4. CASE ~IsSigned
  <2>1. TheQuotient = k
    BY <1>2, <1>4 DEF Sign
  <2>2. TheQuotient \in Values <=> k < Modulus
    BY <1>2, <2>1, Sizes
  <2> QED
    BY <1>1, <1>2, <1>4, <2>2
<1> QED
  BY <1>3, <1>4

(***************************************************************************)
(* The steps of an instruction.                                            *)
(***************************************************************************)

(* Within a division, both tests are still to come or the first is passed, *)
(* and the register holds its operand.                                     *)
WordInv ==
  /\ WordTypeOK
  /\ phase # "done" => trap = 0 /\ result = destination
  /\ phase \in {"duration", "quotient"} => IsDivision /\ source # 0 /\ FitsUnsigned
  /\ ProductCorrect /\ QuotientCorrect /\ OverflowExact /\ CheckTrapsOutside

LEMMA SameOperands ==
  ASSUME UNCHANGED operands
  PROVE  /\ instruction' = instruction /\ source' = source /\ destination' = destination
         /\ IsSigned' <=> IsSigned
         /\ IsDivision' <=> IsDivision
         /\ FitsUnsigned' <=> FitsUnsigned
<1>1. instruction' = instruction /\ source' = source /\ destination' = destination
  BY DEF operands
<1>2. (IsSigned' <=> IsSigned) /\ (IsDivision' <=> IsDivision)
  BY <1>1 DEF IsSigned, IsDivision
<1>3. FitsUnsigned' <=> FitsUnsigned
  BY <1>1 DEF FitsUnsigned, AbsoluteSource, AbsoluteDestination, AbsoluteWord,
              DestinationNegative, IsSigned
<1> QED
  BY <1>1, <1>2, <1>3

LEMMA SameQuotients ==
  ASSUME UNCHANGED operands
  PROVE  /\ \A q : IsQuotient(q)' <=> IsQuotient(q)
         /\ QuotientHeld' <=> QuotientHeld
<1>1. instruction' = instruction /\ source' = source /\ destination' = destination
  BY DEF operands
<1>2. IsSigned' <=> IsSigned
  BY <1>1 DEF IsSigned
<1>3. /\ AbsoluteSource' = AbsoluteSource /\ Number(source)' = Number(source)
      /\ LongNumber(destination)' = LongNumber(destination)
  BY <1>1, <1>2 DEF AbsoluteSource, AbsoluteWord, Number, LongNumber
<1>4. \A q : IsQuotient(q)' <=> IsQuotient(q)
  BY <1>3 DEF IsQuotient
<1> QED
  BY <1>2, <1>4 DEF QuotientHeld

(* A step that ends nothing. *)
LEMMA OnlyBegun ==
  ASSUME WordInv, UNCHANGED operands, UNCHANGED <<result, codes, trap>>,
         phase \in {"start", "duration", "quotient"},
         phase' \in {"duration", "quotient"}, IsDivision, source # 0, FitsUnsigned
  PROVE  WordInv'
<1>1. WordTypeOK'
  BY SameOperands DEF WordInv, WordTypeOK
<1>2. trap' = 0 /\ result' = destination'
  BY SameOperands DEF WordInv
<1>3. IsDivision' /\ source' # 0 /\ FitsUnsigned'
  BY SameOperands
<1>4. phase' # "done"
  OBVIOUS
<1>5. ProductCorrect' /\ QuotientCorrect' /\ OverflowExact' /\ CheckTrapsOutside'
  BY <1>4 DEF ProductCorrect, QuotientCorrect, OverflowExact, CheckTrapsOutside, Done
<1> QED
  BY <1>1, <1>2, <1>3, <1>5 DEF WordInv

(* A step that ends a division with an overflow or at a division by zero.  *)
LEMMA DivisionRefused ==
  ASSUME WordInv, UNCHANGED operands, result' = result, phase # "done", phase' = "done",
         codes' \in Codes, trap' \in {0, 5}, IsDivision,
         trap' = 5 <=> source = 0,
         trap' = 0 => codes'.V /\ ~QuotientHeld
  PROVE  WordInv'
<1>1. WordTypeOK'
  BY SameOperands DEF WordInv, WordTypeOK
<1>2. ~(instruction' \in {"MULU", "MULS"}) /\ instruction' # "CHK"
  BY SameOperands DEF IsDivision
<1>3. ProductCorrect' /\ CheckTrapsOutside'
  BY <1>2 DEF ProductCorrect, CheckTrapsOutside
<1>4. QuotientCorrect'
  BY DEF QuotientCorrect, Done
<1>5. OverflowExact'
  <2>1. trap' = 5 <=> source' = 0
    BY SameOperands
  <2>2. trap' = 0 => (codes'.V <=> ~QuotientHeld')
    BY SameQuotients
  <2>3. result' = destination'
    BY SameOperands DEF WordInv
  <2> QED
    BY <2>1, <2>2, <2>3 DEF OverflowExact, QuotientHeld
<1> QED
  BY <1>1, <1>3, <1>4, <1>5 DEF WordInv

LEMMA OverflowCodesAre ==
  ASSUME codes \in Codes
  PROVE  OverflowCodes \in Codes /\ OverflowCodes.V
BY DEF OverflowCodes, Codes

LEMMA ZeroStep ==
  ASSUME WordInv, DivideByZero
  PROVE  WordInv'
<1>1. /\ UNCHANGED operands /\ result' = result /\ phase # "done" /\ phase' = "done"
      /\ trap' = 5 /\ source = 0 /\ IsDivision
      /\ codes' = [codes EXCEPT !.C = FALSE, !.N = FALSE, !.Z = FALSE, !.V = FALSE]
  BY DEF DivideByZero
<1>2. codes' \in Codes
  BY <1>1 DEF WordInv, WordTypeOK, Codes
<1> QED
  BY <1>1, <1>2, DivisionRefused

LEMMA TooLargeStep ==
  ASSUME WordInv, DivideTooLarge
  PROVE  WordInv'
<1>1. /\ UNCHANGED operands /\ result' = result /\ phase # "done" /\ phase' = "done"
      /\ trap' = trap /\ source # 0 /\ IsDivision /\ ~FitsUnsigned
      /\ codes' = OverflowCodes /\ trap = 0
  BY DEF DivideTooLarge, WordInv
<1>2. codes' \in Codes /\ codes'.V
  BY <1>1, OverflowCodesAre DEF WordInv, WordTypeOK
<1>3. ~QuotientHeld
  BY <1>1, TestsAreExact DEF WordInv
<1> QED
  BY <1>1, <1>2, <1>3, DivisionRefused

LEMMA OverflowStep ==
  ASSUME WordInv, DivideOverflows
  PROVE  WordInv'
<1>1. /\ UNCHANGED operands /\ result' = result /\ phase # "done" /\ phase' = "done"
      /\ trap' = trap /\ source # 0 /\ IsDivision /\ ~FitsSigned
      /\ codes' = OverflowCodes /\ trap = 0
  BY DEF DivideOverflows, WordInv
<1>2. codes' \in Codes /\ codes'.V
  BY <1>1, OverflowCodesAre DEF WordInv, WordTypeOK
<1>3. ~QuotientHeld
  BY <1>1, TestsAreExact DEF WordInv
<1> QED
  BY <1>1, <1>2, <1>3, DivisionRefused

LEMMA ProductStep ==
  ASSUME WordInv, MULCommon
  PROVE  WordInv'
<1> DEFINE w == Word(destination)
           r == ProductOf(source, w)
<1>1. /\ UNCHANGED operands /\ phase' = "done" /\ trap' = trap /\ trap = 0
      /\ instruction \in {"MULU", "MULS"}
      /\ result' = r
      /\ codes' = Long!Updated(instruction, source, destination, r, codes)
  BY DEF MULCommon, WordInv, ProductOf
<1>2. source \in Values /\ w \in Values /\ codes \in Codes
  BY LowWord DEF WordInv, WordTypeOK
<1> HIDE DEF r
<1>3. ProductHolds(source, w, r)
  BY <1>2, Product DEF r
<1>4. ProductCodes(codes', codes, r)
  BY <1>1, <1>2, ProductUpdated
<1>5. WordTypeOK'
  BY <1>1, <1>3, <1>4, SameOperands DEF WordInv, WordTypeOK, ProductHolds, ProductCodes
<1>6. ~IsDivision' /\ instruction' # "CHK"
  BY <1>1, SameOperands DEF IsDivision
<1>7. QuotientCorrect' /\ OverflowExact' /\ CheckTrapsOutside'
  BY <1>6 DEF QuotientCorrect, OverflowExact, CheckTrapsOutside
<1>8. ProductCorrect'
  <2>1. LongNumber(result)' = LongNumber(r)
    <3>1. (IsSigned' <=> IsSigned) /\ result' = r
      BY <1>1, SameOperands
    <3> QED
      BY <3>1 DEF LongNumber
  <2>2. /\ Number(Word(destination))' = Number(w)
        /\ Number(source)' = Number(source)
    <3>1. (IsSigned' <=> IsSigned) /\ destination' = destination /\ source' = source
      BY <1>1, SameOperands
    <3> QED
      BY <3>1 DEF Number
  <2>3. LongNumber(result)' = Number(Word(destination))' * Number(source)'
    BY <1>3, <2>1, <2>2 DEF ProductHolds
  <2>4. r \in Longs
    BY <1>3 DEF ProductHolds
  <2>5. Long!Negative(r) <=> Long!Signed(r) < 0
    BY <2>4, LongNumbers
  <2>6. codes'.N <=> Long!Signed(result') < 0
    BY <1>1, <1>4, <2>5 DEF ProductCodes
  <2>7. (codes'.Z <=> result' = 0) /\ ~codes'.C /\ ~codes'.V
    BY <1>1, <1>4 DEF ProductCodes
  <2> QED
    BY <2>3, <2>6, <2>7 DEF ProductCorrect
<1> QED
  BY <1>1, <1>5, <1>7, <1>8 DEF WordInv

(* What a division leaves in the register: the words of the quotient and   *)
(* of the remainder.                                                       *)
QuotientWord ==
  IF QuotientNegative THEN Minus(AbsoluteQuotient, Modulus) ELSE AbsoluteQuotient

RemainderWord ==
  IF DestinationNegative THEN Minus(AbsoluteDestination % AbsoluteSource, Modulus)
  ELSE AbsoluteDestination % AbsoluteSource

LEMMA QuotientWritten ==
  ASSUME WordTypeOK, IsDivision, source # 0, FitsUnsigned, FitsSigned
  PROVE  /\ QuotientWord \in Values /\ Number(QuotientWord) = TheQuotient
         /\ QuotientWord = 0 <=> TheQuotient = 0
<1> DEFINE k == AbsoluteQuotient
           n == QuotientNegative
           w == QuotientWord
<1>1. /\ k \in Nat /\ n \in BOOLEAN /\ (n => IsSigned) /\ k < Modulus
      /\ IsSigned => k <= IF n THEN SignBit ELSE SignBit - 1
  BY QuotientsFit
<1>2. w = (IF n THEN Minus(k, Modulus) ELSE k) /\ TheQuotient = Sign(n, k)
  BY DEF QuotientWord, TheQuotient
<1> HIDE DEF k, n, w
<1>3. /\ n => IsSigned /\ k <= SignBit
      /\ ~n => k <= IF IsSigned THEN SignBit - 1 ELSE Modulus - 1
  BY <1>1, Sizes
<1>4. w \in Values /\ Number(w) = Sign(n, k) /\ (w = 0 <=> k = 0)
  BY <1>1, <1>2, <1>3, WrittenWord
<1>5. Sign(n, k) = 0 <=> k = 0
  BY <1>1 DEF Sign
<1> QED
  BY <1>2, <1>4, <1>5 DEF w

LEMMA RemainderWritten ==
  ASSUME WordTypeOK, IsDivision, source # 0
  PROVE  RemainderWord \in Values /\ Number(RemainderWord) = TheRemainder
<1> DEFINE a == AbsoluteDestination
           b == AbsoluteSource
           k == a % b
           n == DestinationNegative
           w == RemainderWord
<1>1. /\ a \in Nat /\ b \in 1 .. Modulus - 1 /\ b \in Nat \ {0} /\ (IsSigned => b <= SignBit)
      /\ n \in BOOLEAN /\ (n => IsSigned)
  BY DivisionNumbers, Sizes
<1>2. w = (IF n THEN Minus(k, Modulus) ELSE k) /\ TheRemainder = Sign(n, k)
  BY DEF RemainderWord, TheRemainder
<1> HIDE DEF a, b, n, w
<1>3. k \in 0 .. b - 1
  BY <1>1, QuotientBounds
<1> HIDE DEF k
<1>4. /\ k \in Nat
      /\ n => IsSigned /\ k <= SignBit
      /\ ~n => k <= IF IsSigned THEN SignBit - 1 ELSE Modulus - 1
  BY <1>1, <1>3, Sizes
<1>5. w \in Values /\ Number(w) = Sign(n, k)
  BY <1>1, <1>2, <1>4, WrittenWord
<1> QED
  BY <1>2, <1>5 DEF w

LEMMA DivideStep ==
  ASSUME WordInv, Divide
  PROVE  WordInv'
<1> DEFINE q == QuotientWord
           m == RemainderWord
<1>1. /\ UNCHANGED operands /\ phase' = "done" /\ trap' = 0
      /\ IsDivision /\ source # 0 /\ FitsUnsigned /\ FitsSigned
  BY DEF Divide, WordInv
<1>2. /\ result' = q + m * Modulus
      /\ codes' = [codes EXCEPT !.C = FALSE, !.V = FALSE, !.N = Negative(q), !.Z = q = 0]
  BY DEF Divide, QuotientWord, RemainderWord, RemainderNegative
<1>3. WordTypeOK
  BY DEF WordInv
<1> HIDE DEF q, m
<1>4. q \in Values /\ Number(q) = TheQuotient /\ (q = 0 <=> TheQuotient = 0)
  BY <1>1, <1>3, QuotientWritten DEF q
<1>5. m \in Values /\ Number(m) = TheRemainder
  BY <1>1, <1>3, RemainderWritten DEF m
<1>6. result' \in Longs /\ Word(result') = q /\ result' \div Modulus = m
  BY <1>2, <1>4, <1>5, TwoWords
<1>7. codes' \in Codes /\ ~codes'.V /\ (codes'.N <=> Negative(q)) /\ (codes'.Z <=> q = 0)
  <2> DEFINE z == q = 0
             n == Negative(q)
  <2>1. z \in BOOLEAN /\ n \in BOOLEAN
    BY DEF Negative
  <2> HIDE DEF z, n
  <2>2. codes' = [codes EXCEPT !.C = FALSE, !.V = FALSE, !.N = n, !.Z = z]
    BY <1>2 DEF z, n
  <2>3. codes' \in Codes /\ ~codes'.V /\ codes'.N = n /\ codes'.Z = z
    BY <1>3, <2>1, <2>2 DEF WordTypeOK, Codes
  <2> QED
    BY <2>3 DEF z, n
<1>8. WordTypeOK'
  BY <1>1, <1>3, <1>6, <1>7, SameOperands DEF WordTypeOK
<1>9. ~(instruction' \in {"MULU", "MULS"}) /\ instruction' # "CHK"
  BY <1>1, SameOperands DEF IsDivision
<1>10. ProductCorrect' /\ CheckTrapsOutside'
  BY <1>9 DEF ProductCorrect, CheckTrapsOutside
<1>11. QuotientCorrect'
  <2>1. (IsSigned' <=> IsSigned) /\ source' = source /\ destination' = destination
    BY <1>1, SameOperands
  <2>2. Number(Word(result))' = TheQuotient
    <3>1. Number(Word(result))' = Number(q)
      BY <1>6, <2>1 DEF Number, Word
    <3> QED
      BY <1>4, <3>1
  <2>3. Number(result \div Modulus)' = TheRemainder
    <3>1. Number(result \div Modulus)' = Number(m)
      BY <1>6, <2>1 DEF Number
    <3> QED
      BY <1>5, <3>1
  <2>4. /\ Number(source)' = Number(source)
        /\ LongNumber(destination)' = LongNumber(destination)
    BY <2>1 DEF Number, LongNumber
  <2>5. /\ IsQuotient(TheQuotient)
        /\ LongNumber(destination) - TheQuotient * Number(source) = TheRemainder
    BY <1>1, <1>3, QuotientsAre
  <2> DEFINE t == Number(Word(result))'
  <2>6. t = TheQuotient
    BY <2>2
  <2>7. Number(result \div Modulus)'
          = LongNumber(destination)' - t * Number(source)'
    BY <2>3, <2>4, <2>5, <2>6
  <2>8. AbsoluteSource' = AbsoluteSource
    BY <2>1 DEF AbsoluteSource, AbsoluteWord
  <2>9. LET d == LongNumber(destination)' - t * Number(source)'
        IN  /\ -AbsoluteSource' < d /\ d < AbsoluteSource'
            /\ d # 0 => (d < 0 <=> LongNumber(destination)' < 0)
    BY <2>4, <2>5, <2>6, <2>8 DEF IsQuotient
  <2>10. codes'.N <=> Signed(Word(result')) < 0
    <3>1. Negative(q) <=> Signed(q) < 0
      BY <1>4, Sizes DEF Negative, Signed
    <3> QED
      BY <1>6, <1>7, <3>1
  <2>11. codes'.Z <=> t = 0
    BY <1>4, <1>7, <2>6
  <2> HIDE DEF t
  <2> QED
    BY <2>7, <2>9, <2>10, <2>11 DEF QuotientCorrect, IsQuotient, Word, t
<1>12. OverflowExact'
  <2>1. QuotientHeld'
    BY <1>1, <1>3, TestsAreExact, SameQuotients
  <2>2. trap' # 5 /\ trap' = 0 /\ source' # 0
    BY <1>1, SameOperands
  <2> QED
    BY <1>7, <2>1, <2>2 DEF OverflowExact, QuotientHeld
<1> QED
  BY <1>1, <1>8, <1>10, <1>11, <1>12 DEF WordInv

LEMMA CheckStep ==
  ASSUME WordInv, CHK
  PROVE  WordInv'
<1> DEFINE v == Word(destination)
<1>1. /\ UNCHANGED operands /\ phase' = "done" /\ instruction = "CHK" /\ result' = result
      /\ codes' = [codes EXCEPT !.C = FALSE, !.V = FALSE, !.Z = FALSE, !.N = Negative(v)]
      /\ trap' = IF Negative(v) \/ Above(v, source) THEN 6 ELSE 0
  BY DEF CHK
<1>2. WordTypeOK /\ v \in Values /\ source \in Values
  BY LowWord DEF WordInv, WordTypeOK
<1> HIDE DEF v
<1>3. codes' \in Codes /\ (codes'.N <=> Negative(v))
  <2> DEFINE n == Negative(v)
  <2>1. n \in BOOLEAN
    BY DEF Negative
  <2> HIDE DEF n
  <2>2. codes' \in Codes /\ codes'.N = n
    BY <1>1, <1>2, <2>1 DEF WordTypeOK, Codes, n
  <2> QED
    BY <2>2 DEF n
<1>4. WordTypeOK'
  BY <1>1, <1>2, <1>3, SameOperands DEF WordTypeOK
<1>5. /\ instruction' = "CHK" /\ ~IsDivision' /\ ~(instruction' \in {"MULU", "MULS"})
      /\ source' = source /\ destination' = destination
  BY <1>1, SameOperands DEF IsDivision
<1>6. ProductCorrect' /\ QuotientCorrect' /\ OverflowExact'
  BY <1>5 DEF ProductCorrect, QuotientCorrect, OverflowExact
<1>7. Negative(v) <=> Signed(v) < 0
  BY <1>2, Sizes DEF Negative, Signed
<1>8. Above(v, source) <=> Signed(v) > Signed(source)
  BY <1>2, Sizes DEF Above, Flipped, Negative, Signed
<1>9. trap' = 6 <=> (Signed(v) < 0 \/ Signed(v) > Signed(source))
  BY <1>1, <1>7, <1>8
<1>10. CheckTrapsOutside'
  <2>1. Signed(Word(destination'))  = Signed(v) /\ Signed(source') = Signed(source)
    BY <1>5 DEF v
  <2> QED
    BY <1>3, <1>7, <1>9, <2>1 DEF CheckTrapsOutside, Word
<1> QED
  BY <1>1, <1>4, <1>6, <1>10 DEF WordInv

LEMMA WordSteps ==
  ASSUME WordInv, [WordNext]_wordVars
  PROVE  WordInv'
<1>1. CASE MULCommon
  BY <1>1, ProductStep
<1>2. CASE DivideByZero
  BY <1>2, ZeroStep
<1>3. CASE DivideTooLarge
  BY <1>3, TooLargeStep
<1>4. CASE StartDivision
  <2>1. /\ UNCHANGED operands /\ UNCHANGED <<result, codes, trap>> /\ phase = "start"
        /\ phase' \in {"duration", "quotient"} /\ IsDivision /\ source # 0 /\ FitsUnsigned
    BY <1>4 DEF StartDivision
  <2> QED
    BY <2>1, OnlyBegun
<1>5. CASE DurationRound
  <2>1. UNCHANGED operands /\ UNCHANGED <<result, codes, trap>> /\ phase = "duration"
        /\ phase' = phase /\ IsDivision /\ source # 0 /\ FitsUnsigned
    BY <1>5 DEF DurationRound, WordInv
  <2> QED
    BY <2>1, OnlyBegun
<1>6. CASE DurationEnd
  <2>1. UNCHANGED operands /\ UNCHANGED <<result, codes, trap>> /\ phase = "duration"
        /\ phase' = "quotient" /\ IsDivision /\ source # 0 /\ FitsUnsigned
    BY <1>6 DEF DurationEnd, WordInv
  <2> QED
    BY <2>1, OnlyBegun
<1>7. CASE Divide
  BY <1>7, DivideStep
<1>8. CASE DivideOverflows
  BY <1>8, OverflowStep
<1>9. CASE CHK
  BY <1>9, CheckStep
<1>10. CASE UNCHANGED wordVars
  <2>1. /\ UNCHANGED operands /\ UNCHANGED <<result, codes, trap, phase>>
    BY <1>10 DEF wordVars, operands
  <2>2. /\ instruction' = instruction /\ source' = source /\ destination' = destination
        /\ IsSigned' <=> IsSigned
        /\ IsDivision' <=> IsDivision
        /\ FitsUnsigned' <=> FitsUnsigned
    BY <2>1, SameOperands
  <2>3. /\ AbsoluteSource' = AbsoluteSource
        /\ \A q : IsQuotient(q)' <=> IsQuotient(q)
    BY <2>1, <2>2, SameQuotients DEF AbsoluteSource, AbsoluteWord
  <2>4. WordTypeOK'
    BY <2>1, <2>2 DEF WordInv, WordTypeOK
  <2>5. ProductCorrect'
    BY <2>1, <2>2 DEF WordInv, ProductCorrect, Done, LongNumber, Number
  <2>6. QuotientCorrect'
    BY <2>1, <2>2, <2>3 DEF WordInv, QuotientCorrect, Done, LongNumber, Number, IsQuotient
  <2>7. OverflowExact'
    BY <2>1, <2>2, <2>3, SameQuotients DEF WordInv, OverflowExact, QuotientHeld
  <2>8. CheckTrapsOutside'
    BY <2>1, <2>2 DEF WordInv, CheckTrapsOutside
  <2> QED
    BY <2>1, <2>2, <2>4, <2>5, <2>6, <2>7, <2>8 DEF WordInv
<1> QED
  BY <1>1, <1>2, <1>3, <1>4, <1>5, <1>6, <1>7, <1>8, <1>9, <1>10 DEF WordNext

LEMMA WordInitially ==
  ASSUME WordInit
  PROVE  WordInv
<1>1. WordTypeOK /\ phase = "start" /\ trap = 0 /\ result = destination
  BY DEF WordInit, WordTypeOK
<1> QED
  BY <1>1 DEF WordInv, ProductCorrect, QuotientCorrect, OverflowExact, CheckTrapsOutside, Done

LEMMA WordsAlways == WordSpec => []WordInv
  BY WordInitially, WordSteps, PTL DEF WordSpec

(* MULU and MULS, which multiply absolute values and put the sign back,    *)
(* leave the product of the two words, for a word of any size, and N and Z *)
(* of the longword (Action_MULCommon).                                     *)
THEOREM ProductsHold == WordSpec => []ProductCorrect
<1>1. WordInv => ProductCorrect
  BY DEF WordInv
<1> QED
  BY <1>1, WordsAlways, PTL

(* DIVU and DIVS, when they signal no overflow, leave the one quotient     *)
(* whose remainder is smaller than the divisor and has the sign of the     *)
(* dividend, and that remainder (Action_DIVCommon).                        *)
THEOREM QuotientsHold == WordSpec => []QuotientCorrect
<1>1. WordInv => QuotientCorrect
  BY DEF WordInv
<1> QED
  BY <1>1, WordsAlways, PTL

(* The two overflow tests, one before the division and one after it, set V *)
(* exactly when no word holds the quotient; the register then keeps its    *)
(* operand, as it does when a division by zero is trapped                  *)
(* (Action_DIVCommon).                                                     *)
THEOREM QuotientOverflowHolds == WordSpec => []OverflowExact
<1>1. WordInv => OverflowExact
  BY DEF WordInv
<1> QED
  BY <1>1, WordsAlways, PTL

(* CHK, which compares words with their sign bits flipped, traps exactly   *)
(* the registers below zero and those above the bound, and N tells which   *)
(* (Action_CHK).                                                           *)
THEOREM ChecksHold == WordSpec => []CheckTrapsOutside
<1>1. WordInv => CheckTrapsOutside
  BY DEF WordInv
<1> QED
  BY <1>1, WordsAlways, PTL

(* All five instructions with a word for a source leave in operand, codes  *)
(* and exception what the numbers require (Action_MULCommon,               *)
(* Action_DIVCommon, Action_CHK).                                          *)
THEOREM WordsHold == WordSpec => []WordsCompute
<1>1. WordInv => WordsCompute
  BY DEF WordInv, WordsCompute
<1> QED
  BY <1>1, WordsAlways, PTL

(***************************************************************************)
(* Powers of two, as the numbers of subsets of a set.                      *)
(***************************************************************************)

LEMMA Subsets ==
  ASSUME NEW n \in Nat
  PROVE  /\ IsFiniteSet(SUBSET (1 .. n)) /\ Cardinality(SUBSET (1 .. n)) = 2 ^ n
         /\ 2 ^ n \in Nat \ {0}
<1>1. IsFiniteSet(1 .. n) /\ Cardinality(1 .. n) = n
  BY FS_Interval
<1>2. IsFiniteSet(SUBSET (1 .. n)) /\ Cardinality(SUBSET (1 .. n)) = 2 ^ n
  BY <1>1, FS_SUBSET
<1>3. Cardinality(SUBSET (1 .. n)) \in Nat
  BY <1>2, FS_CardinalityType
<1>4. SUBSET (1 .. n) # {}
  BY Zenon
<1>5. Cardinality(SUBSET (1 .. n)) # 0
  BY <1>2, <1>4, FS_EmptySet
<1> QED
  BY <1>2, <1>3, <1>5

LEMMA PowerDouble ==
  ASSUME NEW n \in Nat
  PROVE  2 ^ (n + 1) = 2 * 2 ^ n
<1> DEFINE z == n + 1
           A == 1 .. n
           B == 1 .. z
           P == SUBSET A
           Q == {s \cup {z} : s \in P}
           f == [s \in P |-> s \cup {z}]
<1>1. z \in Nat /\ z \notin A /\ B = A \cup {z}
  OBVIOUS
<1>2. IsFiniteSet(P) /\ Cardinality(P) = 2 ^ n /\ 2 ^ n \in Nat \ {0}
  BY Subsets
<1>3. Cardinality(SUBSET B) = 2 ^ z
  <2> HIDE DEF z
  <2> QED
    BY <1>1, Subsets
<1> HIDE DEF z, A, B
<1>4. SUBSET B = P \cup Q
  <2>1. ASSUME NEW t \in SUBSET B PROVE t \in P \cup Q
    <3>1. CASE z \in t
      <4>1. t = (t \ {z}) \cup {z} /\ t \ {z} \in P
        BY <1>1, <2>1, <3>1
      <4> QED
        BY <4>1
    <3>2. CASE z \notin t
      BY <1>1, <2>1, <3>2
    <3> QED
      BY <3>1, <3>2
  <2>2. P \subseteq SUBSET B /\ Q \subseteq SUBSET B
    BY <1>1
  <2> QED
    BY <2>1, <2>2
<1>5. P \cap Q = {}
  BY <1>1
<1>6. f \in Bijection(P, Q)
  <2>1. f \in [P -> Q]
    OBVIOUS
  <2>2. \A s, t \in P : f[s] = f[t] => s = t
    BY <1>1
  <2>3. \A t \in Q : \E s \in P : f[s] = t
    OBVIOUS
  <2> QED
    BY <2>1, <2>2, <2>3 DEF Bijection, Injection, Surjection, IsInjective
<1>7. IsFiniteSet(Q) /\ Cardinality(Q) = Cardinality(P)
  <2>1. ExistsBijection(P, Q)
    BY <1>6 DEF ExistsBijection
  <2> HIDE DEF P, Q
  <2> QED
    BY <1>2, <2>1, FS_Bijection
<1>8. Cardinality(P \cup Q) = Cardinality(P) + Cardinality(Q) - Cardinality(P \cap Q)
  <2> HIDE DEF P, Q
  <2> QED
    BY <1>2, <1>7, FS_Union
<1>9. Cardinality(P \cap Q) = 0
  BY <1>5, FS_EmptySet
<1> HIDE DEF P, Q
<1>10. Cardinality(SUBSET B) = 2 * 2 ^ n
  <2>1. Cardinality(SUBSET B) = Cardinality(P \cup Q)
    BY <1>4, Zenon
  <2> QED
    BY <1>2, <1>7, <1>8, <1>9, <2>1
<1> QED
  BY <1>3, <1>10 DEF z

LEMMA PowerGrows ==
  ASSUME NEW a \in Nat, NEW b \in Nat, a <= b
  PROVE  2 ^ a <= 2 ^ b
<1> DEFINE P == SUBSET (1 .. a)
           Q == SUBSET (1 .. b)
<1>1. P \in SUBSET Q
  OBVIOUS
<1>2. IsFiniteSet(Q) /\ Cardinality(P) = 2 ^ a /\ Cardinality(Q) = 2 ^ b
  BY Subsets
<1> HIDE DEF P, Q
<1>3. Cardinality(P) <= Cardinality(Q)
  BY <1>1, <1>2, FS_Subset
<1> QED
  BY <1>2, <1>3

LEMMA Powers ==
  /\ 2 ^ 0 = 1 /\ 2 ^ Width = Modulus /\ 2 ^ (Width - 1) = SignBit
  /\ Width \in Nat \ {0}
<1>1. Width \in Nat \ {0} /\ Modulus = 2 ^ Width
  BY WidthAssumption
<1>2. 2 ^ 0 = 1
  OBVIOUS
<1> DEFINE p == Width - 1
<1>3. p \in Nat /\ Width = p + 1
  BY <1>1
<1> HIDE DEF p
<1>4. 2 ^ (p + 1) = 2 * 2 ^ p /\ 2 ^ p \in Nat \ {0}
  BY <1>3, PowerDouble, Subsets
<1>5. 2 * 2 ^ p = 2 * SignBit
  <2>1. 2 ^ Width = 2 ^ (p + 1)
    BY <1>3
  <2> QED
    BY <1>1, <1>4, <2>1, Sizes
<1>6. 2 ^ p = SignBit
  BY <1>4, <1>5, Sizes
<1> QED
  BY <1>1, <1>2, <1>6 DEF p

(***************************************************************************)
(* The bits of twice a number, and how many there are.                     *)
(***************************************************************************)

LEMMA QuotientDoubled ==
  ASSUME NEW v \in Nat, NEW b \in 0 .. 1, NEW k \in Nat
  PROVE  (2 * v + b) \div 2 ^ (k + 1) = v \div 2 ^ k
<1> DEFINE w == 2 ^ k
           q == v \div w
           m == v % w
<1>1. w \in Nat \ {0}
  BY Subsets
<1>2. 2 ^ (k + 1) = 2 * w
  BY PowerDouble
<1> HIDE DEF w
<1>3. q \in Int /\ m \in 0 .. w - 1 /\ v = q * w + m
  <2>1. v \in Int
    OBVIOUS
  <2>2. Composed(v, w, v \div w, v % w)
    BY <1>1, <2>1, DivMod
  <2> QED
    BY <2>2 DEF Composed
<1> HIDE DEF q, m
<1> DEFINE x == 2 * w
           n == 2 * m + b
<1>4. x \in Nat \ {0} /\ n \in 0 .. x - 1
  BY <1>1, <1>3
<1>5. 2 * v + b = q * x + n
  <2>1. q * (2 * w) = 2 * (q * w) /\ q * w \in Int
    BY <1>1, <1>3
  <2> QED
    BY <1>3, <2>1
<1> HIDE DEF x, n
<1>6. QuotientIs(2 * v + b, x, q, n)
  BY <1>3, <1>4, <1>5, Divided
<1> QED
  BY <1>2, <1>6 DEF QuotientIs, x, q, w

(* A number below a power of two has no bit there. *)
LEMMA NoBitAbove ==
  ASSUME NEW v \in Nat, v < Modulus
  PROVE  v \div 2 ^ Width = 0
<1>1. 2 ^ Width = Modulus /\ Modulus \in Nat \ {0}
  BY Powers, Sizes
<1>2. QuotientIs(v, Modulus, 0, v)
  BY <1>1, Divided
<1> QED
  BY <1>1, <1>2 DEF QuotientIs

LEMMA BitsDoubled ==
  ASSUME NEW v \in Nat, v < Modulus, NEW b \in 0 .. 1
  PROVE  Bits(2 * v + b) = {k + 1 : k \in Bits(v)} \cup (IF b = 1 THEN {0} ELSE {})
<1> DEFINE u == 2 * v + b
<1>1. Width \in Nat \ {0} /\ u \in Nat
  BY Powers
<1>2. 0 \in Bits(u) <=> b = 1
  <2>1. u \div 2 ^ 0 = u
    <3>1. 2 ^ 0 = 1
      BY Powers
    <3>2. u \div 1 = u
      BY <1>1
    <3> HIDE DEF u
    <3> QED
      BY <3>1, <3>2
  <2>2. u % 2 = b
    OBVIOUS
  <2> QED
    BY <1>1, <2>1, <2>2 DEF Bits
<1>3. ASSUME NEW k \in Nat PROVE k + 1 \in Bits(u) <=> k \in Bits(v)
  <2>1. u \div 2 ^ (k + 1) = v \div 2 ^ k
    BY QuotientDoubled
  <2>2. CASE k < Width
    <3>1. k + 1 \in 0 .. Width /\ k \in 0 .. Width
      BY <1>1, <2>2
    <3> HIDE DEF u
    <3> QED
      BY <2>1, <3>1 DEF Bits
  <2>3. CASE k >= Width
    <3>1. k + 1 \notin 0 .. Width
      BY <1>1, <2>3
    <3>2. k \notin Bits(v)
      <4>1. CASE k = Width
        <5>1. v \div 2 ^ Width = 0
          BY NoBitAbove
        <5>2. v \div 2 ^ k = 0 /\ 0 % 2 # 1
          BY <4>1, <5>1
        <5>3. (v \div 2 ^ k) % 2 # 1
          BY <5>2
        <5> QED
          BY <5>3, Zenon DEF Bits
      <4>2. CASE k # Width
        BY <1>1, <2>3, <4>2 DEF Bits
      <4> QED
        BY <4>1, <4>2
    <3> QED
      BY <3>1, <3>2 DEF Bits
  <2> QED
    BY <1>1, <2>2, <2>3
<1>4. Bits(u) \subseteq Nat /\ Bits(v) \subseteq Nat
  BY <1>1 DEF Bits
<1> HIDE DEF u
<1>5. ASSUME NEW j \in Bits(u)
      PROVE  j \in {k + 1 : k \in Bits(v)} \cup (IF b = 1 THEN {0} ELSE {})
  <2>1. CASE j = 0
    BY <1>2, <2>1
  <2>2. CASE j # 0
    <3>1. j - 1 \in Nat /\ (j - 1) + 1 = j
      BY <1>4, <2>2
    <3>2. j - 1 \in Bits(v)
      BY <1>3, <3>1
    <3> QED
      BY <3>1, <3>2
  <2> QED
    BY <2>1, <2>2
<1>6. ASSUME NEW j \in {k + 1 : k \in Bits(v)} \cup (IF b = 1 THEN {0} ELSE {})
      PROVE  j \in Bits(u)
  BY <1>2, <1>3, <1>4, <1>6
<1> QED
  BY <1>5, <1>6 DEF u

LEMMA FiniteBits ==
  ASSUME NEW v
  PROVE  IsFiniteSet(Bits(v)) /\ CountBitsSet(v) \in Nat
<1>1. IsFiniteSet(0 .. Width) /\ Bits(v) \in SUBSET (0 .. Width)
  BY Powers, FS_Interval DEF Bits
<1>2. IsFiniteSet(Bits(v))
  BY <1>1, FS_Subset
<1> QED
  BY <1>2, FS_CardinalityType DEF CountBitsSet

LEMMA CountDoubled ==
  ASSUME NEW v \in Nat, v < Modulus, NEW b \in 0 .. 1
  PROVE  CountBitsSet(2 * v + b) = CountBitsSet(v) + b
<1> DEFINE S == Bits(v)
           T == {k + 1 : k \in S}
           f == [k \in S |-> k + 1]
<1>1. IsFiniteSet(S) /\ Cardinality(S) \in Nat
  BY FiniteBits DEF CountBitsSet
<1>2. S \subseteq Nat
  BY Powers DEF Bits
<1>3. Bits(2 * v + b) = T \cup (IF b = 1 THEN {0} ELSE {})
  BY BitsDoubled
<1> HIDE DEF S
<1>4. f \in Bijection(S, T)
  <2>1. f \in [S -> T]
    OBVIOUS
  <2>2. \A s, t \in S : f[s] = f[t] => s = t
    BY <1>2
  <2>3. \A t \in T : \E s \in S : f[s] = t
    OBVIOUS
  <2> QED
    BY <2>1, <2>2, <2>3 DEF Bijection, Injection, Surjection, IsInjective
<1>5. IsFiniteSet(T) /\ Cardinality(T) = Cardinality(S)
  <2>1. ExistsBijection(S, T)
    BY <1>4 DEF ExistsBijection
  <2> HIDE DEF T
  <2> QED
    BY <1>1, <2>1, FS_Bijection
<1>6. 0 \notin T
  BY <1>2
<1> HIDE DEF T
<1>7. CASE b = 1
  <2>1. Cardinality(T \cup {0}) = Cardinality(T) + 1
    BY <1>5, <1>6, FS_AddElement
  <2> QED
    BY <1>3, <1>5, <1>7, <2>1 DEF CountBitsSet, S
<1>8. CASE b = 0
  <2>1. T \cup {} = T
    OBVIOUS
  <2> QED
    BY <1>1, <1>3, <1>5, <1>8, <2>1 DEF CountBitsSet, S
<1> QED
  BY <1>7, <1>8

LEMMA NoBits == CountBitsSet(0) = 0
<1>1. \A k \in 0 .. Width : 0 \div 2 ^ k = 0
  <2> TAKE k \in 0 .. Width
  <2> DEFINE w == 2 ^ k
  <2>1. w \in Nat \ {0}
    <3>1. k \in Nat
      BY Powers
    <3> QED
      BY <3>1, Subsets
  <2> HIDE DEF w
  <2>2. 0 \div w = 0
    BY <2>1
  <2> QED
    BY <2>2 DEF w
<1>2. Bits(0) = {}
  BY <1>1 DEF Bits
<1> QED
  BY <1>2, FS_EmptySet DEF CountBitsSet

(***************************************************************************)
(* The two halves of the changes between neighbouring bits.                *)
(***************************************************************************)

(* Where a bit of twice the source differs from the next. *)
Changes ==
  {k \in 0 .. Width - 1 : (k \in Bits(2 * source)) # (k + 1 \in Bits(2 * source))}

LEMMA BitsOfSource ==
  ASSUME source \in Values
  PROVE  {k \in 0 .. Width - 1 :
            ((2 * source) \div 2 ^ k) % 2 # (source \div 2 ^ k) % 2} = Changes
<1> DEFINE u == 2 * source
<1>1. source \in Nat /\ u \in Nat /\ Width \in Nat \ {0}
  BY Powers, Sizes
<1>2. ASSUME NEW k \in 0 .. Width - 1
      PROVE  (u \div 2 ^ k) % 2 # (source \div 2 ^ k) % 2
               <=> (k \in Bits(u)) # (k + 1 \in Bits(u))
  <2>1. k \in Nat /\ k \in 0 .. Width /\ k + 1 \in 0 .. Width /\ k + 1 \in Nat
    BY <1>1
  <2>2. u \div 2 ^ (k + 1) = source \div 2 ^ k
    <3>1. (2 * source + 0) \div 2 ^ (k + 1) = source \div 2 ^ k /\ 2 * source + 0 = u
      BY <1>1, <2>1, QuotientDoubled
    <3> HIDE DEF u
    <3> QED
      BY <3>1
  <2> HIDE DEF u
  <2>3. (k \in Bits(u) <=> (u \div 2 ^ k) % 2 = 1)
        /\ (k + 1 \in Bits(u) <=> (u \div 2 ^ (k + 1)) % 2 = 1)
    BY <2>1 DEF Bits
  <2> DEFINE x == u \div 2 ^ k
             y == source \div 2 ^ k
  <2>4. x \in Int /\ y \in Int
    <3> DEFINE w == 2 ^ k
    <3>1. w \in Nat \ {0}
      BY <2>1, Subsets
    <3> HIDE DEF w
    <3>2. u \div w \in Int /\ source \div w \in Int
      BY <1>1, <3>1
    <3> QED
      BY <3>2 DEF w
  <2>5. (k \in Bits(u) <=> x % 2 = 1) /\ (k + 1 \in Bits(u) <=> y % 2 = 1)
    BY <2>2, <2>3
  <2> HIDE DEF x, y
  <2>6. x % 2 \in 0 .. 1 /\ y % 2 \in 0 .. 1
    BY <2>4
  <2>7. x % 2 # y % 2 <=> (k \in Bits(u)) # (k + 1 \in Bits(u))
    BY <2>5, <2>6
  <2> QED
    BY <2>7 DEF x, y
<1> HIDE DEF u
<1>3. {k \in 0 .. Width - 1 : (u \div 2 ^ k) % 2 # (source \div 2 ^ k) % 2}
        = {k \in 0 .. Width - 1 : (k \in Bits(u)) # (k + 1 \in Bits(u))}
  BY <1>2, Zenon
<1> QED
  BY <1>3 DEF Changes, u

LEMMA PatternsCounted ==
  ASSUME source \in Values
  PROVE  Patterns = Cardinality(Changes)
<1> DEFINE B == Bits(2 * source)
           E == {k \in 0 .. Width : k % 2 = 0}
           U == {k \in E \ {0} : (k \in B) # (k - 1 \in B)}
           V == {k \in E \ {Width} : (k \in B) # (k + 1 \in B)}
           O == {k \in Changes : k % 2 = 1}
           f == [k \in U |-> k - 1]
<1>1. Patterns = Cardinality(U) + Cardinality(V)
  BY DEF Patterns
<1>2. Width \in Nat \ {0}
  BY Powers
<1>3. IsFiniteSet(0 .. Width) /\ U \in SUBSET (0 .. Width)
      /\ V \in SUBSET (0 .. Width) /\ O \in SUBSET (0 .. Width)
  BY <1>2, FS_Interval DEF Changes
<1>4. Changes = {k \in 0 .. Width - 1 : (k \in B) # (k + 1 \in B)}
  BY DEF Changes
<1> HIDE DEF B
<1>5. IsFiniteSet(U) /\ IsFiniteSet(V) /\ IsFiniteSet(O)
  <2> HIDE DEF U, V, O
  <2> QED
    BY <1>3, FS_Subset
<1>6. V = {k \in Changes : k % 2 = 0}
  BY <1>2, <1>4
<1>7. f \in Bijection(U, O)
  <2>1. ASSUME NEW k \in U PROVE k \in Int /\ k - 1 \in O
    <3>1. k \in 0 .. Width /\ k % 2 = 0 /\ k # 0 /\ (k \in B) # (k - 1 \in B)
      OBVIOUS
    <3>2. k - 1 \in 0 .. Width - 1 /\ (k - 1) % 2 = 1 /\ (k - 1) + 1 = k
      BY <1>2, <3>1
    <3>3. k - 1 \in Changes
      BY <1>4, <3>1, <3>2
    <3> QED
      BY <3>1, <3>2, <3>3
  <2>2. ASSUME NEW j \in O PROVE j + 1 \in U /\ (j + 1) - 1 = j
    <3>1. j \in 0 .. Width - 1 /\ j % 2 = 1 /\ (j \in B) # (j + 1 \in B)
      BY <1>4
    <3>2. j + 1 \in 0 .. Width /\ (j + 1) % 2 = 0 /\ j + 1 # 0 /\ (j + 1) - 1 = j
      BY <1>2, <3>1
    <3> QED
      BY <3>1, <3>2
  <2> HIDE DEF U, O
  <2>3. f \in [U -> O]
    BY <2>1
  <2>4. \A s, t \in U : f[s] = f[t] => s = t
    BY <2>1
  <2>5. \A t \in O : \E s \in U : f[s] = t
    BY <2>2
  <2> QED
    BY <2>3, <2>4, <2>5 DEF Bijection, Injection, Surjection, IsInjective
<1>8. Cardinality(O) = Cardinality(U)
  <2>1. ExistsBijection(U, O)
    BY <1>7 DEF ExistsBijection
  <2> HIDE DEF U, O
  <2> QED
    BY <1>5, <2>1, FS_Bijection
<1>9. Changes = O \cup V /\ O \cap V = {}
  <2>1. \A k \in Changes : k % 2 \in {0, 1}
    BY <1>2, <1>4
  <2> HIDE DEF V
  <2>2. \A k \in V : k \in Changes /\ k % 2 = 0
    BY <1>6
  <2>3. \A k \in Changes : k % 2 = 0 => k \in V
    BY <1>6
  <2> QED
    BY <2>1, <2>2, <2>3
<1> HIDE DEF U, V, O
<1>10. Cardinality(O \cup V) = Cardinality(O) + Cardinality(V) - Cardinality(O \cap V)
  BY <1>5, FS_Union
<1>11. Cardinality(O \cap V) = 0
  BY <1>9, FS_EmptySet
<1>12. Cardinality(U) \in Nat /\ Cardinality(V) \in Nat
  BY <1>5, FS_CardinalityType
<1>13. Cardinality(Changes) = Cardinality(O \cup V)
  BY <1>9, Zenon
<1> QED
  BY <1>1, <1>8, <1>10, <1>11, <1>12, <1>13

(***************************************************************************)
(* The loop that measures DIVU, as long division: after so many rounds the *)
(* bits decided on and what is left of the dividend make up the dividend,  *)
(* shifted by as many bits; and the cycles go with the bits decided on.    *)
(***************************************************************************)

Counted(rounds) ==
  LET ones == CountBitsSet(decided)
  IN  /\ cycles \in Int
      /\ 72 + 4 * (rounds - ones) <= cycles
      /\ cycles <= 72 + 4 * (rounds - ones) + 2 * ones

Measured(rounds) ==
  /\ decided \in Nat /\ working \in 0 .. source * Modulus - 1
  /\ decided * (source * Modulus) + working = destination * 2 ^ rounds
  /\ Counted(rounds)

DurationInv ==
  /\ phase = "start" => round = 0 /\ decided = 0 /\ cycles = 0
  /\ phase = "duration" =>
       instruction = "DIVU" /\ round \in 0 .. Width - 1 /\ Measured(round)
  /\ phase = "quotient" /\ instruction = "DIVU" => Measured(Width - 1)
  /\ Done /\ instruction = "DIVU" /\ ~codes.V =>
       decided = Word(result) \div 2 /\ Counted(Width - 1)
  /\ ProductDuration

LEMMA Unsigned ==
  ASSUME instruction = "DIVU"
  PROVE  /\ ~IsSigned /\ IsDivision /\ ~QuotientNegative /\ ~DestinationNegative
         /\ AbsoluteSource = source /\ AbsoluteDestination = destination
<1>1. ~IsSigned /\ IsDivision
  BY DEF IsSigned, IsDivision
<1>2. DestinationNegative = FALSE /\ SourceNegative = FALSE
  BY <1>1 DEF DestinationNegative, SourceNegative
<1>3. AbsoluteSource = source
  BY <1>1, Zenon DEF AbsoluteSource, AbsoluteWord
<1>4. AbsoluteDestination = destination
  BY <1>2, Zenon DEF AbsoluteDestination
<1>5. ~QuotientNegative
  BY <1>2, Zenon DEF QuotientNegative
<1> QED
  BY <1>1, <1>2, <1>3, <1>4, <1>5

LEMMA UnsignedNumbers ==
  ASSUME WordInv, instruction = "DIVU", source # 0, FitsUnsigned
  PROVE  /\ source \in Nat \ {0} /\ source < Modulus /\ destination \in Nat
         /\ source * Modulus \in Nat \ {0} /\ destination < source * Modulus
         /\ 2 * (SignBit * Modulus) > source * Modulus
<1>1. source \in 1 .. Modulus - 1 /\ destination \in Nat
  <2>1. source \in Values /\ destination \in Longs
    BY DEF WordInv, WordTypeOK
  <2> QED
    BY <2>1, Sizes, LongSizes
<1>2. source > destination \div Modulus
  BY Unsigned DEF FitsUnsigned
<1>3. destination < source * Modulus
  BY <1>1, <1>2, FirstTest
<1>4. source * Modulus \in Nat \ {0}
  BY <1>1, Sizes
<1>5. (source + 1) * Modulus <= Modulus * Modulus
      /\ (source + 1) * Modulus = source * Modulus + Modulus
  BY <1>1, Sizes
<1> QED
  BY <1>1, <1>3, <1>4, <1>5, Sizes, LongSizes DEF LongModulus

LEMMA DurationBegins ==
  ASSUME WordInv, DurationInv, StartDivision
  PROVE  DurationInv'
<1>1. /\ phase = "start" /\ IsDivision /\ source # 0 /\ FitsUnsigned
      /\ phase' \in {"duration", "quotient"}
      /\ instruction' = instruction /\ source' = source /\ destination' = destination
      /\ decided' = 0 /\ round' = 0
  BY DEF StartDivision, operands, DurationInv
<1>2. CASE IsSigned
  <2>1. phase' = "quotient" /\ instruction' # "DIVU"
    BY <1>1, <1>2 DEF StartDivision, IsSigned
  <2> QED
    BY <2>1 DEF DurationInv, Done, ProductDuration
<1>3. CASE ~IsSigned
  <2>1. instruction = "DIVU"
    BY <1>1, <1>3 DEF IsDivision, IsSigned
  <2>2. phase' = "duration" /\ working' = destination /\ cycles' = 72
    BY <1>3, <2>1, Unsigned DEF StartDivision, Entry
  <2>3. /\ destination \in Nat /\ source * Modulus \in Nat \ {0}
        /\ destination < source * Modulus
    BY <1>1, <2>1, UnsignedNumbers
  <2>4. 2 ^ 0 = 1 /\ Width \in Nat \ {0}
    BY Powers
  <2>5. Counted(0)'
    BY <1>1, <2>2, NoBits DEF Counted
  <2> DEFINE x == source * Modulus
             p == 2 ^ 0
  <2>6. 0 * x + destination = destination * p /\ destination \in 0 .. x - 1
    <3>1. x \in Nat /\ p = 1 /\ destination < x
      BY <2>3, <2>4
    <3> HIDE DEF x, p
    <3> QED
      BY <2>3, <3>1
  <2>7. decided' * (source' * Modulus) + working' = destination' * 2 ^ 0
        /\ working' \in 0 .. source' * Modulus - 1
    BY <1>1, <2>2, <2>6
  <2>8. Measured(0)'
    BY <1>1, <2>5, <2>7 DEF Measured
  <2>9. Measured(round)'
    BY <1>1, <2>8
  <2> QED
    BY <1>1, <2>1, <2>2, <2>4, <2>9 DEF DurationInv, Done, ProductDuration
<1> QED
  BY <1>2, <1>3

(* The bits decided on are fewer than the rounds to come.                  *)
LEMMA DecidedSmall ==
  ASSUME NEW d \in Nat, NEW x \in Nat \ {0}, NEW w \in Nat, NEW t \in Nat, t < x,
         NEW p \in Nat \ {0}, d * x + w = t * p
  PROVE  d < p
<1>1. CASE d >= p
  <2>1. d * x >= p * x
    BY <1>1
  <2>2. (t + 1) * p <= x * p /\ (t + 1) * p = t * p + p /\ x * p = p * x
    OBVIOUS
  <2> QED
    BY <2>1, <2>2
<1> QED
  BY <1>1

LEMMA NextRound ==
  ASSUME NEW d \in Nat, NEW x \in Nat, NEW w \in Nat, NEW t \in Nat,
         NEW p \in Nat, NEW b \in 0 .. 1, d * x + w = t * p
  PROVE  (2 * d + b) * x + (2 * w - b * x) = t * (2 * p)
<1>1. (2 * d + b) * x = 2 * (d * x) + b * x /\ t * (2 * p) = 2 * (t * p)
  OBVIOUS
<1>2. d * x \in Int /\ b * x \in Int
  OBVIOUS
<1> QED
  BY <1>1, <1>2

LEMMA RoundKeeps ==
  ASSUME WordInv, DurationInv, DurationRound
  PROVE  DurationInv'
<1> DEFINE x == source * Modulus
           p == 2 ^ round
           h == SignBit * Modulus
           high == working >= h
           less == ~high /\ 2 * working < x
           b == IF less THEN 0 ELSE 1
<1>1. /\ phase = "duration" /\ phase' = "duration" /\ round < Width - 1 /\ round' = round + 1
      /\ instruction' = instruction /\ source' = source /\ destination' = destination
      /\ instruction = "DIVU" /\ round \in 0 .. Width - 1 /\ Measured(round)
      /\ source # 0 /\ FitsUnsigned
  BY DEF DurationRound, operands, DurationInv, WordInv
<1>2. AbsoluteSource = source
  BY <1>1, Unsigned
<1>3. /\ working' = IF less THEN 2 * working ELSE 2 * working - x
      /\ cycles' = cycles + IF high THEN 0 ELSE IF less THEN 4 ELSE 2
      /\ decided' = 2 * decided + Bit(~less)
  BY <1>2 DEF DurationRound, TooSmall
<1>4. /\ destination \in Nat /\ x \in Nat \ {0} /\ destination < x /\ 2 * h > x
      /\ h \in Nat
  BY <1>1, UnsignedNumbers, LongSizes
<1>5. /\ decided \in Nat /\ working \in 0 .. x - 1
      /\ decided * x + working = destination * p
  BY <1>1 DEF Measured
<1>6. Width \in Nat \ {0} /\ round \in Nat /\ p \in Nat \ {0} /\ 2 ^ round' = 2 * p
  <2>1. Width \in Nat \ {0} /\ round \in Nat
    BY <1>1, Powers
  <2>2. p \in Nat \ {0}
    BY <2>1, Subsets
  <2>3. 2 ^ (round + 1) = 2 * p
    BY <2>1, PowerDouble
  <2> QED
    BY <1>1, <2>1, <2>2, <2>3
<1>7. p <= Modulus
  BY <1>1, <1>6, Powers, PowerGrows
<1> DEFINE d == decided
           w == working
           d2 == 2 * d + b
           w2 == 2 * w - b * x
<1>8. b \in 0 .. 1 /\ decided' = d2
  BY <1>3, <1>5 DEF Bit
<1> HIDE DEF x, p, h
<1>9. w2 \in 0 .. x - 1 /\ working' = w2
  <2>1. CASE less
    BY <1>3, <1>4, <1>5, <2>1
  <2>2. CASE ~less
    <3>1. 2 * w >= x
      BY <1>4, <1>5, <2>2
    <3> QED
      BY <1>3, <1>4, <1>5, <2>2, <3>1
  <2> QED
    BY <2>1, <2>2
<1>10. d < Modulus
  <2>1. d < p
    BY <1>4, <1>5, <1>6, DecidedSmall
  <2> QED
    BY <1>5, <1>6, <1>7, <2>1, Sizes
<1>11. /\ less => b = 0 /\ cycles' = cycles + 4
       /\ ~less => b = 1 /\ cycles' \in {cycles, cycles + 2}
  <2>1. CASE less
    BY <1>3, <2>1
  <2>2. CASE ~less
    <3>1. Counted(round)
      BY <1>1 DEF Measured
    <3>2. cycles + 0 = cycles
      BY <3>1 DEF Counted
    <3> HIDE DEF high
    <3> QED
      BY <1>3, <2>2, <3>2
  <2> QED
    BY <2>1, <2>2
<1>12. decided' \in Nat
  BY <1>5, <1>8
<1> HIDE DEF b, less, high
<1>13. d2 * x + w2 = destination * (2 * p)
  BY <1>4, <1>5, <1>6, <1>8, NextRound
<1>14. CountBitsSet(d2) = CountBitsSet(d) + b
  BY <1>5, <1>8, <1>10, CountDoubled
<1>15. CountBitsSet(decided') = CountBitsSet(decided) + b /\ CountBitsSet(decided) \in Nat
  BY <1>8, <1>14, FiniteBits
<1>16. decided' * (source' * Modulus) + working' = destination' * 2 ^ round'
       /\ working' \in 0 .. source' * Modulus - 1
  BY <1>1, <1>6, <1>8, <1>9, <1>13 DEF x
<1>17. Counted(round)'
  <2>1. /\ cycles \in Int
        /\ 72 + 4 * (round - CountBitsSet(decided)) <= cycles
        /\ cycles <= 72 + 4 * (round - CountBitsSet(decided)) + 2 * CountBitsSet(decided)
    BY <1>1 DEF Measured, Counted
  <2>2. cycles' \in Int
    BY <1>11, <2>1
  <2>3. /\ 72 + 4 * (round' - CountBitsSet(decided')) <= cycles'
        /\ cycles' <= 72 + 4 * (round' - CountBitsSet(decided')) + 2 * CountBitsSet(decided')
    <3>1. CASE less
      BY <1>1, <1>6, <1>11, <1>15, <2>1, <3>1
    <3>2. CASE ~less
      BY <1>1, <1>6, <1>11, <1>15, <2>1, <3>2
    <3> QED
      BY <3>1, <3>2
  <2> QED
    BY <2>2, <2>3 DEF Counted
<1>18. Measured(round)'
  BY <1>12, <1>16, <1>17 DEF Measured
<1>19. round' \in 0 .. Width - 1
  BY <1>1, <1>6
<1> QED
  BY <1>1, <1>18, <1>19 DEF DurationInv, Done, ProductDuration

LEMMA MeasuringEnds ==
  ASSUME DurationInv, DurationEnd
  PROVE  DurationInv'
<1>1. /\ phase = "duration" /\ phase' = "quotient" /\ round = Width - 1
      /\ UNCHANGED <<instruction, source, destination, working, decided, cycles>>
      /\ Measured(round)
  BY DEF DurationEnd, operands, DurationInv
<1>2. Measured(Width - 1)
  BY <1>1
<1>3. Measured(Width - 1)'
  BY <1>1, <1>2 DEF Measured, Counted
<1> QED
  BY <1>1, <1>3 DEF DurationInv, Done, ProductDuration

(* After the last round the bits decided on are the quotient's, without    *)
(* its lowest.                                                             *)
LEMMA AllDecided ==
  ASSUME NEW d \in Nat, NEW b \in Nat \ {0}, NEW h \in Nat \ {0}, NEW t \in Nat, NEW w \in Nat,
         w < b * (2 * h), d * (b * (2 * h)) + w = t * h
  PROVE  (t \div b) \div 2 = d
<1> DEFINE n == t - d * (2 * b)
           c == 2 * b
<1>1. d * (b * (2 * h)) = (d * c) * h /\ b * (2 * h) = c * h /\ d * c \in Int
  OBVIOUS
<1>2. n \in Int /\ t = d * c + n /\ c \in Nat \ {0}
  BY <1>1
<1> HIDE DEF n, c
<1>3. n * h = w
  <2>1. t * h = (d * c) * h + n * h
    BY <1>1, <1>2
  <2> QED
    BY <1>1, <1>2, <2>1
<1>4. n >= 0
  <2>1. CASE n < 0
    <3>1. (n + 1) * h <= 0 /\ (n + 1) * h = n * h + h
      BY <1>2, <2>1
    <3> QED
      BY <1>3, <3>1
  <2> QED
    BY <1>2, <2>1
<1>5. n < c
  <2>1. CASE n >= c
    <3>1. n * h >= c * h
      BY <1>2, <2>1
    <3> QED
      BY <1>1, <1>3, <3>1
  <2> QED
    BY <1>2, <2>1
<1>6. QuotientIs(t, c, d, n)
  BY <1>2, <1>4, <1>5, Divided
<1>7. t \div (2 * b) = (t \div b) \div 2
  <2>1. Halved(t, b)
    BY HalvedQuotient
  <2> QED
    BY <2>1 DEF Halved
<1> QED
  BY <1>6, <1>7 DEF QuotientIs, c

LEMMA DivideMeasured ==
  ASSUME WordInv, DurationInv, Divide
  PROVE  DurationInv'
<1>1. /\ phase = "quotient" /\ phase' = "done"
      /\ UNCHANGED <<instruction, source, destination, decided, cycles>>
      /\ IsDivision /\ source # 0 /\ FitsUnsigned /\ FitsSigned
  BY DEF Divide, operands, WordInv
<1>2. CASE instruction = "DIVU"
  <2> DEFINE x == source * Modulus
             p == Width - 1
  <2>1. /\ source \in Nat \ {0} /\ destination \in Nat
    BY <1>1, <1>2, UnsignedNumbers
  <2>2. Measured(p)
    BY <1>1, <1>2 DEF DurationInv
  <2>3. 2 ^ p = SignBit /\ SignBit \in Nat \ {0} /\ Modulus = 2 * SignBit
    BY Powers, Sizes
  <2> HIDE DEF p
  <2>4. /\ decided \in Nat /\ working \in 0 .. x - 1
        /\ decided * x + working = destination * SignBit
    BY <2>2, <2>3 DEF Measured
  <2>5. x = source * (2 * SignBit) /\ x \in Nat
    BY <2>1, <2>3
  <2> HIDE DEF x
  <2>6. /\ working \in Nat /\ working < source * (2 * SignBit)
        /\ decided * (source * (2 * SignBit)) + working = destination * SignBit
    BY <2>4, <2>5
  <2>7. (destination \div source) \div 2 = decided
    BY <2>1, <2>3, <2>4, <2>6, AllDecided
  <2>8. QuotientWord = destination \div source
    <3>1. AbsoluteQuotient = destination \div source
      BY <1>2, Unsigned, Zenon DEF AbsoluteQuotient
    <3> QED
      BY <1>2, <3>1, Unsigned, Zenon DEF QuotientWord
  <2>9. Word(result') = QuotientWord
    <3> DEFINE q == QuotientWord
               m == RemainderWord
    <3>1. result' = q + m * Modulus
      BY DEF Divide, QuotientWord, RemainderWord, RemainderNegative
    <3>2. q \in Values /\ m \in Values
      BY <1>1, QuotientWritten, RemainderWritten DEF WordInv
    <3> HIDE DEF q, m
    <3>3. Word(result') = q
      BY <3>1, <3>2, TwoWords
    <3> QED
      BY <3>3 DEF q
  <2>10. decided' = Word(result') \div 2
    BY <1>1, <2>7, <2>8, <2>9
  <2>11. Counted(p)'
    BY <1>1, <2>2 DEF Measured, Counted
  <2>12. Word(result)' = Word(result')
    BY DEF Word
  <2>13. ~(instruction' = "MULS")
    BY <1>1, <1>2
  <2> QED
    BY <1>1, <2>10, <2>11, <2>12, <2>13 DEF DurationInv, ProductDuration, p
<1>3. CASE instruction # "DIVU"
  BY <1>1, <1>3 DEF DurationInv, ProductDuration, IsDivision
<1> QED
  BY <1>2, <1>3

(* What ends a division otherwise, and CHK, count for themselves alone.    *)
LEMMA EndedOtherwise ==
  ASSUME phase' = "done", instruction' = instruction, instruction # "MULS",
         instruction = "DIVU" => trap' # 0 \/ codes'.V
  PROVE  DurationInv'
BY DEF DurationInv, Done, ProductDuration

LEMMA ProductMeasured ==
  ASSUME WordInv, MULCommon
  PROVE  DurationInv'
<1>1. /\ phase' = "done" /\ instruction' = instruction /\ source' = source
      /\ instruction \in {"MULU", "MULS"} /\ source \in Values
  BY DEF MULCommon, operands, WordInv, WordTypeOK
<1>2. CASE instruction = "MULS"
  <2>1. cycles' = 34 + 2 * Patterns
    BY <1>2 DEF MULCommon, IsSigned
  <2>2. cycles' = 34 + 2 * Cardinality({k \in 0 .. Width - 1 :
                            ((2 * source) \div 2 ^ k) % 2 # (source \div 2 ^ k) % 2})
    BY <1>1, <2>1, PatternsCounted, BitsOfSource, Zenon
  <2>3. ProductDuration'
    BY <1>1, <2>2 DEF ProductDuration
  <2> QED
    BY <1>1, <1>2, <2>3 DEF DurationInv
<1>3. CASE instruction = "MULU"
  BY <1>1, <1>3, EndedOtherwise
<1> QED
  BY <1>1, <1>2, <1>3

LEMMA DurationSteps ==
  ASSUME WordInv, DurationInv, [WordNext]_wordVars
  PROVE  DurationInv'
<1>1. CASE MULCommon
  BY <1>1, ProductMeasured
<1>2. CASE DivideByZero
  <2>1. /\ phase' = "done" /\ instruction' = instruction /\ trap' = 5
        /\ instruction # "MULS"
    BY <1>2 DEF DivideByZero, operands, IsDivision
  <2> QED
    BY <2>1, EndedOtherwise
<1>3. CASE DivideTooLarge
  <2>1. /\ phase' = "done" /\ instruction' = instruction /\ codes' = OverflowCodes
        /\ instruction # "MULS"
    BY <1>3 DEF DivideTooLarge, operands, IsDivision
  <2> QED
    BY <2>1, OverflowCodesAre, EndedOtherwise DEF WordInv, WordTypeOK
<1>4. CASE StartDivision
  BY <1>4, DurationBegins
<1>5. CASE DurationRound
  BY <1>5, RoundKeeps
<1>6. CASE DurationEnd
  BY <1>6, MeasuringEnds
<1>7. CASE Divide
  BY <1>7, DivideMeasured
<1>8. CASE DivideOverflows
  <2>1. /\ phase' = "done" /\ instruction' = instruction /\ codes' = OverflowCodes
        /\ instruction # "MULS"
    BY <1>8 DEF DivideOverflows, operands, WordInv, IsDivision
  <2> QED
    BY <2>1, OverflowCodesAre, EndedOtherwise DEF WordInv, WordTypeOK
<1>9. CASE CHK
  <2>1. phase' = "done" /\ instruction' = instruction /\ instruction = "CHK"
    BY <1>9 DEF CHK, operands
  <2> QED
    BY <2>1, EndedOtherwise
<1>10. CASE UNCHANGED wordVars
  <2>1. UNCHANGED <<instruction, source, destination, result, codes, trap, phase, working,
                    round, decided, cycles>>
    BY <1>10 DEF wordVars
  <2>2. ProductDuration'
    BY <2>1 DEF DurationInv, ProductDuration
  <2> QED
    BY <2>1, <2>2 DEF DurationInv, Measured, Counted, Done, Word
<1> QED
  BY <1>1, <1>2, <1>3, <1>4, <1>5, <1>6, <1>7, <1>8, <1>9, <1>10 DEF WordNext

LEMMA DurationInitially ==
  ASSUME WordInit
  PROVE  DurationInv
BY DEF WordInit, DurationInv, Done, ProductDuration

LEMMA DurationMeant ==
  ASSUME WordInv, DurationInv
  PROVE  DurationsMeasured
<1>1. ASSUME phase = "duration"
      PROVE  /\ 0 <= working /\ working < AbsoluteSource * Modulus
             /\ decided * AbsoluteSource * Modulus + working = destination * 2 ^ round
  <2>1. instruction = "DIVU" /\ Measured(round) /\ source \in Nat
    BY <1>1, Sizes DEF DurationInv, WordInv, WordTypeOK
  <2>2. AbsoluteSource = source
    BY <2>1, Unsigned
  <2> DEFINE p == 2 ^ round
  <2>3. /\ decided \in Nat /\ working \in 0 .. source * Modulus - 1
        /\ decided * (source * Modulus) + working = destination * p
    BY <2>1 DEF Measured
  <2> HIDE DEF p
  <2>4. decided * source * Modulus = decided * (source * Modulus)
        /\ source * Modulus \in Int
    BY <2>1, <2>3, Sizes
  <2> DEFINE x == source * Modulus
  <2>5. 0 <= working /\ working < x
    <3>1. x \in Int /\ working \in 0 .. x - 1
      BY <2>3, <2>4
    <3> HIDE DEF x
    <3> QED
      BY <3>1
  <2>6. decided * source * Modulus + working = destination * p
    BY <2>3, <2>4
  <2> QED
    BY <2>2, <2>5, <2>6 DEF p
<1>2. ASSUME Done, instruction = "DIVU", ~codes.V
      PROVE  /\ decided = Word(result) \div 2
             /\ LET ones  == CountBitsSet(decided)
                    zeros == Width - 1 - ones
                IN  72 + 4 * zeros <= cycles /\ cycles <= 72 + 4 * zeros + 2 * ones
  <2>1. decided = Word(result) \div 2 /\ Counted(Width - 1)
    BY <1>2 DEF DurationInv
  <2> QED
    BY <2>1 DEF Counted
<1>3. DurationDecidesQuotient
  BY <1>1, <1>2 DEF DurationDecidesQuotient
<1> QED
  BY <1>3 DEF DurationsMeasured, DurationInv

(* For words of any size: the loop with which DIVU measures itself keeps   *)
(* its dividend below the divisor and decides on the bits of the quotient, *)
(* all but the lowest, each for its number of cycles; and MULS takes two   *)
(* cycles for each change from a bit of its source to the next             *)
(* (Action_DIVCommon, Action_MULS, CountBitsSet).                          *)
THEOREM DurationsHold == WordSpec => []DurationsMeasured
<1>1. WordInit => DurationInv
  BY DurationInitially
<1>2. WordInv /\ DurationInv /\ [WordNext]_wordVars => DurationInv'
  BY DurationSteps
<1>3. WordInv /\ DurationInv => DurationsMeasured
  BY DurationMeant
<1> QED
  BY <1>1, <1>2, <1>3, WordsAlways, PTL DEF WordSpec

(***************************************************************************)
(* ABCD, SBCD and NBCD on numbers of any number of bytes and any digits.   *)
(* The single bits that the code looks at tell exactly which digits went   *)
(* too far, the correction makes each byte a pair of digits again, and X   *)
(* carries what is left: the bytes so far, weighed by hundreds, are the    *)
(* decimal result of the operands so far, which is the invariant.          *)
(***************************************************************************)

Tens(n) == n \div 10
Ones(n) == n % 10

LEMMA Pairs ==
  ASSUME NEW n \in 0 .. 99
  PROVE  /\ Tens(n) \in 0 .. 9 /\ Ones(n) \in 0 .. 9
         /\ n = 10 * Tens(n) + Ones(n) /\ Packed(n) = 16 * Tens(n) + Ones(n)
  BY DEF Tens, Ones, Packed

LEMMA PackedBits ==
  ASSUME NEW h \in 0 .. 9, NEW l \in 0 .. 9
  PROVE  /\ BitOf(16 * h + l, 8) <=> l >= 8
         /\ BitOf(16 * h + l, 128) <=> h >= 8
  BY DEF BitOf

(* Bits of sums, which are below 512. *)
SumBitsOf(r, t) ==
  /\ BitOf(r, 8) <=> t \in 8 .. 15
  /\ BitOf(r, 128) <=> r \in 128 .. 255 \/ r >= 384
  /\ BitOf(r + 102, 16) # BitOf(r, 16) <=> t \in 10 .. 15
  /\ BitOf(r + 102, 256) # BitOf(r, 256) <=> r \in 154 .. 255

LEMMA SumBits ==
  ASSUME NEW u \in 0 .. 18, NEW t \in 0 .. 19, NEW r, r = 16 * u + t
  PROVE  SumBitsOf(r, t)
<1>1. BitOf(r, 8) <=> t \in 8 .. 15
  BY DEF BitOf
<1>2. BitOf(r, 128) <=> r \in 128 .. 255 \/ r >= 384
  BY DEF BitOf
<1>3. BitOf(r + 102, 16) # BitOf(r, 16) <=> t \in 10 .. 15
  BY DEF BitOf
<1>4. BitOf(r + 102, 256) # BitOf(r, 256) <=> r \in 154 .. 255
  BY DEF BitOf
<1>5. QED
  BY <1>1, <1>2, <1>3, <1>4 DEF SumBitsOf

(* The digits of a sum that are too large. *)
DigitsTooLarge(h, l, g, j, e, s, d, r) ==
  /\ DigitTooLarge(s, d, r, 8) <=> l + j + e >= 10
  /\ DigitTooLarge(s, d, r, 128) <=> r >= 154

LEMMA AddedDigits ==
  ASSUME NEW h \in 0 .. 9, NEW l \in 0 .. 9, NEW g \in 0 .. 9, NEW j \in 0 .. 9, NEW e \in 0 .. 1,
         NEW s, s = 16 * h + l, NEW d, d = 16 * g + j, NEW r, r = d + s + e
  PROVE  DigitsTooLarge(h, l, g, j, e, s, d, r)
<1> DEFINE u == h + g
           t == l + j + e
<1>1. u \in 0 .. 18 /\ t \in 0 .. 19 /\ r = 16 * u + t
  OBVIOUS
<1>0. /\ t >= 16 <=> l + j + e >= 16
      /\ t >= 10 <=> l + j + e >= 10
  OBVIOUS
<1> HIDE DEF u, t
<1>2. /\ BitOf(s, 8) <=> l >= 8
      /\ BitOf(s, 128) <=> h >= 8
      /\ BitOf(d, 8) <=> j >= 8
      /\ BitOf(d, 128) <=> g >= 8
  BY PackedBits
<1>3. SumBitsOf(r, t)
  BY <1>1, SumBits
<1>4. CarryOut(s, d, r, 8) <=> t >= 16
  BY <1>1, <1>2, <1>3 DEF CarryOut, SumBitsOf, u, t
<1>5. CarryOut(s, d, r, 128) <=> r >= 256
  BY <1>1, <1>2, <1>3 DEF CarryOut, SumBitsOf, u, t
<1>6. 2 * 8 = 16 /\ 2 * 128 = 256
  OBVIOUS
<1>7. DigitTooLarge(s, d, r, 8) <=> t >= 10
  BY <1>1, <1>3, <1>4, <1>6 DEF DigitTooLarge, SumBitsOf
<1>8. DigitTooLarge(s, d, r, 128) <=> r >= 154
  BY <1>1, <1>3, <1>5, <1>6 DEF DigitTooLarge, SumBitsOf
<1>9. QED
  BY <1>0, <1>7, <1>8 DEF DigitsTooLarge

LEMMA Corrections ==
  ASSUME NEW low \in BOOLEAN, NEW high \in BOOLEAN
  PROVE  /\ Correction(low, high) = (IF low THEN 6 ELSE 0) + (IF high THEN 96 ELSE 0)
         /\ BitOf(Correction(low, high), 64) <=> high
<1>1. Correction(low, high) = (IF low THEN 6 ELSE 0) + (IF high THEN 96 ELSE 0)
  BY DEF Correction, Byte!Bit
<1>2. ~BitOf(0, 64) /\ ~BitOf(6, 64) /\ BitOf(96, 64) /\ BitOf(102, 64)
  BY DEF BitOf
<1>3. QED
  BY <1>1, <1>2

(* What is written of a corrected sum. *)
(* A byte that holds two decimal digits, and the number they are. *)
Decimals(v, n) ==
  /\ v \in 0 .. 255
  /\ v % 16 <= 9 /\ v \div 16 <= 9
  /\ Unpacked(v) = n

LEMMA DigitsOfByte ==
  ASSUME NEW k \in 0 .. 9, NEW m \in 0 .. 9, NEW v, v = 16 * k + m
  PROVE  Decimals(v, 10 * k + m)
<1>1. v \in 0 .. 255 /\ v % 16 = m /\ v \div 16 = k
  OBVIOUS
<1>2. QED
  BY <1>1 DEF Decimals, Unpacked

(* A sum and its correction. *)
SumCorrected(h, l, g, j, e, r, c, n) ==
  /\ Decimals(Cut(r + c), n)
  /\ r < 154 /\ BitOf(r, 128) => BitOf(r + c, 128)

LEMMA CorrectedSum ==
  ASSUME NEW h \in 0 .. 9, NEW l \in 0 .. 9, NEW g \in 0 .. 9, NEW j \in 0 .. 9, NEW e \in 0 .. 1,
         NEW r, r = 16 * (h + g) + (l + j + e),
         NEW c, c = (IF l + j + e >= 10 THEN 6 ELSE 0) + (IF r >= 154 THEN 96 ELSE 0),
         NEW n, n = 10 * h + l + 10 * g + j + e - (IF r >= 154 THEN 100 ELSE 0)
  PROVE  SumCorrected(h, l, g, j, e, r, c, n)
<1> DEFINE u == h + g
           t == l + j + e
           m == IF t >= 10 THEN t - 10 ELSE t
           k == (IF t >= 10 THEN u + 1 ELSE u) - (IF r >= 154 THEN 10 ELSE 0)
<1>1. u \in 0 .. 18 /\ t \in 0 .. 19 /\ r = 16 * u + t
  OBVIOUS
<1>2. c = (IF t >= 10 THEN 6 ELSE 0) + (IF r >= 154 THEN 96 ELSE 0)
  OBVIOUS
<1>3. n = 10 * u + t - (IF r >= 154 THEN 100 ELSE 0)
  OBVIOUS
<1> HIDE DEF u, t
<1>5. m \in 0 .. 9 /\ k \in 0 .. 9
  BY <1>1
<1>6. r + c = 16 * k + m + (IF r >= 154 THEN 256 ELSE 0)
  BY <1>1, <1>2
<1>7. 10 * k + m = n
  BY <1>1, <1>3
<1> HIDE DEF k, m
<1>8. Cut(r + c) = 16 * k + m
  <2> DEFINE p == 16 * k + m
             q == r + c
  <2>1. p \in 0 .. 255 /\ (q = p \/ q = p + 256)
    BY <1>5, <1>6
  <2> HIDE DEF p, q
  <2>2. q % 256 = p
    BY <2>1
  <2>3. QED
    BY <2>2 DEF p, q, Cut
<1>9. r < 154 /\ BitOf(r, 128) => BitOf(r + c, 128)
  <2>1. r < 154 => r \in 0 .. 153 /\ c \in 0 .. 6
    BY <1>1, <1>2
  <2>2. ASSUME NEW v \in 0 .. 255
        PROVE  BitOf(v, 128) <=> v >= 128
    BY DEF BitOf
  <2>3. QED
    BY <2>1, <2>2
<1>10. Decimals(Cut(r + c), 10 * k + m)
  BY <1>5, <1>8, DigitsOfByte
<1>11. QED
  BY <1>7, <1>9, <1>10 DEF SumCorrected

(***************************************************************************)
(* Subtractions.                                                           *)
(***************************************************************************)

LEMMA DifferenceBits ==
  ASSUME NEW u \in -9 .. 9, NEW t \in -10 .. 9, NEW r, r = 16 * u + t
  PROVE  /\ BitOf(r, 8) <=> t \in 8 .. 9 \/ t \in -8 .. -1
         /\ BitOf(r, 128) <=> r >= 128 \/ r \in -128 .. -1
  BY DEF BitOf

(* The digits of a difference that borrow. *)
DigitsBorrow(h, l, g, j, e, s, d, r) ==
  /\ BorrowOut(s, d, r, 8) <=> j - l - e < 0
  /\ BorrowOut(s, d, r, 128) <=> r < 0

LEMMA BorrowedDigits ==
  ASSUME NEW h \in 0 .. 9, NEW l \in 0 .. 9, NEW g \in 0 .. 9, NEW j \in 0 .. 9, NEW e \in 0 .. 1,
         NEW s, s = 16 * h + l, NEW d, d = 16 * g + j, NEW r, r = d - s - e
  PROVE  DigitsBorrow(h, l, g, j, e, s, d, r)
<1> DEFINE u == g - h
           t == j - l - e
<1>1. u \in -9 .. 9 /\ t \in -10 .. 9 /\ r = 16 * u + t
  OBVIOUS
<1> HIDE DEF u, t
<1>2. /\ BitOf(s, 8) <=> l >= 8
      /\ BitOf(s, 128) <=> h >= 8
      /\ BitOf(d, 8) <=> j >= 8
      /\ BitOf(d, 128) <=> g >= 8
  BY PackedBits
<1>3. /\ BitOf(r, 8) <=> t \in 8 .. 9 \/ t \in -8 .. -1
      /\ BitOf(r, 128) <=> r >= 128 \/ r \in -128 .. -1
  BY <1>1, DifferenceBits
<1>4. BorrowOut(s, d, r, 8) <=> t < 0
  BY <1>1, <1>2, <1>3 DEF BorrowOut, u, t
<1>5. BorrowOut(s, d, r, 128) <=> r < 0
  BY <1>1, <1>2, <1>3 DEF BorrowOut, u, t
<1> QED
  BY <1>4, <1>5 DEF t, DigitsBorrow

(* A difference and its correction. *)
DifferenceCorrected(h, l, g, j, e, r, c, n) ==
  /\ Decimals(Cut(r - c), n)
  /\ r >= 0 /\ ~BitOf(r, 128) => ~BitOf(r - c, 128)

LEMMA CorrectedDifference ==
  ASSUME NEW h \in 0 .. 9, NEW l \in 0 .. 9, NEW g \in 0 .. 9, NEW j \in 0 .. 9, NEW e \in 0 .. 1,
         NEW r, r = 16 * (g - h) + (j - l - e),
         NEW c, c = (IF j - l - e < 0 THEN 6 ELSE 0) + (IF r < 0 THEN 96 ELSE 0),
         NEW n, n = 10 * g + j - (10 * h + l) - e + (IF r < 0 THEN 100 ELSE 0)
  PROVE  DifferenceCorrected(h, l, g, j, e, r, c, n)
<1> DEFINE u == g - h
           t == j - l - e
           m == IF t < 0 THEN t + 10 ELSE t
           k == (IF t < 0 THEN u - 1 ELSE u) + (IF r < 0 THEN 10 ELSE 0)
<1>1. u \in -9 .. 9 /\ t \in -10 .. 9 /\ r = 16 * u + t
  OBVIOUS
<1>2. c = (IF t < 0 THEN 6 ELSE 0) + (IF r < 0 THEN 96 ELSE 0)
  OBVIOUS
<1>3. n = 10 * u + t + (IF r < 0 THEN 100 ELSE 0)
  OBVIOUS
<1> HIDE DEF u, t
<1>5. m \in 0 .. 9 /\ k \in 0 .. 9
  BY <1>1
<1>6. r - c = 16 * k + m - (IF r < 0 THEN 256 ELSE 0)
  BY <1>1, <1>2
<1>7. 10 * k + m = n
  BY <1>1, <1>3
<1> HIDE DEF k, m
<1>8. Cut(r - c) = 16 * k + m
  <2> DEFINE p == 16 * k + m
             q == r - c
  <2>1. p \in 0 .. 255 /\ (q = p \/ q = p - 256)
    BY <1>5, <1>6
  <2> HIDE DEF p, q
  <2>2. q % 256 = p
    BY <2>1
  <2>3. QED
    BY <2>2 DEF p, q, Cut
<1>9. r >= 0 /\ ~BitOf(r, 128) => ~BitOf(r - c, 128)
  <2>1. r >= 0 => r \in 0 .. 153 /\ c \in 0 .. 6 /\ r - c \in 0 .. r
    BY <1>1, <1>2, <1>5, <1>6
  <2>2. ASSUME NEW v \in 0 .. 255
        PROVE  BitOf(v, 128) <=> v >= 128
    BY DEF BitOf
  <2>3. QED
    BY <2>1, <2>2
<1>10. Decimals(Cut(r - c), 10 * k + m)
  BY <1>5, <1>8, DigitsOfByte
<1>11. QED
  BY <1>7, <1>9, <1>10 DEF DifferenceCorrected

(***************************************************************************)
(* The instructions.                                                       *)
(***************************************************************************)

(* What an action leaves, of a sum or a difference of decimal numbers. *)
Sums(a, n) ==
  /\ a.carry \in BOOLEAN
  /\ Decimals(Cut(a.result), n - (IF a.carry THEN 100 ELSE 0))

Differences(a, n) ==
  /\ a.carry \in BOOLEAN
  /\ Decimals(Cut(a.result), n + (IF a.carry THEN 100 ELSE 0))

LEMMA ABCDAdds ==
  ASSUME NEW s \in 0 .. 99, NEW d \in 0 .. 99, Extend \in 0 .. 1
  PROVE  Sums(ABCD(Packed(s), Packed(d)), d + s + Extend)
<1> DEFINE h == Tens(s)
           l == Ones(s)
           g == Tens(d)
           j == Ones(d)
           e == Extend
           r == Packed(d) + Packed(s) + e
           low == DigitTooLarge(Packed(s), Packed(d), r, 8)
           high == DigitTooLarge(Packed(s), Packed(d), r, 128)
           c == Correction(low, high)
           a == ABCD(Packed(s), Packed(d))
<1>1. /\ h \in 0 .. 9 /\ l \in 0 .. 9 /\ s = 10 * h + l /\ Packed(s) = 16 * h + l
      /\ g \in 0 .. 9 /\ j \in 0 .. 9 /\ d = 10 * g + j /\ Packed(d) = 16 * g + j
  BY Pairs
<1>2. /\ a.result = r + c
      /\ a.carry = (BitOf(c, 64) \/ (BitOf(r, 128) /\ ~BitOf(r + c, 128)))
  BY DEF ABCD, a, e, r, c, low, high
<1>3. low \in BOOLEAN /\ high \in BOOLEAN
  BY DEF DigitTooLarge, CarryOut
<1> HIDE DEF h, l, g, j, e, a, r, low, high, c
<1>4. e \in 0 .. 1 /\ r = Packed(d) + Packed(s) + e
  BY DEF e, r
<1>5. /\ low <=> l + j + e >= 10
      /\ high <=> r >= 154
  <2>1. DigitsTooLarge(h, l, g, j, e, Packed(s), Packed(d), r)
    BY <1>1, <1>4, AddedDigits
  <2> QED
    BY <2>1 DEF DigitsTooLarge, low, high
<1>6. r = 16 * (h + g) + (l + j + e)
  BY <1>1, <1>4
<1>7. /\ c = (IF low THEN 6 ELSE 0) + (IF high THEN 96 ELSE 0)
      /\ BitOf(c, 64) <=> high
  BY <1>3, Corrections DEF c
<1> DEFINE n == 10 * h + l + 10 * g + j + e - (IF r >= 154 THEN 100 ELSE 0)
<1>8. /\ Decimals(Cut(r + c), n)
      /\ r < 154 /\ BitOf(r, 128) => BitOf(r + c, 128)
  <2>1. c = (IF l + j + e >= 10 THEN 6 ELSE 0) + (IF r >= 154 THEN 96 ELSE 0)
    BY <1>5, <1>7
  <2> HIDE DEF n
  <2>2. n = 10 * h + l + 10 * g + j + e - (IF r >= 154 THEN 100 ELSE 0)
    BY DEF n
  <2> QED
    <3>1. SumCorrected(h, l, g, j, e, r, c, n)
      BY <1>1, <1>4, <1>6, <2>1, <2>2, CorrectedSum, ZenonT(30)
    <3> QED
      BY <3>1 DEF SumCorrected
<1>9. a.carry \in BOOLEAN /\ (a.carry <=> r >= 154)
  <2>1. r \in Int
    BY <1>1, <1>4, <1>6
  <2>2. r >= 154 \/ r < 154
    BY <2>1
  <2>3. BitOf(c, 64) \/ (BitOf(r, 128) /\ ~BitOf(r + c, 128)) <=> r >= 154
    BY <1>5, <1>7, <1>8, <2>2
  <2> QED
    BY <1>2, <2>3, Zenon
<1>10. n = d + s + e - (IF a.carry THEN 100 ELSE 0)
  BY <1>1, <1>4, <1>9
<1> HIDE DEF n
<1>11. Decimals(Cut(a.result), d + s + e - (IF a.carry THEN 100 ELSE 0))
  BY <1>2, <1>8, <1>10
<1> QED
  BY <1>9, <1>11 DEF Sums, a, e

LEMMA SBCDSubtracts ==
  ASSUME NEW s \in 0 .. 99, NEW d \in 0 .. 99, Extend \in 0 .. 1
  PROVE  Differences(SBCDCommon(Packed(s), Packed(d)), d - s - Extend)
<1> DEFINE h == Tens(s)
           l == Ones(s)
           g == Tens(d)
           j == Ones(d)
           e == Extend
           r == Packed(d) - Packed(s) - e
           low == BorrowOut(Packed(s), Packed(d), r, 8)
           high == BorrowOut(Packed(s), Packed(d), r, 128)
           c == Correction(low, high)
           a == SBCDCommon(Packed(s), Packed(d))
<1>1. /\ h \in 0 .. 9 /\ l \in 0 .. 9 /\ s = 10 * h + l /\ Packed(s) = 16 * h + l
      /\ g \in 0 .. 9 /\ j \in 0 .. 9 /\ d = 10 * g + j /\ Packed(d) = 16 * g + j
  BY Pairs
<1>2. /\ a.result = r - c
      /\ a.carry = (BitOf(c, 64) \/ (~BitOf(r, 128) /\ BitOf(r - c, 128)))
  BY DEF SBCDCommon, Borrow, a, e, r, c, low, high
<1>3. low \in BOOLEAN /\ high \in BOOLEAN
  BY DEF BorrowOut
<1> HIDE DEF h, l, g, j, e, a, r, low, high, c
<1>4. e \in 0 .. 1 /\ r = Packed(d) - Packed(s) - e
  BY DEF e, r
<1>5. /\ low <=> j - l - e < 0
      /\ high <=> r < 0
  <2>1. DigitsBorrow(h, l, g, j, e, Packed(s), Packed(d), r)
    BY <1>1, <1>4, BorrowedDigits, ZenonT(30)
  <2> QED
    BY <2>1 DEF DigitsBorrow, low, high
<1>6. r = 16 * (g - h) + (j - l - e)
  BY <1>1, <1>4
<1>7. /\ c = (IF low THEN 6 ELSE 0) + (IF high THEN 96 ELSE 0)
      /\ BitOf(c, 64) <=> high
  BY <1>3, Corrections DEF c
<1> DEFINE n == 10 * g + j - (10 * h + l) - e + (IF r < 0 THEN 100 ELSE 0)
<1>8. /\ Decimals(Cut(r - c), n)
      /\ r >= 0 /\ ~BitOf(r, 128) => ~BitOf(r - c, 128)
  <2>1. c = (IF j - l - e < 0 THEN 6 ELSE 0) + (IF r < 0 THEN 96 ELSE 0)
    BY <1>5, <1>7
  <2> HIDE DEF n
  <2>2. n = 10 * g + j - (10 * h + l) - e + (IF r < 0 THEN 100 ELSE 0)
    BY DEF n
  <2> QED
    <3>1. DifferenceCorrected(h, l, g, j, e, r, c, n)
      BY <1>1, <1>4, <1>6, <2>1, <2>2, CorrectedDifference, ZenonT(30)
    <3> QED
      BY <3>1 DEF DifferenceCorrected
<1>9. a.carry \in BOOLEAN /\ (a.carry <=> r < 0)
  <2>1. r \in Int
    BY <1>1, <1>4, <1>6
  <2>2. r < 0 \/ r >= 0
    BY <2>1
  <2>3. BitOf(c, 64) \/ (~BitOf(r, 128) /\ BitOf(r - c, 128)) <=> r < 0
    BY <1>5, <1>7, <1>8, <2>2
  <2> QED
    BY <1>2, <2>3, Zenon
<1>10. n = d - s - e + (IF a.carry THEN 100 ELSE 0)
  BY <1>1, <1>4, <1>9
<1> HIDE DEF n
<1>11. Decimals(Cut(a.result), d - s - e + (IF a.carry THEN 100 ELSE 0))
  BY <1>2, <1>8, <1>10
<1> QED
  BY <1>9, <1>11 DEF Differences, a, e

LEMMA PackedZero == 0 \in 0 .. 99 /\ Packed(0) = 0
  BY DEF Packed

LEMMA CodesRecord ==
  ASSUME NEW b \in BOOLEAN, NEW v \in BOOLEAN, NEW z \in BOOLEAN, NEW g \in BOOLEAN, NEW n,
         n = [C |-> b, V |-> v, Z |-> z, N |-> g, X |-> b]
  PROVE  n \in Byte!Codes /\ n.C = b /\ n.X = b /\ n.Z = z
  BY DEF Byte!Codes

(* The condition codes that the modifiers leave. *)
LEMMA CodesLeft ==
  ASSUME NEW k \in DecimalInstructions, NEW s, NEW d, NEW r \in Int, NEW b \in BOOLEAN,
         NEW c \in Byte!Codes, NEW n, n = Byte!Updated(k, s, d, r, [c EXCEPT !.C = b])
  PROVE  /\ n \in Byte!Codes
         /\ n.C = b /\ n.X = b
         /\ n.Z <=> c.Z /\ r = 0
<1> DEFINE o == [c EXCEPT !.C = b]
<1>1. o \in Byte!Codes /\ o.C = b /\ o.Z = c.Z
  BY DEF Byte!Codes
<1> HIDE DEF o
<1>2. Byte!Carry(k, s, d, r, o) = b
  <2>1. Byte!GetCarryModifier(k) = "unaffected"
    BY DEF DecimalInstructions, Byte!GetCarryModifier
  <2> QED
    BY <1>1, <2>1 DEF Byte!Carry
<1>3. Byte!Overflow(k, s, d, r, o) \in BOOLEAN
  <2>1. Byte!GetOverflowModifier(k) \in {"add", "sub"}
    BY DEF DecimalInstructions, Byte!GetOverflowModifier
  <2> QED
    BY <2>1 DEF Byte!Overflow
<1>4. Byte!Zero(k, r, o) = (c.Z /\ r = 0)
  <2>1. Byte!GetZeroModifier(k) = "clear_if_nonzero_unaffected_otherwise"
    BY DEF DecimalInstructions, Byte!GetZeroModifier
  <2> QED
    BY <1>1, <2>1 DEF Byte!Zero
<1>5. Byte!GetNegativeModifier(k) = "set_if_negative_clear_otherwise"
  BY DEF DecimalInstructions, Byte!GetNegativeModifier
<1>6. Byte!GetExtendModifier(k) = "set_to_carry"
  BY DEF DecimalInstructions, Byte!GetExtendModifier
<1>7. n = [C |-> b, V |-> Byte!Overflow(k, s, d, r, o), Z |-> c.Z /\ r = 0,
           N |-> Byte!Negative(r), X |-> b]
  BY <1>2, <1>4, <1>5, <1>6 DEF Byte!Updated, o
<1>8. c.Z \in BOOLEAN /\ Byte!Negative(r) \in BOOLEAN
  BY DEF Byte!Codes, Byte!Negative
<1> DEFINE v == Byte!Overflow(k, s, d, r, o)
           z == c.Z /\ r = 0
           g == Byte!Negative(r)
<1>9. /\ v \in BOOLEAN /\ z \in BOOLEAN /\ g \in BOOLEAN
      /\ n = [C |-> b, V |-> v, Z |-> z, N |-> g, X |-> b]
      /\ z <=> c.Z /\ r = 0
  BY <1>3, <1>7, <1>8
<1> HIDE DEF v, z, g
<1>10. /\ n \in Byte!Codes
       /\ n.C = b /\ n.X = b /\ n.Z = z
  BY <1>9, CodesRecord
<1> QED
  BY <1>9, <1>10

(***************************************************************************)
(* The invariant.                                                          *)
(***************************************************************************)

DecimalTypes ==
  /\ codes \in Byte!Codes /\ before \in Byte!Codes
  /\ instruction \in DecimalInstructions
  /\ result \in 0 .. 255
  /\ number \in Nat /\ other \in Nat /\ total \in Nat
  /\ weight \in Nat \ {0} /\ part \in Nat

DecimalInv == DecimalTypes /\ ResultsAreDecimal /\ DecimalComputes /\ DecimalZero

(* The X an instruction begins with. *)
LEMMA ExtendIsBit ==
  ASSUME DecimalTypes
  PROVE  Extend = Byte!Bit(codes.X) /\ Extend \in 0 .. 1
  BY DEF Extend, Byte!Bit

(* The numbers a step is about: what it writes, with the carry out, is     *)
(* what it was asked for.                                                  *)
Computed(s, d, x, r, y) ==
  /\ instruction = "ABCD" => Unpacked(r) + 100 * y = d + s + x
  /\ instruction = "SBCD" => Unpacked(r) - 100 * y = d - s - x
  /\ instruction = "NBCD" => Unpacked(r) - 100 * y = 0 - d - x

LEMMA SumsAreBytes ==
  ASSUME NEW a, NEW n \in Int
  PROVE  /\ Sums(a, n) => /\ Decimals(Cut(a.result), Unpacked(Cut(a.result)))
                          /\ Unpacked(Cut(a.result)) + 100 * Byte!Bit(a.carry) = n
         /\ Differences(a, n) => /\ Decimals(Cut(a.result), Unpacked(Cut(a.result)))
                                 /\ Unpacked(Cut(a.result)) - 100 * Byte!Bit(a.carry) = n
  BY DEF Sums, Differences, Decimals, Byte!Bit

LEMMA ExecuteEffect ==
  ASSUME DecimalTypes, NEW s \in 0 .. 99, NEW d \in 0 .. 99, ExecuteDecimal(s, d)
  PROVE  /\ codes' \in Byte!Codes
         /\ codes'.C = codes'.X
         /\ codes'.Z <=> codes.Z /\ result' = 0
         /\ Decimals(result', Unpacked(result'))
         /\ total' = total + Unpacked(result') * weight
         /\ Computed(s, d, Byte!Bit(codes.X), result', Byte!Bit(codes'.X))
<1> DEFINE a == Action(instruction, Packed(s), Packed(d))
           x == Byte!Bit(codes.X)
<1>1. /\ result' = Cut(a.result)
      /\ codes' = Byte!Updated(instruction, Cut(a.source), Cut(a.destination), Cut(a.result),
                               [codes EXCEPT !.C = a.carry])
      /\ total' = total + Unpacked(Cut(a.result)) * weight
  BY DEF ExecuteDecimal
<1>2. Extend = x /\ x \in 0 .. 1 /\ instruction \in DecimalInstructions /\ codes \in Byte!Codes
  BY ExtendIsBit DEF DecimalTypes
<1>3. ASSUME instruction = "ABCD" PROVE a = ABCD(Packed(s), Packed(d))
  BY <1>3 DEF Action
<1>4. ASSUME instruction = "SBCD" PROVE a = SBCDCommon(Packed(s), Packed(d))
  BY <1>4 DEF Action
<1>5. ASSUME instruction = "NBCD" PROVE a = SBCDCommon(Packed(d), Packed(0))
  BY <1>5, PackedZero DEF Action
<1> HIDE DEF a, x
<1>6. instruction = "ABCD" => Sums(a, d + s + x)
  BY <1>2, <1>3, ABCDAdds, ZenonT(30)
<1>7. instruction = "SBCD" => Differences(a, d - s - x)
  BY <1>2, <1>4, SBCDSubtracts, ZenonT(30)
<1>8. instruction = "NBCD" => Differences(a, 0 - d - x)
  BY <1>2, <1>5, PackedZero, SBCDSubtracts
<1>9. a.carry \in BOOLEAN
  BY <1>2, <1>6, <1>7, <1>8 DEF DecimalInstructions, Sums, Differences
<1>10. Decimals(result', Unpacked(result'))
  <2>1. d + s + x \in Int /\ d - s - x \in Int /\ 0 - d - x \in Int
    BY <1>2
  <2> QED
    BY <1>1, <1>2, <1>6, <1>7, <1>8, <2>1, SumsAreBytes DEF DecimalInstructions
<1>11. /\ codes' \in Byte!Codes
       /\ codes'.C = a.carry /\ codes'.X = a.carry
       /\ codes'.Z <=> codes.Z /\ result' = 0
  <2>1. Cut(a.result) \in Int
    BY <1>1, <1>10 DEF Decimals
  <2> QED
    BY <1>1, <1>2, <1>9, <2>1, CodesLeft
<1>12. Computed(s, d, x, result', Byte!Bit(codes'.X))
  <2>1. d + s + x \in Int /\ d - s - x \in Int /\ 0 - d - x \in Int
    BY <1>2
  <2> QED
    BY <1>1, <1>6, <1>7, <1>8, <1>11, <2>1, SumsAreBytes DEF Computed
<1> QED
  BY <1>1, <1>10, <1>11, <1>12 DEF x

(* One more byte leaves the equations in force.                            *)
LEMMA SumGoesOn ==
  ASSUME NEW t \in Int, NEW m \in Int, NEW o \in Int, NEW b \in Int, NEW w \in Int,
         NEW s \in Int, NEW d \in Int, NEW x \in Int, NEW y \in Int, NEW u \in Int,
         t + x * w = m + o + b, u + 100 * y = d + s + x
  PROVE  (t + u * w) + y * (100 * w) = (m + d * w) + (o + s * w) + b
<1>1. (u + 100 * y) * w = u * w + y * (100 * w)
  OBVIOUS
<1>2. (d + s + x) * w = d * w + s * w + x * w
  OBVIOUS
<1>3. u * w + y * (100 * w) = d * w + s * w + x * w
  BY <1>1, <1>2
<1>4. u * w \in Int /\ y * (100 * w) \in Int /\ d * w \in Int /\ s * w \in Int /\ x * w \in Int
  OBVIOUS
<1> QED
  BY <1>3, <1>4

LEMMA DifferenceGoesOn ==
  ASSUME NEW t \in Int, NEW m \in Int, NEW o \in Int, NEW b \in Int, NEW w \in Int,
         NEW s \in Int, NEW d \in Int, NEW x \in Int, NEW y \in Int, NEW u \in Int,
         t - x * w = m - o - b, u - 100 * y = d - s - x
  PROVE  (t + u * w) - y * (100 * w) = (m + d * w) - (o + s * w) - b
<1>1. (u - 100 * y) * w = u * w - y * (100 * w)
  OBVIOUS
<1>2. (d - s - x) * w = d * w - s * w - x * w
  OBVIOUS
<1>3. u * w - y * (100 * w) = d * w - s * w - x * w
  BY <1>1, <1>2
<1>4. u * w \in Int /\ y * (100 * w) \in Int /\ d * w \in Int /\ s * w \in Int /\ x * w \in Int
  OBVIOUS
<1> QED
  BY <1>3, <1>4

(* A byte of a decimal number. *)
LEMMA DecimalBytes ==
  ASSUME NEW r, Decimals(r, Unpacked(r))
  PROVE  /\ r \in 0 .. 255 /\ r % 16 <= 9 /\ r \div 16 <= 9
         /\ Unpacked(r) \in Nat
         /\ r = 0 <=> Unpacked(r) = 0
  BY DEF Decimals, Unpacked

LEMMA DigitProducts ==
  ASSUME NEW n \in Nat, NEW w \in Nat \ {0}
  PROVE  n * w \in Nat /\ (n * w = 0 <=> n = 0)
  OBVIOUS

(* What a step of the invariant begins with, and leaves. *)
LEMMA StepComputes ==
  ASSUME DecimalTypes, DecimalComputes, NEW s \in 0 .. 99, NEW d \in 0 .. 99, ExecuteDecimal(s, d),
         number' = number + d * weight, other' = other + s * weight,
         weight' = 100 * weight, UNCHANGED <<before, instruction>>
  PROVE  DecimalComputes'
<1> DEFINE x  == Byte!Bit(codes.X)
           x0 == Byte!Bit(before.X)
           y  == Byte!Bit(codes'.X)
           u  == Unpacked(result')
<1>1. /\ codes'.C = codes'.X
      /\ total' = total + u * weight
      /\ Computed(s, d, x, result', y)
      /\ u \in Int
  <2>1. /\ codes'.C = codes'.X
        /\ total' = total + u * weight
        /\ Decimals(result', u)
        /\ Computed(s, d, x, result', y)
    BY ExecuteEffect, ZenonT(30)
  <2>2. u \in Int
    BY <2>1, DecimalBytes
  <2> QED
    BY <2>1, <2>2
<1>2. /\ number \in Int /\ other \in Int /\ total \in Int /\ weight \in Int
      /\ x \in Int /\ x0 \in Int /\ y \in Int /\ u \in Int /\ s \in Int /\ d \in Int
  BY <1>1 DEF DecimalTypes, Byte!Bit
<1>3. /\ instruction = "ABCD" => total + x * weight = number + other + x0
      /\ instruction = "SBCD" => total - x * weight = number - other - x0
      /\ instruction = "NBCD" => total - x * weight = 0 - number - x0
  BY DEF DecimalComputes
<1>4. /\ instruction = "ABCD" => u + 100 * y = d + s + x
      /\ instruction = "SBCD" => u - 100 * y = d - s - x
      /\ instruction = "NBCD" => u - 100 * y = 0 - d - x
  BY <1>1 DEF Computed
<1>5. Byte!Bit(before'.X) = x0 /\ instruction' = instruction
  OBVIOUS
<1> SUFFICES /\ instruction = "ABCD" => total' + y * weight' = number' + other' + x0
             /\ instruction = "SBCD" => total' - y * weight' = number' - other' - x0
             /\ instruction = "NBCD" => total' - y * weight' = 0 - number' - x0
  BY <1>1, <1>5 DEF DecimalComputes
<1> HIDE DEF x, x0, y, u
<1>6. ASSUME instruction = "ABCD" PROVE total' + y * weight' = number' + other' + x0
  <2>1. (total + u * weight) + y * (100 * weight)
          = (number + d * weight) + (other + s * weight) + x0
    BY <1>2, <1>3, <1>4, <1>6, SumGoesOn
  <2> QED
    BY <1>1, <2>1
<1>7. ASSUME instruction = "SBCD" PROVE total' - y * weight' = number' - other' - x0
  <2>1. (total + u * weight) - y * (100 * weight)
          = (number + d * weight) - (other + s * weight) - x0
    BY <1>2, <1>3, <1>4, <1>7, DifferenceGoesOn
  <2> QED
    BY <1>1, <2>1
<1>8. ASSUME instruction = "NBCD" PROVE total' - y * weight' = 0 - number' - x0
  <2>1. (total + u * weight) - y * (100 * weight)
          = (0 + 0 * weight) - (number + d * weight) - x0
    BY <1>2, <1>3, <1>4, <1>8, DifferenceGoesOn
  <2> QED
    BY <1>1, <1>2, <2>1
<1> QED
  BY <1>6, <1>7, <1>8

LEMMA StepKeeps ==
  ASSUME DecimalInv, DecimalNext
  PROVE  DecimalInv'
<1>1. PICK s \in Digits, d \in Digits :
        /\ ExecuteDecimal(s, d)
        /\ number' = number + d * weight /\ other' = other + s * weight
  BY DEF DecimalNext
<1>2. /\ s \in 0 .. 99 /\ d \in 0 .. 99
      /\ weight' = 100 * weight /\ part' = part + 1 /\ UNCHANGED <<before, instruction>>
  BY DigitsAssumption DEF DecimalNext
<1>3. /\ codes' \in Byte!Codes
      /\ codes'.Z <=> codes.Z /\ result' = 0
      /\ total' = total + Unpacked(result') * weight
      /\ result' \in 0 .. 255 /\ result' % 16 <= 9 /\ result' \div 16 <= 9
      /\ Unpacked(result') \in Nat
      /\ result' = 0 <=> Unpacked(result') = 0
  BY <1>1, <1>2, ExecuteEffect, DecimalBytes, ZenonT(30) DEF DecimalInv
<1>4. /\ number \in Nat /\ other \in Nat /\ total \in Nat
      /\ weight \in Nat \ {0} /\ part \in Nat
  BY DEF DecimalInv, DecimalTypes
<1>5. /\ Unpacked(result') * weight \in Nat
      /\ Unpacked(result') * weight = 0 <=> result' = 0
      /\ s * weight \in Nat /\ d * weight \in Nat
  BY <1>2, <1>3, <1>4, DigitProducts
<1>6. DecimalTypes'
  BY <1>1, <1>2, <1>3, <1>4, <1>5 DEF DecimalInv, DecimalTypes
<1>7. DecimalComputes'
  BY <1>1, <1>2, StepComputes, ZenonT(30) DEF DecimalInv
<1>8. DecimalZero'
  <2>1. total' = 0 <=> total = 0 /\ result' = 0
    BY <1>3, <1>4, <1>5
  <2>2. codes.Z <=> before.Z /\ total = 0
    BY DEF DecimalInv, DecimalZero
  <2>3. codes'.Z <=> codes.Z /\ result' = 0
    BY <1>3
  <2>4. before' = before
    BY <1>2
  <2> QED
    BY <2>1, <2>2, <2>3, <2>4, Zenon DEF DecimalZero
<1> QED
  BY <1>3, <1>6, <1>7, <1>8 DEF DecimalInv, ResultsAreDecimal

LEMMA DecimalInvariant == DecimalSpec => []DecimalInv
<1>1. DecimalInit => DecimalInv
  BY DEF DecimalInit, NoNumbers, DecimalInv, DecimalTypes, ResultsAreDecimal, DecimalComputes, DecimalZero,
         Byte!Bit
<1>2. DecimalInv /\ [DecimalNext]_decimalVars => DecimalInv'
  <2>1. ASSUME DecimalInv, UNCHANGED decimalVars PROVE DecimalInv'
    BY <2>1 DEF decimalVars, DecimalInv, DecimalTypes, ResultsAreDecimal, DecimalComputes, DecimalZero
  <2> QED
    BY <2>1, StepKeeps
<1> QED
  BY <1>1, <1>2, PTL DEF DecimalSpec

(* Numbers of any number of bytes, and any pairs of digits: every byte     *)
(* that ABCD, SBCD and NBCD write is again a pair of digits, so that no    *)
(* correction is missed or made twice.                                     *)
THEOREM DecimalResults == DecimalSpec => []ResultsAreDecimal
<1>1. DecimalInv => ResultsAreDecimal
  BY DEF DecimalInv
<1> QED
  BY <1>1, DecimalInvariant, PTL

(* The bytes, with X for a last carry, are the decimal sum, difference or  *)
(* negative of the whole numbers.                                          *)
THEOREM DecimalsCompute == DecimalSpec => []DecimalComputes
<1>1. DecimalInv => DecimalComputes
  BY DEF DecimalInv
<1> QED
  BY <1>1, DecimalInvariant, PTL

(* Z after the last byte tells whether the whole result is zero.           *)
THEOREM DecimalsZero == DecimalSpec => []DecimalZero
<1>1. DecimalInv => DecimalZero
  BY DEF DecimalInv
<1> QED
  BY <1>1, DecimalInvariant, PTL

(* A program that executes ABCD, SBCD or NBCD over the bytes of decimal    *)
(* numbers of any length computes with the numbers, X and Z included       *)
(* (Action_ABCD, Action_SBCDCommon).                                       *)
THEOREM DecimalsHold == DecimalSpec => []DecimalCorrect
<1>1. DecimalInv => DecimalCorrect
  BY DEF DecimalInv, DecimalCorrect
<1> QED
  BY <1>1, DecimalInvariant, PTL
================================================================================
