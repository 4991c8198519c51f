-------------------------- MODULE Calculator_proofs --------------------------
(* Theorems about BigInt, Rational and FiniteField, and about Calculator     *)
(* over the integers and over the residues of every prime, for words of any  *)
(* width, with and without a type for wide products.                         *)
EXTENDS Calculator, WellFoundedInduction, TLAPS

\* long is as wide as the word: everywhere but on 64-bit Windows.
LongIsWord == MaxLong = MaxWord

-----------------------------------------------------------------------------
(* Arithmetic of the naturals. *)

LEMMA DivisionOfNaturals ==
    ASSUME NEW p \in Nat, NEW d \in Nat, d # 0
    PROVE  /\ p \div d \in Nat
           /\ 0 <= p - d * (p \div d) /\ p - d * (p \div d) < d
<1>1. p \div d \in Nat /\ p % d \in Nat /\ p % d < d
  BY Z3
<1>2. p = d * (p \div d) + (p % d)
  BY Z3
<1> QED
  BY <1>1, <1>2

LEMMA ProductsGrow ==
    ASSUME NEW i \in Nat, NEW j \in Nat, NEW k \in Nat, i <= j
    PROVE  i * k <= j * k
<1>1. j * k - i * k = (j - i) * k
  OBVIOUS
<1>2. (j - i) * k \in Nat
  OBVIOUS
<1> QED
  BY <1>1, <1>2

\* The product exceeds a bound exactly when a factor exceeds the bound's quotient.
LEMMA ProductExceeds ==
    ASSUME NEW p \in Nat, NEW d \in Nat, d # 0, NEW m \in Nat
    PROVE  p * d > m <=> p > m \div d
<1>1. PICK k \in Nat : k = m \div d /\ 0 <= m - d * k /\ m - d * k < d
  BY DivisionOfNaturals
<1>2. CASE p <= k
  <2>1. p * d <= k * d
    BY <1>2, ProductsGrow
  <2> QED
    BY <1>1, <1>2, <2>1
<1>3. CASE p >= k + 1
  <2>1. (k + 1) * d <= p * d
    BY <1>3, ProductsGrow
  <2>2. (k + 1) * d = d * k + d
    OBVIOUS
  <2> QED
    BY <1>1, <1>3, <2>1, <2>2
<1> QED
  BY <1>1, <1>2, <1>3

\* A quotient is no larger than the dividend, and smaller if the divisor is not 1.
LEMMA QuotientOfNaturals ==
    ASSUME NEW p \in Nat, NEW d \in Nat, d # 0
    PROVE  /\ p \div d \in Nat /\ p \div d <= p
           /\ p # 0 /\ d # 1 => p \div d < p
<1>1. PICK k \in Nat : k = p \div d /\ 0 <= p - d * k /\ p - d * k < d
  BY DivisionOfNaturals
<1>2. d * k = k + (d - 1) * k /\ (d - 1) * k \in Nat
  OBVIOUS
<1>3. d # 1 => d * k = 2 * k + (d - 2) * k /\ (d - 2) * k \in Nat
  OBVIOUS
<1> QED
  BY <1>1, <1>2, <1>3

-----------------------------------------------------------------------------
(* Words. *)

LEMMA WordBounds ==
    /\ MaxWord \in Nat /\ MaxWord > 0 /\ MinWord \in Int /\ MinWord = -MaxWord - 1
    /\ MaxLong \in Nat /\ MaxLong > 0 /\ MinLong = -MaxLong - 1 /\ MaxLong <= MaxWord
    /\ \A n \in Int : n \in Word <=> MinWord <= n /\ n <= MaxWord
BY WordAssumption DEF MinWord, MinLong, Word

LEMMA WrapsNothing ==
    ASSUME NEW n \in Int, NEW m \in Nat, -m - 1 <= n, n <= m
    PROVE  ((n - (-m - 1)) % (2 * (m + 1))) + (-m - 1) = n
<1> DEFINE i == n - (-m - 1)
           d == 2 * (m + 1)
<1>1. i \in Nat /\ d \in Nat /\ i < d
  OBVIOUS
<1>2. i % d = i
  BY <1>1
<1> QED
  BY <1>2

\* A result that fits is what the word holds.
LEMMA MachineIsExact == \A n \in Word : Machine(n) = n
<1> SUFFICES ASSUME NEW n \in Word PROVE Machine(n) = n
  OBVIOUS
<1>1. n \in Int /\ -MaxWord - 1 <= n /\ n <= MaxWord
  BY WordBounds DEF Word
<1> QED
  BY <1>1, WordBounds, WrapsNothing DEF Machine

\* GMP receives the word's value where long is as wide as the word.
LEMMA ToGmpIsExact == LongIsWord => \A n \in Word : ToGmp(n) = n
<1> SUFFICES ASSUME LongIsWord, NEW n \in Word PROVE ToGmp(n) = n
  OBVIOUS
<1>1. n \in Int /\ -MaxLong - 1 <= n /\ n <= MaxLong
  BY WordBounds DEF Word, LongIsWord
<1>2. CASE n >= 0
  <2>1. n \in Nat /\ 2 * (MaxLong + 1) \in Nat /\ n < 2 * (MaxLong + 1)
    BY <1>1, <1>2, WordBounds
  <2>2. n % (2 * (MaxLong + 1)) = n
    BY <2>1
  <2> QED
    BY <1>2, <2>2 DEF ToGmp
<1>3. CASE ~(n >= 0)
  BY <1>1, <1>3, WordBounds, WrapsNothing DEF ToGmp
<1> QED
  BY <1>2, <1>3

LEMMA ValueIsInt == ASSUME NEW b, IsBigInt(b) PROVE Value(b) \in Int
BY WordBounds DEF IsBigInt, BigInts, Value

\* GMP computes with the value of a number in either representation.
LEMMA PromotedIsExact == ASSUME NEW b, LongIsWord, IsBigInt(b) PROVE promote_to_big(b) = Value(b)
BY ToGmpIsExact DEF IsBigInt, promote_to_big, Value

\* A number that holds n, in the representation n calls for.
Holds(b, n) == IsBigInt(b) /\ Value(b) = n

LEMMA SmallHolds == \A n \in Word : Holds(Small(n), n)
BY WordBounds DEF Holds, Small, IsBigInt, BigInts, Value, Word

LEMMA ShrunkHolds == LongIsWord => \A n \in Int : Holds(Shrunk(n), n)
<1> SUFFICES ASSUME LongIsWord, NEW n \in Int PROVE Holds(Shrunk(n), n)
  OBVIOUS
<1>1. fits_in_int64(n) <=> n \in Word
  BY WordBounds DEF fits_in_int64, LongIsWord
<1>2. CASE n \in Word
  BY <1>1, <1>2, SmallHolds DEF Shrunk
<1>3. CASE n \notin Word
  BY <1>1, <1>3 DEF Shrunk, Holds, IsBigInt, BigInts, Value
<1> QED
  BY <1>2, <1>3

\* What a number of one word says of its word.
LEMMA OfOneWord ==
    ASSUME NEW b, IsBigInt(b), b.is_small
    PROVE  b.small_value \in Word /\ b.small_value \in Int /\ Value(b) = b.small_value
BY WordBounds DEF IsBigInt, BigInts, Value

-----------------------------------------------------------------------------
(* The checks for overflow say exactly when a result leaves the word. *)

LEMMA AddCheck == \A a, b \in Word : add_overflows(a, b) <=> a + b \notin Word
BY WordBounds DEF add_overflows, Word

LEMMA SubCheck == \A a, b \in Word : sub_overflows(a, b) <=> a - b \notin Word
BY WordBounds DEF sub_overflows, Word

LEMMA MagnitudeOfProduct ==
    ASSUME NEW i \in Int, NEW j \in Int
    PROVE  /\ Magnitude(i) \in Nat /\ Magnitude(j) \in Nat
           /\ i * j = IF (i < 0) = (j < 0) THEN Magnitude(i) * Magnitude(j)
                      ELSE -(Magnitude(i) * Magnitude(j))
           /\ i # 0 /\ j # 0 => Magnitude(i) * Magnitude(j) > 0
<1>1. Magnitude(i) \in Nat /\ Magnitude(j) \in Nat
  BY DEF Magnitude
<1>2. /\ (-i) * j = -(i * j) /\ i * (-j) = -(i * j) /\ (-i) * (-j) = i * j
  OBVIOUS
<1>3. i * j = IF (i < 0) = (j < 0) THEN Magnitude(i) * Magnitude(j)
              ELSE -(Magnitude(i) * Magnitude(j))
  BY <1>2 DEF Magnitude
<1>4. ASSUME NEW p \in Nat, NEW q \in Nat, p # 0, q # 0 PROVE p * q > 0
  BY <1>4
<1>5. i # 0 /\ j # 0 => Magnitude(i) * Magnitude(j) > 0
  BY <1>1, <1>4 DEF Magnitude
<1> QED
  BY <1>1, <1>3, <1>5

LEMMA ProductsOfMinWord ==
    ASSUME NEW j \in Word, j # 0
    PROVE  MinWord * j \notin Word <=> j # 1
<1>1. j \in Int
  BY WordBounds DEF Word
<1>2. PICK M \in Nat : M = MaxWord /\ M > 0 /\ MinWord = -M - 1
  BY WordBounds
<1>3. MinWord * j = -(M + 1) * j /\ MinWord * j \in Int
  BY <1>1, <1>2
<1>4. CASE j = 1
  BY <1>2, <1>3, <1>4, WordBounds
<1>5. CASE j >= 2
  <2>1. -(M + 1) * j = -(2 * (M + 1)) - (M + 1) * (j - 2) /\ (M + 1) * (j - 2) \in Nat
    BY <1>1, <1>5
  <2> QED
    BY <1>1, <1>2, <1>3, <1>5, <2>1, WordBounds
<1>6. CASE j <= -1
  <2>1. -(M + 1) * j = (M + 1) + (M + 1) * (-j - 1) /\ (M + 1) * (-j - 1) \in Nat
    BY <1>1, <1>6
  <2> QED
    BY <1>1, <1>2, <1>3, <1>6, <2>1, WordBounds
<1> QED
  BY <1>1, <1>4, <1>5, <1>6

\* The check of a compiler without a wide type: no product overflows
\* unnoticed, and the only one that is promoted needlessly is the most negative
\* word as the product of two others.
THEOREM PortableCheck ==
    \A i, j \in Word :
        portable_mul_overflows(i, j)
          <=> \/ i * j \notin Word
              \/ i * j = MinWord /\ i # MinWord /\ j # MinWord
<1> SUFFICES ASSUME NEW i \in Word, NEW j \in Word
             PROVE  portable_mul_overflows(i, j)
                      <=> \/ i * j \notin Word
                          \/ i * j = MinWord /\ i # MinWord /\ j # MinWord
  OBVIOUS
<1>1. /\ i \in Int /\ j \in Int
      /\ MinWord <= i /\ i <= MaxWord /\ MinWord <= j /\ j <= MaxWord
  BY WordBounds DEF Word
<1>2. CASE i = 0 \/ j = 0
  <2>1. i * j = 0
    BY <1>1, <1>2
  <2> QED
    BY <1>2, <2>1, WordBounds DEF portable_mul_overflows
<1>3. CASE i # 0 /\ j # 0 /\ i = MinWord
  BY <1>3, ProductsOfMinWord DEF portable_mul_overflows
<1>4. CASE i # 0 /\ j # 0 /\ i # MinWord /\ j = MinWord
  <2>1. i * j = MinWord * i
    BY <1>1, <1>4
  <2> QED
    BY <1>4, <2>1, ProductsOfMinWord DEF portable_mul_overflows
<1>5. CASE i # 0 /\ j # 0 /\ i # MinWord /\ j # MinWord
  <2>1. /\ Magnitude(i) \in Nat /\ Magnitude(j) \in Nat
        /\ Magnitude(j) # 0
    BY <1>1, <1>5 DEF Magnitude
  <2>2. PICK n \in Nat : n = Magnitude(i) * Magnitude(j)
    BY <2>1
  <2>3. n > MaxWord <=> Magnitude(i) > MaxWord \div Magnitude(j)
    BY <2>1, <2>2, ProductExceeds, WordBounds
  <2>4. portable_mul_overflows(i, j) <=> n > MaxWord
    BY <1>5, <2>3 DEF portable_mul_overflows
  <2>5. (i * j = n \/ i * j = -n) /\ n > 0
    BY <1>1, <1>5, <2>2, MagnitudeOfProduct
  <2> QED
    BY <1>5, <2>4, <2>5, WordBounds
<1> QED
  BY <1>2, <1>3, <1>4, <1>5

LEMMA MulCheck == \A i, j \in Word : ~mul_overflows(i, j) => i * j \in Word
<1> SUFFICES ASSUME NEW i \in Word, NEW j \in Word, ~mul_overflows(i, j)
             PROVE  i * j \in Word
  OBVIOUS
<1>1. CASE HasInt128
  <2>1. i * j \in Int
    BY WordBounds DEF Word
  <2> QED
    BY <1>1, <2>1, WordBounds DEF mul_overflows
<1>2. CASE ~HasInt128
  BY <1>2, PortableCheck DEF mul_overflows
<1> QED
  BY <1>1, <1>2

LEMMA QuotIsInt == ASSUME NEW i \in Int, NEW j \in Int, j # 0 PROVE Quot(i, j) \in Int
<1>1. Magnitude(i) \in Nat /\ Magnitude(j) \in Nat /\ Magnitude(j) # 0
  BY DEF Magnitude
<1>2. Magnitude(i) \div Magnitude(j) \in Nat
  BY <1>1, QuotientOfNaturals
<1> QED
  BY <1>2 DEF Quot

LEMMA RemIsInt == ASSUME NEW i \in Int, NEW j \in Int, j # 0 PROVE Rem(i, j) \in Int
BY QuotIsInt DEF Rem

\* A quotient leaves the word only where the check says so, and a remainder never.
LEMMA DivCheck ==
    ASSUME NEW i \in Word, NEW j \in Word, j # 0, ~div_overflows(i, j)
    PROVE  Quot(i, j) \in Word /\ Rem(i, j) \in Word
<1>1. /\ i \in Int /\ j \in Int
      /\ MinWord <= i /\ i <= MaxWord /\ MinWord <= j /\ j <= MaxWord
  BY WordBounds DEF Word
<1>2. PICK p \in Nat, d \in Nat : p = Magnitude(i) /\ d = Magnitude(j) /\ d # 0
  BY <1>1 DEF Magnitude
<1>3. PICK k \in Nat : /\ k = p \div d /\ k <= p /\ (p # 0 /\ d # 1 => k < p)
                       /\ 0 <= p - d * k /\ p - d * k < d
  BY <1>2, QuotientOfNaturals, DivisionOfNaturals
<1>4. Quot(i, j) = IF (i < 0) = (j < 0) THEN k ELSE -k
  BY <1>2, <1>3 DEF Quot
<1>5. Quot(i, j) \in Word
  <2>1. p <= MaxWord + 1 /\ (p = MaxWord + 1 => i = MinWord) /\ (d = 1 => j = 1 \/ j = -1)
    BY <1>1, <1>2, WordBounds DEF Magnitude
  <2>2. k <= MaxWord + 1 /\ (k = MaxWord + 1 => i = MinWord /\ d = 1)
    BY <1>3, <2>1, WordBounds
  <2>3. k = MaxWord + 1 => i < 0 /\ ~(j < 0)
    BY <2>1, <2>2, WordBounds DEF div_overflows
  <2> QED
    BY <1>3, <1>4, <2>2, <2>3, WordBounds
<1>6. Rem(i, j) = p - d * k \/ Rem(i, j) = -(p - d * k)
  <2>1. /\ j * k = IF j < 0 THEN -(d * k) ELSE d * k
        /\ j * (-k) = IF j < 0 THEN d * k ELSE -(d * k)
    BY <1>1, <1>2 DEF Magnitude
  <2>2. i = IF i < 0 THEN -p ELSE p
    BY <1>1, <1>2 DEF Magnitude
  <2>3. d * k \in Nat
    BY <1>2
  <2> QED
    BY <1>1, <1>4, <2>1, <2>2, <2>3 DEF Rem
<1>7. Rem(i, j) \in Word
  <2>1. d <= MaxWord + 1
    BY <1>1, <1>2, WordBounds DEF Magnitude
  <2> QED
    BY <1>3, <1>6, <2>1, WordBounds
<1> QED
  BY <1>5, <1>7

-----------------------------------------------------------------------------
(* Each operation yields the exact result, in the representation it calls   *)
(* for, whatever the representations of its arguments.                      *)

LEMMA ExactSum ==
    ASSUME LongIsWord, NEW a, NEW b, IsBigInt(a), IsBigInt(b)
    PROVE  Holds(Add(a, b), Value(a) + Value(b))
<1>1. Value(a) \in Int /\ Value(b) \in Int
  BY ValueIsInt
<1>2. CASE BothSmall(a, b) /\ ~add_overflows(a.small_value, b.small_value)
  <2>1. /\ a.small_value \in Word /\ b.small_value \in Word
        /\ Value(a) = a.small_value /\ Value(b) = b.small_value
    BY <1>2, OfOneWord DEF BothSmall
  <2>2. a.small_value + b.small_value \in Word
    BY <1>2, <2>1, AddCheck
  <2> QED
    BY <1>2, <2>1, <2>2, MachineIsExact, SmallHolds DEF Add
<1>3. CASE ~(BothSmall(a, b) /\ ~add_overflows(a.small_value, b.small_value))
  BY <1>1, <1>3, PromotedIsExact, ShrunkHolds DEF Add
<1> QED
  BY <1>2, <1>3

LEMMA ExactDifference ==
    ASSUME LongIsWord, NEW a, NEW b, IsBigInt(a), IsBigInt(b)
    PROVE  Holds(Sub(a, b), Value(a) - Value(b))
<1>1. Value(a) \in Int /\ Value(b) \in Int
  BY ValueIsInt
<1>2. CASE BothSmall(a, b) /\ ~sub_overflows(a.small_value, b.small_value)
  <2>1. /\ a.small_value \in Word /\ b.small_value \in Word
        /\ Value(a) = a.small_value /\ Value(b) = b.small_value
    BY <1>2, OfOneWord DEF BothSmall
  <2>2. a.small_value - b.small_value \in Word
    BY <1>2, <2>1, SubCheck
  <2> QED
    BY <1>2, <2>1, <2>2, MachineIsExact, SmallHolds DEF Sub
<1>3. CASE ~(BothSmall(a, b) /\ ~sub_overflows(a.small_value, b.small_value))
  BY <1>1, <1>3, PromotedIsExact, ShrunkHolds DEF Sub
<1> QED
  BY <1>2, <1>3

LEMMA ExactProduct ==
    ASSUME LongIsWord, NEW a, NEW b, IsBigInt(a), IsBigInt(b)
    PROVE  Holds(Mul(a, b), Value(a) * Value(b))
<1>1. Value(a) \in Int /\ Value(b) \in Int /\ Value(a) * Value(b) \in Int
  BY ValueIsInt
<1>2. CASE BothSmall(a, b) /\ ~mul_overflows(a.small_value, b.small_value)
  <2>1. /\ a.small_value \in Word /\ b.small_value \in Word
        /\ Value(a) = a.small_value /\ Value(b) = b.small_value
    BY <1>2, OfOneWord DEF BothSmall
  <2>2. a.small_value * b.small_value \in Word
    BY <1>2, <2>1, MulCheck
  <2>3. Mul(a, b) = Small(Machine(a.small_value * b.small_value))
    BY <1>2 DEF Mul
  <2> QED
    BY <2>1, <2>2, <2>3, MachineIsExact, SmallHolds
<1>3. CASE ~(BothSmall(a, b) /\ ~mul_overflows(a.small_value, b.small_value))
  <2>1. Mul(a, b) = Shrunk(promote_to_big(a) * promote_to_big(b))
    BY <1>3 DEF Mul
  <2>2. Mul(a, b) = Shrunk(Value(a) * Value(b))
    BY <2>1, PromotedIsExact
  <2> QED
    BY <1>1, <2>2, ShrunkHolds
<1> QED
  BY <1>2, <1>3

LEMMA ExactQuotient ==
    ASSUME LongIsWord, NEW a, NEW b, IsBigInt(a), IsBigInt(b), Value(b) # 0
    PROVE  Holds(Div(a, b), Quot(Value(a), Value(b)))
<1>1. Value(a) \in Int /\ Value(b) \in Int /\ Quot(Value(a), Value(b)) \in Int
  BY ValueIsInt, QuotIsInt
<1>2. CASE BothSmall(a, b) /\ ~div_overflows(a.small_value, b.small_value)
  <2>1. /\ a.small_value \in Word /\ b.small_value \in Word
        /\ Value(a) = a.small_value /\ Value(b) = b.small_value
    BY <1>2, OfOneWord DEF BothSmall
  <2>2. Quot(a.small_value, b.small_value) \in Word
    BY <1>2, <2>1, DivCheck
  <2> QED
    BY <1>2, <2>1, <2>2, MachineIsExact, SmallHolds DEF Div
<1>3. CASE ~(BothSmall(a, b) /\ ~div_overflows(a.small_value, b.small_value))
  BY <1>1, <1>3, PromotedIsExact, ShrunkHolds DEF Div
<1> QED
  BY <1>2, <1>3

LEMMA ExactRemainder ==
    ASSUME LongIsWord, NEW a, NEW b, IsBigInt(a), IsBigInt(b), Value(b) # 0
    PROVE  Holds(Mod(a, b), Rem(Value(a), Value(b)))
<1>1. Value(a) \in Int /\ Value(b) \in Int /\ Rem(Value(a), Value(b)) \in Int
  BY ValueIsInt, RemIsInt
<1>2. CASE BothSmall(a, b) /\ ~div_overflows(a.small_value, b.small_value)
  <2>1. /\ a.small_value \in Word /\ b.small_value \in Word
        /\ Value(a) = a.small_value /\ Value(b) = b.small_value
    BY <1>2, OfOneWord DEF BothSmall
  <2>2. Rem(a.small_value, b.small_value) \in Word
    BY <1>2, <2>1, DivCheck
  <2> QED
    BY <1>2, <2>1, <2>2, MachineIsExact, SmallHolds DEF Mod
<1>3. CASE ~(BothSmall(a, b) /\ ~div_overflows(a.small_value, b.small_value))
  BY <1>1, <1>3, PromotedIsExact, ShrunkHolds DEF Mod
<1> QED
  BY <1>2, <1>3

LEMMA ExactNegation ==
    ASSUME LongIsWord, NEW a, IsBigInt(a)
    PROVE  Holds(Neg(a), -Value(a))
<1>1. Value(a) \in Int
  BY ValueIsInt
<1>2. CASE a.is_small /\ a.small_value # MinWord
  <2>1. a.small_value \in Word /\ Value(a) = a.small_value
    BY <1>2, OfOneWord
  <2>2. -a.small_value \in Word
    <3>1. PICK w \in Word : w = a.small_value /\ w # MinWord
      BY <1>2, <2>1
    <3>2. w \in Int /\ -w \in Int /\ MinWord <= -w /\ -w <= MaxWord
      BY <3>1, WordBounds DEF Word
    <3> QED
      BY <3>1, <3>2, WordBounds
  <2> QED
    BY <1>2, <2>1, <2>2, MachineIsExact, SmallHolds DEF Neg
<1>3. CASE ~(a.is_small /\ a.small_value # MinWord)
  BY <1>1, <1>3, PromotedIsExact, ShrunkHolds DEF Neg
<1> QED
  BY <1>2, <1>3

\* Sums, differences, products, quotients, remainders and negatives are exact
\* and in normal form on both sides of the word's limits.
THEOREM ArithmeticIsExact ==
    ASSUME LongIsWord, NEW a, NEW b, IsBigInt(a), IsBigInt(b)
    PROVE  /\ Holds(Add(a, b), Value(a) + Value(b))
           /\ Holds(Sub(a, b), Value(a) - Value(b))
           /\ Holds(Mul(a, b), Value(a) * Value(b))
           /\ Value(b) # 0 => /\ Holds(Div(a, b), Quot(Value(a), Value(b)))
                              /\ Holds(Mod(a, b), Rem(Value(a), Value(b)))
           /\ Holds(Neg(a), -Value(a))
BY ExactSum, ExactDifference, ExactProduct, ExactQuotient, ExactRemainder, ExactNegation

\* Comparisons do not see the representation, and equal numbers have one form.
THEOREM ComparisonIsExact ==
    ASSUME LongIsWord, NEW a, NEW b, IsBigInt(a), IsBigInt(b)
    PROVE  /\ Less(a, b) <=> Value(a) < Value(b)
           /\ Equal(a, b) <=> Value(a) = Value(b)
           /\ Equal(a, b) <=> a = b
<1>1. Value(a) \in Int /\ Value(b) \in Int
  BY ValueIsInt
<1>2. Compare(a, b) = Value(a) - Value(b)
  BY OfOneWord, PromotedIsExact DEF Compare, BothSmall
<1>3. Value(a) = Value(b) => a = b
  BY DEF IsBigInt, BigInts, Value
<1> QED
  BY <1>1, <1>2, <1>3 DEF Less, Equal

-----------------------------------------------------------------------------
(* GMP's part. *)

\* Of n and m, where n is any integer and m is not zero, mpz_gcd yields a
\* positive common divisor that every other divides.
DividesExactly(d, n) == \E k \in Int : n = k * d

GmpGcd ==
    \A n \in Int, m \in Int :
        /\ mpz_gcd(n, m) \in Nat
        /\ DividesExactly(mpz_gcd(n, m), n) /\ DividesExactly(mpz_gcd(n, m), m)
        /\ \A d \in Int : DividesExactly(d, n) /\ DividesExactly(d, m)
                            => DividesExactly(d, mpz_gcd(n, m))

LEMMA GcdIsPositive ==
    ASSUME GmpGcd, NEW n \in Int, NEW m \in Nat, m # 0
    PROVE  mpz_gcd(n, m) \in Nat /\ mpz_gcd(n, m) # 0
<1>1. mpz_gcd(n, m) \in Nat /\ DividesExactly(mpz_gcd(n, m), m)
  BY DEF GmpGcd
<1>2. PICK k \in Int : m = k * mpz_gcd(n, m)
  BY <1>1 DEF DividesExactly
<1> QED
  BY <1>1, <1>2

\* Division rounds nothing where the divisor divides.
LEMMA ExactDivision ==
    ASSUME NEW k \in Int, NEW g \in Nat, g # 0
    PROVE  Quot(k * g, g) = k
<1>1. ASSUME NEW i \in Nat PROVE (i * g) \div g = i
  <2>1. PICK j \in Nat : j = (i * g) \div g /\ 0 <= i * g - g * j /\ i * g - g * j < g
    BY DivisionOfNaturals
  <2>2. i * g - g * j = (i - j) * g
    BY <2>1
  <2>3. PICK e \in Int : e = i - j
    BY <2>1
  <2>4. 0 <= e * g /\ e * g < g
    BY <2>1, <2>2, <2>3
  <2>5. CASE e >= 1
    <3>1. e * g = g + (e - 1) * g /\ (e - 1) * g \in Nat
      BY <2>5
    <3> QED
      BY <2>4, <3>1
  <2>6. CASE e <= -1
    <3>1. e * g = -g - (-e - 1) * g /\ (-e - 1) * g \in Nat
      BY <2>6
    <3> QED
      BY <2>4, <3>1
  <2> QED
    BY <2>1, <2>3, <2>5, <2>6
<1>2. CASE k >= 0
  <2>1. k * g \in Nat /\ k \in Nat
    BY <1>2
  <2>2. Magnitude(k * g) = k * g /\ Magnitude(g) = g /\ ~(k * g < 0) /\ ~(g < 0)
    BY <2>1 DEF Magnitude
  <2> QED
    BY <1>1, <2>1, <2>2 DEF Quot
<1>3. CASE k < 0
  <2>1. PICK i \in Nat : i = -k /\ i # 0
    BY <1>3
  <2>2. k * g = -(i * g) /\ i * g > 0
    BY <2>1
  <2>3. Magnitude(k * g) = i * g /\ Magnitude(g) = g /\ k * g < 0 /\ ~(g < 0)
    BY <2>1, <2>2 DEF Magnitude
  <2> QED
    BY <1>1, <2>1, <2>3 DEF Quot
<1> QED
  BY <1>2, <1>3

-----------------------------------------------------------------------------
(* Rationals. *)

Coprime(n, m) == \A d \in Int : DividesExactly(d, n) /\ DividesExactly(d, m) => d = 1 \/ d = -1

Num(p) == Value(p.numerator)
Den(p) == Value(p.denominator)

\* In lowest terms over a positive denominator.
IsRational(p) ==
    /\ p = Fraction(p.numerator, p.denominator)
    /\ IsBigInt(p.numerator) /\ IsBigInt(p.denominator)
    /\ Den(p) > 0
    /\ Coprime(Num(p), Den(p))

LEMMA PartsOfFraction ==
    ASSUME NEW n, NEW d
    PROVE  /\ Fraction(n, d).numerator = n /\ Fraction(n, d).denominator = d
           /\ Num(Fraction(n, d)) = Value(n) /\ Den(Fraction(n, d)) = Value(d)
<1>1. Fraction(n, d).numerator = n /\ Fraction(n, d).denominator = d
  BY DEF Fraction
<1> QED
  BY <1>1 DEF Num, Den

LEMMA ProductsDistribute ==
    ASSUME NEW i \in Int, NEW j \in Int, NEW k \in Int
    PROVE  i * (j - k) = i * j - i * k
OBVIOUS

LEMMA ProductsAssociate ==
    ASSUME NEW i \in Int, NEW j \in Int, NEW k \in Int
    PROVE  (i * j) * k = i * (j * k)
OBVIOUS

\* p is the one representation of n / d.
StandsFor(p, n, d) == IsRational(p) /\ Num(p) * d = n * Den(p)

LEMMA OneWord == 0 \in Word /\ 1 \in Word /\ Holds(Small(0), 0) /\ Holds(Small(1), 1)
<1>1. 0 \in Word /\ 1 \in Word
  BY WordBounds
<1> QED
  BY <1>1, SmallHolds

LEMMA UnitsOnly == ASSUME NEW c \in Int, NEW d \in Int, c * d = 1 PROVE d = 1 \/ d = -1
<1>1. CASE d >= 2
  <2>1. CASE c >= 1
    <3>1. c * d = d + (c - 1) * d /\ (c - 1) * d \in Nat
      BY <1>1, <2>1
    <3> QED
      BY <1>1, <3>1
  <2>2. CASE c <= 0
    <3>1. c * d = -((-c) * d) /\ (-c) * d \in Nat
      BY <1>1, <2>2
    <3> QED
      BY <3>1
  <2> QED
    BY <2>1, <2>2
<1>2. CASE d <= -2
  <2>1. CASE c >= 0
    <3>1. c * d = -(c * (-d)) /\ c * (-d) \in Nat
      BY <1>2, <2>1
    <3> QED
      BY <3>1
  <2>2. CASE c <= -1
    <3>1. c * d = -d + (-c - 1) * (-d) /\ (-c - 1) * (-d) \in Nat
      BY <1>2, <2>2
    <3> QED
      BY <1>2, <3>1
  <2> QED
    BY <2>1, <2>2
<1>3. CASE d = 0
  BY <1>3
<1> QED
  BY <1>1, <1>2, <1>3

LEMMA CoprimeToOne == ASSUME NEW n PROVE Coprime(n, 1)
BY UnitsOnly DEF Coprime, DividesExactly

LEMMA DividesNegative ==
    ASSUME NEW d \in Int, NEW n \in Int
    PROVE  DividesExactly(d, n) <=> DividesExactly(d, Magnitude(n))
<1>1. ASSUME NEW m \in Int, DividesExactly(d, m) PROVE DividesExactly(d, -m)
  <2>1. PICK k \in Int : m = k * d
    BY <1>1 DEF DividesExactly
  <2>2. -m = (-k) * d /\ -k \in Int
    BY <2>1
  <2> QED
    BY <2>2 DEF DividesExactly
<1>2. n = -(-n) /\ -n \in Int
  OBVIOUS
<1> QED
  BY <1>1, <1>2 DEF Magnitude

LEMMA CommonDivisorScales ==
    ASSUME NEW d \in Int, NEW g \in Int, NEW k \in Int, DividesExactly(d, k)
    PROVE  DividesExactly(d * g, k * g)
<1>1. PICK i \in Int : k = i * d
  BY DEF DividesExactly
<1>2. k * g = i * (d * g)
  BY <1>1
<1> QED
  BY <1>2 DEF DividesExactly

LEMMA FactorCancels ==
    ASSUME NEW c \in Int, NEW d \in Int, NEW g \in Nat, g # 0, g = c * (d * g)
    PROVE  c * d = 1
<1>1. c * (d * g) = (c * d) * g
  OBVIOUS
<1>2. PICK u \in Int : u = c * d
  OBVIOUS
<1>3. (u - 1) * g = 0
  BY <1>1, <1>2
<1> QED
  BY <1>2, <1>3

\* What is left of two numbers divided by their greatest common divisor has
\* no divisor in common.
LEMMA QuotientsCoprime ==
    ASSUME GmpGcd, NEW g \in Nat, g # 0, NEW k \in Int, NEW l \in Int,
           NEW n \in Int, NEW m \in Int, n = k * g, m = l * g, g = mpz_gcd(Magnitude(n), m)
    PROVE  Coprime(k, l)
<1>1. ASSUME NEW d \in Int, DividesExactly(d, k), DividesExactly(d, l)
      PROVE  d = 1 \/ d = -1
  <2>1. PICK e \in Int : e = d * g
    OBVIOUS
  <2>2. DividesExactly(e, n) /\ DividesExactly(e, m)
    <3>1. g \in Int
      OBVIOUS
    <3>2. DividesExactly(d * g, k * g) /\ DividesExactly(d * g, l * g)
      BY <1>1, <3>1, CommonDivisorScales, Zenon
    <3> QED
      BY <2>1, <3>2, Zenon
  <2>3. PICK w \in Int : w = Magnitude(n)
    BY DEF Magnitude
  <2>4. DividesExactly(e, w)
    BY <2>2, <2>3, DividesNegative
  <2>5. DividesExactly(e, mpz_gcd(w, m))
    BY <2>2, <2>4 DEF GmpGcd
  <2>6. PICK c \in Int : g = c * e
    BY <2>3, <2>5 DEF DividesExactly
  <2>7. c * d = 1
    BY <2>1, <2>6, FactorCancels
  <2> QED
    BY <2>7, UnitsOnly
<1> QED
  BY <1>1 DEF Coprime

LEMMA AbsHolds ==
    ASSUME LongIsWord, NEW b, IsBigInt(b)
    PROVE  Holds(abs_value(b), Magnitude(Value(b)))
<1>1. Less(b, Small(0)) <=> Value(b) < 0
  BY ComparisonIsExact, OneWord DEF Holds
<1>2. Value(b) \in Int
  BY ValueIsInt
<1> QED
  BY <1>1, <1>2, ExactNegation DEF abs_value, Magnitude, Holds

LEMMA GcdHolds ==
    ASSUME LongIsWord, GmpGcd, NEW a, NEW b, IsBigInt(a), IsBigInt(b)
    PROVE  Holds(Gcd(a, b), mpz_gcd(Value(a), Value(b)))
<1>1. Value(a) \in Int /\ Value(b) \in Int
  BY ValueIsInt
<1>2. mpz_gcd(Value(a), Value(b)) \in Int
  BY <1>1 DEF GmpGcd
<1> QED
  BY <1>2, PromotedIsExact, ShrunkHolds DEF Gcd

\* reduce() yields lowest terms over a positive denominator.
LEMMA ReduceIsExact ==
    ASSUME LongIsWord, GmpGcd, NEW n, NEW d, IsBigInt(n), IsBigInt(d), Value(d) # 0
    PROVE  StandsFor(reduce(n, d), Value(n), Value(d))
<1>1. Value(n) \in Int /\ Value(d) \in Int
  BY ValueIsInt
<1>2. Less(d, Small(0)) <=> Value(d) < 0
  BY ComparisonIsExact, OneWord DEF Holds
<1> DEFINE n1 == IF Less(d, Small(0)) THEN Neg(n) ELSE n
           d1 == IF Less(d, Small(0)) THEN Neg(d) ELSE d
           g  == Gcd(abs_value(n1), d1)
<1>3. /\ Holds(n1, IF Value(d) < 0 THEN -Value(n) ELSE Value(n))
      /\ Holds(d1, IF Value(d) < 0 THEN -Value(d) ELSE Value(d))
  BY <1>2, ExactNegation DEF Holds
<1>4. PICK N \in Int, D \in Int : N = Value(n) /\ D = Value(d) /\ D # 0
  BY <1>1
<1>5. PICK N1 \in Int, D1 \in Nat :
        /\ N1 = Value(n1) /\ D1 = Value(d1) /\ IsBigInt(n1) /\ IsBigInt(d1) /\ D1 # 0
        /\ N1 = (IF D < 0 THEN -N ELSE N) /\ D1 = (IF D < 0 THEN -D ELSE D)
  BY <1>3, <1>4 DEF Holds
<1>6. N1 * D = N * D1
  <2>1. CASE D < 0
    <3>1. N1 = -N /\ D1 = -D
      BY <1>5, <2>1
    <3> QED
      BY <3>1
  <2>2. CASE ~(D < 0)
    BY <1>5, <2>2
  <2> QED
    BY <2>1, <2>2
<1>7. reduce(n, d) = IF IsZero(n1) THEN Fraction(n1, Small(1))
                     ELSE IF Equal(g, Small(1)) THEN Fraction(n1, d1)
                     ELSE Fraction(Div(n1, g), Div(d1, g))
  BY DEF reduce, lowest, cancel
<1>8. /\ IsZero(n1) <=> N1 = 0
      /\ Magnitude(N1) \in Nat
      /\ Holds(abs_value(n1), Magnitude(N1))
  BY <1>5, ComparisonIsExact, OneWord, AbsHolds DEF IsZero, Holds, Magnitude
<1>9. PICK G \in Nat : /\ G = mpz_gcd(Magnitude(N1), D1) /\ G # 0 /\ Holds(g, G)
                       /\ (Equal(g, Small(1)) <=> G = 1)
  <2>1. Holds(g, mpz_gcd(Magnitude(N1), D1))
    BY <1>5, <1>8, GcdHolds DEF Holds
  <2>2. mpz_gcd(Magnitude(N1), D1) \in Nat /\ mpz_gcd(Magnitude(N1), D1) # 0
    BY <1>5, <1>8, GcdIsPositive
  <2>3. Equal(g, Small(1)) <=> Value(g) = 1
    BY <2>1, ComparisonIsExact, OneWord DEF Holds
  <2> QED
    BY <2>1, <2>2, <2>3 DEF Holds
<1> HIDE DEF n1, d1, g
<1>10. CASE N1 = 0
  <2>1. N = 0
    BY <1>5, <1>10
  <2>2. reduce(n, d) = Fraction(n1, Small(1))
    BY <1>7, <1>8, <1>10
  <2>3. Num(reduce(n, d)) = 0 /\ Den(reduce(n, d)) = 1
    <3>1. Value(Small(1)) = 1 /\ Value(n1) = 0
      BY <1>5, <1>10, OneWord DEF Holds
    <3> QED
      BY <2>2, <3>1, PartsOfFraction
  <2>4. IsRational(reduce(n, d))
    BY <1>5, <2>2, <2>3, CoprimeToOne, OneWord, PartsOfFraction DEF IsRational, Holds
  <2> QED
    BY <1>4, <2>1, <2>3, <2>4 DEF StandsFor
<1>11. CASE N1 # 0 /\ G = 1
  <2>1. reduce(n, d) = Fraction(n1, d1)
    BY <1>7, <1>8, <1>9, <1>11
  <2>2. Num(reduce(n, d)) = N1 /\ Den(reduce(n, d)) = D1
    <3>1. Value(n1) = N1 /\ Value(d1) = D1
      BY <1>5 DEF Holds
    <3>2. Num(Fraction(n1, d1)) = Value(n1) /\ Den(Fraction(n1, d1)) = Value(d1)
      BY PartsOfFraction, Zenon
    <3> QED
      BY <2>1, <3>1, <3>2
  <2>3. /\ N1 \in Int /\ D1 \in Int /\ G \in Nat /\ G # 0
        /\ N1 = N1 * G /\ D1 = D1 * G /\ G = mpz_gcd(Magnitude(N1), D1)
    <3>1. 1 \in Nat /\ N1 = N1 * 1 /\ D1 = D1 * 1 /\ D1 \in Int
      OBVIOUS
    <3> QED
      BY <1>9, <1>11, <3>1
  <2>4. Coprime(N1, D1)
    BY <2>3, QuotientsCoprime, Zenon
  <2>5. IsRational(reduce(n, d))
    BY <1>5, <2>1, <2>2, <2>4, PartsOfFraction DEF IsRational
  <2> QED
    BY <1>4, <1>6, <2>2, <2>5 DEF StandsFor
<1>12. CASE N1 # 0 /\ G # 1
  <2>1. reduce(n, d) = Fraction(Div(n1, g), Div(d1, g))
    BY <1>7, <1>8, <1>9, <1>12
  <2>2. DividesExactly(G, Magnitude(N1)) /\ DividesExactly(G, D1)
    BY <1>8, <1>9 DEF GmpGcd
  <2>3. PICK k \in Int, l \in Int : N1 = k * G /\ D1 = l * G
    <3>1. DividesExactly(G, N1)
      BY <2>2, DividesNegative
    <3> QED
      BY <2>2, <3>1 DEF DividesExactly
  <2>4. Holds(Div(n1, g), k) /\ Holds(Div(d1, g), l)
    <3>1. IsBigInt(g) /\ Value(g) = G /\ Value(g) # 0
      BY <1>9 DEF Holds
    <3>2. Holds(Div(n1, g), Quot(N1, G)) /\ Holds(Div(d1, g), Quot(D1, G))
      BY <1>5, <3>1, ExactQuotient
    <3>3. Quot(N1, G) = k /\ Quot(D1, G) = l
      BY <1>9, <2>3, ExactDivision
    <3> QED
      BY <3>2, <3>3
  <2>5. Num(reduce(n, d)) = k /\ Den(reduce(n, d)) = l
    BY <2>1, <2>4, PartsOfFraction DEF Holds
  <2>6. l > 0
    <3>1. CASE l <= 0
      <4>1. D1 = -((-l) * G) /\ (-l) * G \in Nat
        BY <2>3, <3>1
      <4> QED
        BY <1>5, <4>1
    <3> QED
      BY <3>1
  <2>7. Coprime(k, l)
    <3>1. G = mpz_gcd(Magnitude(N1), D1) /\ G # 0 /\ D1 \in Int
      BY <1>5, <1>9
    <3> QED
      BY <2>3, <3>1, QuotientsCoprime, Zenon
  <2>8. IsRational(reduce(n, d))
    BY <2>1, <2>4, <2>5, <2>6, <2>7, PartsOfFraction DEF IsRational, Holds
  <2>9. k * D = N * l
    <3>1. (k * G) * D = N * (l * G)
      BY <1>6, <2>3
    <3>2. PICK u \in Int : u = k * D - N * l
      OBVIOUS
    <3>3. u * G = 0
      BY <3>1, <3>2
    <3>4. u = 0
      BY <1>9, <3>3
    <3> QED
      BY <3>2, <3>4
  <2> QED
    BY <1>4, <2>5, <2>8, <2>9 DEF StandsFor
<1> QED
  BY <1>10, <1>11, <1>12

\* The constructor cancels whatever it is given.
LEMMA RationalHolds ==
    ASSUME LongIsWord, GmpGcd, NEW n, NEW d, IsBigInt(n), IsBigInt(d), Value(d) # 0
    PROVE  StandsFor(Rational(n, d), Value(n), Value(d))
<1>1. ~IsZero(d)
  BY ComparisonIsExact, OneWord DEF IsZero, Holds
<1> QED
  BY <1>1, ReduceIsExact DEF Rational

LEMMA PartsAreInts ==
    ASSUME NEW p, IsRational(p)
    PROVE  /\ Num(p) \in Int /\ Den(p) \in Nat /\ Den(p) # 0
           /\ IsBigInt(p.numerator) /\ IsBigInt(p.denominator)
           /\ Value(p.numerator) = Num(p) /\ Value(p.denominator) = Den(p)
<1>1. IsBigInt(p.numerator) /\ IsBigInt(p.denominator) /\ Den(p) > 0
  BY DEF IsRational
<1>2. Num(p) \in Int /\ Den(p) \in Int
  BY <1>1, ValueIsInt DEF Num, Den
<1> QED
  BY <1>1, <1>2 DEF Num, Den

LEMMA NonZeroProduct == ASSUME NEW i \in Int, NEW j \in Int, i # 0, j # 0 PROVE i * j # 0
OBVIOUS

LEMMA CrossProducts ==
    ASSUME LongIsWord, NEW p, NEW q, IsRational(p), IsRational(q)
    PROVE  /\ Holds(Mul(p.numerator, q.denominator), Num(p) * Den(q))
           /\ Holds(Mul(q.numerator, p.denominator), Num(q) * Den(p))
           /\ Holds(Mul(p.numerator, q.numerator), Num(p) * Num(q))
           /\ Holds(Mul(p.denominator, q.denominator), Den(p) * Den(q))
           /\ Holds(Mul(p.denominator, q.numerator), Den(p) * Num(q))
<1>1. /\ IsBigInt(p.numerator) /\ IsBigInt(p.denominator)
      /\ Value(p.numerator) = Num(p) /\ Value(p.denominator) = Den(p)
  BY PartsAreInts
<1>2. /\ IsBigInt(q.numerator) /\ IsBigInt(q.denominator)
      /\ Value(q.numerator) = Num(q) /\ Value(q.denominator) = Den(q)
  BY PartsAreInts
<1>3. /\ Holds(Mul(p.numerator, q.denominator), Value(p.numerator) * Value(q.denominator))
      /\ Holds(Mul(q.numerator, p.denominator), Value(q.numerator) * Value(p.denominator))
      /\ Holds(Mul(p.numerator, q.numerator), Value(p.numerator) * Value(q.numerator))
      /\ Holds(Mul(p.denominator, q.denominator), Value(p.denominator) * Value(q.denominator))
      /\ Holds(Mul(p.denominator, q.numerator), Value(p.denominator) * Value(q.numerator))
  BY <1>1, <1>2, ExactProduct, Zenon
<1> QED
  BY <1>1, <1>2, <1>3, Zenon

\* The arithmetic of rationals is exact: each operation of rational.cc yields
\* the one representation of its result, in lowest terms over a positive
\* denominator.
THEOREM RationalsAreExact ==
    ASSUME LongIsWord, GmpGcd, NEW p, NEW q, IsRational(p), IsRational(q)
    PROVE  /\ StandsFor(Plus(p, q), Num(p) * Den(q) + Num(q) * Den(p), Den(p) * Den(q))
           /\ StandsFor(Minus(p, q), Num(p) * Den(q) - Num(q) * Den(p), Den(p) * Den(q))
           /\ StandsFor(Times(p, q), Num(p) * Num(q), Den(p) * Den(q))
           /\ Num(q) # 0 => StandsFor(Over(p, q), Num(p) * Den(q), Den(p) * Num(q))
           /\ StandsFor(Negated(p), -Num(p), Den(p))
           /\ Num(p) # 0 => StandsFor(Reciprocal(p), Den(p), Num(p))
<1> DEFINE nd == Mul(p.numerator, q.denominator)
           dn == Mul(q.numerator, p.denominator)
           nn == Mul(p.numerator, q.numerator)
           dd == Mul(p.denominator, q.denominator)
           en == Mul(p.denominator, q.numerator)
<1>1. /\ Holds(nd, Num(p) * Den(q)) /\ Holds(dn, Num(q) * Den(p))
      /\ Holds(nn, Num(p) * Num(q)) /\ Holds(dd, Den(p) * Den(q))
      /\ Holds(en, Den(p) * Num(q))
  BY CrossProducts
<1>2. /\ Num(p) \in Int /\ Den(p) \in Int /\ Den(p) # 0
      /\ Num(q) \in Int /\ Den(q) \in Int /\ Den(q) # 0
      /\ IsBigInt(p.numerator) /\ IsBigInt(p.denominator)
      /\ Value(p.numerator) = Num(p) /\ Value(p.denominator) = Den(p)
      /\ IsBigInt(q.numerator) /\ Value(q.numerator) = Num(q)
  BY PartsAreInts
<1>3. Den(p) * Den(q) # 0 /\ (Num(q) # 0 => Den(p) * Num(q) # 0)
  BY <1>2, NonZeroProduct
<1>4. /\ Plus(p, q) = Rational(Add(nd, dn), dd) /\ Minus(p, q) = Rational(Sub(nd, dn), dd)
      /\ Times(p, q) = Rational(nn, dd)
  BY DEF Plus, Minus, Times, Cross
<1> HIDE DEF nd, dn, nn, dd, en
<1>5. /\ IsBigInt(nd) /\ Value(nd) = Num(p) * Den(q)
      /\ IsBigInt(dn) /\ Value(dn) = Num(q) * Den(p)
      /\ IsBigInt(nn) /\ Value(nn) = Num(p) * Num(q)
      /\ IsBigInt(dd) /\ Value(dd) = Den(p) * Den(q)
      /\ IsBigInt(en) /\ Value(en) = Den(p) * Num(q)
  BY <1>1 DEF Holds
<1>6. /\ Holds(Add(nd, dn), Value(nd) + Value(dn))
      /\ Holds(Sub(nd, dn), Value(nd) - Value(dn))
  BY <1>5, ExactSum, ExactDifference, Zenon
<1>7. StandsFor(Plus(p, q), Num(p) * Den(q) + Num(q) * Den(p), Den(p) * Den(q))
  <2>1. IsBigInt(Add(nd, dn)) /\ Value(Add(nd, dn)) = Value(nd) + Value(dn)
    BY <1>6 DEF Holds
  <2>2. StandsFor(Rational(Add(nd, dn), dd), Value(Add(nd, dn)), Value(dd))
    BY <1>3, <1>5, <2>1, RationalHolds, Zenon
  <2> QED
    BY <1>4, <1>5, <2>1, <2>2, Zenon
<1>8. StandsFor(Minus(p, q), Num(p) * Den(q) - Num(q) * Den(p), Den(p) * Den(q))
  <2>1. IsBigInt(Sub(nd, dn)) /\ Value(Sub(nd, dn)) = Value(nd) - Value(dn)
    BY <1>6 DEF Holds
  <2>2. StandsFor(Rational(Sub(nd, dn), dd), Value(Sub(nd, dn)), Value(dd))
    BY <1>3, <1>5, <2>1, RationalHolds, Zenon
  <2> QED
    BY <1>4, <1>5, <2>1, <2>2, Zenon
<1>9. StandsFor(Times(p, q), Num(p) * Num(q), Den(p) * Den(q))
  <2>1. StandsFor(Rational(nn, dd), Value(nn), Value(dd))
    BY <1>3, <1>5, RationalHolds, Zenon
  <2> QED
    BY <1>4, <1>5, <2>1, Zenon
<1>10. ASSUME Num(q) # 0
       PROVE  StandsFor(Over(p, q), Num(p) * Den(q), Den(p) * Num(q))
  <2>1. ~IsZero(q.numerator)
    BY <1>2, <1>10, ComparisonIsExact, OneWord DEF IsZero, Holds
  <2>2. Over(p, q) = Rational(nd, en)
    BY <2>1 DEF Over, nd, en
  <2>3. StandsFor(Rational(nd, en), Value(nd), Value(en))
    BY <1>3, <1>5, <1>10, RationalHolds, Zenon
  <2> QED
    BY <1>5, <2>2, <2>3, Zenon
<1>11. StandsFor(Negated(p), -Num(p), Den(p))
  <2>1. IsBigInt(Neg(p.numerator)) /\ Value(Neg(p.numerator)) = -Num(p)
    BY <1>2, ExactNegation DEF Holds
  <2>2. StandsFor(Rational(Neg(p.numerator), p.denominator), Value(Neg(p.numerator)),
                  Value(p.denominator))
    BY <1>2, <2>1, RationalHolds, Zenon
  <2> QED
    BY <1>2, <2>1, <2>2 DEF Negated
<1>12. ASSUME Num(p) # 0
       PROVE  StandsFor(Reciprocal(p), Den(p), Num(p))
  <2>1. ~IsZero(p.numerator)
    BY <1>2, <1>12, ComparisonIsExact, OneWord DEF IsZero, Holds
  <2>2. Reciprocal(p) = Rational(p.denominator, p.numerator)
    BY <2>1 DEF Reciprocal
  <2>3. StandsFor(Rational(p.denominator, p.numerator), Value(p.denominator),
                  Value(p.numerator))
    BY <1>2, <1>12, RationalHolds, Zenon
  <2> QED
    BY <1>2, <2>2, <2>3, Zenon
<1> QED
  BY <1>7, <1>8, <1>9, <1>10, <1>11, <1>12, Zenon

\* operator<=> orders rationals as numbers.
THEOREM RationalOrderIsExact ==
    ASSUME LongIsWord, NEW p, NEW q, IsRational(p), IsRational(q)
    PROVE  Order(p, q) < 0 <=> Num(p) * Den(q) < Num(q) * Den(p)
<1> DEFINE nd == Mul(p.numerator, q.denominator)
           dn == Mul(q.numerator, p.denominator)
<1>1. IsBigInt(nd) /\ Value(nd) = Num(p) * Den(q) /\ IsBigInt(dn) /\ Value(dn) = Num(q) * Den(p)
  BY CrossProducts DEF Holds
<1>2. Less(nd, dn) <=> Value(nd) < Value(dn)
  BY <1>1, ComparisonIsExact
<1> QED
  BY <1>1, <1>2 DEF Order, Less

-----------------------------------------------------------------------------
(* The field of rationals. *)

\* The rationals the operations yield.
Rationals == {p \in [numerator : BigInts, denominator : BigInts] : IsRational(p)}

LEMMA CanonicalRationals == ASSUME NEW p PROVE p \in Rationals <=> IsRational(p)
<1>1. ASSUME IsRational(p) PROVE p \in [numerator : BigInts, denominator : BigInts]
  <2>1. p = [numerator |-> p.numerator, denominator |-> p.denominator]
    BY <1>1 DEF IsRational, Fraction
  <2>2. p.numerator \in BigInts /\ p.denominator \in BigInts
    BY <1>1 DEF IsRational, IsBigInt
  <2>3. PICK n \in BigInts, d \in BigInts : n = p.numerator /\ d = p.denominator
    BY <2>2
  <2>4. p = [numerator |-> n, denominator |-> d]
    BY <2>1, <2>3, Zenon
  <2> QED
    BY <2>3, <2>4
<1> QED
  BY <1>1 DEF Rationals

LEMMA Cancel ==
    ASSUME NEW i \in Int, NEW j \in Int, NEW k \in Int, k # 0, i * k = j * k
    PROVE  i = j
<1>1. (i - j) * k = 0
  BY ProductsDistribute
<1>2. PICK u \in Int : u = i - j
  OBVIOUS
<1>3. u * k = 0
  BY <1>1, <1>2
<1>4. u = 0
  BY <1>3
<1> QED
  BY <1>2, <1>4

\* A number that divides a product and has no divisor in common with one of
\* the factors divides the other one.
LEMMA DividesOther ==
    ASSUME GmpGcd, NEW n \in Int, NEW d \in Int, NEW k \in Nat, k # 0,
           Coprime(n, d), DividesExactly(d, n * k)
    PROVE  DividesExactly(d, k)
<1>1. PICK i \in Int, j \in Int : i = n * k /\ j = d * k
  OBVIOUS
<1>2. PICK g \in Nat : g = mpz_gcd(i, j)
  BY DEF GmpGcd
<1>3. /\ DividesExactly(g, i) /\ DividesExactly(g, j)
      /\ \A e \in Int : DividesExactly(e, i) /\ DividesExactly(e, j) => DividesExactly(e, g)
  BY <1>2 DEF GmpGcd
<1>4. DividesExactly(k, i) /\ DividesExactly(k, j)
  BY <1>1 DEF DividesExactly
<1>5. PICK h \in Int : g = h * k
  <2>1. k \in Int
    OBVIOUS
  <2>2. DividesExactly(k, g)
    BY <1>3, <1>4, <2>1
  <2> QED
    BY <2>2 DEF DividesExactly
<1>6. DividesExactly(h, n) /\ DividesExactly(h, d)
  <2>1. ASSUME NEW m \in Int, DividesExactly(g, m * k) PROVE DividesExactly(h, m)
    <3>1. PICK q \in Int : m * k = q * g
      BY <2>1 DEF DividesExactly
    <3>2. m * k = (q * h) * k /\ q * h \in Int
      BY <1>5, <3>1
    <3>3. m = q * h
      BY <3>2, Cancel
    <3> QED
      BY <3>3 DEF DividesExactly
  <2> QED
    BY <1>1, <1>3, <2>1
<1>7. h = 1 \/ h = -1
  BY <1>6 DEF Coprime
<1>8. DividesExactly(d, j)
  BY <1>1 DEF DividesExactly
<1>9. DividesExactly(d, g)
  BY <1>1, <1>3, <1>8
<1>10. PICK q \in Int : g = q * d
  BY <1>9 DEF DividesExactly
<1>11. k = q * d \/ k = (-q) * d
  <2>1. k = g \/ k = -g
    BY <1>5, <1>7
  <2>2. (-q) * d = -(q * d)
    OBVIOUS
  <2> QED
    BY <1>10, <2>1, <2>2
<1>12. -q \in Int
  OBVIOUS
<1> QED
  BY <1>11, <1>12 DEF DividesExactly

LEMMA DividesBothWays ==
    ASSUME NEW d \in Nat, NEW k \in Nat, d # 0, k # 0, DividesExactly(d, k)
    PROVE  d <= k
<1>1. PICK q \in Int : k = q * d
  BY DEF DividesExactly
<1>2. q >= 1
  <2>1. CASE q <= 0
    <3>1. k = -((-q) * d) /\ (-q) * d \in Nat
      BY <1>1, <2>1
    <3> QED
      BY <3>1
  <2> QED
    BY <2>1
<1>3. k = d + (q - 1) * d /\ (q - 1) * d \in Nat
  BY <1>1, <1>2
<1> QED
  BY <1>3

\* A number has one representation in lowest terms.
LEMMA OneRational ==
    ASSUME LongIsWord, GmpGcd, NEW p, NEW q, IsRational(p), IsRational(q),
           Num(p) * Den(q) = Num(q) * Den(p)
    PROVE  p = q
<1>1. PICK a \in Int, b \in Nat : a = Num(p) /\ b = Den(p) /\ b # 0
  BY PartsAreInts
<1>2. PICK c \in Int, d \in Nat : c = Num(q) /\ d = Den(q) /\ d # 0
  BY PartsAreInts
<1>3. a * d = c * b /\ Coprime(a, b) /\ Coprime(c, d)
  BY <1>1, <1>2 DEF IsRational
<1>4. DividesExactly(b, d)
  <2>1. DividesExactly(b, a * d)
    BY <1>3 DEF DividesExactly
  <2> QED
    BY <1>1, <1>2, <1>3, <2>1, DividesOther
<1>5. DividesExactly(d, b)
  <2>1. DividesExactly(d, c * b)
    BY <1>3 DEF DividesExactly
  <2> QED
    BY <1>1, <1>2, <1>3, <2>1, DividesOther
<1>6. b = d
  BY <1>1, <1>2, <1>4, <1>5, DividesBothWays
<1>7. a = c
  BY <1>1, <1>3, <1>6, Cancel
<1>8. p.numerator = q.numerator
  <2>1. IsBigInt(p.numerator) /\ IsBigInt(q.numerator) /\ Value(p.numerator) = Value(q.numerator)
    BY <1>1, <1>2, <1>7, PartsAreInts
  <2> QED
    BY <2>1, ComparisonIsExact
<1>9. p.denominator = q.denominator
  <2>1. IsBigInt(p.denominator) /\ IsBigInt(q.denominator) /\ Value(p.denominator) = Value(q.denominator)
    BY <1>1, <1>2, <1>6, PartsAreInts
  <2> QED
    BY <2>1, ComparisonIsExact
<1> QED
  BY <1>8, <1>9, Zenon DEF IsRational

\* Whatever fractions the operands stand for, the operations stand for the
\* fractions that the rules of arithmetic make of them.
LEMMA OperationsStandFor ==
    ASSUME LongIsWord, GmpGcd, NEW p, NEW q,
           NEW n \in Int, NEW d \in Int, NEW m \in Int, NEW e \in Int,
           StandsFor(p, n, d), StandsFor(q, m, e)
    PROVE  /\ StandsFor(Plus(p, q), n * e + m * d, d * e)
           /\ StandsFor(Minus(p, q), n * e - m * d, d * e)
           /\ StandsFor(Times(p, q), n * m, d * e)
<1>1. IsRational(p) /\ IsRational(q)
  BY DEF StandsFor
<1>2. PICK a \in Int, b \in Nat : a = Num(p) /\ b = Den(p) /\ b # 0
  BY <1>1, PartsAreInts
<1>3. PICK c \in Int, f \in Nat : c = Num(q) /\ f = Den(q) /\ f # 0
  BY <1>1, PartsAreInts
<1>4. a * d = n * b /\ c * e = m * f
  BY <1>2, <1>3 DEF StandsFor
<1>5. b * f # 0
  BY <1>2, <1>3, NonZeroProduct
<1>6. /\ StandsFor(Plus(p, q), a * f + c * b, b * f)
      /\ StandsFor(Minus(p, q), a * f - c * b, b * f)
      /\ StandsFor(Times(p, q), a * c, b * f)
  BY <1>1, <1>2, <1>3, RationalsAreExact
<1> DEFINE Carries(k, l) == \A i, j \in Int : i * (b * f) = k * j => i * (d * e) = l * j
<1>7. ASSUME NEW r, NEW k, NEW l, StandsFor(r, k, b * f), Carries(k, l)
      PROVE  StandsFor(r, l, d * e)
  <2>1. IsRational(r) /\ Num(r) * (b * f) = k * Den(r)
    BY <1>7 DEF StandsFor
  <2>2. PICK i \in Int, j \in Int : i = Num(r) /\ j = Den(r)
    BY <2>1, PartsAreInts
  <2>3. i * (d * e) = l * j
    BY <1>7, <2>1, <2>2
  <2> QED
    BY <2>1, <2>2, <2>3 DEF StandsFor
<1>8. PICK u \in Int, w \in Int, k1 \in Int, k2 \in Int, k3 \in Int, l1 \in Int, l2 \in Int, l3 \in Int :
        /\ u = b * f /\ w = d * e /\ k1 = a * f /\ k2 = c * b /\ k3 = a * c
        /\ l1 = n * e /\ l2 = m * d /\ l3 = n * m
  OBVIOUS
<1>9. k1 * w = l1 * u
  <2>1. (a * f) * (d * e) = (a * d) * (f * e)
    OBVIOUS
  <2>2. (n * e) * (b * f) = (n * b) * (f * e)
    OBVIOUS
  <2> QED
    BY <1>4, <1>8, <2>1, <2>2
<1>10. k2 * w = l2 * u
  <2>1. (c * b) * (d * e) = (c * e) * (b * d)
    OBVIOUS
  <2>2. (m * d) * (b * f) = (m * f) * (b * d)
    OBVIOUS
  <2> QED
    BY <1>4, <1>8, <2>1, <2>2
<1>11. k3 * w = l3 * u
  <2>1. (a * c) * (d * e) = (a * d) * (c * e)
    OBVIOUS
  <2>2. (n * m) * (b * f) = (n * b) * (m * f)
    OBVIOUS
  <2> QED
    BY <1>4, <1>8, <2>1, <2>2
<1>12. (k1 + k2) * w = (l1 + l2) * u /\ (k1 - k2) * w = (l1 - l2) * u
  <2>1. (k1 + k2) * w = k1 * w + k2 * w /\ (k1 - k2) * w = k1 * w - k2 * w
    OBVIOUS
  <2>2. (l1 + l2) * u = l1 * u + l2 * u /\ (l1 - l2) * u = l1 * u - l2 * u
    OBVIOUS
  <2> QED
    BY <1>9, <1>10, <2>1, <2>2
<1>13. ASSUME NEW k \in Int, NEW l \in Int, k * w = l * u
       PROVE  Carries(k, l)
  <2> SUFFICES ASSUME NEW i \in Int, NEW j \in Int, i * u = k * j PROVE i * w = l * j
    BY <1>8
  <2>1. (i * w) * u = (i * u) * w
    OBVIOUS
  <2>2. (k * j) * w = (k * w) * j
    OBVIOUS
  <2>3. (l * u) * j = (l * j) * u
    OBVIOUS
  <2>4. (i * w) * u = (l * j) * u
    BY <1>13, <2>1, <2>2, <2>3
  <2>5. i * w \in Int /\ l * j \in Int /\ u # 0
    BY <1>5, <1>8
  <2> QED
    BY <2>4, <2>5, Cancel
<1> HIDE DEF Carries
<1>14. Carries(k1 + k2, l1 + l2) /\ Carries(k1 - k2, l1 - l2) /\ Carries(k3, l3)
  BY <1>11, <1>12, <1>13
<1>15. /\ StandsFor(Plus(p, q), k1 + k2, b * f)
       /\ StandsFor(Minus(p, q), k1 - k2, b * f)
       /\ StandsFor(Times(p, q), k3, b * f)
  BY <1>6, <1>8, Zenon
<1>16. /\ StandsFor(Plus(p, q), l1 + l2, d * e)
       /\ StandsFor(Minus(p, q), l1 - l2, d * e)
       /\ StandsFor(Times(p, q), l3, d * e)
  BY <1>7, <1>14, <1>15, Zenon
<1> QED
  BY <1>8, <1>16, Zenon

LEMMA OneNumber ==
    ASSUME LongIsWord, GmpGcd, NEW p, NEW q,
           NEW n \in Int, NEW d \in Int, NEW m \in Int, NEW e \in Int, d # 0, e # 0,
           StandsFor(p, n, d), StandsFor(q, m, e), n * e = m * d
    PROVE  p = q
<1>1. IsRational(p) /\ IsRational(q)
  BY DEF StandsFor
<1>2. PICK a \in Int, b \in Int : a = Num(p) /\ b = Den(p)
  BY <1>1, PartsAreInts
<1>3. PICK c \in Int, f \in Int : c = Num(q) /\ f = Den(q)
  BY <1>1, PartsAreInts
<1>4. a * d = n * b /\ c * e = m * f
  BY <1>2, <1>3 DEF StandsFor
<1>5. (a * f) * (d * e) = (n * e) * (b * f)
  <2>1. (a * f) * (d * e) = (a * d) * (f * e)
    OBVIOUS
  <2>2. (n * e) * (b * f) = (n * b) * (f * e)
    OBVIOUS
  <2> QED
    BY <1>4, <2>1, <2>2
<1>6. (c * b) * (d * e) = (m * d) * (b * f)
  <2>1. (c * b) * (d * e) = (c * e) * (b * d)
    OBVIOUS
  <2>2. (m * d) * (b * f) = (m * f) * (b * d)
    OBVIOUS
  <2> QED
    BY <1>4, <2>1, <2>2
<1>7. PICK u \in Int, v \in Int, w \in Int : u = a * f /\ v = c * b /\ w = d * e
  OBVIOUS
<1>8. u * w = v * w
  BY <1>5, <1>6, <1>7
<1>9. w # 0
  BY <1>7, NonZeroProduct
<1>10. u = v
  BY <1>8, <1>9, Cancel
<1> QED
  BY <1>1, <1>2, <1>3, <1>7, <1>10, OneRational

LEMMA ConstantRationals ==
    ASSUME LongIsWord, NEW bound, NEW n \in Int
    PROVE  StandsFor(element(RationalField(bound), n), n, 1)
<1> DEFINE p == Fraction(Shrunk(n), Small(1))
<1>1. element(RationalField(bound), n) = p
  BY DEF element, RationalField
<1>2. p.numerator = Shrunk(n) /\ p.denominator = Small(1) /\ Num(p) = Value(Shrunk(n)) /\ Den(p) = Value(Small(1))
  BY PartsOfFraction
<1> HIDE DEF p
<1>3. IsBigInt(Shrunk(n)) /\ Value(Shrunk(n)) = n /\ IsBigInt(Small(1)) /\ Value(Small(1)) = 1
  BY ShrunkHolds, OneWord DEF Holds
<1>4. p = Fraction(p.numerator, p.denominator)
  BY <1>2 DEF p
<1>5. Num(p) = n /\ Den(p) = 1
  BY <1>2, <1>3
<1>6. IsRational(p)
  BY <1>2, <1>3, <1>4, <1>5, CoprimeToOne DEF IsRational
<1> QED
  BY <1>1, <1>5, <1>6 DEF StandsFor

\* The rationals of rational.cc, in lowest terms over a positive denominator, are
\* a field under the operations of RationalField: every law holds as an equality
\* of representations, with words and with GMP's integers.
THEOREM RationalsAreAField ==
    ASSUME LongIsWord, GmpGcd, NEW bound
    PROVE  FieldLaws(RationalField(bound), Rationals)
<1> DEFINE F == RationalField(bound)
<1>1. \A p, q : /\ add(F, p, q) = Plus(p, q) /\ sub(F, p, q) = Minus(p, q)
                /\ mul(F, p, q) = Times(p, q) /\ inv(F, p) = Reciprocal(p)
                /\ is_zero(F, p) = SameRational(p, zero(F))
  BY DEF add, sub, mul, inv, is_zero, RationalField
<1>2. StandsFor(zero(F), 0, 1) /\ StandsFor(one(F), 1, 1)
  BY ConstantRationals DEF zero, one
<1> HIDE DEF F
<1> DEFINE O == zero(F)
           I == one(F)
           Q(p, n, d) == n \in Int /\ d \in Int /\ d # 0 /\ StandsFor(p, n, d)
<1>3. Q(O, 0, 1) /\ Q(I, 1, 1)
  BY <1>2
<1>4. \A p \in Rationals : \E n, d : Q(p, n, d)
  <2> TAKE p \in Rationals
  <2>1. IsRational(p)
    BY CanonicalRationals
  <2>2. Num(p) \in Int /\ Den(p) \in Int /\ Den(p) # 0
    BY <2>1, PartsAreInts
  <2>3. Q(p, Num(p), Den(p))
    BY <2>1, <2>2 DEF StandsFor
  <2> HIDE DEF Q
  <2> QED
    BY <2>3, Zenon
<1>5. \A p, n, d : Q(p, n, d) => p \in Rationals
  BY CanonicalRationals DEF StandsFor
<1>6. ASSUME NEW p, NEW n, NEW d, NEW q, NEW m, NEW e, Q(p, n, d), Q(q, m, e)
      PROVE  /\ Q(Plus(p, q), n * e + m * d, d * e)
             /\ Q(Minus(p, q), n * e - m * d, d * e)
             /\ Q(Times(p, q), n * m, d * e)
  <2>1. /\ n * e + m * d \in Int /\ n * e - m * d \in Int /\ n * m \in Int
        /\ d * e \in Int /\ d * e # 0
    BY <1>6, NonZeroProduct
  <2>2. n \in Int /\ d \in Int /\ m \in Int /\ e \in Int /\ StandsFor(p, n, d) /\ StandsFor(q, m, e)
    BY <1>6
  <2> QED
    BY <2>1, <2>2, OperationsStandFor
<1>7. ASSUME NEW p, NEW n, NEW d, NEW q, NEW m, NEW e, Q(p, n, d), Q(q, m, e), n * e = m * d
      PROVE  p = q
  BY <1>7, OneNumber
<1>8. ASSUME NEW p, NEW n, NEW d, Q(p, n, d)
      PROVE  p = O <=> n = 0
  <2>1. IsRational(p) /\ Num(p) * d = n * Den(p)
    BY <1>8 DEF StandsFor
  <2>2. IsRational(O) /\ Num(O) * 1 = 0 * Den(O)
    BY <1>3 DEF StandsFor
  <2>3. Num(p) \in Int /\ Den(p) \in Int /\ Den(p) # 0 /\ Num(O) \in Int /\ Den(O) \in Int
    BY <2>1, <2>2, PartsAreInts
  <2>4. ASSUME p = O PROVE n = 0
    <3>1. n * Den(p) = 0
      BY <2>1, <2>2, <2>3, <2>4, <1>8
    <3> QED
      BY <2>3, <3>1, <1>8, NonZeroProduct
  <2>5. ASSUME n = 0 PROVE p = O
    <3>1. n * 1 = 0 * d
      BY <2>5, <1>8
    <3> QED
      BY <1>3, <1>7, <1>8, <3>1
  <2> QED
    BY <2>4, <2>5
<1>9. \A p \in Rationals : is_zero(F, p) <=> p = O
  <2> TAKE p \in Rationals
  <2>1. IsRational(p) /\ IsRational(O)
    BY <1>3, CanonicalRationals DEF StandsFor
  <2>2. is_zero(F, p) <=> p.numerator = O.numerator /\ p.denominator = O.denominator
    BY <1>1, <2>1, ComparisonIsExact DEF IsRational, SameRational
  <2> QED
    BY <2>1, <2>2 DEF IsRational
<1>10. O # I
  <2>1. ~(1 = 0)
    OBVIOUS
  <2> HIDE DEF Q, O, I
  <2> QED
    BY <1>3, <1>8, <2>1
<1>11. O \in Rationals /\ I \in Rationals
  BY <1>3, <1>5, Zenon
<1> HIDE DEF Q
<1>12. ASSUME NEW p \in Rationals
       PROVE  /\ add(F, O, p) = p /\ mul(F, I, p) = p
              /\ p # O => inv(F, p) \in Rationals /\ mul(F, p, inv(F, p)) = I
  <2>1. PICK a, b : Q(p, a, b)
    BY <1>4, Zenon
  <2>2. a \in Int /\ b \in Int /\ b # 0
    BY <2>1 DEF Q
  <2>3. Plus(O, p) = p
    <3>1. Q(Plus(O, p), 0 * b + a * 1, 1 * b)
      BY <1>3, <1>6, <2>1, Zenon
    <3>2. (0 * b + a * 1) * b = a * (1 * b)
      BY <2>2
    <3> QED
      BY <1>7, <2>1, <3>1, <3>2, Zenon
  <2>4. Times(I, p) = p
    <3>1. Q(Times(I, p), 1 * a, 1 * b)
      BY <1>3, <1>6, <2>1, Zenon
    <3>2. (1 * a) * b = a * (1 * b)
      BY <2>2
    <3> QED
      BY <1>7, <2>1, <3>1, <3>2, Zenon
  <2>5. ASSUME p # O PROVE Reciprocal(p) \in Rationals /\ Times(p, Reciprocal(p)) = I
    <3>1. IsRational(p)
      BY CanonicalRationals
    <3>2. PICK c \in Int, f \in Int : c = Num(p) /\ f = Den(p) /\ f # 0
      BY <3>1, PartsAreInts
    <3>3. Q(p, c, f)
      BY <3>1, <3>2 DEF Q, StandsFor
    <3>4. c # 0
      BY <1>8, <2>5, <3>3, Zenon
    <3>5. StandsFor(Reciprocal(p), f, c)
      BY <3>1, <3>2, <3>4, RationalsAreExact
    <3>6. Q(Reciprocal(p), f, c)
      BY <3>2, <3>4, <3>5 DEF Q
    <3>7. Q(Times(p, Reciprocal(p)), c * f, f * c)
      BY <1>6, <3>3, <3>6, Zenon
    <3>8. (c * f) * 1 = 1 * (f * c)
      OBVIOUS
    <3> QED
      BY <1>3, <1>5, <1>7, <3>6, <3>7, <3>8, Zenon
  <2> QED
    BY <1>1, <2>3, <2>4, <2>5, Zenon
<1>13. ASSUME NEW p \in Rationals, NEW q \in Rationals
       PROVE  /\ add(F, p, q) \in Rationals /\ sub(F, p, q) \in Rationals /\ mul(F, p, q) \in Rationals
              /\ add(F, p, q) = add(F, q, p) /\ mul(F, p, q) = mul(F, q, p)
              /\ add(F, sub(F, p, q), q) = p
  <2>1. PICK a, b : Q(p, a, b)
    BY <1>4, Zenon
  <2>2. PICK c, d : Q(q, c, d)
    BY <1>4, Zenon
  <2>3. a \in Int /\ b \in Int /\ c \in Int /\ d \in Int
    BY <2>1, <2>2 DEF Q
  <2>4. /\ Q(Plus(p, q), a * d + c * b, b * d) /\ Q(Minus(p, q), a * d - c * b, b * d)
        /\ Q(Times(p, q), a * c, b * d)
    BY <1>6, <2>1, <2>2, Zenon
  <2>5. Q(Plus(q, p), c * b + a * d, d * b) /\ Q(Times(q, p), c * a, d * b)
    BY <1>6, <2>1, <2>2, Zenon
  <2>6. Q(Plus(Minus(p, q), q), (a * d - c * b) * d + c * (b * d), (b * d) * d)
    BY <1>6, <2>2, <2>4, Zenon
  <2>7. /\ (a * d + c * b) * (d * b) = (c * b + a * d) * (b * d)
        /\ (a * c) * (d * b) = (c * a) * (b * d)
    BY <2>3
  <2>8. ((a * d - c * b) * d + c * (b * d)) * b = a * ((b * d) * d)
    <3>1. (a * d - c * b) * d + c * (b * d) = (a * d) * d
      BY <2>3
    <3>2. ((a * d) * d) * b = a * ((b * d) * d)
      BY <2>3
    <3> QED
      BY <3>1, <3>2
  <2>9. Plus(p, q) \in Rationals /\ Minus(p, q) \in Rationals /\ Times(p, q) \in Rationals
    BY <1>5, <2>4, Zenon
  <2>10. Plus(p, q) = Plus(q, p) /\ Times(p, q) = Times(q, p)
    BY <1>7, <2>4, <2>5, <2>7, Zenon
  <2>11. Plus(Minus(p, q), q) = p
    BY <1>7, <2>1, <2>6, <2>8, Zenon
  <2> QED
    BY <1>1, <2>9, <2>10, <2>11, Zenon
<1>14. ASSUME NEW p \in Rationals, NEW q \in Rationals, NEW r \in Rationals
       PROVE  /\ add(F, add(F, p, q), r) = add(F, p, add(F, q, r))
              /\ mul(F, mul(F, p, q), r) = mul(F, p, mul(F, q, r))
              /\ mul(F, p, add(F, q, r)) = add(F, mul(F, p, q), mul(F, p, r))
  <2>1. PICK a, b : Q(p, a, b)
    BY <1>4, Zenon
  <2>2. PICK c, d : Q(q, c, d)
    BY <1>4, Zenon
  <2>3. PICK e, f : Q(r, e, f)
    BY <1>4, Zenon
  <2>4. a \in Int /\ b \in Int /\ c \in Int /\ d \in Int /\ e \in Int /\ f \in Int
    BY <2>1, <2>2, <2>3 DEF Q
  <2>5. /\ Q(Plus(p, q), a * d + c * b, b * d) /\ Q(Times(p, q), a * c, b * d)
        /\ Q(Plus(q, r), c * f + e * d, d * f) /\ Q(Times(q, r), c * e, d * f)
        /\ Q(Times(p, r), a * e, b * f)
    BY <1>6, <2>1, <2>2, <2>3, Zenon
  <2>6. Plus(Plus(p, q), r) = Plus(p, Plus(q, r))
    <3>1. Q(Plus(Plus(p, q), r), (a * d + c * b) * f + e * (b * d), (b * d) * f)
      BY <1>6, <2>3, <2>5, Zenon
    <3>2. Q(Plus(p, Plus(q, r)), a * (d * f) + (c * f + e * d) * b, b * (d * f))
      BY <1>6, <2>1, <2>5, Zenon
    <3>3. (a * d + c * b) * f + e * (b * d) = a * (d * f) + (c * f + e * d) * b
      BY <2>4
    <3>4. (b * d) * f = b * (d * f)
      BY <2>4
    <3>5. ((a * d + c * b) * f + e * (b * d)) * (b * (d * f))
            = (a * (d * f) + (c * f + e * d) * b) * ((b * d) * f)
      BY <3>3, <3>4
    <3> QED
      BY <1>7, <3>1, <3>2, <3>5, Zenon
  <2>7. Times(Times(p, q), r) = Times(p, Times(q, r))
    <3>1. Q(Times(Times(p, q), r), (a * c) * e, (b * d) * f)
      BY <1>6, <2>3, <2>5, Zenon
    <3>2. Q(Times(p, Times(q, r)), a * (c * e), b * (d * f))
      BY <1>6, <2>1, <2>5, Zenon
    <3>3. (a * c) * e = a * (c * e) /\ (b * d) * f = b * (d * f)
      BY <2>4
    <3>4. ((a * c) * e) * (b * (d * f)) = (a * (c * e)) * ((b * d) * f)
      BY <3>3
    <3> QED
      BY <1>7, <3>1, <3>2, <3>4, Zenon
  <2>8. Times(p, Plus(q, r)) = Plus(Times(p, q), Times(p, r))
    <3>1. Q(Times(p, Plus(q, r)), a * (c * f + e * d), b * (d * f))
      BY <1>6, <2>1, <2>5, Zenon
    <3>2. Q(Plus(Times(p, q), Times(p, r)), (a * c) * (b * f) + (a * e) * (b * d), (b * d) * (b * f))
      <4>1. Q(Times(p, q), a * c, b * d) /\ Q(Times(p, r), a * e, b * f)
        BY <2>5, Zenon
      <4> QED
        BY <1>6, <4>1, Zenon
    <3>3. (a * c) * (b * f) + (a * e) * (b * d) = (a * (c * f + e * d)) * b
      BY <2>4
    <3>4. (b * d) * (b * f) = (b * (d * f)) * b
      BY <2>4
    <3>5. PICK i \in Int, j \in Int : i = a * (c * f + e * d) /\ j = b * (d * f)
      BY <2>4
    <3>6. i * (j * b) = (i * b) * j
      BY <2>4
    <3>7. (a * (c * f + e * d)) * ((b * d) * (b * f))
            = ((a * c) * (b * f) + (a * e) * (b * d)) * (b * (d * f))
      BY <3>3, <3>4, <3>5, <3>6
    <3>8. PICK k, l, m, n : /\ k = a * (c * f + e * d) /\ l = b * (d * f)
                            /\ m = (a * c) * (b * f) + (a * e) * (b * d) /\ n = (b * d) * (b * f)
      OBVIOUS
    <3>9. Q(Times(p, Plus(q, r)), k, l) /\ Q(Plus(Times(p, q), Times(p, r)), m, n) /\ k * n = m * l
      BY <3>1, <3>2, <3>7, <3>8, Zenon
    <3> QED
      BY <1>7, <3>9, Zenon
  <2>9. add(F, add(F, p, q), r) = Plus(Plus(p, q), r) /\ add(F, p, add(F, q, r)) = Plus(p, Plus(q, r))
    BY <1>1, Zenon
  <2>10. mul(F, mul(F, p, q), r) = Times(Times(p, q), r) /\ mul(F, p, mul(F, q, r)) = Times(p, Times(q, r))
    BY <1>1, Zenon
  <2>11. mul(F, p, add(F, q, r)) = Times(p, Plus(q, r))
    BY <1>1, Zenon
  <2>12. add(F, mul(F, p, q), mul(F, p, r)) = Plus(Times(p, q), Times(p, r))
    BY <1>1, Zenon
  <2> QED
    <3>1. add(F, add(F, p, q), r) = add(F, p, add(F, q, r))
      BY <2>6, <2>9
    <3>2. mul(F, mul(F, p, q), r) = mul(F, p, mul(F, q, r))
      BY <2>7, <2>10
    <3>3. mul(F, p, add(F, q, r)) = add(F, mul(F, p, q), mul(F, p, r))
      BY <2>8, <2>11, <2>12
    <3> QED
      BY <3>1, <3>2, <3>3
<1>15. UnaryLaws(F, Rationals)
  BY <1>9, <1>10, <1>11, <1>12 DEF UnaryLaws
<1>16. BinaryLaws(F, Rationals)
  BY <1>13 DEF BinaryLaws
<1>17. TernaryLaws(F, Rationals)
  BY <1>14 DEF TernaryLaws
<1> QED
  BY <1>15, <1>16, <1>17 DEF FieldLaws, F

-----------------------------------------------------------------------------
(* Residues. *)

LEMMA RemainderIsUnique ==
    ASSUME NEW n \in Int, NEW d \in Nat, d # 0, NEW k \in Int, 0 <= n - d * k, n - d * k < d
    PROVE  n % d = n - d * k
<1>1. PICK q \in Int, r \in Nat : q = n \div d /\ r = n % d /\ r < d /\ n = d * q + r
  BY Z3
<1>2. PICK e \in Int : e = q - k
  OBVIOUS
<1>3. d * e = (n - d * k) - r
  <2>1. d * (q - k) = d * q - d * k
    BY ProductsDistribute
  <2>2. PICK i \in Int, j \in Int, h \in Int : i = d * q /\ j = d * k /\ h = d * e
    OBVIOUS
  <2>3. h = i - j
    BY <1>2, <2>1, <2>2, Zenon
  <2> QED
    BY <1>1, <2>2, <2>3
<1>4. CASE e >= 1
  <2>1. d * e = d + d * (e - 1) /\ d * (e - 1) \in Nat
    BY <1>4
  <2> QED
    BY <1>1, <1>3, <2>1
<1>5. CASE e <= -1
  <2>1. d * e = -d - d * (-e - 1) /\ d * (-e - 1) \in Nat
    BY <1>5
  <2> QED
    BY <1>1, <1>3, <2>1
<1>6. CASE e = 0
  BY <1>1, <1>3, <1>6
<1> QED
  BY <1>4, <1>5, <1>6

LEMMA ModOnce ==
    ASSUME NEW n \in Int, NEW d \in Nat, d # 0
    PROVE  /\ 0 <= n /\ n < d => n % d = n
           /\ d <= n /\ n < 2 * d => n % d = n - d
           /\ -d <= n /\ n < 0 => n % d = n + d
<1>1. d * 0 = 0 /\ d * 1 = d /\ d * (-1) = -d
  OBVIOUS
<1>2. /\ 0 <= n - d * 0 /\ n - d * 0 < d => n % d = n - d * 0
      /\ 0 <= n - d * 1 /\ n - d * 1 < d => n % d = n - d * 1
      /\ 0 <= n - d * (-1) /\ n - d * (-1) < d => n % d = n - d * (-1)
  <2>1. \A k \in Int : 0 <= n - d * k /\ n - d * k < d => n % d = n - d * k
    BY RemainderIsUnique
  <2> QED
    BY <2>1
<1> QED
  BY <1>1, <1>2

\* The modulus may be any word but zero.
IsResidue(a, m) == a = [modulus |-> m, value |-> a.value] /\ a.value \in 0 .. m - 1

\* What the word holds of a sum and of a difference.
LEMMA UnsignedSums ==
    ASSUME NEW v \in 0 .. MaxUnsigned, NEW w \in 0 .. MaxUnsigned
    PROVE  /\ Unsigned(v + w) = IF v + w <= MaxUnsigned THEN v + w ELSE v + w - (MaxUnsigned + 1)
           /\ Unsigned(v - w) = IF v >= w THEN v - w ELSE v - w + (MaxUnsigned + 1)
<1>1. PICK M \in Nat : M = MaxUnsigned
  BY UnsignedAssumption
<1>2. v \in Nat /\ w \in Nat /\ v <= M /\ w <= M
  BY <1>1
<1>3. Unsigned(v + w) = (v + w) % (M + 1) /\ Unsigned(v - w) = (v - w) % (M + 1)
  BY <1>1 DEF Unsigned
<1>4. PICK d \in Nat : d = M + 1 /\ d # 0
  OBVIOUS
<1>5. PICK i \in Int, j \in Int : i = v + w /\ j = v - w
  BY <1>2
<1>6. /\ 0 <= i /\ i < d => i % d = i
      /\ d <= i /\ i < 2 * d => i % d = i - d
      /\ 0 <= j /\ j < d => j % d = j
      /\ -d <= j /\ j < 0 => j % d = j + d
  BY <1>4, ModOnce
<1> QED
  BY <1>1, <1>2, <1>3, <1>4, <1>5, <1>6

\* Also the sum that wrapped around, which looks small, is brought below the
\* modulus: the sum of two residues takes two subtractions, of the word's range
\* and of the modulus, in either order.
LEMMA WrappedSum ==
    ASSUME NEW m \in 1 .. MaxUnsigned, NEW v \in 0 .. m - 1, NEW w \in 0 .. m - 1
    PROVE  /\ (IF Unsigned(v + w) >= m \/ Unsigned(v + w) < v
               THEN Unsigned(Unsigned(v + w) - m) ELSE Unsigned(v + w)) = (v + w) % m
           /\ (IF v < w THEN Unsigned(Unsigned(v - w) + m) ELSE Unsigned(v - w)) = (v - w) % m
           /\ (IF v = 0 THEN 0 ELSE Unsigned(m - v)) = (-v) % m
<1>1. PICK M \in Nat : M = MaxUnsigned /\ m \in Nat /\ m # 0 /\ m <= M
  BY UnsignedAssumption
<1>2. v \in Nat /\ w \in Nat /\ v < m /\ w < m
  BY <1>1
<1>3. /\ (v + w) % m = IF v + w < m THEN v + w ELSE v + w - m
      /\ (v - w) % m = IF v >= w THEN v - w ELSE v - w + m
      /\ (-v) % m = IF v = 0 THEN 0 ELSE m - v
  <2>1. PICK i \in Int, j \in Int, k \in Int : i = v + w /\ j = v - w /\ k = -v
    BY <1>2
  <2>2. /\ 0 <= i /\ i < m => i % m = i
        /\ m <= i /\ i < 2 * m => i % m = i - m
        /\ 0 <= j /\ j < m => j % m = j
        /\ -m <= j /\ j < 0 => j % m = j + m
        /\ 0 <= k /\ k < m => k % m = k
        /\ -m <= k /\ k < 0 => k % m = k + m
    BY <1>1, ModOnce
  <2> QED
    BY <1>1, <1>2, <2>1, <2>2
<1>4. /\ Unsigned(v + w) = IF v + w <= M THEN v + w ELSE v + w - (M + 1)
      /\ Unsigned(v - w) = IF v >= w THEN v - w ELSE v - w + (M + 1)
      /\ Unsigned(m - v) = m - v
  <2>1. v \in 0 .. MaxUnsigned /\ w \in 0 .. MaxUnsigned /\ m \in 0 .. MaxUnsigned
    BY <1>1, <1>2
  <2>2. /\ Unsigned(v + w) = IF v + w <= MaxUnsigned THEN v + w ELSE v + w - (MaxUnsigned + 1)
        /\ Unsigned(v - w) = IF v >= w THEN v - w ELSE v - w + (MaxUnsigned + 1)
        /\ Unsigned(m - v) = IF m >= v THEN m - v ELSE m - v + (MaxUnsigned + 1)
    BY <2>1, UnsignedSums, Zenon
  <2> QED
    BY <1>1, <1>2, <2>2
<1>5. (IF Unsigned(v + w) >= m \/ Unsigned(v + w) < v
       THEN Unsigned(Unsigned(v + w) - m) ELSE Unsigned(v + w)) = (v + w) % m
  <2>1. PICK u \in 0 .. M : u = Unsigned(v + w)
    BY <1>1, <1>2, <1>4
  <2>2. Unsigned(u - m) = IF u >= m THEN u - m ELSE u - m + (M + 1)
    BY <1>1, <2>1, UnsignedSums
  <2> QED
    BY <1>1, <1>2, <1>3, <1>4, <2>1, <2>2
<1>6. (IF v < w THEN Unsigned(Unsigned(v - w) + m) ELSE Unsigned(v - w)) = (v - w) % m
  <2>1. PICK u \in 0 .. M : u = Unsigned(v - w)
    BY <1>1, <1>2, <1>4
  <2>2. Unsigned(u + m) = IF u + m <= M THEN u + m ELSE u + m - (M + 1)
    BY <1>1, <2>1, UnsignedSums
  <2> QED
    BY <1>1, <1>2, <1>3, <1>4, <2>1, <2>2
<1> QED
  BY <1>2, <1>3, <1>4, <1>5, <1>6

\* Sums, differences and negatives of residues are exact below every modulus
\* that fits the word, also one that needs the word's top bit.
THEOREM ResidueSumsAreExact ==
    ASSUME NEW m \in 1 .. MaxUnsigned, NEW a, NEW b, IsResidue(a, m), IsResidue(b, m)
    PROVE  /\ FieldAdd(a, b) = FieldElement(m, a.value + b.value)
           /\ FieldSub(a, b) = FieldElement(m, a.value - b.value)
           /\ FieldNeg(a) = FieldElement(m, -a.value)
<1>1. a.modulus = m /\ b.modulus = m /\ a.value \in 0 .. m - 1 /\ b.value \in 0 .. m - 1
  BY DEF IsResidue
<1>2. PICK v \in 0 .. m - 1, w \in 0 .. m - 1 : v = a.value /\ w = b.value
  BY <1>1
<1>3. /\ FieldAdd(a, b) = FieldElement(m, (v + w) % m)
      /\ FieldSub(a, b) = FieldElement(m, (v - w) % m)
      /\ FieldNeg(a) = FieldElement(m, (-v) % m)
  <2>1. /\ (IF v = 0 THEN 0 ELSE Unsigned(m - v)) = (-v) % m
        /\ (IF Unsigned(v + w) >= m \/ Unsigned(v + w) < v
            THEN Unsigned(Unsigned(v + w) - m) ELSE Unsigned(v + w)) = (v + w) % m
        /\ (IF v < w THEN Unsigned(Unsigned(v - w) + m) ELSE Unsigned(v - w)) = (v - w) % m
    BY WrappedSum
  <2>2. FieldAdd(a, b) = FieldElement(m, (v + w) % m)
    BY <1>1, <1>2, <2>1 DEF FieldAdd
  <2>3. FieldSub(a, b) = FieldElement(m, (v - w) % m)
    BY <1>1, <1>2, <2>1 DEF FieldSub
  <2>4. FieldNeg(a) = FieldElement(m, (-v) % m)
    BY <1>1, <1>2, <2>1 DEF FieldNeg
  <2> QED
    BY <2>2, <2>3, <2>4
<1>4. ASSUME NEW n \in Int PROVE (n % m) % m = n % m
  <2>1. m \in Nat /\ m # 0
    BY UnsignedAssumption
  <2>2. PICK u \in Nat : u = n % m /\ u < m
    BY <2>1
  <2> QED
    BY <2>1, <2>2, ModOnce
<1>5. v + w \in Int /\ v - w \in Int /\ -v \in Int
  BY UnsignedAssumption
<1>6. /\ ((v + w) % m) % m = (v + w) % m
      /\ ((v - w) % m) % m = (v - w) % m
      /\ ((-v) % m) % m = (-v) % m
  BY <1>4, <1>5, Zenon
<1> QED
  BY <1>2, <1>3, <1>6 DEF FieldElement

\* So is the sum inside the portable product, which never leaves the word.
THEOREM PortableSumIsExact ==
    ASSUME NEW m \in 1 .. MaxUnsigned, NEW v \in 0 .. m - 1, NEW w \in 0 .. m - 1
    PROVE  add_mod(v, w, m) = (v + w) % m
<1>1. PICK M \in Nat : M = MaxUnsigned /\ m \in Nat /\ m # 0 /\ m <= M
  BY UnsignedAssumption
<1>2. v \in Nat /\ w \in Nat /\ v < m /\ w < m
  BY <1>1
<1>3. PICK u \in 0 .. M : u = m - w /\ Unsigned(m - w) = u
  BY <1>1, <1>2, UnsignedSums
<1>4. (v + w) % m = IF v + w < m THEN v + w ELSE v + w - m
  <2>1. PICK i \in Int : i = v + w
    BY <1>2
  <2>2. (0 <= i /\ i < m => i % m = i) /\ (m <= i /\ i < 2 * m => i % m = i - m)
    BY <1>1, ModOnce
  <2> QED
    BY <1>1, <1>2, <2>1, <2>2
<1>5. v \in 0 .. MaxUnsigned /\ w \in 0 .. MaxUnsigned /\ u \in 0 .. MaxUnsigned
  BY <1>1, <1>2
<1>6. /\ Unsigned(v - u) = IF v >= u THEN v - u ELSE v - u + (MaxUnsigned + 1)
      /\ Unsigned(v + w) = IF v + w <= MaxUnsigned THEN v + w ELSE v + w - (MaxUnsigned + 1)
  BY <1>5, UnsignedSums, Zenon
<1> QED
  BY <1>1, <1>2, <1>3, <1>4, <1>6 DEF add_mod

-----------------------------------------------------------------------------
(* The calculator over the integers. *)

OverIntegers == \A r \in Rings : r.kind = "integers"

GmpGcdext == \A n \in Int, m \in Int : mpz_gcdext(n, m) \in Int \X Int \X Int

\* And mpz_gcdext yields the gcd with cofactors that combine to it.
GmpBezout ==
    \A n \in Int, m \in Int :
        LET e == mpz_gcdext(n, m) IN e[1] = mpz_gcd(n, m) /\ n * e[2] + m * e[3] = e[1]

IntegersInv == ring.kind = "integers" /\ TypeOK

LEMMA ZeroIsCanonical == LongIsWord /\ ring.kind = "integers" => Holds(zero(ring), 0)
BY ShrunkHolds, WordBounds DEF zero, element

LEMMA IntegersInit == LongIsWord /\ OverIntegers /\ Init => IntegersInv
BY ZeroIsCanonical DEF OverIntegers, Init, IntegersInv, TypeOK, Canonical, Holds

LEMMA IntegersStep ==
    ASSUME LongIsWord, GmpGcd, GmpGcdext, IntegersInv, [Next]_vars
    PROVE  IntegersInv'
<1> SUFFICES ring' = ring /\ IsBigInt(x') /\ IsBigInt(y')
  BY DEF IntegersInv, TypeOK, Canonical
<1>1. ring.kind = "integers" /\ IsBigInt(x) /\ IsBigInt(y)
  BY DEF IntegersInv, TypeOK, Canonical
<1>2. Value(x) \in Int /\ Value(y) \in Int
  BY <1>1, ValueIsInt
<1>3. ASSUME NEW op, NEW a, NEW b, IsBigInt(a), IsBigInt(b), Return(op, a, b)
      PROVE  ring' = ring /\ IsBigInt(x') /\ IsBigInt(y')
  BY <1>3 DEF Return
<1>4. ASSUME NEW op, Throws(op)
      PROVE  ring' = ring /\ IsBigInt(x') /\ IsBigInt(y')
  BY <1>1, <1>4 DEF Throws
<1>5. CASE Load
  <2>1. ASSUME NEW n, NEW d, NEW a, IsBigInt(a), Loaded(n, d, a)
        PROVE  ring' = ring /\ IsBigInt(x') /\ IsBigInt(y')
    BY <1>1, <2>1 DEF Loaded
  <2>2. ASSUME NEW n \in -ring.bound .. ring.bound, Loaded(n, 1, Shrunk(n))
        PROVE  ring' = ring /\ IsBigInt(x') /\ IsBigInt(y')
    <3>1. n \in Int
      OBVIOUS
    <3>2. IsBigInt(Shrunk(n))
      BY <3>1, ShrunkHolds DEF Holds
    <3> QED
      BY <2>1, <2>2, <3>2
  <2>3. ASSUME NEW n \in Word, Loaded(n, 1, Small(n))
        PROVE  ring' = ring /\ IsBigInt(x') /\ IsBigInt(y')
    <3>1. IsBigInt(Small(n))
      BY SmallHolds DEF Holds
    <3> QED
      BY <2>1, <2>3, <3>1
  <2> QED
    BY <1>1, <1>5, <2>2, <2>3 DEF Load, InRing
<1>6. CASE Copy
  BY <1>1, <1>3, <1>6 DEF Copy
<1>7. CASE Move
  <2>1. IsBigInt(Small(0))
    BY OneWord DEF Holds
  <2> QED
    BY <1>1, <1>3, <1>7, <2>1 DEF Move
<1>8. CASE AddCall
  <2>1. IsBigInt(add(ring, x, y))
    BY <1>1, ExactSum DEF add, Holds
  <2> QED
    BY <1>1, <1>3, <1>8, <2>1 DEF AddCall
<1>9. CASE SubCall
  <2>1. IsBigInt(sub(ring, x, y))
    BY <1>1, ExactDifference DEF sub, Holds
  <2> QED
    BY <1>1, <1>3, <1>9, <2>1 DEF SubCall
<1>10. CASE MulCall
  <2>1. IsBigInt(mul(ring, x, y))
    BY <1>1, ExactProduct DEF mul, Holds
  <2> QED
    BY <1>1, <1>3, <1>10, <2>1 DEF MulCall
<1>11. CASE NegCall
  <2>1. IsBigInt(neg(ring, x))
    BY <1>1, ExactNegation DEF neg, Holds
  <2> QED
    BY <1>1, <1>3, <1>11, <2>1 DEF NegCall
<1>12. CASE InvCall
  BY <1>1, <1>12 DEF InvCall, InRing
<1>13. CASE DivRemCall
  <2>1. CASE is_zero(ring, y)
    BY <1>4, <1>13, <2>1 DEF DivRemCall
  <2>2. CASE ~is_zero(ring, y)
    <3>1. Value(y) # 0
      BY <1>1, <2>2, ComparisonIsExact, OneWord DEF is_zero, IsZero, Holds
    <3>2. div_rem(ring, x, y) = <<Div(x, y), Mod(x, y)>>
      BY <1>1 DEF div_rem
    <3>3. IsBigInt(Div(x, y)) /\ IsBigInt(Mod(x, y))
      BY <1>1, <3>1, ExactQuotient, ExactRemainder DEF Holds
    <3>4. Return("div_rem", Div(x, y), Mod(x, y))
      BY <1>13, <2>2, <3>2 DEF DivRemCall
    <3> QED
      BY <1>3, <3>3, <3>4
  <2> QED
    BY <2>1, <2>2
<1>14. CASE GcdCall
  <2>1. IsBigInt(Gcd(x, y))
    BY <1>1, GcdHolds DEF Holds
  <2> QED
    BY <1>1, <1>3, <1>14, <2>1 DEF GcdCall
<1>15. CASE BezoutCall
  <2>1. PICK e : e = mpz_gcdext(Value(x), Value(y)) /\ e \in Int \X Int \X Int
    BY <1>2 DEF GmpGcdext
  <2>2. ExtendedGcd(x, y) = <<Shrunk(e[1]), Shrunk(e[2]), Shrunk(e[3])>>
    BY <1>1, <2>1, PromotedIsExact DEF ExtendedGcd
  <2>3. e[2] \in Int /\ e[3] \in Int
    BY <2>1
  <2>4. IsBigInt(Shrunk(e[2])) /\ IsBigInt(Shrunk(e[3]))
    BY <2>3, ShrunkHolds DEF Holds
  <2>5. Return("bezout", Shrunk(e[2]), Shrunk(e[3]))
    BY <1>15, <2>2 DEF BezoutCall
  <2> QED
    BY <1>3, <2>4, <2>5
<1>16. CASE ReconstructCall
  BY <1>1, <1>16 DEF ReconstructCall, InRing
<1>17. CASE UNCHANGED vars
  BY <1>1, <1>17 DEF vars
<1> QED
  BY <1>5, <1>6, <1>7, <1>8, <1>9, <1>10, <1>11, <1>12, <1>13, <1>14, <1>15, <1>16, <1>17
     DEF Next

\* Over the integers both registers hold the one representation of their number
\* after any sequence of calls.
THEOREM IntegersAreCanonical ==
    LongIsWord /\ GmpGcd /\ GmpGcdext /\ OverIntegers => (Spec => []TypeOK)
<1> SUFFICES ASSUME LongIsWord, GmpGcd, GmpGcdext, OverIntegers PROVE Spec => []TypeOK
  OBVIOUS
<1>1. Init => IntegersInv
  BY IntegersInit
<1>2. IntegersInv /\ [Next]_vars => IntegersInv'
  BY IntegersStep
<1>3. IntegersInv => TypeOK
  BY DEF IntegersInv
<1> QED
  BY <1>1, <1>2, <1>3, PTL DEF Spec

\* And the comparisons order them as numbers, whichever of the representations
\* they are in.
THEOREM IntegersAreOrdered ==
    LongIsWord /\ GmpGcd /\ GmpGcdext /\ OverIntegers => (Spec => []OrderIsExact)
<1> SUFFICES ASSUME LongIsWord, GmpGcd, GmpGcdext, OverIntegers PROVE Spec => []OrderIsExact
  OBVIOUS
<1>1. Init => IntegersInv
  BY IntegersInit
<1>2. IntegersInv /\ [Next]_vars => IntegersInv'
  BY IntegersStep
<1>3. IntegersInv => OrderIsExact
  <2> SUFFICES ASSUME IntegersInv PROVE OrderIsExact
    OBVIOUS
  <2>1. ring.kind = "integers" /\ IsBigInt(x) /\ IsBigInt(y)
    BY DEF IntegersInv, TypeOK, Canonical
  <2>2. Value(x) \in Int /\ Value(y) \in Int
    BY <2>1, ValueIsInt
  <2>3. Meaning(ring, x) = <<Value(x), 1>> /\ Meaning(ring, y) = <<Value(y), 1>>
    BY <2>1 DEF Meaning
  <2>4. /\ Less(x, y) <=> Value(x) * 1 - Value(y) * 1 < 0
        /\ Equal(x, y) <=> Value(x) * 1 - Value(y) * 1 = 0
    BY <2>1, <2>2, ComparisonIsExact
  <2> QED
    BY <2>1, <2>3, <2>4 DEF OrderIsExact, InRing
<1> QED
  BY <1>1, <1>2, <1>3, PTL DEF Spec

-----------------------------------------------------------------------------
(* Over the integers the calculator implements exact arithmetic. *)

LEMMA RemainderOfInteger ==
    ASSUME NEW n \in Int, NEW d \in Nat, d # 0
    PROVE  n % d = 0 <=> DividesExactly(d, n)
<1>1. ASSUME n % d = 0 PROVE DividesExactly(d, n)
  <2>1. PICK q \in Int, r \in Nat : q = n \div d /\ r = n % d /\ r < d /\ n = d * q + r
    BY Z3
  <2>2. n = q * d
    BY <1>1, <2>1
  <2> QED
    BY <2>2 DEF DividesExactly
<1>2. ASSUME DividesExactly(d, n) PROVE n % d = 0
  <2>1. PICK q \in Int : n = q * d
    BY <1>2 DEF DividesExactly
  <2>2. n - d * q = 0
    BY <2>1
  <2> QED
    BY <2>2, RemainderIsUnique
<1> QED
  BY <1>1, <1>2

\* Divides of ExactCalculator.
LEMMA DividesIsExact ==
    ASSUME NEW d \in Int, NEW n \in Int
    PROVE  Exact!Divides(d, n) <=> DividesExactly(d, n)
<1>1. CASE d = 0
  BY <1>1 DEF Exact!Divides, DividesExactly
<1>2. CASE d > 0
  <2>1. d \in Nat /\ Exact!Abs(d) = d
    BY <1>2 DEF Exact!Abs
  <2> QED
    BY <1>2, <2>1, RemainderOfInteger DEF Exact!Divides
<1>3. CASE d < 0
  <2>1. -d \in Nat /\ Exact!Abs(d) = -d /\ -d # 0
    BY <1>3 DEF Exact!Abs
  <2>2. Exact!Divides(d, n) <=> DividesExactly(-d, n)
    BY <1>3, <2>1, RemainderOfInteger DEF Exact!Divides
  <2>3. ASSUME NEW c \in Int, NEW e \in Int, e = -c, DividesExactly(c, n) PROVE DividesExactly(e, n)
    <3>1. PICK k \in Int : n = k * c
      BY <2>3 DEF DividesExactly
    <3>2. n = (-k) * e /\ -k \in Int
      BY <2>3, <3>1
    <3> QED
      BY <3>2 DEF DividesExactly
  <2>4. -d \in Int /\ d = -(-d)
    OBVIOUS
  <2> QED
    BY <2>2, <2>3, <2>4
<1> QED
  BY <1>1, <1>2, <1>3

LEMMA GmpGcdIsGcd ==
    ASSUME GmpGcd, NEW n \in Int, NEW m \in Int
    PROVE  Exact!IsGcd(mpz_gcd(n, m), n, m)
<1>1. PICK g \in Nat : g = mpz_gcd(n, m)
  BY DEF GmpGcd
<1>2. /\ DividesExactly(g, n) /\ DividesExactly(g, m)
      /\ \A d \in Int : DividesExactly(d, n) /\ DividesExactly(d, m) => DividesExactly(d, g)
  BY <1>1 DEF GmpGcd
<1>3. Exact!Divides(g, n) /\ Exact!Divides(g, m)
  BY <1>2, DividesIsExact
<1>4. ASSUME NEW d \in 1 .. Exact!Abs(n) + Exact!Abs(m), Exact!Divides(d, n), Exact!Divides(d, m)
      PROVE  Exact!Divides(d, g)
  <2>1. d \in Int
    BY DEF Exact!Abs
  <2>2. DividesExactly(d, n) /\ DividesExactly(d, m)
    BY <1>4, <2>1, DividesIsExact
  <2>3. DividesExactly(d, g)
    BY <1>2, <2>1, <2>2
  <2> QED
    BY <2>1, <2>3, DividesIsExact
<1>5. Exact!IsGcd(g, n, m)
  <2>1. g >= 0
    OBVIOUS
  <2> QED
    BY <1>3, <1>4, <2>1 DEF Exact!IsGcd
<1> QED
  BY <1>1, <1>5

LEMMA QuotientRounds ==
    ASSUME NEW n \in Int, NEW m \in Int, m # 0
    PROVE  /\ Quot(n, m) \in Int /\ Rem(n, m) \in Int
           /\ n = Quot(n, m) * m + Rem(n, m)
           /\ Exact!Abs(Rem(n, m)) < Exact!Abs(m)
           /\ Rem(n, m) # 0 => (Rem(n, m) < 0) = (n < 0)
<1>1. PICK p \in Nat, d \in Nat : p = Magnitude(n) /\ d = Magnitude(m) /\ d # 0
  BY DEF Magnitude
<1>2. PICK e \in Nat : e = p \div d /\ 0 <= p - d * e /\ p - d * e < d
  BY <1>1, DivisionOfNaturals
<1>3. PICK k \in Nat : k = p - d * e
  BY <1>2
<1>4. Quot(n, m) = IF (n < 0) = (m < 0) THEN e ELSE -e
  BY <1>1, <1>2 DEF Quot
<1>5. PICK q \in Int : q = Quot(n, m)
  BY <1>4
<1>6. n - m * q = IF n < 0 THEN -k ELSE k
  <2>1. CASE n < 0 /\ m < 0
    BY <1>1, <1>3, <1>4, <1>5, <2>1 DEF Magnitude
  <2>2. CASE n < 0 /\ ~(m < 0)
    BY <1>1, <1>3, <1>4, <1>5, <2>2 DEF Magnitude
  <2>3. CASE ~(n < 0) /\ m < 0
    BY <1>1, <1>3, <1>4, <1>5, <2>3 DEF Magnitude
  <2>4. CASE ~(n < 0) /\ ~(m < 0)
    BY <1>1, <1>3, <1>4, <1>5, <2>4 DEF Magnitude
  <2> QED
    BY <2>1, <2>2, <2>3, <2>4
<1>7. Rem(n, m) = IF n < 0 THEN -k ELSE k
  BY <1>5, <1>6 DEF Rem
<1>8. PICK r \in Int : r = Rem(n, m)
  BY <1>7
<1>9. n = q * m + r
  <2>1. r = n - m * q /\ m * q = q * m
    BY <1>5, <1>8 DEF Rem
  <2> QED
    BY <2>1
<1>10. Exact!Abs(r) = k /\ Exact!Abs(m) = d
  BY <1>1, <1>7, <1>8 DEF Exact!Abs, Magnitude
<1>11. r # 0 => (r < 0) = (n < 0)
  BY <1>7, <1>8
<1> QED
  BY <1>2, <1>3, <1>5, <1>8, <1>9, <1>10, <1>11

\* The registers over the integers, as ExactCalculator sees them.
LEMMA IntegerMeaning ==
    ASSUME IntegersInv
    PROVE  /\ IsBigInt(x) /\ IsBigInt(y) /\ Value(x) \in Int /\ Value(y) \in Int
           /\ ring.kind = "integers"
           /\ Meaning(ring, x) = <<Value(x), 1>> /\ Meaning(ring, y) = <<Value(y), 1>>
<1>1. ring.kind = "integers" /\ IsBigInt(x) /\ IsBigInt(y)
  BY DEF IntegersInv, TypeOK, Canonical
<1> QED
  BY <1>1, ValueIsInt DEF Meaning

LEMMA IntegersInitExact == LongIsWord /\ OverIntegers /\ Init => Exact!Init
<1> SUFFICES ASSUME LongIsWord, OverIntegers, Init PROVE Exact!Init
  OBVIOUS
<1>1. ring.kind = "integers" /\ x = zero(ring) /\ y = zero(ring) /\ call = <<"start">>
  BY DEF OverIntegers, Init
<1>2. Value(x) = 0 /\ Value(y) = 0
  BY <1>1, ZeroIsCanonical DEF Holds
<1>3. Meaning(ring, x) = <<0, 1>> /\ Meaning(ring, y) = <<0, 1>>
  BY <1>1, <1>2 DEF Meaning
<1> QED
  BY <1>1, <1>3 DEF Exact!Init

LEMMA IntegersStepExact ==
    ASSUME LongIsWord, GmpGcd, GmpGcdext, GmpBezout, IntegersInv, [Next]_vars
    PROVE  [Exact!Next]_(Exact!vars)
<1>1. /\ IsBigInt(x) /\ IsBigInt(y) /\ Value(x) \in Int /\ Value(y) \in Int
      /\ ring.kind = "integers"
      /\ Meaning(ring, x) = <<Value(x), 1>> /\ Meaning(ring, y) = <<Value(y), 1>>
  BY IntegerMeaning
<1> DEFINE X == Meaning(ring, x)
           Y == Meaning(ring, y)
<1>2. ASSUME NEW op, NEW a, NEW b, Return(op, a, b)
      PROVE  /\ call' = <<op>> /\ ring' = ring
             /\ Meaning(ring, x)' = <<Value(a), 1>> /\ Meaning(ring, y)' = <<Value(b), 1>>
  <2>1. call' = <<op>> /\ ring' = ring /\ x' = a /\ y' = b
    BY <1>2 DEF Return
  <2> QED
    BY <1>1, <2>1 DEF Meaning
<1>3. CASE Load
  <2>1. ASSUME NEW n \in Int, NEW b, Value(b) = n, Loaded(n, 1, b) PROVE Exact!Load
    <3>1. call' = <<"load", n, 1>> /\ ring' = ring /\ x' = x /\ y' = b
      BY <2>1 DEF Loaded
    <3>2. Meaning(ring, x)' = Meaning(ring, x) /\ Meaning(ring, y)' = <<n, 1>>
      BY <1>1, <2>1, <3>1 DEF Meaning
    <3>3. Exact!Is(<<n, 1>>, n, 1)
      BY <1>1, <2>1 DEF Exact!Is
    <3>4. call'[1] = "load" /\ call'[2] = n /\ call'[3] = 1
      BY <3>1
    <3> QED
      BY <3>1, <3>2, <3>3, <3>4 DEF Exact!Load
  <2>2. ASSUME NEW n \in -ring.bound .. ring.bound, Loaded(n, 1, Shrunk(n)) PROVE Exact!Load
    <3>1. n \in Int /\ Value(Shrunk(n)) = n
      BY ShrunkHolds DEF Holds
    <3> QED
      BY <2>1, <2>2, <3>1
  <2>3. ASSUME NEW n \in Word, Loaded(n, 1, Small(n)) PROVE Exact!Load
    <3>1. n \in Int /\ Value(Small(n)) = n
      BY SmallHolds, WordBounds DEF Holds, Word
    <3> QED
      BY <2>1, <2>3, <3>1
  <2>4. Exact!Load
    BY <1>1, <1>3, <2>2, <2>3 DEF Load, InRing
  <2> QED
    BY <2>4 DEF Exact!Next
<1>4. CASE Copy
  <2>1. Exact!Copy
    BY <1>1, <1>2, <1>4 DEF Copy, Exact!Copy, Exact!Return
  <2> QED
    BY <2>1 DEF Exact!Next
<1>5. CASE Move
  <2>1. Value(Small(0)) = 0
    BY OneWord DEF Holds
  <2>2. Exact!Move
    BY <1>1, <1>2, <1>5, <2>1 DEF Move, Exact!Move, Exact!Return
  <2> QED
    BY <2>2 DEF Exact!Next
<1>6. ASSUME NEW i \in Int, NEW n, NEW d, n = i, d = 1 PROVE Exact!Is(<<i, 1>>, n, d)
  BY <1>1, <1>6 DEF Exact!Is
<1>7. CASE AddCall
  <2>1. add(ring, x, y) = Add(x, y) /\ Value(Add(x, y)) = Value(x) + Value(y)
    BY <1>1, ExactSum DEF add, Holds
  <2>2. /\ call' = <<"add">> /\ ring' = ring
        /\ Meaning(ring, x)' = <<Value(x) + Value(y), 1>> /\ Meaning(ring, y)' = <<Value(y), 1>>
    BY <1>2, <1>7, <2>1 DEF AddCall
  <2>3. Exact!Is(<<Value(x) + Value(y), 1>>, X[1] * Y[2] + Y[1] * X[2], X[2] * Y[2])
    BY <1>1, <1>6
  <2>4. Exact!Add
    BY <1>1, <2>2, <2>3 DEF Exact!Add, Exact!Return
  <2> QED
    BY <2>4 DEF Exact!Next
<1>8. CASE SubCall
  <2>1. sub(ring, x, y) = Sub(x, y) /\ Value(Sub(x, y)) = Value(x) - Value(y)
    BY <1>1, ExactDifference DEF sub, Holds
  <2>2. /\ call' = <<"sub">> /\ ring' = ring
        /\ Meaning(ring, x)' = <<Value(x) - Value(y), 1>> /\ Meaning(ring, y)' = <<Value(y), 1>>
    BY <1>2, <1>8, <2>1 DEF SubCall
  <2>3. Exact!Is(<<Value(x) - Value(y), 1>>, X[1] * Y[2] - Y[1] * X[2], X[2] * Y[2])
    BY <1>1, <1>6
  <2>4. Exact!Sub
    BY <1>1, <2>2, <2>3 DEF Exact!Sub, Exact!Return
  <2> QED
    BY <2>4 DEF Exact!Next
<1>9. CASE MulCall
  <2>1. mul(ring, x, y) = Mul(x, y) /\ Value(Mul(x, y)) = Value(x) * Value(y)
    BY <1>1, ExactProduct DEF mul, Holds
  <2>2. /\ call' = <<"mul">> /\ ring' = ring
        /\ Meaning(ring, x)' = <<Value(x) * Value(y), 1>> /\ Meaning(ring, y)' = <<Value(y), 1>>
    BY <1>2, <1>9, <2>1 DEF MulCall
  <2>3. Exact!Is(<<Value(x) * Value(y), 1>>, X[1] * Y[1], X[2] * Y[2])
    BY <1>1, <1>6
  <2>4. Exact!Mul
    BY <1>1, <2>2, <2>3 DEF Exact!Mul, Exact!Return
  <2> QED
    BY <2>4 DEF Exact!Next
<1>10. CASE NegCall
  <2>1. neg(ring, x) = Neg(x) /\ Value(Neg(x)) = -Value(x)
    BY <1>1, ExactNegation DEF neg, Holds
  <2>2. /\ call' = <<"neg">> /\ ring' = ring
        /\ Meaning(ring, x)' = <<-Value(x), 1>> /\ Meaning(ring, y)' = <<Value(y), 1>>
    BY <1>2, <1>10, <2>1 DEF NegCall
  <2>3. Exact!Is(<<-Value(x), 1>>, -X[1], X[2])
    BY <1>1, <1>6
  <2>4. Exact!Neg
    BY <1>1, <2>2, <2>3 DEF Exact!Neg, Exact!Return
  <2> QED
    BY <2>4 DEF Exact!Next
<1>11. CASE InvCall
  BY <1>1, <1>11 DEF InvCall, InRing
<1>12. CASE DivRemCall
  <2>1. is_zero(ring, y) <=> Value(y) = 0
    BY <1>1, ComparisonIsExact, OneWord DEF is_zero, IsZero, Holds
  <2>2. CASE Value(y) = 0
    <3>1. Throws("div_rem")
      BY <1>12, <2>1, <2>2 DEF DivRemCall
    <3>2. call' = <<"div_rem", "domain_error">> /\ ring' = ring /\ x' = x /\ y' = y
      BY <3>1 DEF Throws, DomainError
    <3>3. Meaning(ring, x)' = Meaning(ring, x) /\ Meaning(ring, y)' = Meaning(ring, y)
      BY <3>2 DEF Meaning
    <3>4. Exact!DivRem
      BY <1>1, <2>2, <3>2, <3>3 DEF Exact!DivRem, Exact!Throws
    <3> QED
      BY <3>4 DEF Exact!Next
  <2>3. CASE Value(y) # 0
    <3>1. Return("div_rem", Div(x, y), Mod(x, y))
      BY <1>1, <1>12, <2>1, <2>3 DEF DivRemCall, div_rem
    <3>2. PICK q \in Int, r \in Int : q = Quot(Value(x), Value(y)) /\ r = Rem(Value(x), Value(y))
      BY <1>1, <2>3, QuotientRounds
    <3>3. Value(Div(x, y)) = q /\ Value(Mod(x, y)) = r
      BY <1>1, <2>3, <3>2, ExactQuotient, ExactRemainder DEF Holds
    <3>4. /\ call' = <<"div_rem">> /\ ring' = ring
          /\ Meaning(ring, x)' = <<q, 1>> /\ Meaning(ring, y)' = <<r, 1>>
      BY <1>2, <3>1, <3>3
    <3>5. /\ Value(x) = q * Value(y) + r
          /\ Exact!Abs(r) < Exact!Abs(Value(y))
          /\ r # 0 => (r < 0) = (Value(x) < 0)
      BY <1>1, <2>3, <3>2, QuotientRounds
    <3>6. Exact!DivRem
      BY <1>1, <2>3, <3>4, <3>5 DEF Exact!DivRem, Exact!Return
    <3> QED
      BY <3>6 DEF Exact!Next
  <2> QED
    BY <1>1, <2>2, <2>3
<1>13. CASE GcdCall
  <2>1. Value(Gcd(x, y)) = mpz_gcd(Value(x), Value(y))
    BY <1>1, GcdHolds DEF Holds
  <2>2. /\ call' = <<"gcd">> /\ ring' = ring
        /\ Meaning(ring, x)' = <<mpz_gcd(Value(x), Value(y)), 1>>
        /\ Meaning(ring, y)' = <<Value(y), 1>>
    BY <1>2, <1>13, <2>1 DEF GcdCall
  <2>3. Exact!IsGcd(mpz_gcd(Value(x), Value(y)), Value(x), Value(y))
    BY <1>1, GmpGcdIsGcd
  <2>4. Exact!Gcd
    BY <1>1, <2>2, <2>3 DEF Exact!Gcd, Exact!Return
  <2> QED
    BY <2>4 DEF Exact!Next
<1>14. CASE BezoutCall
  <2>1. PICK e : e = mpz_gcdext(Value(x), Value(y)) /\ e \in Int \X Int \X Int
    BY <1>1 DEF GmpGcdext
  <2>2. PICK s \in Int, t \in Int : s = e[2] /\ t = e[3]
    BY <2>1
  <2>3. ExtendedGcd(x, y) = <<Shrunk(e[1]), Shrunk(s), Shrunk(t)>>
    BY <1>1, <2>1, <2>2, PromotedIsExact DEF ExtendedGcd
  <2>4. Value(Shrunk(s)) = s /\ Value(Shrunk(t)) = t
    BY ShrunkHolds DEF Holds
  <2>5. /\ call' = <<"bezout">> /\ ring' = ring
        /\ Meaning(ring, x)' = <<s, 1>> /\ Meaning(ring, y)' = <<t, 1>>
    BY <1>2, <1>14, <2>3, <2>4 DEF BezoutCall
  <2>6. Value(x) * s + Value(y) * t = mpz_gcd(Value(x), Value(y))
    BY <1>1, <2>1, <2>2 DEF GmpBezout
  <2>7. Exact!IsGcd(Value(x) * s + Value(y) * t, Value(x), Value(y))
    BY <1>1, <2>6, GmpGcdIsGcd
  <2>8. Exact!Bezout
    BY <1>1, <2>5, <2>7 DEF Exact!Bezout, Exact!Return
  <2> QED
    BY <2>8 DEF Exact!Next
<1>15. CASE ReconstructCall
  BY <1>1, <1>15 DEF ReconstructCall, InRing
<1>16. CASE UNCHANGED vars
  BY <1>16 DEF vars, Exact!vars, Meaning
<1> QED
  BY <1>3, <1>4, <1>5, <1>7, <1>8, <1>9, <1>10, <1>11, <1>12, <1>13, <1>14, <1>15, <1>16
     DEF Next

\* Over the integers, whatever the width of the word, every sequence of calls
\* computes what exact numbers would: no promotion, no shrinking and no check for
\* an overflow can be seen from outside.
THEOREM IntegersImplementArithmetic ==
    LongIsWord /\ GmpGcd /\ GmpGcdext /\ GmpBezout /\ OverIntegers => (Spec => ImplementsArithmetic)
<1> SUFFICES ASSUME LongIsWord, GmpGcd, GmpGcdext, GmpBezout, OverIntegers
             PROVE  Spec => ImplementsArithmetic
  OBVIOUS
<1>1. Init => IntegersInv /\ Exact!Init
  BY IntegersInit, IntegersInitExact
<1>2. IntegersInv /\ [Next]_vars => IntegersInv'
  BY IntegersStep
<1>3. IntegersInv /\ [Next]_vars => [Exact!Next]_(Exact!vars)
  BY IntegersStepExact
<1> QED
  BY <1>1, <1>2, <1>3, PTL DEF Spec, ImplementsArithmetic, Exact!Spec

-----------------------------------------------------------------------------
(* Induction over finite sets of steps, and loops. *)

\* Every non-empty set of naturals has a least element.
LEMMA LeastElement ==
    ASSUME NEW T \in SUBSET Nat, T # {}
    PROVE  \E n \in T : \A m \in T : n <= m
<1> DEFINE R == OpToRel(<, Nat)
<1>1. IsWellFoundedOn(R, Nat)
  BY NatLessThanWellFounded, Zenon
<1>2. \A m, n \in Nat : <<m, n>> \in R <=> m < n
  BY Zenon DEF OpToRel
<1> HIDE DEF R
<1>3. PICK n \in T : \A m \in T : ~(<<m, n>> \in R)
  BY <1>1, WFMin, Zenon
<1>4. ASSUME NEW m \in T PROVE n <= m
  <2>1. m \in Nat /\ n \in Nat /\ ~(m < n)
    BY <1>2, <1>3
  <2> QED
    BY <2>1
<1> QED
  BY <1>4

\* A set of naturals closed under successor holds them all.
LEMMA SetInduction ==
    ASSUME NEW S, 0 \in S, \A n \in Nat : n \in S => n + 1 \in S
    PROVE  \A n \in Nat : n \in S
<1> SUFFICES ASSUME {n \in Nat : n \notin S} # {} PROVE FALSE
  OBVIOUS
<1>1. PICK n \in {n \in Nat : n \notin S} : \A m \in {m \in Nat : m \notin S} : n <= m
  BY LeastElement
<1>2. n # 0 /\ n - 1 \in Nat /\ n - 1 \in S
  BY <1>1
<1> QED
  BY <1>1, <1>2

\* A loop: while size is not 0, go on with the next state; then the result is out.
Loop(S, size, next, out, f) ==
    f = [s \in S |-> IF size[s] = 0 THEN out[s] ELSE f[next[s]]]

\* Every state but the last ones has a smaller one after it.
Shrinks(S, size, next) ==
    \A s \in S : size[s] \in Nat /\ (size[s] # 0 => next[s] \in S /\ size[next[s]] < size[s])

\* A loop has the value that its last states have and each step keeps.
LEMMA LoopComputes ==
    ASSUME NEW S, NEW A \in SUBSET S, NEW size, NEW next, NEW out, NEW f, NEW value,
           Loop(S, size, next, out, f), Shrinks(A, size, next),
           \A s \in A : value[s] = IF size[s] = 0 THEN out[s] ELSE value[next[s]]
    PROVE  \A s \in A : f[s] = value[s]
<1> DEFINE T == {n \in Nat : \A s \in A : size[s] <= n => f[s] = value[s]}
<1>1. \A s \in A : f[s] = IF size[s] = 0 THEN out[s] ELSE f[next[s]]
  BY DEF Loop
<1>2. 0 \in T
  BY <1>1 DEF Shrinks
<1>3. ASSUME NEW n \in Nat, n \in T PROVE n + 1 \in T
  <2> SUFFICES ASSUME NEW s \in A, size[s] <= n + 1 PROVE f[s] = value[s]
    OBVIOUS
  <2>1. CASE size[s] = 0
    BY <1>1, <2>1
  <2>2. CASE size[s] # 0
    <3>1. next[s] \in A /\ size[next[s]] <= n
      BY <2>2 DEF Shrinks
    <3>2. f[next[s]] = value[next[s]]
      BY <1>3, <3>1
    <3> QED
      BY <1>1, <2>2, <3>2
  <2> QED
    BY <2>1, <2>2
<1>4. \A n \in Nat : n \in T
  <2> HIDE DEF T
  <2> QED
    BY <1>2, <1>3, SetInduction
<1> QED
  BY <1>4 DEF Shrinks

\* A loop whose states shrink is well defined.
LEMMA LoopIsDefined ==
    ASSUME NEW S, NEW size, NEW next, NEW out, Shrinks(S, size, next)
    PROVE  \E f : Loop(S, size, next, out, f)
<1> DEFINE Right(g, n) == \A s \in S : size[s] <= n => g[s] = IF size[s] = 0 THEN out[s] ELSE g[next[s]]
           T == {n \in Nat : \E g : Right(g, n)}
<1>1. 0 \in T
  <2> DEFINE g == [s \in S |-> out[s]]
  <2>1. Right(g, 0)
    BY DEF Shrinks
  <2> HIDE DEF g, Right
  <2> QED
    BY <2>1
<1>2. ASSUME NEW n \in Nat, n \in T PROVE n + 1 \in T
  <2>1. PICK g : Right(g, n)
    BY <1>2
  <2> DEFINE h == [s \in S |-> IF size[s] = n + 1 THEN g[next[s]] ELSE g[s]]
  <2>2. ASSUME NEW s \in S, size[s] <= n + 1
        PROVE  h[s] = IF size[s] = 0 THEN out[s] ELSE h[next[s]]
    <3>1. size[s] \in Nat /\ (size[s] # 0 => next[s] \in S /\ size[next[s]] <= n /\ size[next[s]] \in Nat)
      BY <2>2 DEF Shrinks
    <3>2. size[s] # 0 => h[next[s]] = g[next[s]]
      BY <3>1
    <3>3. size[s] = n + 1 => h[s] = g[next[s]] /\ size[s] # 0
      OBVIOUS
    <3>4. size[s] <= n => h[s] = g[s] /\ g[s] = IF size[s] = 0 THEN out[s] ELSE g[next[s]]
      BY <2>1, <3>1
    <3> HIDE DEF h
    <3> QED
      BY <2>2, <3>1, <3>2, <3>3, <3>4
  <2>3. Right(h, n + 1)
    <3> HIDE DEF h
    <3> QED
      BY <2>2
  <2> HIDE DEF h, Right
  <2> QED
    BY <2>3
<1>3. \A n \in Nat : n \in T
  <2> HIDE DEF T
  <2> QED
    BY <1>1, <1>2, SetInduction
<1>4. ASSUME NEW n \in Nat, NEW m \in Nat, m <= n, NEW g, NEW h, Right(g, n), Right(h, m)
      PROVE  \A s \in S : size[s] <= m => g[s] = h[s]
  <2> DEFINE A == {s \in S : size[s] <= m}
             below == [s \in A |-> h[s]]
             cut == [s \in A |-> g[s]]
  <2>1. Shrinks(A, size, next)
    BY DEF Shrinks
  <2>2. \A s \in A : below[s] = IF size[s] = 0 THEN out[s] ELSE below[next[s]]
    BY <1>4 DEF Shrinks
  <2>3. \A s \in A : cut[s] = IF size[s] = 0 THEN out[s] ELSE cut[next[s]]
    BY <1>4 DEF Shrinks
  <2>4. Loop(A, size, next, out, below)
    <3>1. below = [s \in A |-> below[s]]
      OBVIOUS
    <3> HIDE DEF below
    <3> QED
      BY <2>2, <3>1 DEF Loop
  <2>5. \A s \in A : below[s] = cut[s]
    <3> HIDE DEF below, cut, A
    <3> QED
      BY <2>1, <2>3, <2>4, LoopComputes
  <2> QED
    BY <2>5
<1> DEFINE pick(n) == CHOOSE g : Right(g, n)
           f == [s \in S |-> pick(size[s])[s]]
<1>5. \A n \in Nat : Right(pick(n), n)
  <2> HIDE DEF Right
  <2> QED
    BY <1>3
<1>6. ASSUME NEW s \in S PROVE f[s] = IF size[s] = 0 THEN out[s] ELSE f[next[s]]
  <2>1. size[s] \in Nat /\ (size[s] # 0 => next[s] \in S /\ size[next[s]] <= size[s] /\ size[next[s]] \in Nat)
    BY DEF Shrinks
  <2>2. f[s] = pick(size[s])[s]
    OBVIOUS
  <2>3. size[s] # 0 => f[next[s]] = pick(size[next[s]])[next[s]]
    BY <2>1
  <2>4. Right(pick(size[s]), size[s])
    BY <1>5, <2>1
  <2>5. pick(size[s])[s] = IF size[s] = 0 THEN out[s] ELSE pick(size[s])[next[s]]
    <3> HIDE DEF pick
    <3> QED
      BY <2>1, <2>4
  <2>6. size[s] # 0 => pick(size[s])[next[s]] = pick(size[next[s]])[next[s]]
    <3> HIDE DEF pick, Right
    <3> QED
      BY <1>4, <1>5, <2>1
  <2> HIDE DEF f, pick
  <2> QED
    BY <2>2, <2>3, <2>5, <2>6
<1>7. f = [s \in S |-> f[s]]
  OBVIOUS
<1> HIDE DEF f
<1>8. Loop(S, size, next, out, f)
  BY <1>6, <1>7 DEF Loop
<1> QED
  BY <1>8

-----------------------------------------------------------------------------
(* Remainders. *)

LEMMA ProductsOverSums ==
    ASSUME NEW i \in Int, NEW j \in Int, NEW k \in Int
    PROVE  i * (j + k) = i * j + i * k
OBVIOUS

LEMMA SameRemainder ==
    ASSUME NEW m \in Nat, m # 0, NEW j \in Int, NEW k \in Int
    PROVE  (j + m * k) % m = j % m
<1>1. PICK q \in Int, r \in Nat : q = j \div m /\ r = j % m /\ r < m /\ j = m * q + r
  BY Z3
<1>2. PICK h \in Int, i \in Int : h = q + k /\ i = j + m * k
  OBVIOUS
<1>3. m * h = m * q + m * k
  BY <1>2, ProductsOverSums
<1>4. i - m * h = r
  BY <1>1, <1>2, <1>3
<1>5. m * h \in Int /\ 0 <= i - m * h /\ i - m * h < m
  BY <1>1, <1>4
<1>6. i % m = i - m * h
  BY <1>2, <1>5, RemainderIsUnique, Zenon
<1> QED
  BY <1>1, <1>2, <1>4, <1>6, Zenon

\* Reducing an operand early does not change a remainder.
LEMMA ReducedEarly ==
    ASSUME NEW m \in Nat, m # 0, NEW i \in Int, NEW j \in Int
    PROVE  /\ i % m \in 0 .. m - 1
           /\ (i % m) % m = i % m
           /\ ((i % m) + j) % m = (i + j) % m
           /\ ((i % m) * j) % m = (i * j) % m
<1>1. PICK q \in Int, r \in Nat : q = i \div m /\ r = i % m /\ r < m /\ i = m * q + r
  BY Z3
<1>2. r % m = r
  <2>1. r \in Int /\ 0 <= r
    BY <1>1
  <2> QED
    BY <1>1, <2>1, ModOnce, Zenon
<1>3. (i + j) % m = (r + j) % m
  <2>1. PICK s \in Int, t \in Int : s = i + j /\ t = r + j
    BY <1>1
  <2>2. s = t + m * q
    BY <1>1, <2>1
  <2>3. (t + m * q) % m = t % m
    BY SameRemainder, Zenon
  <2> QED
    BY <2>1, <2>2, <2>3, Zenon
<1>4. (i * j) % m = (r * j) % m
  <2>1. r * j \in Int /\ q * j \in Int
    BY <1>1
  <2>2. i * j = r * j + m * (q * j)
    <3>1. (m * q + r) * j = (m * q) * j + r * j
      BY <1>1
    <3>2. (m * q) * j = m * (q * j)
      BY <1>1, ProductsAssociate
    <3> QED
      BY <1>1, <3>1, <3>2
  <2>3. (r * j + m * (q * j)) % m = (r * j) % m
    BY <2>1, SameRemainder, Zenon
  <2> QED
    BY <2>2, <2>3, Zenon
<1>5. r \in 0 .. m - 1
  BY <1>1
<1> QED
  BY <1>1, <1>2, <1>3, <1>4, <1>5, Zenon

Congruent(i, k, m) == i \in Int /\ k \in Int /\ i % m = k % m

LEMMA RemaindersAreCongruent ==
    ASSUME NEW m \in Nat, m # 0, NEW i \in Int
    PROVE  Congruent(i % m, i, m) /\ Congruent(i, i, m)
<1>1. i % m \in 0 .. m - 1 /\ (i % m) % m = i % m
  BY ReducedEarly, Zenon
<1>2. i % m \in Int
  BY <1>1
<1> QED
  BY <1>1, <1>2, Zenon DEF Congruent

\* Remainders of sums and products depend on remainders only.
LEMMA Congruences ==
    ASSUME NEW m \in Nat, m # 0, NEW i, NEW j, NEW k, NEW l,
           Congruent(i, k, m), Congruent(j, l, m)
    PROVE  Congruent(i + j, k + l, m) /\ Congruent(i * j, k * l, m)
<1>0. i \in Int /\ j \in Int /\ k \in Int /\ l \in Int /\ i % m = k % m /\ j % m = l % m
  BY DEF Congruent
<1>1. \A u, v \in Int : /\ ((u % m) + v) % m = (u + v) % m
                        /\ ((u % m) * v) % m = (u * v) % m
  BY ReducedEarly, Zenon
<1>2. (i + j) % m = (k + j) % m
  <2>1. ((i % m) + j) % m = (i + j) % m /\ ((k % m) + j) % m = (k + j) % m
    BY <1>0, <1>1, Zenon
  <2> QED
    BY <1>0, <2>1, Zenon
<1>3. (j + k) % m = (l + k) % m
  <2>1. ((j % m) + k) % m = (j + k) % m /\ ((l % m) + k) % m = (l + k) % m
    BY <1>0, <1>1, Zenon
  <2> QED
    BY <1>0, <2>1, Zenon
<1>4. (i * j) % m = (k * j) % m
  <2>1. ((i % m) * j) % m = (i * j) % m /\ ((k % m) * j) % m = (k * j) % m
    BY <1>0, <1>1, Zenon
  <2> QED
    BY <1>0, <2>1, Zenon
<1>5. (j * k) % m = (l * k) % m
  <2>1. ((j % m) * k) % m = (j * k) % m /\ ((l % m) * k) % m = (l * k) % m
    BY <1>0, <1>1, Zenon
  <2> QED
    BY <1>0, <2>1, Zenon
<1>6. /\ j + k = k + j /\ l + k = k + l /\ j * k = k * j /\ l * k = k * l
      /\ {i + j, k + l, i * j, k * l} \subseteq Int
  BY <1>0
<1>7. (i + j) % m = (k + l) % m
  BY <1>2, <1>3, <1>6, Zenon
<1>8. (i * j) % m = (k * l) % m
  BY <1>4, <1>5, <1>6, Zenon
<1>9. i + j \in Int /\ k + l \in Int /\ i * j \in Int /\ k * l \in Int
  BY <1>0
<1> QED
  BY <1>7, <1>8, <1>9, Zenon DEF Congruent

LEMMA BitOf ==
    ASSUME NEW k \in Nat, k # 0
    PROVE  \E h \in Nat : \E b \in {0, 1} : k \div 2 = h /\ k % 2 = b /\ k = 2 * h + b /\ h < k
<1>1. PICK q \in Int, r \in Nat : q = k \div 2 /\ r = k % 2 /\ r < 2 /\ k = 2 * q + r
  BY Z3
<1>2. q \in Nat /\ r \in {0, 1} /\ q < k
  <2>1. q \in Int /\ r \in Nat /\ r < 2 /\ k = 2 * q + r
    BY <1>1
  <2>2. r = 0 \/ r = 1
    BY <2>1
  <2>3. CASE r = 0
    BY <2>1, <2>3
  <2>4. CASE r = 1
    BY <2>1, <2>4
  <2> QED
    BY <2>2, <2>3, <2>4
<1>3. \E b \in {0, 1} : k \div 2 = q /\ k % 2 = b /\ k = 2 * q + b /\ q < k
  BY <1>1, <1>2
<1> QED
  BY <1>2, <1>3

-----------------------------------------------------------------------------
(* Products of residues. *)

\* The product of compilers without a wide type is exact below every modulus.
THEOREM PortableProductIsExact ==
    ASSUME NEW m \in 1 .. MaxUnsigned, NEW a \in Nat, NEW b \in Nat
    PROVE  portable_mul_mod(a, b, m) = (a * b) % m
<1> DEFINE S == Nat \X Nat \X Nat
           size == [s \in S |-> s[2]]
           out == [s \in S |-> s[3]]
           step(s) == <<add_mod(s[1], s[1], m), s[2] \div 2,
                        IF s[2] % 2 = 1 THEN add_mod(s[3], s[1], m) ELSE s[3]>>
           next == [s \in S |-> step(s)]
           f == CHOOSE f : f = [s \in S |-> IF s[2] = 0 THEN s[3] ELSE f[step(s)]]
<1>1. m \in Nat /\ m # 0
  BY UnsignedAssumption
<1>2. portable_mul_mod(a, b, m) = f[<<a % m, b, 0>>]
  BY DEF portable_mul_mod
<1>3. Shrinks(S, size, next)
  <2>1. \A v, w \in Nat : add_mod(v, w, m) \in Nat
    <3>1. \A n \in Int : Unsigned(n) \in Nat
      BY UnsignedAssumption, Z3 DEF Unsigned
    <3> QED
      BY <1>1, <3>1 DEF add_mod
  <2>2. ASSUME NEW l \in Nat, NEW k \in Nat, NEW r \in Nat, k # 0
        PROVE  step(<<l, k, r>>) \in S /\ step(<<l, k, r>>)[2] < k
    BY <2>1, <2>2, BitOf
  <2>3. \A s \in S : size[s] = s[2] /\ next[s] = step(s) /\ s[2] \in Nat
    OBVIOUS
  <2>4. \A s \in S : s[2] # 0 => step(s) \in S /\ step(s)[2] < s[2]
    <3> HIDE DEF step
    <3>1. \A s \in S : \E l \in Nat, k \in Nat, r \in Nat : s = <<l, k, r>> /\ s[2] = k
      OBVIOUS
    <3> QED
      BY <2>2, <3>1
  <2> HIDE DEF size, next, step, S
  <2> QED
    BY <2>3, <2>4 DEF Shrinks
<1>4. \A g : Loop(S, size, next, out, g) <=> g = [s \in S |-> IF s[2] = 0 THEN s[3] ELSE g[step(s)]]
  <2>1. ASSUME NEW g
        PROVE  [s \in S |-> IF size[s] = 0 THEN out[s] ELSE g[next[s]]]
                 = [s \in S |-> IF s[2] = 0 THEN s[3] ELSE g[step(s)]]
    <3>1. \A s \in S : size[s] = s[2] /\ next[s] = step(s) /\ out[s] = s[3]
      OBVIOUS
    <3> HIDE DEF size, next, out, S, step
    <3> QED
      BY <3>1
  <2> QED
    BY <2>1, Zenon DEF Loop
<1>5. Loop(S, size, next, out, f)
  <2>1. \E g : Loop(S, size, next, out, g)
    <3> HIDE DEF S, size, next, out
    <3> QED
      BY <1>3, LoopIsDefined
  <2> HIDE DEF S, size, next, out, step
  <2> QED
    BY <1>4, <2>1, Zenon
<1>6. ASSUME NEW l \in Nat, NEW k \in Nat, NEW r \in Nat
      PROVE  f[<<l, k, r>>] = IF k = 0 THEN r ELSE f[step(<<l, k, r>>)]
  <2>1. f = [s \in S |-> IF s[2] = 0 THEN s[3] ELSE f[step(s)]]
    BY <1>4, <1>5, Zenon
  <2> HIDE DEF f, step
  <2>2. <<l, k, r>> \in S
    OBVIOUS
  <2>3. f[<<l, k, r>>] = IF <<l, k, r>>[2] = 0 THEN <<l, k, r>>[3] ELSE f[step(<<l, k, r>>)]
    <3> HIDE DEF S
    <3> QED
      BY <2>1, <2>2, Zenon
  <2> QED
    BY <2>3
<1>7. ASSUME NEW l \in 0 .. m - 1, NEW k \in Nat, NEW r \in 0 .. m - 1, k # 0
      PROVE  \E h \in Nat, d \in 0 .. m - 1, u \in 0 .. m - 1 :
               h < k /\ step(<<l, k, r>>) = <<d, h, u>> /\ (d * h + u) % m = (l * k + r) % m
  <2>1. PICK h \in Nat, c \in {0, 1} : k \div 2 = h /\ k % 2 = c /\ k = 2 * h + c /\ h < k
    BY <1>7, BitOf
  <2>2. PICK d \in 0 .. m - 1, u \in 0 .. m - 1 :
               d = (l + l) % m /\ u = IF c = 1 THEN (r + l) % m ELSE r
    <3>1. l + l \in Int /\ r + l \in Int
      BY <1>1
    <3>2. (l + l) % m \in 0 .. m - 1 /\ (r + l) % m \in 0 .. m - 1
      BY <1>1, <3>1, ReducedEarly, Zenon
    <3> QED
      BY <3>2
  <2>3. step(<<l, k, r>>) = <<d, h, u>>
    <3>1. add_mod(l, l, m) = d /\ add_mod(r, l, m) = (r + l) % m
      BY <2>2, PortableSumIsExact
    <3> QED
      BY <2>1, <2>2, <3>1
  <2>4. k = 2 * h + c /\ (c = 0 \/ c = 1)
    BY <2>1
  <2> HIDE DEF step, f, S, size, out, next
  <2>5. (d * h + u) % m = (l * k + r) % m
    <3>1. l \in Int /\ r \in Int /\ l + l \in Int /\ r + l \in Int /\ h \in Int
      BY <1>1
    <3>2. Congruent(d, l + l, m) /\ Congruent(h, h, m)
      BY <1>1, <2>2, <3>1, RemaindersAreCongruent, Zenon
    <3>3. Congruent((r + l) % m, r + l, m) /\ Congruent(r, r, m)
      BY <1>1, <3>1, RemaindersAreCongruent, Zenon
    <3>4. Congruent(d * h, (l + l) * h, m)
      BY <1>1, <3>2, Congruences, Zenon
    <3>5. CASE c = 1
      <4>1. u = (r + l) % m
        BY <2>2, <3>5
      <4>2. Congruent(d * h + u, (l + l) * h + (r + l), m)
        BY <1>1, <3>3, <3>4, <4>1, Congruences, Zenon
      <4>3. (l + l) * h + (r + l) = l * (2 * h + 1) + r
        BY <3>1
      <4> QED
        BY <2>4, <3>5, <4>2, <4>3, Zenon DEF Congruent
    <3>6. CASE c = 0
      <4>1. u = r
        BY <2>2, <3>6
      <4>2. Congruent(d * h + u, (l + l) * h + r, m)
        BY <1>1, <3>3, <3>4, <4>1, Congruences, Zenon
      <4>3. (l + l) * h + r = l * (2 * h + 0) + r
        BY <3>1
      <4> QED
        BY <2>4, <3>6, <4>2, <4>3, Zenon DEF Congruent
    <3> QED
      BY <2>4, <3>5, <3>6
  <2> QED
    BY <2>1, <2>3, <2>5, Zenon
<1> DEFINE T == {n \in Nat : \A l, r \in 0 .. m - 1 : \A k \in 0 .. n : f[<<l, k, r>>] = (l * k + r) % m}
<1> HIDE DEF f, S, size, out, next
<1>8. ASSUME NEW l \in 0 .. m - 1, NEW r \in 0 .. m - 1
      PROVE  f[<<l, 0, r>>] = (l * 0 + r) % m
  <2>1. l \in Nat /\ r \in Nat /\ 0 \in Nat /\ l * 0 + r = r /\ r % m = r
    <3>1. l \in Nat /\ r \in Int /\ 0 <= r /\ r < m
      BY <1>1
    <3>2. r % m = r
      BY <1>1, <3>1, ModOnce, Zenon
    <3> QED
      BY <3>1, <3>2
  <2>2. f[<<l, 0, r>>] = r
    <3> HIDE DEF step
    <3> QED
      BY <1>6, <2>1
  <2> QED
    BY <2>1, <2>2, Zenon
<1>9. 0 \in T
  BY <1>8
<1>10. ASSUME NEW n \in Nat, n \in T PROVE n + 1 \in T
  <2> SUFFICES ASSUME NEW l \in 0 .. m - 1, NEW r \in 0 .. m - 1, NEW k \in 0 .. n + 1
               PROVE  f[<<l, k, r>>] = (l * k + r) % m
    OBVIOUS
  <2>1. CASE k = 0
    BY <1>8, <2>1
  <2>2. CASE k # 0
    <3>1. k \in Nat /\ l \in Nat /\ r \in Nat
      BY <1>1
    <3>2. PICK h \in Nat, d \in 0 .. m - 1, u \in 0 .. m - 1 :
                 h < k /\ step(<<l, k, r>>) = <<d, h, u>> /\ (d * h + u) % m = (l * k + r) % m
      <4> HIDE DEF step
      <4> QED
        BY <1>7, <2>2, <3>1
    <3>3. h \in 0 .. n
      BY <3>1, <3>2
    <3>4. f[<<d, h, u>>] = (d * h + u) % m
      BY <1>10, <3>3
    <3>5. f[<<l, k, r>>] = f[<<d, h, u>>]
      <4> HIDE DEF step
      <4>1. f[<<l, k, r>>] = IF k = 0 THEN r ELSE f[step(<<l, k, r>>)]
        BY <1>6, <3>1, Zenon
      <4> QED
        BY <2>2, <3>2, <4>1, Zenon
    <3> QED
      BY <3>2, <3>4, <3>5, Zenon
  <2> QED
    BY <2>1, <2>2
<1>11. b \in T
  <2> HIDE DEF T
  <2> QED
    BY <1>9, <1>10, SetInduction
<1>12. PICK l \in 0 .. m - 1 : l = a % m
  <2>1. a % m \in 0 .. m - 1
    BY <1>1, Z3
  <2> QED
    BY <2>1
<1>13. f[<<l, b, 0>>] = (l * b + 0) % m
  BY <1>1, <1>11
<1>14. l * b + 0 = l * b /\ (l * b) % m = (a * b) % m
  <2>1. a \in Int /\ b \in Int /\ l * b + 0 = l * b
    BY <1>1
  <2>2. ((a % m) * b) % m = (a * b) % m
    BY <1>1, <2>1, ReducedEarly, Zenon
  <2> QED
    BY <1>12, <2>1, <2>2, Zenon
<1> QED
  BY <1>2, <1>12, <1>13, <1>14, Zenon

\* So are all products of residues, whatever the width of the word.
THEOREM ResidueProductsAreExact ==
    ASSUME NEW m \in 1 .. MaxUnsigned, NEW a, NEW b, IsResidue(a, m), IsResidue(b, m)
    PROVE  FieldMul(a, b) = FieldElement(m, a.value * b.value)
<1>1. m \in Nat /\ m # 0 /\ a.modulus = m
  BY UnsignedAssumption DEF IsResidue
<1>2. PICK v \in Nat, w \in Nat : v = a.value /\ w = b.value
  BY <1>1 DEF IsResidue
<1>3. mul_mod(v, w, m) = (v * w) % m
  BY PortableProductIsExact DEF mul_mod
<1>4. ((v * w) % m) % m = (v * w) % m
  <2>1. v * w \in Int
    OBVIOUS
  <2> QED
    BY <1>1, <2>1, ReducedEarly, Zenon
<1>5. FieldMul(a, b) = FieldElement(m, mul_mod(v, w, m))
  BY <1>1, <1>2, Zenon DEF FieldMul
<1> QED
  BY <1>2, <1>3, <1>4, <1>5, Zenon DEF FieldElement

-----------------------------------------------------------------------------
(* Powers and inverses of residues. *)

\* 1, multiplied n times by v.
PowerOf(v, n) ==
    LET times[s \in Nat \X Int] == IF s[1] = 0 THEN s[2] ELSE times[<<s[1] - 1, s[2] * v>>]
    IN times[<<n, 1>>]

LEMMA PowersMultiply ==
    ASSUME NEW v \in Int
    PROVE  /\ PowerOf(v, 0) = 1
           /\ \A n \in Nat : PowerOf(v, n) \in Int /\ PowerOf(v, n + 1) = v * PowerOf(v, n)
<1> DEFINE S == Nat \X Int
           size == [s \in S |-> s[1]]
           out == [s \in S |-> s[2]]
           step(s) == <<s[1] - 1, s[2] * v>>
           next == [s \in S |-> step(s)]
           f == CHOOSE f : f = [s \in S |-> IF s[1] = 0 THEN s[2] ELSE f[step(s)]]
<1>1. \A n : PowerOf(v, n) = f[<<n, 1>>]
  BY DEF PowerOf
<1>2. Shrinks(S, size, next)
  <2>1. \A s \in S : size[s] = s[1] /\ next[s] = step(s) /\ s[1] \in Nat
    OBVIOUS
  <2>2. \A s \in S : s[1] # 0 => step(s) \in S /\ step(s)[1] < s[1]
    OBVIOUS
  <2> HIDE DEF size, next, step, S
  <2> QED
    BY <2>1, <2>2 DEF Shrinks
<1>3. \A g : Loop(S, size, next, out, g) <=> g = [s \in S |-> IF s[1] = 0 THEN s[2] ELSE g[step(s)]]
  <2>1. ASSUME NEW g
        PROVE  [s \in S |-> IF size[s] = 0 THEN out[s] ELSE g[next[s]]]
                 = [s \in S |-> IF s[1] = 0 THEN s[2] ELSE g[step(s)]]
    <3>1. \A s \in S : size[s] = s[1] /\ next[s] = step(s) /\ out[s] = s[2]
      OBVIOUS
    <3> HIDE DEF size, next, out, S, step
    <3> QED
      BY <3>1
  <2> QED
    BY <2>1, Zenon DEF Loop
<1>4. f = [s \in S |-> IF s[1] = 0 THEN s[2] ELSE f[step(s)]]
  <2>1. \E g : Loop(S, size, next, out, g)
    <3> HIDE DEF S, size, next, out
    <3> QED
      BY <1>2, LoopIsDefined
  <2> HIDE DEF S, size, next, out, step
  <2> QED
    BY <1>3, <2>1, Zenon
<1>5. ASSUME NEW n \in Nat, NEW w \in Int
      PROVE  f[<<0, w>>] = w /\ f[<<n + 1, w>>] = f[<<n, w * v>>]
  <2>1. <<0, w>> \in S /\ <<n + 1, w>> \in S
    OBVIOUS
  <2>2. step(<<n + 1, w>>) = <<n, w * v>>
    BY Z3
  <2> HIDE DEF f, step
  <2>3. \A s \in S : f[s] = IF s[1] = 0 THEN s[2] ELSE f[step(s)]
    <3> HIDE DEF S
    <3> QED
      BY <1>4, Zenon
  <2>4. f[<<0, w>>] = w
    BY <2>1, <2>3
  <2>5. f[<<n + 1, w>>] = f[step(<<n + 1, w>>)]
    <3>1. n + 1 # 0 /\ <<n + 1, w>>[1] = n + 1
      OBVIOUS
    <3> QED
      BY <2>1, <2>3, <3>1, Zenon
  <2> QED
    BY <2>2, <2>4, <2>5, Zenon
<1> HIDE DEF f, S, size, next, out, step
<1> DEFINE T == {n \in Nat : f[<<n, 1>>] \in Int /\ \A w \in Int : f[<<n, w>>] = w * f[<<n, 1>>]}
<1>6. 0 \in T /\ f[<<0, 1>>] = 1
  <2>1. \A w \in Int : f[<<0, w>>] = w
    <3>1. 0 \in Nat
      OBVIOUS
    <3> QED
      BY <1>5, <3>1, Zenon
  <2>2. f[<<0, 1>>] = 1 /\ \A w \in Int : w * 1 = w
    BY <2>1
  <2> QED
    BY <2>1, <2>2
<1>7. ASSUME NEW n \in Nat, n \in T
      PROVE  n + 1 \in T /\ f[<<n + 1, 1>>] = v * f[<<n, 1>>]
  <2>1. PICK p \in Int : p = f[<<n, 1>>]
    BY <1>7
  <2>2. ASSUME NEW w \in Int PROVE f[<<n + 1, w>>] = w * (v * p)
    <3>1. w * v \in Int
      OBVIOUS
    <3>2. f[<<n + 1, w>>] = f[<<n, w * v>>]
      BY <1>5, Zenon
    <3>3. f[<<n, w * v>>] = (w * v) * p
      BY <1>7, <2>1, <3>1
    <3>4. (w * v) * p = w * (v * p)
      BY ProductsAssociate
    <3> QED
      BY <3>2, <3>3, <3>4, Zenon
  <2>3. v * p \in Int /\ 1 * (v * p) = v * p
    OBVIOUS
  <2>4. f[<<n + 1, 1>>] = v * p
    BY <2>2, <2>3
  <2> QED
    BY <2>1, <2>2, <2>3, <2>4
<1>8. \A n \in Nat : n \in T
  <2> HIDE DEF T
  <2> QED
    BY <1>6, <1>7, SetInduction
<1>9. \A n \in Nat : f[<<n, 1>>] \in Int /\ f[<<n + 1, 1>>] = v * f[<<n, 1>>]
  BY <1>7, <1>8
<1> QED
  BY <1>1, <1>6, <1>9, Zenon

LEMMA PowersOfCongruent ==
    ASSUME NEW m \in Nat, m # 0, NEW v, NEW w, Congruent(v, w, m)
    PROVE  \A n \in Nat : Congruent(PowerOf(v, n), PowerOf(w, n), m)
<1>1. v \in Int /\ w \in Int
  BY Zenon DEF Congruent
<1> DEFINE T == {n \in Nat : Congruent(PowerOf(v, n), PowerOf(w, n), m)}
<1>2. 0 \in T
  <2>1. PowerOf(v, 0) = 1 /\ PowerOf(w, 0) = 1
    BY <1>1, PowersMultiply, Zenon
  <2>2. Congruent(1, 1, m)
    BY DEF Congruent
  <2>3. 0 \in Nat
    OBVIOUS
  <2> QED
    BY <2>1, <2>2, <2>3, Zenon
<1>3. ASSUME NEW n \in Nat, n \in T PROVE n + 1 \in T
  <2>1. /\ PowerOf(v, n + 1) = v * PowerOf(v, n)
        /\ PowerOf(w, n + 1) = w * PowerOf(w, n)
    BY <1>1, PowersMultiply, Zenon
  <2>2. Congruent(PowerOf(v, n), PowerOf(w, n), m)
    BY <1>3
  <2>3. Congruent(v * PowerOf(v, n), w * PowerOf(w, n), m)
    BY <2>2, Congruences, Zenon
  <2>4. n + 1 \in Nat
    OBVIOUS
  <2> QED
    BY <2>1, <2>3, <2>4, Zenon
<1> HIDE DEF T
<1>4. \A n \in Nat : n \in T
  BY <1>2, <1>3, SetInduction
<1> QED
  BY <1>4 DEF T

LEMMA PowersOfSquares ==
    ASSUME NEW v \in Int
    PROVE  \A n \in Nat : PowerOf(v * v, n) = PowerOf(v, 2 * n)
<1>1. PICK w \in Int : w = v * v
  OBVIOUS
<1> DEFINE T == {n \in Nat : PowerOf(w, n) = PowerOf(v, 2 * n)}
<1>2. 0 \in T
  <2>1. 2 * 0 = 0
    OBVIOUS
  <2>2. PowerOf(w, 0) = 1 /\ PowerOf(v, 0) = 1
    BY PowersMultiply, Zenon
  <2> QED
    BY <2>1, <2>2
<1>3. ASSUME NEW n \in Nat, n \in T PROVE n + 1 \in T
  <2>1. PICK k \in Nat : k = 2 * n /\ k + 1 \in Nat /\ 2 * (n + 1) = (k + 1) + 1
    OBVIOUS
  <2>2. PICK p \in Int : p = PowerOf(v, k)
    BY PowersMultiply, Zenon
  <2>3. PowerOf(v, k + 1) = v * p /\ PowerOf(v, (k + 1) + 1) = v * PowerOf(v, k + 1)
    BY <2>1, <2>2, PowersMultiply, Zenon
  <2>4. PowerOf(w, n) = p
    BY <1>3, <2>1, <2>2
  <2>5. PowerOf(w, n + 1) = w * p
    BY <2>4, PowersMultiply, Zenon
  <2>6. w * p = v * (v * p)
    BY <1>1, ProductsAssociate
  <2>7. PowerOf(w, n + 1) = PowerOf(v, 2 * (n + 1))
    BY <2>1, <2>3, <2>5, <2>6, Zenon
  <2>8. n + 1 \in Nat
    OBVIOUS
  <2> QED
    BY <2>7, <2>8, Zenon
<1> HIDE DEF T
<1>4. \A n \in Nat : n \in T
  BY <1>2, <1>3, SetInduction
<1> QED
  BY <1>1, <1>4 DEF T

\* The inverse is the power that Fermat's theorem names.
THEOREM InverseIsPower ==
    ASSUME NEW m \in 1 .. MaxUnsigned, NEW a, IsResidue(a, m), a.value # 0
    PROVE  FieldInv(a) = FieldElement(m, PowerOf(a.value, m - 2))
<1> DEFINE R == [modulus : {m}, value : 0 .. m - 1]
           S == R \X Nat \X R
           size == [s \in S |-> s[2]]
           out == [s \in S |-> s[3]]
           step(s) == <<FieldMul(s[1], s[1]), s[2] \div 2,
                        IF s[2] % 2 = 1 THEN FieldMul(s[3], s[1]) ELSE s[3]>>
           next == [s \in S |-> step(s)]
           f == CHOOSE f : f = [s \in S |-> IF s[2] = 0 THEN s[3] ELSE f[step(s)]]
<1>1. m \in Nat /\ m # 0 /\ m <= MaxUnsigned /\ a.modulus = m /\ a.value \in 0 .. m - 1
  BY UnsignedAssumption DEF IsResidue
<1>2. FieldInv(a) = f[<<a, Unsigned(m - 2), FieldElement(m, 1)>>]
  BY <1>1 DEF FieldInv
<1>3. \A p : p \in R <=> IsResidue(p, m)
  BY <1>1 DEF IsResidue
<1>4. ASSUME NEW p \in R, NEW q \in R
      PROVE  /\ FieldMul(p, q) \in R /\ p.value \in Int /\ q.value \in Int
             /\ Congruent(FieldMul(p, q).value, p.value * q.value, m)
  <2>1. FieldMul(p, q) = [modulus |-> m, value |-> (p.value * q.value) % m]
    BY <1>3, ResidueProductsAreExact DEF FieldElement
  <2>2. p.value \in Int /\ q.value \in Int
    OBVIOUS
  <2>3. PICK n \in Int : n = p.value * q.value
    BY <2>2
  <2>4. n % m \in 0 .. m - 1 /\ Congruent(n % m, n, m)
    BY <1>1, ReducedEarly, RemaindersAreCongruent, Zenon
  <2> QED
    BY <2>1, <2>2, <2>3, <2>4
<1>5. Shrinks(S, size, next)
  <2>1. ASSUME NEW p \in R, NEW k \in Nat, NEW q \in R, k # 0
        PROVE  step(<<p, k, q>>) \in S /\ step(<<p, k, q>>)[2] < k
    <3>1. FieldMul(p, p) \in R /\ FieldMul(q, p) \in R
      BY <1>4
    <3>2. PICK h \in Nat : h = k \div 2 /\ h < k
      BY <2>1, BitOf
    <3> HIDE DEF R
    <3> QED
      BY <3>1, <3>2
  <2>2. \A s \in S : size[s] = s[2] /\ next[s] = step(s) /\ s[2] \in Nat
    OBVIOUS
  <2>3. \A s \in S : s[2] # 0 => step(s) \in S /\ step(s)[2] < s[2]
    <3> HIDE DEF step, R
    <3>1. \A s \in S : \E p \in R, k \in Nat, q \in R : s = <<p, k, q>> /\ s[2] = k
      OBVIOUS
    <3> QED
      BY <2>1, <3>1
  <2> HIDE DEF size, next, step, S
  <2> QED
    BY <2>2, <2>3 DEF Shrinks
<1>6. \A g : Loop(S, size, next, out, g) <=> g = [s \in S |-> IF s[2] = 0 THEN s[3] ELSE g[step(s)]]
  <2>1. ASSUME NEW g
        PROVE  [s \in S |-> IF size[s] = 0 THEN out[s] ELSE g[next[s]]]
                 = [s \in S |-> IF s[2] = 0 THEN s[3] ELSE g[step(s)]]
    <3>1. \A s \in S : size[s] = s[2] /\ next[s] = step(s) /\ out[s] = s[3]
      OBVIOUS
    <3> HIDE DEF size, next, out, S, step
    <3> QED
      BY <3>1
  <2> QED
    BY <2>1, Zenon DEF Loop
<1>7. f = [s \in S |-> IF s[2] = 0 THEN s[3] ELSE f[step(s)]]
  <2>1. \E g : Loop(S, size, next, out, g)
    <3> HIDE DEF S, size, next, out
    <3> QED
      BY <1>5, LoopIsDefined
  <2> HIDE DEF S, size, next, out, step
  <2> QED
    BY <1>6, <2>1, Zenon
<1>8. ASSUME NEW p \in R, NEW k \in Nat, NEW q \in R
      PROVE  f[<<p, k, q>>] = IF k = 0 THEN q ELSE f[step(<<p, k, q>>)]
  <2> HIDE DEF f, step, R
  <2>1. <<p, k, q>> \in S
    OBVIOUS
  <2>2. f[<<p, k, q>>] = IF <<p, k, q>>[2] = 0 THEN <<p, k, q>>[3] ELSE f[step(<<p, k, q>>)]
    <3> HIDE DEF S
    <3> QED
      BY <1>7, <2>1, Zenon
  <2> QED
    BY <2>2
<1> HIDE DEF f, S, size, out, next
\* A step keeps result * base ^ exponent.
<1>9. ASSUME NEW p \in R, NEW k \in Nat, NEW q \in R, k # 0
      PROVE  \E h \in Nat, d \in R, u \in R :
               /\ h < k /\ step(<<p, k, q>>) = <<d, h, u>>
               /\ Congruent(u.value * PowerOf(d.value, h), q.value * PowerOf(p.value, k), m)
  <2>1. PICK h \in Nat, c \in {0, 1} : k \div 2 = h /\ k % 2 = c /\ k = 2 * h + c /\ h < k
    BY <1>9, BitOf
  <2>2. PICK d \in R : d = FieldMul(p, p) /\ Congruent(d.value, p.value * p.value, m)
    BY <1>4
  <2>3. PICK i \in Int, j \in Int : i = p.value /\ j = q.value
    OBVIOUS
  <2>4. PICK w \in Int : w = PowerOf(i, 2 * h)
    <3>1. 2 * h \in Nat
      OBVIOUS
    <3> QED
      BY <3>1, PowersMultiply, Zenon
  <2>5. Congruent(PowerOf(d.value, h), w, m)
    <3>1. Congruent(d.value, i * i, m)
      BY <2>2, <2>3, Zenon
    <3>2. Congruent(PowerOf(d.value, h), PowerOf(i * i, h), m)
      BY <1>1, <3>1, PowersOfCongruent, Zenon
    <3>3. PowerOf(i * i, h) = w
      BY <2>4, PowersOfSquares, Zenon
    <3> QED
      BY <3>2, <3>3, Zenon
  <2>6. CASE c = 1
    <3>1. PICK u \in R : u = FieldMul(q, p) /\ Congruent(u.value, j * i, m)
      BY <1>4, <2>3
    <3>2. Congruent(u.value * PowerOf(d.value, h), (j * i) * w, m)
      BY <1>1, <2>5, <3>1, Congruences, Zenon
    <3>3. (j * i) * w = j * (i * w)
      BY ProductsAssociate
    <3>4. PowerOf(i, k) = i * w
      <4>1. 2 * h \in Nat /\ k = 2 * h + 1
        BY <2>1, <2>6
      <4>2. PowerOf(i, 2 * h + 1) = i * PowerOf(i, 2 * h)
        BY <4>1, PowersMultiply, Zenon
      <4> QED
        BY <2>4, <4>1, <4>2, Zenon
    <3>5. step(<<p, k, q>>) = <<d, h, u>>
      BY <2>1, <2>2, <2>6, <3>1
    <3>6. Congruent(u.value * PowerOf(d.value, h), q.value * PowerOf(p.value, k), m)
      BY <2>3, <3>2, <3>3, <3>4, Zenon
    <3> HIDE DEF step, R
    <3> QED
      BY <2>1, <3>5, <3>6
  <2>7. CASE c = 0
    <3>1. Congruent(j, j, m)
      BY <1>1, RemaindersAreCongruent, Zenon
    <3>2. Congruent(j * PowerOf(d.value, h), j * w, m)
      BY <1>1, <2>5, <3>1, Congruences, Zenon
    <3>3. k = 2 * h
      BY <2>1, <2>7
    <3>4. step(<<p, k, q>>) = <<d, h, q>>
      BY <2>1, <2>2, <2>7
    <3>5. Congruent(q.value * PowerOf(d.value, h), q.value * PowerOf(p.value, k), m)
      BY <2>3, <2>4, <3>2, <3>3, Zenon
    <3> HIDE DEF step, R
    <3> QED
      BY <2>1, <3>4, <3>5
  <2> QED
    BY <2>6, <2>7
<1> HIDE DEF step
<1> DEFINE T == {n \in Nat : \A p, q \in R : \A k \in 0 .. n :
                    /\ f[<<p, k, q>>] \in R
                    /\ Congruent(f[<<p, k, q>>].value, q.value * PowerOf(p.value, k), m)}
<1>10. ASSUME NEW p \in R, NEW q \in R
       PROVE  f[<<p, 0, q>>] = q /\ Congruent(q.value, q.value * PowerOf(p.value, 0), m)
  <2>1. p.value \in Int /\ q.value \in Int
    OBVIOUS
  <2>2. PowerOf(p.value, 0) = 1
    BY <2>1, PowersMultiply, Zenon
  <2>3. q.value * 1 = q.value
    BY <2>1
  <2>4. Congruent(q.value, q.value, m)
    BY <1>1, <2>1, RemaindersAreCongruent, Zenon
  <2>5. f[<<p, 0, q>>] = q
    <3> HIDE DEF R
    <3> QED
      BY <1>8
  <2> QED
    BY <2>2, <2>3, <2>4, <2>5, Zenon
<1>11. 0 \in T
  <2> HIDE DEF R
  <2> QED
    BY <1>10
<1>12. ASSUME NEW n \in Nat, n \in T PROVE n + 1 \in T
  <2> HIDE DEF R
  <2> SUFFICES ASSUME NEW p \in R, NEW q \in R, NEW k \in 0 .. n + 1
               PROVE  /\ f[<<p, k, q>>] \in R
                      /\ Congruent(f[<<p, k, q>>].value, q.value * PowerOf(p.value, k), m)
    OBVIOUS
  <2>1. CASE k = 0
    BY <1>10, <2>1
  <2>2. CASE k # 0
    <3>1. k \in Nat
      OBVIOUS
    <3>2. PICK h \in Nat, d \in R, u \in R :
                 /\ h < k /\ step(<<p, k, q>>) = <<d, h, u>>
                 /\ Congruent(u.value * PowerOf(d.value, h), q.value * PowerOf(p.value, k), m)
      BY <1>9, <2>2, <3>1
    <3>3. h \in 0 .. n
      BY <3>1, <3>2
    <3>4. /\ f[<<d, h, u>>] \in R
          /\ Congruent(f[<<d, h, u>>].value, u.value * PowerOf(d.value, h), m)
      BY <1>12, <3>3
    <3>5. f[<<p, k, q>>] = f[<<d, h, u>>]
      <4>1. f[<<p, k, q>>] = IF k = 0 THEN q ELSE f[step(<<p, k, q>>)]
        BY <1>8, <3>1, Zenon
      <4> QED
        BY <2>2, <3>2, <4>1, Zenon
    <3> QED
      BY <3>2, <3>4, <3>5, Zenon DEF Congruent
  <2> QED
    BY <2>1, <2>2
<1>13. \A n \in Nat : n \in T
  <2> HIDE DEF T
  <2> QED
    BY <1>11, <1>12, SetInduction
<1>14. PICK e \in Nat, o \in R : /\ e = m - 2 /\ e = Unsigned(m - 2) /\ o = FieldElement(m, 1)
                               /\ Congruent(o.value, 1, m)
  <2>1. m >= 2
    BY <1>1
  <2>2. Unsigned(m - 2) = m - 2
    <3>1. m \in 0 .. MaxUnsigned /\ 2 \in 0 .. MaxUnsigned
      BY <1>1, <2>1, UnsignedAssumption
    <3> QED
      BY <1>1, <2>1, <3>1, UnsignedSums
  <2>3. 1 % m \in 0 .. m - 1 /\ Congruent(1 % m, 1, m)
    <3>1. 1 \in Int
      OBVIOUS
    <3> QED
      BY <1>1, <3>1, ReducedEarly, RemaindersAreCongruent, Zenon
  <2>4. FieldElement(m, 1) = [modulus |-> m, value |-> 1 % m]
    BY DEF FieldElement
  <2>5. FieldElement(m, 1) \in R /\ FieldElement(m, 1).value = 1 % m
    BY <2>3, <2>4
  <2>6. m - 2 \in Nat
    BY <1>1, <2>1
  <2> QED
    BY <2>2, <2>3, <2>5, <2>6, Zenon
<1>15. PICK z \in R : z = f[<<a, e, o>>] /\ Congruent(z.value, o.value * PowerOf(a.value, e), m)
  <2>1. a \in R
    BY <1>3, Zenon
  <2> HIDE DEF R
  <2> QED
    BY <1>13, <2>1
<1>16. PICK w \in Int : w = PowerOf(a.value, e)
  <2>1. a.value \in Int
    BY <1>1
  <2> QED
    BY <2>1, PowersMultiply, Zenon
<1>17. Congruent(o.value * w, 1 * w, m) /\ 1 * w = w
  <2>1. Congruent(w, w, m) /\ 1 * w = w
    BY <1>1, RemaindersAreCongruent
  <2> QED
    BY <1>1, <1>14, <2>1, Congruences, Zenon
<1>18. z.value % m = w % m
  BY <1>15, <1>16, <1>17, Zenon DEF Congruent
<1>19. z = [modulus |-> m, value |-> z.value % m]
  <2>1. z.value \in Int /\ 0 <= z.value /\ z.value < m /\ z = [modulus |-> m, value |-> z.value]
    BY <1>1
  <2>2. z.value % m = z.value
    BY <1>1, <2>1, ModOnce, Zenon
  <2> QED
    BY <2>1, <2>2, Zenon
<1>20. z = FieldElement(m, w)
  BY <1>18, <1>19, Zenon DEF FieldElement
<1> QED
  BY <1>2, <1>14, <1>15, <1>16, <1>20, Zenon

-----------------------------------------------------------------------------
(* Fermat's little theorem. *)

\* A function can be iterated.
LEMMA Iterates ==
    ASSUME NEW T, NEW start \in T, NEW g \in [T -> T]
    PROVE  \E s \in [Nat -> T] : s[0] = start /\ \A n \in Nat : s[n + 1] = g[s[n]]
<1> DEFINE S == Nat \X T
           size == [s \in S |-> s[1]]
           out == [s \in S |-> s[2]]
           step(s) == <<s[1] - 1, g[s[2]]>>
           next == [s \in S |-> step(s)]
<1>1. \A n \in Nat, t \in T : <<n, t>> \in S /\ size[<<n, t>>] = n /\ out[<<n, t>>] = t
                              /\ next[<<n, t>>] = <<n - 1, g[t]>> /\ g[t] \in T
  OBVIOUS
<1>2. Shrinks(S, size, next)
  <2>1. \A s \in S : size[s] = s[1] /\ next[s] = step(s) /\ s[1] \in Nat
    OBVIOUS
  <2>2. \A s \in S : s[1] # 0 => step(s) \in S /\ step(s)[1] < s[1]
    OBVIOUS
  <2> HIDE DEF size, next, step, S
  <2> QED
    BY <2>1, <2>2 DEF Shrinks
<1>3. PICK f : Loop(S, size, next, out, f)
  <2> HIDE DEF size, next, S, out
  <2> QED
    BY <1>2, LoopIsDefined
<1>4. \A s \in S : f[s] = IF size[s] = 0 THEN out[s] ELSE f[next[s]]
  <2> HIDE DEF size, next, S, out
  <2> QED
    BY <1>3 DEF Loop
<1> HIDE DEF size, next, S, out
<1>5. \A t \in T : f[<<0, t>>] = t
  BY <1>1, <1>4
<1>6. ASSUME NEW n \in Nat, NEW t \in T PROVE f[<<n + 1, t>>] = f[<<n, g[t]>>]
  <2>1. <<n + 1, t>> \in S /\ size[<<n + 1, t>>] = n + 1 /\ next[<<n + 1, t>>] = <<(n + 1) - 1, g[t]>>
    BY <1>1
  <2>2. (n + 1) - 1 = n /\ n + 1 # 0
    OBVIOUS
  <2> QED
    BY <1>4, <2>1, <2>2
<1> DEFINE A == {n \in Nat : \A t \in T : f[<<n, t>>] \in T /\ f[<<n + 1, t>>] = g[f[<<n, t>>]]}
<1>7. 0 \in A
  <2> SUFFICES ASSUME NEW t \in T PROVE f[<<0, t>>] \in T /\ f[<<0 + 1, t>>] = g[f[<<0, t>>]]
    OBVIOUS
  <2> QED
    BY <1>5, <1>6
<1>8. ASSUME NEW n \in Nat, n \in A PROVE n + 1 \in A
  <2> SUFFICES ASSUME NEW t \in T
               PROVE  f[<<n + 1, t>>] \in T /\ f[<<(n + 1) + 1, t>>] = g[f[<<n + 1, t>>]]
    OBVIOUS
  <2>1. f[<<n, t>>] \in T /\ f[<<n + 1, t>>] = g[f[<<n, t>>]] /\ f[<<n + 1, g[t]>>] = g[f[<<n, g[t]>>]]
    BY <1>8
  <2>2. f[<<n + 1, t>>] = f[<<n, g[t]>>] /\ f[<<(n + 1) + 1, t>>] = f[<<n + 1, g[t]>>]
    BY <1>6
  <2> QED
    BY <2>1, <2>2
<1>9. \A n \in Nat : n \in A
  <2> HIDE DEF A
  <2> QED
    BY <1>7, <1>8, SetInduction
<1> DEFINE s == [n \in Nat |-> f[<<n, start>>]]
<1>10. \A n \in Nat : f[<<n, start>>] \in T /\ f[<<n + 1, start>>] = g[f[<<n, start>>]]
  BY <1>9
<1>11. \A n \in Nat : n + 1 \in Nat
  OBVIOUS
<1>12. s \in [Nat -> T]
  BY <1>10, Zenon
<1>13. s[0] = start
  BY <1>5
<1>14. \A n \in Nat : s[n + 1] = g[s[n]]
  BY <1>10, <1>11, Zenon
<1> QED
  BY <1>12, <1>13, <1>14, Zenon

Multiple(n, p) == \E q \in Int : n = p * q

LEMMA MultiplesAdd ==
    ASSUME NEW p \in Int, NEW i \in Int, NEW j \in Int, Multiple(i, p), Multiple(j, p)
    PROVE  Multiple(i + j, p) /\ Multiple(i - j, p)
<1>1. PICK q \in Int, r \in Int : i = p * q /\ j = p * r
  BY DEF Multiple
<1>2. p * (q + r) = p * q + p * r /\ p * (q - r) = p * q - p * r
  OBVIOUS
<1> QED
  <2>1. q + r \in Int /\ q - r \in Int
    OBVIOUS
  <2> QED
    BY <1>1, <1>2, <2>1, Zenon DEF Multiple

LEMMA MultiplesScale ==
    ASSUME NEW p \in Int, NEW i \in Int, NEW j \in Int, Multiple(i, p)
    PROVE  Multiple(i * j, p) /\ Multiple(j * i, p)
<1>1. PICK q \in Int : i = p * q
  BY DEF Multiple
<1>2. (p * q) * j = p * (q * j) /\ j * i = i * j
  BY <1>1
<1>3. q * j \in Int
  OBVIOUS
<1> QED
  BY <1>1, <1>2, <1>3, Zenon DEF Multiple

\* A prime that divides a product divides one of the factors.
LEMMA PrimeDividesFactor ==
    ASSUME NEW p \in Nat, IsPrime(p), NEW c \in Int, NEW k \in 1 .. p - 1, Multiple(k * c, p)
    PROVE  Multiple(c, p)
<1> DEFINE T == {n \in Nat : n # 0 /\ Multiple(n * c, p)}
<1>1. k \in T
  OBVIOUS
<1>2. PICK m \in T : \A n \in T : m <= n
  BY <1>1, LeastElement
<1>3. m \in Nat /\ m # 0 /\ m <= k /\ Multiple(m * c, p)
  BY <1>1, <1>2
<1>4. PICK q \in Int, r \in Nat : q = p \div m /\ r = p % m /\ r < m /\ p = m * q + r
  BY <1>3, Z3
<1>5. Multiple(r * c, p)
  <2>1. PICK u \in Int, v \in Int : u = p * c /\ v = m * c
    BY <1>3
  <2>2. r * c = u - v * q
    <3>1. r = p - m * q /\ m \in Int
      BY <1>3, <1>4
    <3>2. (p - m * q) * c = p * c - (m * c) * q
      BY <3>1
    <3> QED
      BY <2>1, <3>1, <3>2
  <2>3. Multiple(u, p)
    BY <2>1 DEF Multiple
  <2>4. PICK w \in Int : w = v * q
    OBVIOUS
  <2>5. Multiple(v, p) /\ p \in Int
    BY <1>3, <2>1
  <2>6. Multiple(w, p)
    BY <2>4, <2>5, MultiplesScale, Zenon
  <2>7. Multiple(u - w, p)
    BY <2>3, <2>5, <2>6, MultiplesAdd, Zenon
  <2> QED
    BY <2>2, <2>4, <2>7, Zenon
<1>6. r = 0
  <2> SUFFICES ASSUME r # 0 PROVE FALSE
    OBVIOUS
  <2>1. r \in T
    BY <1>5
  <2>2. m <= r
    BY <1>2, <2>1, Zenon
  <2> QED
    BY <1>3, <1>4, <2>2
<1>7. m = 1
  <2> SUFFICES ASSUME m # 1 PROVE FALSE
    OBVIOUS
  <2>1. m \in 2 .. p - 1
    BY <1>3
  <2> QED
    BY <1>4, <1>6, <2>1 DEF IsPrime
<1>8. 1 * c = c
  OBVIOUS
<1> QED
  BY <1>3, <1>7, <1>8

\* The sums of the first terms of (a + 1)^n, row by row: the sum up to k is that of
\* the row before, and a times the one that is a term shorter.
Binomials(s, a) ==
    /\ s \in [Nat -> [Nat -> Int]]
    /\ \A k \in Nat : s[0][k] = 1
    /\ \A n \in Nat : s[n][0] = 1
    /\ \A n, k \in Nat : s[n + 1][k + 1] = s[n][k + 1] + a * s[n][k]

LEMMA BinomialsExist == ASSUME NEW a \in Int PROVE \E s : Binomials(s, a)
<1> DEFINE Row == [Nat -> Int]
           first == [k \in Nat |-> 1]
           following(row) == [k \in Nat |-> IF k = 0 THEN 1 ELSE row[k] + a * row[k - 1]]
           g == [row \in Row |-> following(row)]
<1>1. first \in Row
  OBVIOUS
<1>2. ASSUME NEW row \in Row PROVE following(row) \in Row
  <2>1. ASSUME NEW k \in Nat, k # 0 PROVE row[k] + a * row[k - 1] \in Int
    <3>1. k - 1 \in Nat
      BY <2>1
    <3>2. row[k] \in Int /\ row[k - 1] \in Int
      BY <3>1
    <3> QED
      BY <3>2
  <2> QED
    BY <2>1
<1>3. g \in [Row -> Row]
  BY <1>2
<1>4. PICK s \in [Nat -> Row] : s[0] = first /\ \A n \in Nat : s[n + 1] = g[s[n]]
  <2> HIDE DEF Row, first, g
  <2> QED
    BY <1>1, <1>3, Iterates
<1>5. ASSUME NEW n \in Nat, NEW k \in Nat
      PROVE  s[n + 1][0] = 1 /\ s[n + 1][k + 1] = s[n][k + 1] + a * s[n][k]
  <2>1. s[n] \in Row /\ s[n + 1] = following(s[n])
    BY <1>4
  <2>2. k + 1 \in Nat /\ k + 1 # 0 /\ (k + 1) - 1 = k
    OBVIOUS
  <2>3. following(s[n])[k + 1] = s[n][k + 1] + a * s[n][k]
    BY <2>2
  <2> QED
    BY <2>1, <2>3
<1>6. \A k \in Nat : s[0][k] = 1
  BY <1>4
<1>7. ASSUME NEW n \in Nat PROVE s[n][0] = 1
  <2>1. CASE n = 0
    BY <1>6, <2>1
  <2>2. CASE n # 0
    <3>1. n - 1 \in Nat /\ n = (n - 1) + 1
      BY <2>2
    <3> QED
      BY <1>5, <3>1
  <2> QED
    BY <2>1, <2>2
<1>8. \A n, k \in Nat : s[n + 1][k + 1] = s[n][k + 1] + a * s[n][k]
  BY <1>5, Zenon
<1>9. s \in [Nat -> [Nat -> Int]]
  BY <1>4
<1> HIDE DEF Row, first, g, following
<1> QED
  BY <1>6, <1>7, <1>8, <1>9, Zenon DEF Binomials

\* A row ends with the power, and its last term is the power of a.
LEMMA RowsEnd ==
    ASSUME NEW a \in Int, NEW s, Binomials(s, a)
    PROVE  \A n \in Nat : /\ \A k \in Nat : k >= n => s[n][k] = PowerOf(a + 1, n)
                          /\ n # 0 => s[n][n] - s[n][n - 1] = PowerOf(a, n)
<1> DEFINE Level(n) == \A k \in Nat : k >= n => s[n][k] = PowerOf(a + 1, n)
           Top(n) == n # 0 => s[n][n] - s[n][n - 1] = PowerOf(a, n)
           A == {n \in Nat : Level(n) /\ Top(n)}
<1>1. /\ s \in [Nat -> [Nat -> Int]]
      /\ \A k \in Nat : s[0][k] = 1
      /\ \A n \in Nat : s[n][0] = 1
      /\ \A n, k \in Nat : s[n + 1][k + 1] = s[n][k + 1] + a * s[n][k]
  BY Zenon DEF Binomials
<1>2. /\ PowerOf(a, 0) = 1 /\ PowerOf(a + 1, 0) = 1
      /\ \A n \in Nat : PowerOf(a, n) \in Int /\ PowerOf(a, n + 1) = a * PowerOf(a, n)
      /\ \A n \in Nat : PowerOf(a + 1, n) \in Int /\ PowerOf(a + 1, n + 1) = (a + 1) * PowerOf(a + 1, n)
  <2>1. a + 1 \in Int
    OBVIOUS
  <2> QED
    BY <2>1, PowersMultiply, Zenon
<1>3. 0 \in A
  <2>1. Level(0) /\ Top(0)
    BY <1>1, <1>2
  <2> HIDE DEF Level, Top
  <2> QED
    BY <2>1
<1>4. ASSUME NEW n \in Nat, n \in A PROVE n + 1 \in A
  <2>1. PICK w \in Int : w = PowerOf(a + 1, n)
    BY <1>2
  <2>2. \A k \in Nat : k >= n => s[n][k] = w
    <3>1. Level(n)
      BY <1>4
    <3> QED
      BY <2>1, <3>1
  <2>3. PowerOf(a + 1, n + 1) = w + a * w
    <3>1. (a + 1) * w = w + a * w
      OBVIOUS
    <3> QED
      BY <1>2, <2>1, <3>1
  <2>4. ASSUME NEW k \in Nat, k >= n + 1 PROVE s[n + 1][k] = PowerOf(a + 1, n + 1)
    <3>1. PICK j \in Nat : k = j + 1 /\ j >= n
      <4>1. k - 1 \in Nat /\ k = (k - 1) + 1 /\ k - 1 >= n
        BY <2>4
      <4> QED
        BY <4>1
    <3>2. s[n + 1][j + 1] = s[n][j + 1] + a * s[n][j]
      BY <1>1, Zenon
    <3>3. s[n][j + 1] = w /\ s[n][j] = w
      BY <2>2, <3>1
    <3> QED
      BY <2>3, <3>1, <3>2, <3>3
  <2>5. s[n + 1][n + 1] - s[n + 1][n] = PowerOf(a, n + 1)
    <3>1. s[n + 1][n + 1] = w + a * w
      BY <2>3, <2>4
    <3>2. CASE n = 0
      <4>1. s[n + 1][n] = 1 /\ w = 1 /\ PowerOf(a, n + 1) = a * 1
        BY <1>1, <1>2, <2>1, <3>2
      <4> QED
        BY <3>1, <4>1
    <3>3. CASE n # 0
      <4>1. PICK m \in Nat : n = m + 1
        <5>1. n - 1 \in Nat /\ n = (n - 1) + 1
          BY <3>3
        <5> QED
          BY <5>1
      <4>2. s[n + 1][m + 1] = s[n][m + 1] + a * s[n][m]
        BY <1>1, Zenon
      <4>3. PICK u \in Int, v \in Int : u = s[n][m] /\ v = PowerOf(a, n)
        BY <1>1, <1>2
      <4>4. w - u = v
        <5>1. s[n][n] = w /\ n - 1 = m
          BY <2>2, <4>1
        <5>2. Top(n)
          BY <1>4
        <5>3. s[n][n] - s[n][n - 1] = v
          BY <3>3, <4>3, <5>2
        <5> QED
          BY <4>3, <5>1, <5>3
      <4>5. s[n + 1][n] = w + a * u
        BY <2>2, <4>1, <4>2, <4>3
      <4>6. (w + a * w) - (w + a * u) = a * (w - u)
        OBVIOUS
      <4>7. PowerOf(a, n + 1) = a * v
        BY <1>2, <4>3
      <4> QED
        BY <3>1, <4>4, <4>5, <4>6, <4>7
    <3> QED
      BY <3>2, <3>3
  <2>6. n + 1 \in Nat /\ (n + 1) - 1 = n
    OBVIOUS
  <2>7. Level(n + 1)
    BY <2>4
  <2>8. Top(n + 1)
    BY <2>5, <2>6
  <2> HIDE DEF Level, Top
  <2> QED
    BY <2>6, <2>7, <2>8
<1>5. \A n \in Nat : n \in A
  <2> HIDE DEF A
  <2> QED
    BY <1>3, <1>4, SetInduction
<1>6. \A n \in Nat : Level(n) /\ Top(n)
  BY <1>5, Zenon
<1> QED
  BY <1>6, Zenon

\* The terms of the expansion: the k-th is the k-th of the row before, and a times
\* the one before that.
BinomialTerms(d, a) ==
    /\ d \in [Nat -> [Nat -> Int]]
    /\ \A n \in Nat : d[n][0] = 1 /\ d[0][n + 1] = 0
    /\ \A n, k \in Nat : d[n + 1][k + 1] = d[n][k + 1] + a * d[n][k]

LEMMA ExpansionOfRows ==
    ASSUME NEW a \in Int, NEW s, Binomials(s, a)
    PROVE  \E d : BinomialTerms(d, a) /\ \A n, k \in Nat : s[n][k + 1] = s[n][k] + d[n][k + 1]
<1> DEFINE term(n, k) == IF k = 0 THEN 1 ELSE s[n][k] - s[n][k - 1]
           d == [n \in Nat |-> [k \in Nat |-> term(n, k)]]
<1>1. /\ s \in [Nat -> [Nat -> Int]]
      /\ \A k \in Nat : s[0][k] = 1
      /\ \A n \in Nat : s[n][0] = 1
      /\ \A n, k \in Nat : s[n + 1][k + 1] = s[n][k + 1] + a * s[n][k]
  BY Zenon DEF Binomials
<1>2. ASSUME NEW n \in Nat, NEW k \in Nat
      PROVE  term(n, k) \in Int /\ term(n, 0) = 1 /\ term(n, k + 1) = s[n][k + 1] - s[n][k]
  <2>1. k # 0 => k - 1 \in Nat
    OBVIOUS
  <2>2. k # 0 => s[n][k] \in Int /\ s[n][k - 1] \in Int
    BY <1>1, <2>1
  <2>3. term(n, k) \in Int
    BY <2>2
  <2>4. k + 1 # 0 /\ (k + 1) - 1 = k
    OBVIOUS
  <2> QED
    BY <2>3, <2>4
<1> HIDE DEF term
<1>3. \A n, k \in Nat : d[n][k] = term(n, k)
  BY Zenon
<1>4. d \in [Nat -> [Nat -> Int]]
  BY <1>2
<1> HIDE DEF d
<1>5. ASSUME NEW n \in Nat PROVE d[n][0] = 1 /\ d[0][n + 1] = 0
  <2>1. d[n][0] = term(n, 0) /\ d[0][n + 1] = term(0, n + 1)
    BY <1>3
  <2>2. term(0, n + 1) = s[0][n + 1] - s[0][n] /\ s[0][n + 1] = 1 /\ s[0][n] = 1
    BY <1>1, <1>2
  <2> QED
    BY <1>2, <2>1, <2>2
<1>6. ASSUME NEW n \in Nat, NEW k \in Nat
      PROVE  /\ d[n + 1][k + 1] = d[n][k + 1] + a * d[n][k]
             /\ s[n][k + 1] = s[n][k] + d[n][k + 1]
  <2>1. PICK t \in Int, u \in Int : t = s[n][k + 1] /\ u = s[n][k]
    <3>1. k + 1 \in Nat
      OBVIOUS
    <3>2. s[n][k + 1] \in Int /\ s[n][k] \in Int
      BY <1>1, <3>1
    <3> QED
      BY <3>2
  <2>2. d[n][k + 1] = t - u
    BY <1>2, <1>3, <2>1
  <2>3. d[n + 1][k + 1] = s[n + 1][k + 1] - s[n + 1][k]
    BY <1>2, <1>3
  <2>4. s[n + 1][k + 1] = t + a * u
    BY <1>1, <2>1
  <2>5. CASE k = 0
    <3>1. s[n + 1][k] = 1 /\ u = 1 /\ d[n][k] = 1
      BY <1>1, <1>5, <2>1, <2>5
    <3> QED
      BY <2>1, <2>2, <2>3, <2>4, <3>1
  <2>6. CASE k # 0
    <3>1. PICK j \in Nat : k = j + 1
      <4>1. k - 1 \in Nat /\ k = (k - 1) + 1
        BY <2>6
      <4> QED
        BY <4>1
    <3>2. PICK v \in Int : v = s[n][j]
      BY <1>1
    <3>3. s[n + 1][k] = u + a * v
      BY <1>1, <2>1, <3>1, <3>2
    <3>4. d[n][k] = u - v
      BY <1>2, <1>3, <2>1, <3>1, <3>2
    <3>5. (t + a * u) - (u + a * v) = (t - u) + a * (u - v)
      OBVIOUS
    <3> QED
      BY <2>1, <2>2, <2>3, <2>4, <3>3, <3>4, <3>5
  <2> QED
    BY <2>5, <2>6
<1>7. BinomialTerms(d, a)
  BY <1>4, <1>5, <1>6, Zenon DEF BinomialTerms
<1> QED
  BY <1>6, <1>7, Zenon

\* k times the k-th term of a row is a times n times the term before in the row before.
LEMMA TermsAbsorb ==
    ASSUME NEW a \in Int, NEW d, BinomialTerms(d, a)
    PROVE  \A n, k \in Nat : (k + 1) * d[n + 1][k + 1] = (n + 1) * (a * d[n][k])
<1> DEFINE Absorbs(n) == \A k \in Nat : (k + 1) * d[n + 1][k + 1] = (n + 1) * (a * d[n][k])
           A == {n \in Nat : Absorbs(n)}
<1>1. /\ d \in [Nat -> [Nat -> Int]]
      /\ \A n \in Nat : d[n][0] = 1 /\ d[0][n + 1] = 0
      /\ \A n, k \in Nat : d[n + 1][k + 1] = d[n][k + 1] + a * d[n][k]
  BY Zenon DEF BinomialTerms
<1>2. Absorbs(0)
  <2> SUFFICES ASSUME NEW k \in Nat PROVE (k + 1) * d[0 + 1][k + 1] = (0 + 1) * (a * d[0][k])
    OBVIOUS
  <2>1. PICK u \in Int : u = d[0][k]
    BY <1>1
  <2>2. d[0 + 1][k + 1] = a * u
    <3>1. d[0 + 1][k + 1] = d[0][k + 1] + a * d[0][k] /\ d[0][k + 1] = 0
      BY <1>1, Zenon
    <3> QED
      BY <2>1, <3>1
  <2>3. CASE k = 0
    BY <2>1, <2>2, <2>3
  <2>4. CASE k # 0
    <3>1. k - 1 \in Nat /\ k = (k - 1) + 1
      BY <2>4
    <3>2. u = 0
      BY <1>1, <2>1, <3>1
    <3> QED
      BY <2>1, <2>2, <3>2
  <2> QED
    BY <2>3, <2>4
<1>3. ASSUME NEW n \in Nat, Absorbs(n) PROVE Absorbs(n + 1)
  <2> SUFFICES ASSUME NEW k \in Nat
               PROVE  (k + 1) * d[(n + 1) + 1][k + 1] = ((n + 1) + 1) * (a * d[n + 1][k])
    OBVIOUS
  <2>1. PICK t \in Int, u \in Int, v \in Int : t = d[n + 1][k + 1] /\ u = d[n + 1][k] /\ v = d[n][k]
    <3>1. n + 1 \in Nat /\ k + 1 \in Nat
      OBVIOUS
    <3>2. d[n + 1][k + 1] \in Int /\ d[n + 1][k] \in Int /\ d[n][k] \in Int
      BY <1>1, <3>1
    <3> QED
      BY <3>2
  <2>2. d[(n + 1) + 1][k + 1] = t + a * u
    <3>1. n + 1 \in Nat
      OBVIOUS
    <3> QED
      BY <1>1, <2>1, <3>1
  <2>3. (k + 1) * t = (n + 1) * (a * v)
    BY <1>3, <2>1
  <2>4. k * (a * u) = (n + 1) * (a * (u - v))
    <3>1. CASE k = 0
      <4>1. u = 1 /\ v = 1
        BY <1>1, <2>1, <3>1
      <4> QED
        BY <3>1, <4>1
    <3>2. CASE k # 0
      <4>1. PICK j \in Nat : k = j + 1
        <5>1. k - 1 \in Nat /\ k = (k - 1) + 1
          BY <3>2
        <5> QED
          BY <5>1
      <4>2. PICK w \in Int : w = d[n][j]
        BY <1>1
      <4>3. k * u = (n + 1) * (a * w)
        BY <1>3, <2>1, <4>1, <4>2
      <4>4. u = v + a * w
        BY <1>1, <2>1, <4>1, <4>2
      <4>5. k * (a * u) = a * (k * u)
        OBVIOUS
      <4>6. a * ((n + 1) * (a * w)) = (n + 1) * (a * (a * w))
        OBVIOUS
      <4>7. a * w = u - v
        BY <4>4
      <4> QED
        BY <4>3, <4>5, <4>6, <4>7
    <3> QED
      BY <3>1, <3>2
  <2>5. (k + 1) * (t + a * u) = (k + 1) * t + k * (a * u) + a * u
    OBVIOUS
  <2>6. (n + 1) * (a * v) + (n + 1) * (a * (u - v)) + a * u = ((n + 1) + 1) * (a * u)
    OBVIOUS
  <2> QED
    BY <2>1, <2>2, <2>3, <2>4, <2>5, <2>6
<1>4. \A n \in Nat : n \in A
  <2>1. 0 \in A /\ \A n \in Nat : n \in A => n + 1 \in A
    <3> HIDE DEF Absorbs
    <3> QED
      BY <1>2, <1>3
  <2> HIDE DEF A
  <2> QED
    BY <2>1, SetInduction
<1> QED
  BY <1>4, Zenon

\* Modulo a prime the power of a sum is the sum of the powers.
LEMMA PowersOfSums ==
    ASSUME NEW p \in Nat, IsPrime(p), NEW a \in Int
    PROVE  Multiple(PowerOf(a + 1, p) - (1 + PowerOf(a, p)), p)
<1>1. PICK s : Binomials(s, a)
  BY BinomialsExist
<1>2. PICK d : BinomialTerms(d, a) /\ \A n, k \in Nat : s[n][k + 1] = s[n][k] + d[n][k + 1]
  BY <1>1, ExpansionOfRows
<1>3. PICK m \in Nat : p = m + 1 /\ p # 0
  <2>1. p - 1 \in Nat /\ p = (p - 1) + 1 /\ p # 0
    BY DEF IsPrime
  <2> QED
    BY <2>1
<1>4. s \in [Nat -> [Nat -> Int]] /\ s[p][0] = 1 /\ d \in [Nat -> [Nat -> Int]]
  BY <1>1, <1>2, Zenon DEF Binomials, BinomialTerms
<1>5. ASSUME NEW k \in Nat, k + 1 <= m PROVE Multiple(d[p][k + 1], p)
  <2>1. (k + 1) * d[p][k + 1] = p * (a * d[m][k])
    BY <1>2, <1>3, TermsAbsorb
  <2>2. PICK c \in Int, e \in Int : c = d[p][k + 1] /\ e = a * d[m][k]
    <3>1. d[p][k + 1] \in Int /\ d[m][k] \in Int
      BY <1>4
    <3> QED
      BY <3>1
  <2>3. Multiple((k + 1) * c, p)
    BY <2>1, <2>2 DEF Multiple
  <2>4. k + 1 \in 1 .. p - 1
    BY <1>3, <1>5
  <2> QED
    BY <2>2, <2>3, <2>4, PrimeDividesFactor, Zenon
<1> DEFINE A == {k \in Nat : k <= m => Multiple(s[p][k] - 1, p)}
<1>6. 0 \in A
  <2>1. s[p][0] - 1 = p * 0
    BY <1>4
  <2> QED
    BY <2>1 DEF Multiple
<1>7. ASSUME NEW k \in Nat, k \in A PROVE k + 1 \in A
  <2> SUFFICES ASSUME k + 1 <= m PROVE Multiple(s[p][k + 1] - 1, p)
    OBVIOUS
  <2>1. PICK u \in Int, c \in Int : u = s[p][k] - 1 /\ c = d[p][k + 1]
    <3>1. s[p][k] \in Int /\ d[p][k + 1] \in Int
      BY <1>4
    <3> QED
      BY <3>1
  <2>2. s[p][k + 1] - 1 = u + c
    <3>1. s[p][k] \in Int /\ s[p][k + 1] = s[p][k] + d[p][k + 1]
      BY <1>2, <1>4
    <3> QED
      BY <2>1, <3>1
  <2>3. Multiple(u, p) /\ Multiple(c, p)
    BY <1>5, <1>7, <2>1
  <2>4. Multiple(u + c, p)
    BY <2>3, MultiplesAdd
  <2> QED
    BY <2>2, <2>4
<1>8. m \in A
  <2>1. \A k \in Nat : k \in A
    <3> HIDE DEF A
    <3> QED
      BY <1>6, <1>7, SetInduction
  <2> QED
    BY <2>1, Zenon
<1>9. Multiple(s[p][m] - 1, p)
  BY <1>8
<1>10. s[p][p] = PowerOf(a + 1, p) /\ s[p][p] - s[p][p - 1] = PowerOf(a, p)
  BY <1>1, <1>3, RowsEnd
<1>11. PowerOf(a + 1, p) - (1 + PowerOf(a, p)) = s[p][m] - 1
  <2>1. s[p][p] \in Int /\ s[p][m] \in Int /\ p - 1 = m
    BY <1>3, <1>4
  <2> QED
    BY <1>10, <2>1
<1> QED
  BY <1>9, <1>11

\* Fermat's little theorem, by induction on the base.
THEOREM FermatsLittleTheorem ==
    ASSUME NEW p \in Nat, IsPrime(p), NEW v \in 1 .. p - 1
    PROVE  PowerOf(v, p - 1) % p = 1
<1> DEFINE A == {n \in Nat : Multiple(PowerOf(n, p) - n, p)}
<1>1. PICK m \in Nat : p = m + 1 /\ m # 0
  <2>1. p - 1 \in Nat /\ p = (p - 1) + 1 /\ p - 1 # 0
    BY DEF IsPrime
  <2> QED
    BY <2>1
<1>2. ASSUME NEW n \in Nat
      PROVE  PowerOf(n, m) \in Int /\ PowerOf(n, p) = n * PowerOf(n, m) /\ PowerOf(n, p) \in Int
  <2>1. n \in Int
    OBVIOUS
  <2>2. \A k \in Nat : PowerOf(n, k) \in Int /\ PowerOf(n, k + 1) = n * PowerOf(n, k)
    BY <2>1, PowersMultiply, Zenon
  <2> QED
    BY <1>1, <2>2
<1>3. 0 \in A
  <2>1. PowerOf(0, p) - 0 = p * 0
    BY <1>2
  <2> QED
    BY <2>1 DEF Multiple
<1>4. ASSUME NEW n \in Nat, n \in A PROVE n + 1 \in A
  <2>1. PICK i \in Int, j \in Int : i = PowerOf(n + 1, p) - (1 + PowerOf(n, p)) /\ j = PowerOf(n, p) - n
    BY <1>2
  <2>2. Multiple(i, p)
    BY <2>1, PowersOfSums
  <2>3. Multiple(j, p)
    BY <1>4, <2>1
  <2>4. Multiple(i + j, p)
    BY <2>2, <2>3, MultiplesAdd
  <2>5. i + j = PowerOf(n + 1, p) - (n + 1)
    BY <1>2, <2>1
  <2> QED
    BY <2>4, <2>5
<1>5. v \in A /\ v \in Nat
  <2>1. \A n \in Nat : n \in A
    <3> HIDE DEF A
    <3> QED
      BY <1>3, <1>4, SetInduction
  <2> QED
    BY <2>1
<1>6. PICK w \in Int : w = PowerOf(v, m)
  BY <1>2, <1>5
<1>7. Multiple(v * (w - 1), p)
  <2>1. Multiple(PowerOf(v, p) - v, p)
    BY <1>5
  <2>2. PowerOf(v, p) - v = v * (w - 1)
    BY <1>2, <1>5, <1>6
  <2> QED
    BY <2>1, <2>2
<1>8. Multiple(w - 1, p)
  <2>1. PICK c \in Int : c = w - 1
    OBVIOUS
  <2> QED
    BY <1>7, <2>1, PrimeDividesFactor
<1>9. PICK q \in Int : w = 1 + p * q
  <2>1. PICK q \in Int : w - 1 = p * q
    BY <1>8 DEF Multiple
  <2> QED
    BY <2>1
<1>10. (1 + p * q) % p = 1 % p
  <2>1. p # 0 /\ 1 \in Int
    BY <1>1
  <2> QED
    BY <2>1, SameRemainder, Zenon
<1>11. 1 % p = 1
  <2>1. p # 0 /\ 1 \in Int /\ 0 <= 1 /\ 1 < p
    BY <1>1
  <2> QED
    BY <2>1, ModOnce, Zenon
<1>12. PowerOf(v, p - 1) = w
  <2>1. p - 1 = m
    BY <1>1
  <2> QED
    BY <1>6, <2>1
<1> QED
  BY <1>9, <1>10, <1>11, <1>12, Zenon

-----------------------------------------------------------------------------
(* The field of the residues of a prime. *)

Residues(p) == [modulus : {p}, value : 0 .. p - 1]

LEMMA ResidueOperations ==
    ASSUME NEW p \in 2 .. MaxUnsigned
    PROVE  \A a, b \in Residues(p) :
             /\ {FieldAdd(a, b), FieldSub(a, b), FieldMul(a, b), FieldNeg(a)} \subseteq Residues(p)
             /\ Congruent(FieldAdd(a, b).value, a.value + b.value, p)
             /\ Congruent(FieldSub(a, b).value, a.value - b.value, p)
             /\ Congruent(FieldMul(a, b).value, a.value * b.value, p)
             /\ Congruent(FieldNeg(a).value, -a.value, p)
<1>1. p \in Nat /\ p # 0 /\ p \in 1 .. MaxUnsigned
  BY UnsignedAssumption
<1>2. ASSUME NEW n \in Int
      PROVE  FieldElement(p, n) \in Residues(p) /\ Congruent(FieldElement(p, n).value, n, p)
  <2>1. n % p \in 0 .. p - 1 /\ Congruent(n % p, n, p)
    BY <1>1, ReducedEarly, RemaindersAreCongruent, Zenon
  <2> QED
    BY <2>1 DEF FieldElement, Residues
<1>3. TAKE a, b \in Residues(p)
<1>4. IsResidue(a, p) /\ IsResidue(b, p)
  BY DEF IsResidue, Residues
<1>5. /\ FieldAdd(a, b) = FieldElement(p, a.value + b.value)
      /\ FieldSub(a, b) = FieldElement(p, a.value - b.value)
      /\ FieldNeg(a) = FieldElement(p, -a.value)
      /\ FieldMul(a, b) = FieldElement(p, a.value * b.value)
  BY <1>1, <1>4, ResidueSumsAreExact, ResidueProductsAreExact, Zenon
<1>6. /\ a.value + b.value \in Int /\ a.value - b.value \in Int
      /\ -a.value \in Int /\ a.value * b.value \in Int
  <2>1. a.value \in Int /\ b.value \in Int
    BY DEF Residues
  <2> QED
    BY <2>1
<1>7. /\ FieldAdd(a, b) \in Residues(p) /\ FieldSub(a, b) \in Residues(p)
      /\ FieldMul(a, b) \in Residues(p) /\ FieldNeg(a) \in Residues(p)
      /\ Congruent(FieldAdd(a, b).value, a.value + b.value, p)
      /\ Congruent(FieldSub(a, b).value, a.value - b.value, p)
      /\ Congruent(FieldMul(a, b).value, a.value * b.value, p)
      /\ Congruent(FieldNeg(a).value, -a.value, p)
  BY <1>2, <1>5, <1>6, Zenon
<1> QED
  BY <1>7

\* Residues with congruent values are the same.
LEMMA OneResidue ==
    ASSUME NEW p \in 2 .. MaxUnsigned
    PROVE  \A a, b \in Residues(p) : Congruent(a.value, b.value, p) => a = b
<1>1. p \in Nat /\ p # 0
  BY UnsignedAssumption
<1>2. TAKE a, b \in Residues(p)
<1>3. /\ a = [modulus |-> p, value |-> a.value] /\ a.value \in Int /\ 0 <= a.value /\ a.value < p
      /\ b = [modulus |-> p, value |-> b.value] /\ b.value \in Int /\ 0 <= b.value /\ b.value < p
  BY <1>1 DEF Residues
<1>4. a.value % p = a.value /\ b.value % p = b.value
  BY <1>1, <1>3, ModOnce, Zenon
<1> QED
  BY <1>3, <1>4, Zenon DEF Congruent

\* Every nonzero residue of a prime has its inverse.
LEMMA InverseInverts ==
    ASSUME NEW p \in 2 .. MaxUnsigned, IsPrime(p)
    PROVE  \A a \in Residues(p) : a.value # 0 =>
             FieldInv(a) \in Residues(p) /\ Congruent(a.value * FieldInv(a).value, 1, p)
<1>1. p \in Nat /\ p # 0 /\ p \in 1 .. MaxUnsigned /\ p - 2 \in Nat /\ (p - 2) + 1 = p - 1
  BY UnsignedAssumption
<1> SUFFICES ASSUME NEW a \in Residues(p), a.value # 0
             PROVE  FieldInv(a) \in Residues(p) /\ Congruent(a.value * FieldInv(a).value, 1, p)
  OBVIOUS
<1>2. PICK v \in 1 .. p - 1 : v = a.value /\ v \in Int
  BY <1>1 DEF Residues
<1>3. IsResidue(a, p)
  BY DEF IsResidue, Residues
<1>4. FieldInv(a) = FieldElement(p, PowerOf(v, p - 2))
  BY <1>1, <1>2, <1>3, InverseIsPower
<1>5. PICK w \in Int : w = PowerOf(v, p - 2)
  BY <1>1, <1>2, PowersMultiply, Zenon
<1>6. PowerOf(v, p - 1) = v * w
  <2>1. PICK n \in Nat : n = p - 2
    BY <1>1
  <2>2. PowerOf(v, n + 1) = v * PowerOf(v, n)
    BY <1>2, PowersMultiply, Zenon
  <2> QED
    BY <1>1, <1>5, <2>1, <2>2
<1>7. (v * w) % p = 1
  BY <1>1, <1>2, <1>6, FermatsLittleTheorem, Zenon
<1>8. Congruent(v * w, 1, p)
  <2>1. v * w \in Int /\ 1 \in Int /\ 0 <= 1 /\ 1 < p
    BY <1>1, <1>2
  <2>2. 1 % p = 1
    BY <1>1, <2>1, ModOnce, Zenon
  <2> QED
    BY <1>7, <2>1, <2>2, Zenon DEF Congruent
<1>9. w % p \in 0 .. p - 1 /\ Congruent(w % p, w, p) /\ Congruent(v, v, p)
  BY <1>1, <1>2, ReducedEarly, RemaindersAreCongruent, Zenon
<1>10. Congruent(v * (w % p), v * w, p)
  BY <1>1, <1>9, Congruences, Zenon
<1>11. Congruent(v * (w % p), 1, p)
  BY <1>8, <1>10, Zenon DEF Congruent
<1>12. FieldInv(a) = [modulus |-> p, value |-> w % p]
  BY <1>4, <1>5, Zenon DEF FieldElement
<1> QED
  BY <1>2, <1>9, <1>11, <1>12 DEF Residues

\* The residues of a prime that fits the word are a field.
THEOREM ResiduesAreAField ==
    ASSUME NEW p \in 2 .. MaxUnsigned, IsPrime(p)
    PROVE  FieldLaws(FiniteFieldRing(p), Residues(p))
<1> DEFINE F == FiniteFieldRing(p)
           E == Residues(p)
           o == [modulus |-> p, value |-> 0]
           l == [modulus |-> p, value |-> 1]
<1>1. p \in Nat /\ p # 0 /\ p >= 2
  BY UnsignedAssumption
<1>2. /\ zero(F) = o /\ one(F) = l
      /\ \A u, v : add(F, u, v) = FieldAdd(u, v) /\ sub(F, u, v) = FieldSub(u, v)
                 /\ mul(F, u, v) = FieldMul(u, v)
      /\ \A u : inv(F, u) = FieldInv(u) /\ (is_zero(F, u) <=> u = o)
  <2>1. F.kind = "residues" /\ F.modulus = p
    BY DEF FiniteFieldRing
  <2>2. 0 % p = 0 /\ 1 % p = 1
    BY <1>1, ModOnce
  <2> HIDE DEF F
  <2>3. zero(F) = o /\ one(F) = l
    BY <2>1, <2>2 DEF zero, one, element, FieldElement
  <2> QED
    BY <2>1, <2>3 DEF add, sub, mul, inv, is_zero
<1>3. o \in E /\ l \in E /\ o # l /\ o.value = 0 /\ l.value = 1
  BY <1>1 DEF Residues
<1>4. \A u \in E : u.value \in Int /\ (u # o <=> u.value # 0)
  BY DEF Residues
<1> HIDE DEF F, E, o, l
<1>5. ASSUME NEW u \in E, NEW v \in E
      PROVE  /\ add(F, u, v) \in E /\ sub(F, u, v) \in E /\ mul(F, u, v) \in E
             /\ Congruent(add(F, u, v).value, u.value + v.value, p)
             /\ Congruent(sub(F, u, v).value, u.value - v.value, p)
             /\ Congruent(mul(F, u, v).value, u.value * v.value, p)
  BY <1>2, ResidueOperations DEF E
<1>6. \A u, v \in E : Congruent(u.value, v.value, p) => u = v
  BY OneResidue, Zenon DEF E
<1>7. \A n \in Int : Congruent(n, n, p)
  BY <1>1, RemaindersAreCongruent, Zenon
<1>8. \A i, j, k : Congruent(i, k, p) /\ Congruent(j, k, p) => Congruent(i, j, p)
  BY Zenon DEF Congruent
\* Elements whose values are congruent to one number are the same.
<1>9. ASSUME NEW u \in E, NEW v \in E, NEW n, Congruent(u.value, n, p), Congruent(v.value, n, p)
      PROVE  u = v
  BY <1>6, <1>8, <1>9, Zenon
<1>10. ASSUME NEW u \in E
       PROVE  /\ add(F, zero(F), u) = u /\ mul(F, one(F), u) = u
              /\ is_zero(F, u) <=> u = zero(F)
              /\ u # zero(F) => inv(F, u) \in E /\ mul(F, u, inv(F, u)) = one(F)
  <2>1. u.value \in Int /\ 0 + u.value = u.value /\ 1 * u.value = u.value
    BY <1>4
  <2>2. Congruent(u.value, u.value, p)
    BY <1>7, <2>1, Zenon
  <2>3. add(F, o, u) = u
    <3>1. add(F, o, u) \in E /\ Congruent(add(F, o, u).value, u.value, p)
      BY <1>3, <1>5, <2>1
    <3> QED
      BY <1>6, <3>1, Zenon
  <2>4. mul(F, l, u) = u
    <3>1. mul(F, l, u) \in E /\ Congruent(mul(F, l, u).value, u.value, p)
      BY <1>3, <1>5, <2>1
    <3> QED
      BY <1>6, <3>1, Zenon
  <2>5. ASSUME u # o PROVE inv(F, u) \in E /\ mul(F, u, inv(F, u)) = l
    <3>1. PICK w \in E : w = inv(F, u) /\ Congruent(u.value * w.value, 1, p)
      BY <1>2, <1>4, <2>5, InverseInverts DEF E
    <3>2. mul(F, u, w) \in E /\ Congruent(mul(F, u, w).value, u.value * w.value, p)
      BY <1>5, Zenon
    <3>3. Congruent(mul(F, u, w).value, l.value, p)
      BY <1>3, <3>1, <3>2, Zenon DEF Congruent
    <3> QED
      BY <1>3, <1>6, <3>1, <3>2, <3>3, Zenon
  <2> QED
    BY <1>2, <2>3, <2>4, <2>5
<1>11. ASSUME NEW u \in E, NEW v \in E
       PROVE  /\ add(F, u, v) = add(F, v, u) /\ mul(F, u, v) = mul(F, v, u)
              /\ add(F, sub(F, u, v), v) = u
  <2>1. PICK i \in Int, j \in Int : i = u.value /\ j = v.value
    BY <1>4
  <2>2. i + j = j + i /\ i * j = j * i /\ (i - j) + j = i
    OBVIOUS
  <2>3. add(F, u, v) = add(F, v, u)
    <3>1. /\ add(F, u, v) \in E /\ Congruent(add(F, u, v).value, i + j, p)
          /\ add(F, v, u) \in E /\ Congruent(add(F, v, u).value, j + i, p)
      BY <1>5, <2>1, Zenon
    <3> QED
      BY <1>9, <2>2, <3>1, Zenon
  <2>4. mul(F, u, v) = mul(F, v, u)
    <3>1. /\ mul(F, u, v) \in E /\ Congruent(mul(F, u, v).value, i * j, p)
          /\ mul(F, v, u) \in E /\ Congruent(mul(F, v, u).value, j * i, p)
      BY <1>5, <2>1, Zenon
    <3> QED
      BY <1>9, <2>2, <3>1, Zenon
  <2>5. add(F, sub(F, u, v), v) = u
    <3>1. PICK w \in E : w = sub(F, u, v) /\ Congruent(w.value, i - j, p)
      BY <1>5, <2>1, Zenon
    <3>2. Congruent(j, j, p) /\ Congruent(u.value, i, p)
      BY <1>7, <2>1, Zenon
    <3>3. Congruent(w.value + j, (i - j) + j, p)
      BY <1>1, <3>1, <3>2, Congruences, Zenon
    <3>4. add(F, w, v) \in E /\ Congruent(add(F, w, v).value, w.value + j, p)
      BY <1>5, <2>1, Zenon
    <3>5. Congruent(add(F, w, v).value, i, p)
      BY <2>2, <3>3, <3>4, Zenon DEF Congruent
    <3> QED
      BY <1>9, <3>1, <3>2, <3>4, <3>5, Zenon
  <2> QED
    BY <2>3, <2>4, <2>5
<1>12. ASSUME NEW u \in E, NEW v \in E, NEW w \in E
       PROVE  /\ add(F, add(F, u, v), w) = add(F, u, add(F, v, w))
              /\ mul(F, mul(F, u, v), w) = mul(F, u, mul(F, v, w))
              /\ mul(F, u, add(F, v, w)) = add(F, mul(F, u, v), mul(F, u, w))
  <2>1. PICK i \in Int, j \in Int, k \in Int : i = u.value /\ j = v.value /\ k = w.value
    BY <1>4
  <2>2. Congruent(i, i, p) /\ Congruent(j, j, p) /\ Congruent(k, k, p)
    BY <1>7, Zenon
  <2>3. \A x1, x2 \in E : \A n1, n2 :
          Congruent(x1.value, n1, p) /\ Congruent(x2.value, n2, p) =>
            /\ add(F, x1, x2) \in E /\ Congruent(add(F, x1, x2).value, n1 + n2, p)
            /\ mul(F, x1, x2) \in E /\ Congruent(mul(F, x1, x2).value, n1 * n2, p)
    <3> SUFFICES ASSUME NEW x1 \in E, NEW x2 \in E, NEW n1, NEW n2,
                        Congruent(x1.value, n1, p), Congruent(x2.value, n2, p)
                 PROVE  /\ add(F, x1, x2) \in E /\ Congruent(add(F, x1, x2).value, n1 + n2, p)
                        /\ mul(F, x1, x2) \in E /\ Congruent(mul(F, x1, x2).value, n1 * n2, p)
      BY Zenon
    <3>1. /\ Congruent(x1.value + x2.value, n1 + n2, p)
          /\ Congruent(x1.value * x2.value, n1 * n2, p)
      BY <1>1, Congruences, Zenon
    <3>2. /\ add(F, x1, x2) \in E /\ Congruent(add(F, x1, x2).value, x1.value + x2.value, p)
          /\ mul(F, x1, x2) \in E /\ Congruent(mul(F, x1, x2).value, x1.value * x2.value, p)
      BY <1>5, Zenon
    <3> QED
      BY <3>1, <3>2, Zenon DEF Congruent
  <2>4. (i + j) + k = i + (j + k) /\ (i * j) * k = i * (j * k) /\ i * (j + k) = i * j + i * k
    BY ProductsAssociate, ProductsOverSums
  <2>5. add(F, add(F, u, v), w) = add(F, u, add(F, v, w))
    <3>1. /\ add(F, u, v) \in E /\ Congruent(add(F, u, v).value, i + j, p)
          /\ add(F, v, w) \in E /\ Congruent(add(F, v, w).value, j + k, p)
      BY <2>1, <2>2, <2>3, Zenon
    <3>2. /\ add(F, add(F, u, v), w) \in E /\ Congruent(add(F, add(F, u, v), w).value, (i + j) + k, p)
          /\ add(F, u, add(F, v, w)) \in E /\ Congruent(add(F, u, add(F, v, w)).value, i + (j + k), p)
      BY <2>1, <2>2, <2>3, <3>1, Zenon
    <3> QED
      BY <1>9, <2>4, <3>2, Zenon
  <2>6. mul(F, mul(F, u, v), w) = mul(F, u, mul(F, v, w))
    <3>1. /\ mul(F, u, v) \in E /\ Congruent(mul(F, u, v).value, i * j, p)
          /\ mul(F, v, w) \in E /\ Congruent(mul(F, v, w).value, j * k, p)
      BY <2>1, <2>2, <2>3, Zenon
    <3>2. /\ mul(F, mul(F, u, v), w) \in E /\ Congruent(mul(F, mul(F, u, v), w).value, (i * j) * k, p)
          /\ mul(F, u, mul(F, v, w)) \in E /\ Congruent(mul(F, u, mul(F, v, w)).value, i * (j * k), p)
      BY <2>1, <2>2, <2>3, <3>1, Zenon
    <3> QED
      BY <1>9, <2>4, <3>2, Zenon
  <2>7. mul(F, u, add(F, v, w)) = add(F, mul(F, u, v), mul(F, u, w))
    <3>1. /\ add(F, v, w) \in E /\ Congruent(add(F, v, w).value, j + k, p)
          /\ mul(F, u, v) \in E /\ Congruent(mul(F, u, v).value, i * j, p)
          /\ mul(F, u, w) \in E /\ Congruent(mul(F, u, w).value, i * k, p)
      BY <2>1, <2>2, <2>3, Zenon
    <3>2. /\ mul(F, u, add(F, v, w)) \in E /\ Congruent(mul(F, u, add(F, v, w)).value, i * (j + k), p)
          /\ add(F, mul(F, u, v), mul(F, u, w)) \in E
          /\ Congruent(add(F, mul(F, u, v), mul(F, u, w)).value, i * j + i * k, p)
      BY <2>1, <2>2, <2>3, <3>1, Zenon
    <3> QED
      BY <1>9, <2>4, <3>2, Zenon
  <2> QED
    BY <2>5, <2>6, <2>7
<1>13. UnaryLaws(F, E)
  <2>1. zero(F) \in E /\ one(F) \in E /\ zero(F) # one(F)
    BY <1>2, <1>3, Zenon
  <2> QED
    BY <1>10, <2>1 DEF UnaryLaws
<1>14. BinaryLaws(F, E)
  <2>1. \A u, v \in E : {add(F, u, v), sub(F, u, v), mul(F, u, v)} \subseteq E
    BY <1>5
  <2> QED
    BY <1>11, <2>1 DEF BinaryLaws
<1>15. TernaryLaws(F, E)
  BY <1>12 DEF TernaryLaws
<1> QED
  BY <1>13, <1>14, <1>15 DEF FieldLaws, F, E

-----------------------------------------------------------------------------
(* The calculator over residues. *)

OverPrimeFields == \A r \in Rings : PrimeField(r)

ResiduesInv == PrimeField(ring) /\ x \in Residues(ring.modulus) /\ y \in Residues(ring.modulus)

LEMMA ResiduesInit == OverPrimeFields /\ Init => ResiduesInv /\ Exact!Init
<1> SUFFICES ASSUME OverPrimeFields, Init PROVE ResiduesInv /\ Exact!Init
  OBVIOUS
<1>1. /\ PrimeField(ring) /\ ring.kind = "residues" /\ call = <<"start">>
      /\ x = zero(ring) /\ y = zero(ring)
  <2>1. PrimeField(ring) /\ call = <<"start">> /\ x = zero(ring) /\ y = zero(ring)
    BY DEF OverPrimeFields, Init
  <2> QED
    BY <2>1 DEF PrimeField, FiniteFieldRing
<1>2. PICK p \in 2 .. MaxUnsigned : p = ring.modulus
  BY <1>1 DEF PrimeField
<1>3. 0 % p = 0 /\ p \in Nat
  BY UnsignedAssumption, ModOnce
<1>4. zero(ring) = [modulus |-> p, value |-> 0]
  BY <1>1, <1>2, <1>3 DEF zero, element, FieldElement
<1>5. zero(ring) \in Residues(p) /\ Meaning(ring, zero(ring)) = <<0, 1>>
  BY <1>1, <1>3, <1>4 DEF Residues, Meaning
<1> QED
  BY <1>1, <1>2, <1>5 DEF ResiduesInv, Exact!Init

LEMMA CongruentDifference ==
    ASSUME NEW m \in Nat, m # 0, NEW v, NEW n, Congruent(v, n, m)
    PROVE  (v - n) % m = 0
<1>1. v \in Int /\ n \in Int /\ -n \in Int
  BY DEF Congruent
<1>2. Congruent(-n, -n, m)
  BY <1>1, RemaindersAreCongruent, Zenon
<1>3. Congruent(v + (-n), n + (-n), m)
  BY <1>2, Congruences, Zenon
<1>4. v + (-n) = v - n /\ n + (-n) = 0
  BY <1>1
<1>5. 0 % m = 0
  <2>1. 0 \in Int /\ 0 <= 0 /\ 0 < m
    OBVIOUS
  <2> QED
    BY <2>1, ModOnce, Zenon
<1> QED
  BY <1>3, <1>4, <1>5, Zenon DEF Congruent

LEMMA ResiduesStep ==
    ASSUME ResiduesInv, [Next]_vars
    PROVE  ResiduesInv' /\ [Exact!Next]_(Exact!vars)
<1>1. PICK p \in 2 .. MaxUnsigned : p = ring.modulus /\ IsPrime(p)
  BY DEF ResiduesInv, PrimeField
<1>2. p \in Nat /\ p # 0 /\ p >= 2
  BY UnsignedAssumption
<1>3. PICK v \in 0 .. p - 1, w \in 0 .. p - 1 :
          /\ v = x.value /\ w = y.value /\ v \in Int /\ w \in Int
          /\ x = [modulus |-> p, value |-> v] /\ y = [modulus |-> p, value |-> w]
  BY <1>1, <1>2 DEF ResiduesInv, Residues
<1>4. /\ x \in Residues(p) /\ y \in Residues(p) /\ ring = FiniteFieldRing(p)
      /\ ring.kind = "residues" /\ ring.modulus = p
      /\ Meaning(ring, x) = <<v, 1>> /\ Meaning(ring, y) = <<w, 1>>
  BY <1>1, <1>3 DEF ResiduesInv, PrimeField, FiniteFieldRing, Meaning
<1>5. ASSUME NEW op, NEW a \in Residues(p), NEW b \in Residues(p), Return(op, a, b)
      PROVE  /\ ResiduesInv' /\ call' = <<op>> /\ ring' = ring
             /\ Meaning(ring, x)' = <<a.value, 1>> /\ Meaning(ring, y)' = <<b.value, 1>>
  <2>1. call' = <<op>> /\ ring' = ring /\ x' = a /\ y' = b
    BY <1>5 DEF Return
  <2>2. ResiduesInv'
    BY <1>4, <2>1 DEF ResiduesInv
  <2>3. Meaning(ring, x)' = <<a.value, 1>> /\ Meaning(ring, y)' = <<b.value, 1>>
    BY <1>4, <2>1 DEF Meaning
  <2> QED
    BY <2>1, <2>2, <2>3
\* A residue with a congruent value is what the abstract calculator asks for.
<1>6. ASSUME NEW a \in Residues(p), NEW n, NEW d, d = 1, Congruent(a.value, n, p)
      PROVE  Exact!Is(<<a.value, 1>>, n, d)
  <2>1. (a.value - n) % p = 0
    BY <1>2, <1>6, CongruentDifference, Zenon
  <2>2. a.value \in 0 .. p - 1 /\ a.value * 1 = a.value
    BY DEF Residues
  <2> QED
    BY <1>4, <1>6, <2>1, <2>2 DEF Exact!Is
<1>7. /\ add(ring, x, y) = FieldAdd(x, y) /\ sub(ring, x, y) = FieldSub(x, y)
      /\ mul(ring, x, y) = FieldMul(x, y) /\ neg(ring, x) = FieldNeg(x)
      /\ inv(ring, x) = FieldInv(x) /\ inv(ring, y) = FieldInv(y)
      /\ mul(ring, x, FieldInv(y)) = FieldMul(x, FieldInv(y))
  BY <1>4 DEF add, sub, mul, neg, inv
<1>8. /\ {FieldAdd(x, y), FieldSub(x, y), FieldMul(x, y), FieldNeg(x)} \subseteq Residues(p)
      /\ Congruent(FieldAdd(x, y).value, v + w, p) /\ Congruent(FieldSub(x, y).value, v - w, p)
      /\ Congruent(FieldMul(x, y).value, v * w, p) /\ Congruent(FieldNeg(x).value, -v, p)
  <2>1. /\ {FieldAdd(x, y), FieldSub(x, y), FieldMul(x, y), FieldNeg(x)} \subseteq Residues(p)
        /\ Congruent(FieldAdd(x, y).value, x.value + y.value, p)
        /\ Congruent(FieldSub(x, y).value, x.value - y.value, p)
        /\ Congruent(FieldMul(x, y).value, x.value * y.value, p)
        /\ Congruent(FieldNeg(x).value, -x.value, p)
    BY <1>4, ResidueOperations, Zenon
  <2> QED
    BY <1>3, <2>1
<1>9. zero(ring) = [modulus |-> p, value |-> 0]
  <2>1. 0 % p = 0
    BY <1>2, ModOnce
  <2> QED
    BY <1>4, <2>1 DEF zero, element, FieldElement
<1>10. (is_zero(ring, x) <=> v = 0) /\ (is_zero(ring, y) <=> w = 0)
  BY <1>3, <1>4, <1>9 DEF is_zero
<1>11. v * 1 = v /\ w * 1 = w /\ 1 * 1 = 1
  BY <1>3
<1>12. CASE Load
  <2>1. PICK n \in 0 .. MaxUnsigned : Loaded(n, 1, FieldElement(p, n))
    BY <1>4, <1>12 DEF Load, InRing
  <2>2. n \in Int /\ n % p \in 0 .. p - 1
    <3>1. n \in Int
      BY UnsignedAssumption
    <3> QED
      BY <1>2, <3>1, ReducedEarly, Zenon
  <2>3. FieldElement(p, n) \in Residues(p) /\ FieldElement(p, n).value = n % p
    BY <2>2 DEF FieldElement, Residues
  <2>4. Congruent(n % p, n, p)
    BY <1>2, <2>2, RemaindersAreCongruent, Zenon
  <2>5. Exact!Is(<<n % p, 1>>, n, 1)
    BY <1>6, <2>3, <2>4
  <2>6. call' = <<"load", n, 1>> /\ ring' = ring /\ x' = x /\ y' = FieldElement(p, n)
    BY <2>1 DEF Loaded
  <2>7. ResiduesInv'
    BY <1>4, <2>3, <2>6 DEF ResiduesInv
  <2>8. Meaning(ring, x)' = Meaning(ring, x) /\ Meaning(ring, y)' = <<n % p, 1>>
    BY <1>4, <2>3, <2>6 DEF Meaning
  <2>9. call'[1] = "load" /\ call'[2] = n /\ call'[3] = 1
    BY <2>6
  <2>10. Exact!Load
    BY <2>5, <2>6, <2>8, <2>9 DEF Exact!Load
  <2> QED
    BY <2>7, <2>10 DEF Exact!Next
<1>13. CASE Copy
  <2>1. /\ ResiduesInv' /\ call' = <<"copy">> /\ ring' = ring
        /\ Meaning(ring, x)' = <<v, 1>> /\ Meaning(ring, y)' = <<v, 1>>
    BY <1>3, <1>4, <1>5, <1>13 DEF Copy
  <2>2. Exact!Copy
    BY <1>4, <2>1 DEF Exact!Copy, Exact!Return
  <2> QED
    BY <2>1, <2>2 DEF Exact!Next
<1>14. CASE AddCall
  <2>1. /\ ResiduesInv' /\ call' = <<"add">> /\ ring' = ring
        /\ Meaning(ring, x)' = <<FieldAdd(x, y).value, 1>> /\ Meaning(ring, y)' = <<w, 1>>
    BY <1>3, <1>4, <1>5, <1>7, <1>8, <1>14 DEF AddCall
  <2>2. Exact!Is(<<FieldAdd(x, y).value, 1>>, v * 1 + w * 1, 1 * 1)
    BY <1>6, <1>8, <1>11
  <2>3. Exact!Add
    BY <1>4, <2>1, <2>2 DEF Exact!Add, Exact!Return
  <2> QED
    BY <2>1, <2>3 DEF Exact!Next
<1>15. CASE SubCall
  <2>1. /\ ResiduesInv' /\ call' = <<"sub">> /\ ring' = ring
        /\ Meaning(ring, x)' = <<FieldSub(x, y).value, 1>> /\ Meaning(ring, y)' = <<w, 1>>
    BY <1>3, <1>4, <1>5, <1>7, <1>8, <1>15 DEF SubCall
  <2>2. Exact!Is(<<FieldSub(x, y).value, 1>>, v * 1 - w * 1, 1 * 1)
    BY <1>6, <1>8, <1>11
  <2>3. Exact!Sub
    BY <1>4, <2>1, <2>2 DEF Exact!Sub, Exact!Return
  <2> QED
    BY <2>1, <2>3 DEF Exact!Next
<1>16. CASE MulCall
  <2>1. /\ ResiduesInv' /\ call' = <<"mul">> /\ ring' = ring
        /\ Meaning(ring, x)' = <<FieldMul(x, y).value, 1>> /\ Meaning(ring, y)' = <<w, 1>>
    BY <1>3, <1>4, <1>5, <1>7, <1>8, <1>16 DEF MulCall
  <2>2. Exact!Is(<<FieldMul(x, y).value, 1>>, v * w, 1 * 1)
    BY <1>6, <1>8, <1>11
  <2>3. Exact!Mul
    BY <1>4, <2>1, <2>2 DEF Exact!Mul, Exact!Return
  <2> QED
    BY <2>1, <2>3 DEF Exact!Next
<1>17. CASE NegCall
  <2>1. /\ ResiduesInv' /\ call' = <<"neg">> /\ ring' = ring
        /\ Meaning(ring, x)' = <<FieldNeg(x).value, 1>> /\ Meaning(ring, y)' = <<w, 1>>
    BY <1>3, <1>4, <1>5, <1>7, <1>8, <1>17 DEF NegCall
  <2>2. Exact!Is(<<FieldNeg(x).value, 1>>, -v, 1)
    BY <1>6, <1>8
  <2>3. Exact!Neg
    BY <1>4, <2>1, <2>2 DEF Exact!Neg, Exact!Return
  <2> QED
    BY <2>1, <2>3 DEF Exact!Next
<1>18. ASSUME NEW op, Throws(op)
       PROVE  ResiduesInv' /\ call' = <<op, "domain_error">>
              /\ ring' = ring /\ Meaning(ring, x)' = Meaning(ring, x) /\ Meaning(ring, y)' = Meaning(ring, y)
  <2>1. call' = <<op, "domain_error">> /\ ring' = ring /\ x' = x /\ y' = y
    BY <1>18 DEF Throws, DomainError
  <2> QED
    BY <2>1 DEF ResiduesInv, Meaning
<1>19. CASE InvCall
  <2>1. CASE v = 0
    <3>1. Throws("inv")
      BY <1>10, <1>19, <2>1 DEF InvCall
    <3>2. Exact!Inv
      BY <1>4, <1>18, <2>1, <3>1 DEF Exact!Inv, Exact!Throws
    <3> QED
      BY <1>18, <3>1, <3>2 DEF Exact!Next
  <2>2. CASE v # 0
    <3>1. PICK z \in Residues(p) : z = FieldInv(x) /\ Congruent(v * z.value, 1, p)
      BY <1>1, <1>3, <1>4, <2>2, InverseInverts
    <3>2. /\ ResiduesInv' /\ call' = <<"inv">> /\ ring' = ring
          /\ Meaning(ring, x)' = <<z.value, 1>> /\ Meaning(ring, y)' = <<w, 1>>
      BY <1>3, <1>4, <1>5, <1>7, <1>10, <1>19, <2>2, <3>1 DEF InvCall
    <3>3. (z.value * v - 1) % p = 0
      <4>1. v * z.value = z.value * v
        BY <1>3 DEF Residues
      <4> QED
        BY <1>2, <3>1, <4>1, CongruentDifference, Zenon
    <3>4. Exact!Is(<<z.value, 1>>, 1, v)
      BY <1>4, <3>3 DEF Exact!Is, Residues
    <3>5. Exact!Inv
      BY <1>4, <2>2, <3>2, <3>4 DEF Exact!Inv, Exact!Return
    <3> QED
      BY <3>2, <3>5 DEF Exact!Next
  <2> QED
    BY <2>1, <2>2
<1>20. CASE DivRemCall
  <2>1. CASE w = 0
    <3>1. Throws("div_rem")
      BY <1>10, <1>20, <2>1 DEF DivRemCall
    <3>2. Exact!DivRem
      BY <1>4, <1>18, <2>1, <3>1 DEF Exact!DivRem, Exact!Throws
    <3> QED
      BY <1>18, <3>1, <3>2 DEF Exact!Next
  <2>2. CASE w # 0
    <3>1. PICK z \in Residues(p) : z = FieldInv(y) /\ Congruent(w * z.value, 1, p)
      BY <1>1, <1>3, <1>4, <2>2, InverseInverts
    <3>2. PICK q \in Residues(p) : q = FieldMul(x, z) /\ Congruent(q.value, v * z.value, p)
      BY <1>3, <1>4, ResidueOperations
    <3>3. zero(ring) \in Residues(p) /\ zero(ring).value = 0
      BY <1>2, <1>9 DEF Residues
    <3>4. div_rem(ring, x, y) = <<q, zero(ring)>>
      BY <1>4, <1>7, <3>1, <3>2 DEF div_rem
    <3>5. Return("div_rem", q, zero(ring))
      BY <1>10, <1>20, <2>2, <3>4 DEF DivRemCall
    <3>6. /\ ResiduesInv' /\ call' = <<"div_rem">> /\ ring' = ring
          /\ Meaning(ring, x)' = <<q.value, 1>> /\ Meaning(ring, y)' = <<0, 1>>
      BY <1>5, <3>3, <3>5
    <3>7. (q.value * w - v) % p = 0
      <4>1. Congruent(w, w, p) /\ Congruent(v, v, p)
        BY <1>2, <1>3, RemaindersAreCongruent, Zenon
      <4>2. Congruent(q.value * w, (v * z.value) * w, p)
        BY <1>2, <3>2, <4>1, Congruences, Zenon
      <4>3. (v * z.value) * w = v * (w * z.value)
        BY <1>3 DEF Residues
      <4>4. Congruent(v * (w * z.value), v * 1, p)
        BY <1>2, <3>1, <4>1, Congruences, Zenon
      <4>5. Congruent(q.value * w, v, p)
        BY <1>11, <4>2, <4>3, <4>4, Zenon DEF Congruent
      <4> QED
        BY <1>2, <4>5, CongruentDifference, Zenon
    <3>8. Exact!Is(<<0, 1>>, 0, 1)
      <4>1. 0 \in 0 .. p - 1 /\ 0 * 1 - 0 = 0 /\ 0 % p = 0
        BY <1>2, ModOnce
      <4> QED
        BY <1>4, <4>1 DEF Exact!Is
    <3>9. Exact!DivRem
      BY <1>4, <2>2, <3>6, <3>7, <3>8 DEF Exact!DivRem, Exact!Return
    <3> QED
      BY <3>6, <3>9 DEF Exact!Next
  <2> QED
    BY <2>1, <2>2
<1>21. CASE Move \/ GcdCall \/ BezoutCall \/ ReconstructCall
  BY <1>4, <1>21 DEF Move, GcdCall, BezoutCall, ReconstructCall, InRing
<1>22. CASE UNCHANGED vars
  BY <1>22 DEF vars, Exact!vars, Meaning, ResiduesInv
<1> QED
  BY <1>12, <1>13, <1>14, <1>15, <1>16, <1>17, <1>19, <1>20, <1>21, <1>22 DEF Next

\* Modulo any prime that fits the word, also one that needs its top bit, every
\* sequence of calls keeps both registers reduced and computes what exact numbers
\* would.
THEOREM ResiduesImplementArithmetic ==
    OverPrimeFields => (Spec => []TypeOK /\ ImplementsArithmetic)
<1> SUFFICES ASSUME OverPrimeFields
             PROVE  Spec => []TypeOK /\ ImplementsArithmetic
  OBVIOUS
<1>1. Init => ResiduesInv /\ Exact!Init
  BY ResiduesInit
<1>2. ResiduesInv /\ [Next]_vars => ResiduesInv' /\ [Exact!Next]_(Exact!vars)
  BY ResiduesStep
<1>3. ResiduesInv => TypeOK
  BY DEF ResiduesInv, PrimeField, FiniteFieldRing, TypeOK, Canonical, Residues
<1> QED
  BY <1>1, <1>2, <1>3, PTL DEF Spec, ImplementsArithmetic, Exact!Spec
=============================================================================
