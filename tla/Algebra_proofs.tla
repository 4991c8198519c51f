---------------------------- MODULE Algebra_proofs ----------------------------
(* Theorems about the algorithms of generic_algorithms.hh: Euclid's loop, for  *)
(* all integers as arguments, and row reduction, for every field and matrix;   *)
(* and about the polynomials of poly_core, over every prime field.             *)
EXTENDS Calculator_proofs, Euclid, RowReduce, Polynomials, SequenceTheorems, TLAPS

-----------------------------------------------------------------------------
(* EUCLID'S LOOP *)

InputsAreIntegers == Inputs \subseteq Int

-----------------------------------------------------------------------------
(* The quotient that rounds toward zero. *)

\* It is an integer, and leaves a remainder smaller than the divisor.
LEMMA QuotientRemainder ==
    ASSUME NEW n \in Int, NEW m \in Int, m # 0
    PROVE  /\ Quot(n, m) \in Int
           /\ Magnitude(n - m * Quot(n, m)) < Magnitude(m)
<1> DEFINE p == Magnitude(n)
           d == Magnitude(m)
           q == p \div d
<1>1. p \in Nat /\ d \in Nat /\ d # 0
  BY DEF Magnitude
<1>2. q \in Nat /\ 0 <= p - d * q /\ p - d * q < d
  BY <1>1, DivisionOfNaturals
<1>3. Quot(n, m) = IF (n < 0) = (m < 0) THEN q ELSE -q
  BY DEF Quot
<1>4. PICK e \in Nat : e = q
  BY <1>2
<1>5. 0 <= p - d * e /\ p - d * e < d /\ Quot(n, m) = IF (n < 0) = (m < 0) THEN e ELSE -e
  BY <1>2, <1>3, <1>4
<1> HIDE DEF q
<1>6. CASE n < 0 /\ m < 0
  <2>1. p = -n /\ d = -m /\ Quot(n, m) = e
    BY <1>5, <1>6 DEF Magnitude
  <2>2. n - m * e = -(p - d * e)
    BY <2>1
  <2> QED
    BY <1>1, <1>5, <2>1, <2>2 DEF Magnitude
<1>7. CASE n < 0 /\ ~(m < 0)
  <2>1. p = -n /\ d = m /\ Quot(n, m) = -e
    BY <1>5, <1>7 DEF Magnitude
  <2>2. n - m * (-e) = -(p - d * e)
    BY <2>1
  <2> QED
    BY <1>1, <1>5, <2>1, <2>2 DEF Magnitude
<1>8. CASE ~(n < 0) /\ m < 0
  <2>1. p = n /\ d = -m /\ Quot(n, m) = -e
    BY <1>5, <1>8 DEF Magnitude
  <2>2. n - m * (-e) = p - d * e
    BY <2>1
  <2> QED
    BY <1>1, <1>5, <2>1, <2>2 DEF Magnitude
<1>9. CASE ~(n < 0) /\ ~(m < 0)
  <2>1. p = n /\ d = m /\ Quot(n, m) = e
    BY <1>5, <1>9 DEF Magnitude
  <2> QED
    BY <1>1, <1>5, <2>1 DEF Magnitude
<1> QED
  BY <1>6, <1>7, <1>8, <1>9

-----------------------------------------------------------------------------
(* Types. *)

LEMMA StartsInType == InputsAreIntegers /\ EuclidInit => EuclidTypeOK
BY DEF InputsAreIntegers, EuclidInit, EuclidStart, EuclidTypeOK

LEMMA StepKeepsType == EuclidTypeOK /\ [Divide]_euclidVars => EuclidTypeOK'
<1> SUFFICES ASSUME EuclidTypeOK, [Divide]_euclidVars PROVE EuclidTypeOK'
  OBVIOUS
<1>1. CASE Divide
  <2>1. Quot(old_r, r) \in Int
    BY <1>1, QuotientRemainder DEF Divide, EuclidTypeOK
  <2> QED
    BY <1>1, <2>1 DEF Divide, EuclidTypeOK
<1>2. CASE UNCHANGED euclidVars
  BY <1>2 DEF euclidVars, EuclidTypeOK
<1> QED
  BY <1>1, <1>2

\* The variables hold integers.
THEOREM TypeCorrect == InputsAreIntegers => (EuclidSpec => []EuclidTypeOK)
<1> SUFFICES ASSUME InputsAreIntegers PROVE EuclidSpec => []EuclidTypeOK
  OBVIOUS
<1>1. EuclidInit => EuclidTypeOK
  BY StartsInType
<1> QED
  BY <1>1, StepKeepsType, PTL DEF EuclidSpec

-----------------------------------------------------------------------------
(* Cofactors. *)

\* Subtracting q times one combination from the other combines the cofactors.
LEMMA Combination ==
    ASSUME NEW i \in Int, NEW j \in Int, NEW k \in Int, NEW l \in Int,
           NEW m \in Int, NEW n \in Int, NEW q \in Int
    PROVE  (i - q * j) * m + (k - q * l) * n = (i * m + k * n) - (j * m + l * n) * q
OBVIOUS

LEMMA StepKeepsBezout ==
    EuclidTypeOK /\ Bezout /\ [Divide]_euclidVars => Bezout'
<1> SUFFICES ASSUME EuclidTypeOK, Bezout, [Divide]_euclidVars PROVE Bezout'
  OBVIOUS
<1>1. CASE Divide
  <2>1. PICK q \in Int : q = Quot(old_r, r)
    BY <1>1, QuotientRemainder DEF Divide, EuclidTypeOK
  <2>2. /\ old_r' = r /\ old_s' = s /\ old_t' = t /\ a' = a /\ b' = b
        /\ r' = old_r - r * q /\ s' = old_s - q * s /\ t' = old_t - q * t
    BY <1>1, <2>1 DEF Divide
  <2>3. s' * a + t' * b = (old_s * a + old_t * b) - (s * a + t * b) * q
    BY <2>1, <2>2, Combination DEF EuclidTypeOK
  <2> QED
    BY <2>2, <2>3 DEF Bezout
<1>2. CASE UNCHANGED euclidVars
  BY <1>2 DEF euclidVars, Bezout
<1> QED
  BY <1>1, <1>2

\* extended_gcd combines its arguments to the remainder in every iteration,
\* whatever their signs.
THEOREM CofactorsAlwaysCombine == InputsAreIntegers => (EuclidSpec => []Bezout)
<1> SUFFICES ASSUME InputsAreIntegers PROVE EuclidSpec => []Bezout
  OBVIOUS
<1>1. EuclidInit => EuclidTypeOK /\ Bezout
  <2>1. EuclidInit => EuclidTypeOK
    BY StartsInType
  <2>2. EuclidTypeOK /\ EuclidInit => Bezout
    BY DEF EuclidTypeOK, EuclidInit, EuclidStart, Bezout
  <2> QED
    BY <2>1, <2>2
<1>2. (EuclidTypeOK /\ Bezout) /\ [Divide]_euclidVars => (EuclidTypeOK /\ Bezout)'
  BY StepKeepsType, StepKeepsBezout
<1> QED
  BY <1>1, <1>2, PTL DEF EuclidSpec

-----------------------------------------------------------------------------
(* Common divisors. *)

LEMMA DivisorOfDifference ==
    ASSUME NEW d \in Int, NEW n \in Int, NEW m \in Int, NEW q \in Int, Divides(d, m)
    PROVE  Divides(d, n) <=> Divides(d, n - m * q)
<1>1. PICK k \in Int : m = k * d
  BY DEF Divides
<1>2. ASSUME Divides(d, n) PROVE Divides(d, n - m * q)
  <2>1. PICK l \in Int : n = l * d
    BY <1>2 DEF Divides
  <2>2. n - m * q = (l - k * q) * d /\ l - k * q \in Int
    BY <1>1, <2>1
  <2> QED
    BY <2>2 DEF Divides
<1>3. ASSUME Divides(d, n - m * q) PROVE Divides(d, n)
  <2>1. PICK l \in Int : n - m * q = l * d
    BY <1>3 DEF Divides
  <2>2. n = (l + k * q) * d /\ l + k * q \in Int
    BY <1>1, <2>1
  <2> QED
    BY <2>2 DEF Divides
<1> QED
  BY <1>2, <1>3

\* gcd neither loses nor gains a common divisor in any iteration; when the
\* remainder is zero the other one has exactly the divisors of both arguments.
THEOREM DivisorsAreKept == InputsAreIntegers => (EuclidSpec => []CommonDivisorsKept)
<1> SUFFICES ASSUME InputsAreIntegers PROVE EuclidSpec => []CommonDivisorsKept
  OBVIOUS
<1>1. EuclidInit => EuclidTypeOK /\ CommonDivisorsKept
  BY StartsInType DEF EuclidInit, EuclidStart, CommonDivisorsKept
<1>2. EuclidTypeOK /\ CommonDivisorsKept /\ [Divide]_euclidVars
        => (EuclidTypeOK /\ CommonDivisorsKept)'
  <2> SUFFICES ASSUME EuclidTypeOK, CommonDivisorsKept, [Divide]_euclidVars
               PROVE  EuclidTypeOK' /\ CommonDivisorsKept'
    OBVIOUS
  <2>1. EuclidTypeOK'
    BY StepKeepsType
  <2>2. CASE Divide
    <3> SUFFICES ASSUME NEW d \in Int
                 PROVE  (Divides(d, old_r') /\ Divides(d, r'))
                          <=> (Divides(d, a') /\ Divides(d, b'))
      BY <2>1 DEF CommonDivisorsKept, Divides
    <3>1. PICK q \in Int : q = Quot(old_r, r)
      BY <2>2, QuotientRemainder DEF Divide, EuclidTypeOK
    <3>2. old_r' = r /\ r' = old_r - r * q /\ a' = a /\ b' = b
      BY <2>2, <3>1 DEF Divide
    <3>3. Divides(d, r) => (Divides(d, old_r) <=> Divides(d, r'))
      BY <3>1, <3>2, DivisorOfDifference DEF EuclidTypeOK
    <3>4. (Divides(d, old_r) /\ Divides(d, r)) <=> (Divides(d, a) /\ Divides(d, b))
      BY DEF CommonDivisorsKept
    <3> QED
      BY <3>2, <3>3, <3>4
  <2>3. CASE UNCHANGED euclidVars
    BY <2>1, <2>3 DEF euclidVars, CommonDivisorsKept, Divides
  <2> QED
    BY <2>1, <2>2, <2>3
<1> QED
  BY <1>1, <1>2, PTL DEF EuclidSpec

-----------------------------------------------------------------------------
\* Every iteration shrinks the remainder, also where its sign changes: the
\* loops end.
THEOREM LoopShrinks == InputsAreIntegers => (EuclidSpec => RemaindersShrink)
<1> SUFFICES ASSUME InputsAreIntegers PROVE EuclidSpec => RemaindersShrink
  OBVIOUS
<1>1. EuclidTypeOK /\ [Divide]_euclidVars => [Magnitude(r') < Magnitude(r)]_euclidVars
  <2> SUFFICES ASSUME EuclidTypeOK, Divide PROVE Magnitude(r') < Magnitude(r)
    OBVIOUS
  <2>1. r' = old_r - r * Quot(old_r, r) /\ r # 0
    BY DEF Divide
  <2> QED
    BY <2>1, QuotientRemainder DEF EuclidTypeOK
<1>2. EuclidSpec => []EuclidTypeOK
  BY TypeCorrect
<1> QED
  BY <1>1, <1>2, PTL DEF EuclidSpec, RemaindersShrink

-----------------------------------------------------------------------------
(* ROW REDUCTION *)

\* What follows from the laws of a field.
LEMMA Laws ==
    ASSUME NEW F, NEW E, FieldLaws(F, E)
    PROVE  /\ \A u \in E : /\ mul(F, u, zero(F)) = zero(F) /\ mul(F, zero(F), u) = zero(F)
                           /\ add(F, u, zero(F)) = u
                           /\ sub(F, u, zero(F)) = u
                           /\ sub(F, u, u) = zero(F)
           /\ \A u, v, w \in E : add(F, u, w) = add(F, v, w) => u = v
<1> DEFINE o == zero(F)
<1>1. o \in E /\ \A u \in E : add(F, o, u) = u /\ add(F, u, o) = u
  BY DEF FieldLaws, UnaryLaws, BinaryLaws
<1>2. \A u, v, w \in E : add(F, u, w) = add(F, v, w) => u = v
  <2> SUFFICES ASSUME NEW u \in E, NEW v \in E, NEW w \in E, add(F, u, w) = add(F, v, w)
               PROVE  u = v
    OBVIOUS
  <2> DEFINE n == sub(F, o, w)
  <2>1. n \in E /\ add(F, n, w) = o /\ add(F, w, n) = o
    BY <1>1 DEF FieldLaws, BinaryLaws
  <2> HIDE DEF n, o
  <2>2. add(F, u, add(F, w, n)) = add(F, v, add(F, w, n))
    <3>1. add(F, u, add(F, w, n)) = add(F, add(F, u, w), n)
      BY <2>1 DEF FieldLaws, TernaryLaws
    <3>2. add(F, v, add(F, w, n)) = add(F, add(F, v, w), n)
      BY <2>1 DEF FieldLaws, TernaryLaws
    <3> QED
      BY <3>1, <3>2
  <2> QED
    BY <1>1, <2>1, <2>2
<1>3. ASSUME NEW u \in E
      PROVE  mul(F, u, o) = o /\ mul(F, o, u) = o
  <2> DEFINE m == mul(F, u, o)
  <2>1. m \in E /\ m = mul(F, o, u)
    BY <1>1 DEF FieldLaws, BinaryLaws
  <2>2. mul(F, u, add(F, o, o)) = add(F, m, m)
    BY <1>1 DEF FieldLaws, TernaryLaws
  <2>3. add(F, o, o) = o
    BY <1>1
  <2> HIDE DEF m, o
  <2>4. add(F, m, m) = m
    BY <2>2, <2>3 DEF m
  <2>5. add(F, o, m) = m
    BY <1>1, <2>1
  <2> QED
    BY <1>1, <1>2, <2>1, <2>4, <2>5 DEF m
<1>4. ASSUME NEW u \in E
      PROVE  sub(F, u, o) = u /\ sub(F, u, u) = o
  <2>1. sub(F, u, o) \in E /\ sub(F, u, u) \in E
        /\ add(F, sub(F, u, o), o) = u /\ add(F, sub(F, u, u), u) = u
    BY <1>1 DEF FieldLaws, BinaryLaws
  <2> HIDE DEF o
  <2> QED
    BY <1>1, <1>2, <2>1
<1> QED
  BY <1>1, <1>2, <1>3, <1>4

-----------------------------------------------------------------------------
(* Dot products. *)

Vector(E, n) == [1 .. n -> E]

\* The partial sums of a dot product.
PartialSums(F, E, n, row, v, sum) ==
    /\ Dot(F, row, v) = sum[n]
    /\ sum[0] = zero(F)
    /\ \A c \in 0 .. n : sum[c] \in E
    /\ \A c \in 1 .. n : sum[c] = add(F, sum[c - 1], mul(F, row[c], v[c]))

LEMMA DotSums ==
    ASSUME NEW E, FieldLaws(field, E), NEW n \in Nat, NEW row \in Vector(E, n), NEW v \in Vector(E, n)
    PROVE  \E sum : PartialSums(field, E, n, row, v, sum)
<1> DEFINE Def(sum, c) ==
             IF c = 0 THEN zero(field) ELSE add(field, sum[c - 1], mul(field, row[c], v[c]))
           Right(part, m) == \A c \in 0 .. n : c <= m => part[c] = Def(part, c) /\ part[c] \in E
           S == {m \in Nat : \E part : Right(part, m)}
<1>1. \A c \in 1 .. n : \A e \in E : add(field, e, mul(field, row[c], v[c])) \in E
  BY DEF FieldLaws, BinaryLaws, Vector
<1>2. 0 \in S
  <2> DEFINE part == [c \in 0 .. n |-> zero(field)]
  <2>1. \A c \in 0 .. n : c <= 0 => c = 0
    OBVIOUS
  <2>2. zero(field) \in E
    BY DEF FieldLaws, UnaryLaws
  <2>3. Right(part, 0)
    BY <2>1, <2>2
  <2> HIDE DEF part, Right
  <2> QED
    BY <2>3
<1>3. ASSUME NEW m \in Nat, m \in S PROVE m + 1 \in S
  <2>1. PICK part : Right(part, m)
    BY <1>3
  <2> DEFINE h == [c \in 0 .. n |-> IF c = m + 1 THEN Def(part, c) ELSE part[c]]
  <2>2. ASSUME NEW c \in 0 .. n, c <= m + 1 PROVE h[c] = Def(h, c) /\ h[c] \in E
    <3>1. c # 0 => c - 1 \in 0 .. n /\ c - 1 <= m /\ c - 1 # m + 1 /\ c \in 1 .. n
      BY <2>2
    <3>2. c # 0 => h[c - 1] = part[c - 1]
      BY <3>1
    <3>3. Def(h, c) = Def(part, c)
      <4> HIDE DEF h
      <4> QED
        BY <3>2
    <3>4. h[c] = Def(part, c)
      <4>1. CASE c = m + 1
        BY <4>1
      <4>2. CASE c # m + 1
        <5>1. c <= m
          BY <2>2, <4>2
        <5> QED
          BY <2>1, <4>2, <5>1
      <4> QED
        BY <4>1, <4>2
    <3>5. Def(part, c) \in E
      <4>1. CASE c = 0
        BY <4>1 DEF FieldLaws, UnaryLaws
      <4>2. CASE c # 0
        <5>1. part[c - 1] \in E
          BY <2>1, <3>1, <4>2
        <5> QED
          BY <1>1, <3>1, <4>2, <5>1
      <4> QED
        BY <4>1, <4>2
    <3> QED
      BY <3>3, <3>4, <3>5
  <2>3. Right(h, m + 1)
    <3> HIDE DEF h, Def
    <3> QED
      BY <2>2
  <2> HIDE DEF h, Right
  <2> QED
    BY <2>3
<1>4. n \in S
  <2> HIDE DEF S
  <2> QED
    BY <1>2, <1>3, SetInduction
<1>5. PICK part : Right(part, n)
  BY <1>4
<1> DEFINE sums == [c \in 0 .. n |-> part[c]]
<1>6. \A c \in 0 .. n : sums[c] = part[c] /\ sums[c] = Def(sums, c) /\ sums[c] \in E
  <2> TAKE c \in 0 .. n
  <2>1. c # 0 => c - 1 \in 0 .. n
    OBVIOUS
  <2>2. part[c] = Def(part, c) /\ part[c] \in E
    BY <1>5
  <2>3. Def(part, c) = Def(sums, c)
    BY <2>1
  <2> QED
    BY <2>2, <2>3
<1> DEFINE Recursion(sum) == sum = [c \in 0 .. n |-> Def(sum, c)]
<1>7. Recursion(sums)
  <2>1. sums = [c \in 0 .. n |-> sums[c]]
    OBVIOUS
  <2> HIDE DEF sums, Def
  <2>2. [c \in 0 .. n |-> sums[c]] = [c \in 0 .. n |-> Def(sums, c)]
    BY <1>6
  <2> QED
    BY <2>1, <2>2, Zenon
<1> DEFINE sum == CHOOSE sum : Recursion(sum)
<1>8. Recursion(sum)
  <2> HIDE DEF Recursion, sums
  <2> QED
    BY <1>7
<1>9. Len(v) = n
  BY DEF Vector
<1>10. Dot(field, row, v) = sum[n]
  BY <1>9, Zenon DEF Dot
<1> HIDE DEF sum
<1>11. \A c \in 0 .. n : sum[c] = Def(sum, c)
  <2> HIDE DEF Def
  <2>1. sum = [c \in 0 .. n |-> Def(sum, c)]
    BY <1>8, Zenon
  <2> QED
    BY <2>1
<1>12. sum[0] = zero(field)
       /\ \A c \in 1 .. n : sum[c] = add(field, sum[c - 1], mul(field, row[c], v[c]))
  BY <1>11
<1> DEFINE T == {c \in Nat : c \in 0 .. n => sum[c] \in E}
<1>13. 0 \in T
  BY <1>12 DEF FieldLaws, UnaryLaws
<1>14. ASSUME NEW c \in Nat, c \in T PROVE c + 1 \in T
  <2> SUFFICES ASSUME c + 1 \in 0 .. n PROVE sum[c + 1] \in E
    OBVIOUS
  <2>1. c + 1 \in 1 .. n /\ c \in 0 .. n /\ (c + 1) - 1 = c
    OBVIOUS
  <2> QED
    BY <1>1, <1>12, <1>14, <2>1
<1>15. \A c \in Nat : c \in T
  <2> HIDE DEF T
  <2> QED
    BY <1>13, <1>14, SetInduction
<1>16. \A c \in 0 .. n : sum[c] \in E
  BY <1>15
<1>17. PartialSums(field, E, n, row, v, sum)
  BY <1>10, <1>12, <1>16 DEF PartialSums
<1> QED
  BY <1>17

\* One more summand, of a row and of the multiple that is taken from it.
Distributes(E) ==
    \A l, p, fac, e, h, w \in E :
      add(field, add(field, l, mul(field, sub(field, e, mul(field, fac, h)), w)),
                 mul(field, fac, add(field, p, mul(field, h, w))))
        = add(field, add(field, l, mul(field, fac, p)), mul(field, e, w))

LEMMA DistributedStep ==
    ASSUME NEW E, FieldLaws(field, E)
    PROVE  Distributes(E)
<1> USE DEF Distributes
<1> TAKE l, p, fac, e, h, w \in E
<1> DEFINE u == mul(field, fac, h)
           q == mul(field, fac, p)
           i == mul(field, sub(field, e, u), w)
           j == mul(field, u, w)
<1>1. u \in E /\ q \in E /\ sub(field, e, u) \in E /\ i \in E /\ j \in E /\ mul(field, h, w) \in E
  BY DEF FieldLaws, BinaryLaws
<1>2. mul(field, fac, add(field, p, mul(field, h, w))) = add(field, q, j)
  <2>1. mul(field, fac, mul(field, h, w)) = j
    BY DEF FieldLaws, TernaryLaws
  <2>2. mul(field, fac, add(field, p, mul(field, h, w))) = add(field, mul(field, fac, p), mul(field, fac, mul(field, h, w)))
    BY <1>1 DEF FieldLaws, TernaryLaws
  <2> QED
    BY <2>1, <2>2
<1>3. add(field, i, j) = mul(field, e, w)
  <2> DEFINE z == sub(field, e, u)
  <2>1. z \in E /\ add(field, z, u) = e
    BY <1>1 DEF FieldLaws, BinaryLaws
  <2>2. mul(field, w, add(field, z, u)) = add(field, mul(field, w, z), mul(field, w, u))
    BY <1>1 DEF FieldLaws, TernaryLaws
  <2>3. mul(field, w, z) = i /\ mul(field, w, u) = j /\ mul(field, w, e) = mul(field, e, w)
    BY <1>1 DEF FieldLaws, BinaryLaws
  <2> QED
    BY <2>1, <2>2, <2>3
<1> HIDE DEF u, q, i, j
<1>4. add(field, add(field, l, i), add(field, q, j)) = add(field, add(field, l, q), add(field, i, j))
  <2>1. add(field, add(field, l, i), add(field, q, j)) = add(field, l, add(field, i, add(field, q, j)))
    <3>1. add(field, q, j) \in E
      BY <1>1 DEF FieldLaws, BinaryLaws
    <3> QED
      BY <1>1, <3>1 DEF FieldLaws, TernaryLaws
  <2>2. add(field, i, add(field, q, j)) = add(field, q, add(field, i, j))
    <3>1. add(field, i, add(field, q, j)) = add(field, add(field, i, q), j)
      BY <1>1 DEF FieldLaws, TernaryLaws
    <3>2. add(field, i, q) = add(field, q, i)
      BY <1>1 DEF FieldLaws, BinaryLaws
    <3>3. add(field, add(field, q, i), j) = add(field, q, add(field, i, j))
      BY <1>1 DEF FieldLaws, TernaryLaws
    <3> QED
      BY <3>1, <3>2, <3>3
  <2>3. add(field, l, add(field, q, add(field, i, j))) = add(field, add(field, l, q), add(field, i, j))
    <3>1. add(field, i, j) \in E
      BY <1>1 DEF FieldLaws, BinaryLaws
    <3> QED
      BY <1>1, <3>1 DEF FieldLaws, TernaryLaws
  <2> QED
    BY <2>1, <2>2, <2>3
<1> QED
  BY <1>2, <1>3, <1>4 DEF u, q, i

\* Subtracting a multiple of another row subtracts that multiple of its product.
LEMMA DotReduced ==
    ASSUME NEW E, FieldLaws(field, E), NEW n \in Nat, NEW row \in Vector(E, n), NEW pivot \in Vector(E, n),
           NEW factor \in E, NEW v \in Vector(E, n)
    PROVE  /\ Reduced(row, factor, pivot) \in Vector(E, n)
           /\ Dot(field, row, v) \in E /\ Dot(field, pivot, v) \in E
           /\ Dot(field, Reduced(row, factor, pivot), v) \in E
           /\ add(field, Dot(field, Reduced(row, factor, pivot), v), mul(field, factor, Dot(field, pivot, v)))
                = Dot(field, row, v)
<1>0. Distributes(E)
  BY DistributedStep
<1> DEFINE less == Reduced(row, factor, pivot)
<1>1. less \in Vector(E, n) /\ \A c \in 1 .. n : less[c] = sub(field, row[c], mul(field, factor, pivot[c]))
  BY DEF Reduced, Vector, FieldLaws, BinaryLaws
<1> HIDE DEF less
<1>21. PICK R : PartialSums(field, E, n, row, v, R)
  BY DotSums
<1>2. /\ Dot(field, row, v) = R[n]
      /\ R[0] = zero(field)
      /\ \A c \in 0 .. n : R[c] \in E
      /\ \A c \in 1 .. n : R[c] = add(field, R[c - 1], mul(field, row[c], v[c]))
  BY <1>21 DEF PartialSums
<1>22. PICK P : PartialSums(field, E, n, pivot, v, P)
  BY DotSums
<1>3. /\ Dot(field, pivot, v) = P[n]
      /\ P[0] = zero(field)
      /\ \A c \in 0 .. n : P[c] \in E
      /\ \A c \in 1 .. n : P[c] = add(field, P[c - 1], mul(field, pivot[c], v[c]))
  BY <1>22 DEF PartialSums
<1>23. PICK L : PartialSums(field, E, n, less, v, L)
  BY <1>1, DotSums
<1>4. /\ Dot(field, less, v) = L[n]
      /\ L[0] = zero(field)
      /\ \A c \in 0 .. n : L[c] \in E
      /\ \A c \in 1 .. n : L[c] = add(field, L[c - 1], mul(field, less[c], v[c]))
  BY <1>23 DEF PartialSums
<1> DEFINE S == {c \in Nat : c \in 0 .. n => add(field, L[c], mul(field, factor, P[c])) = R[c]}
<1>5. 0 \in S
  <2>1. add(field, zero(field), mul(field, factor, zero(field))) = zero(field)
    BY Laws DEF FieldLaws, UnaryLaws
  <2> QED
    BY <1>2, <1>3, <1>4, <2>1
<1>6. ASSUME NEW c \in Nat, c \in S PROVE c + 1 \in S
  <2> SUFFICES ASSUME c + 1 \in 0 .. n
               PROVE  add(field, L[c + 1], mul(field, factor, P[c + 1])) = R[c + 1]
    OBVIOUS
  <2>1. c + 1 \in 1 .. n /\ c \in 0 .. n /\ (c + 1) - 1 = c
    OBVIOUS
  <2> PICK d \in 1 .. n : d = c + 1
    BY <2>1
  <2>2. /\ R[d] = add(field, R[c], mul(field, row[d], v[d]))
        /\ P[d] = add(field, P[c], mul(field, pivot[d], v[d]))
        /\ L[d] = add(field, L[c], mul(field, less[d], v[d]))
    BY <1>2, <1>3, <1>4, <2>1
  <2>3. add(field, L[c], mul(field, factor, P[c])) = R[c]
    BY <1>6, <2>1
  <2>4. R[c] \in E /\ P[c] \in E /\ L[c] \in E
    BY <1>2, <1>3, <1>4, <2>1
  <2>5. row[d] \in E /\ pivot[d] \in E /\ less[d] \in E /\ v[d] \in E
        /\ less[d] = sub(field, row[d], mul(field, factor, pivot[d]))
    BY <1>1 DEF Vector
  <2>6. PICK l \in E : l = L[c]
    BY <2>4
  <2>7. PICK p \in E : p = P[c]
    BY <2>4
  <2>8. PICK e \in E : e = row[d]
    BY <2>5
  <2>9. PICK h \in E : h = pivot[d]
    BY <2>5
  <2>10. PICK w \in E : w = v[d]
    BY <2>5
  <2>11. /\ L[d] = add(field, l, mul(field, sub(field, e, mul(field, factor, h)), w))
         /\ P[d] = add(field, p, mul(field, h, w))
         /\ R[d] = add(field, add(field, l, mul(field, factor, p)), mul(field, e, w))
    BY <2>2, <2>3, <2>5, <2>6, <2>7, <2>8, <2>9, <2>10
  <2>12. add(field, add(field, l, mul(field, sub(field, e, mul(field, factor, h)), w)),
             mul(field, factor, add(field, p, mul(field, h, w))))
           = add(field, add(field, l, mul(field, factor, p)), mul(field, e, w))
    BY <1>0 DEF Distributes
  <2> QED
    BY <2>1, <2>11, <2>12
<1>7. \A c \in Nat : c \in S
  <2> HIDE DEF S
  <2> QED
    BY <1>5, <1>6, SetInduction
<1> QED
  BY <1>1, <1>2, <1>3, <1>4, <1>7 DEF less

LEMMA DotScaled ==
    ASSUME NEW E, FieldLaws(field, E), NEW n \in Nat, NEW row \in Vector(E, n), NEW factor \in E,
           NEW v \in Vector(E, n)
    PROVE  /\ Scaled(row, factor) \in Vector(E, n)
           /\ Dot(field, row, v) \in E
           /\ Dot(field, Scaled(row, factor), v) = mul(field, factor, Dot(field, row, v))
<1> DEFINE more == Scaled(row, factor)
<1>1. more \in Vector(E, n) /\ \A c \in 1 .. n : more[c] = mul(field, row[c], factor)
  BY DEF Scaled, Vector, FieldLaws, BinaryLaws
<1> HIDE DEF more
<1>24. PICK R : PartialSums(field, E, n, row, v, R)
  BY DotSums
<1>2. /\ Dot(field, row, v) = R[n]
      /\ R[0] = zero(field)
      /\ \A c \in 0 .. n : R[c] \in E
      /\ \A c \in 1 .. n : R[c] = add(field, R[c - 1], mul(field, row[c], v[c]))
  BY <1>24 DEF PartialSums
<1>25. PICK M : PartialSums(field, E, n, more, v, M)
  BY <1>1, DotSums
<1>3. /\ Dot(field, more, v) = M[n]
      /\ M[0] = zero(field)
      /\ \A c \in 0 .. n : M[c] \in E
      /\ \A c \in 1 .. n : M[c] = add(field, M[c - 1], mul(field, more[c], v[c]))
  BY <1>25 DEF PartialSums
<1> DEFINE S == {c \in Nat : c \in 0 .. n => M[c] = mul(field, factor, R[c])}
<1>4. 0 \in S
  <2>1. mul(field, factor, zero(field)) = zero(field)
    BY Laws
  <2> QED
    BY <1>2, <1>3, <2>1
<1>5. ASSUME NEW c \in Nat, c \in S PROVE c + 1 \in S
  <2> SUFFICES ASSUME c + 1 \in 0 .. n PROVE M[c + 1] = mul(field, factor, R[c + 1])
    OBVIOUS
  <2>1. c + 1 \in 1 .. n /\ c \in 0 .. n /\ (c + 1) - 1 = c
    OBVIOUS
  <2> PICK d \in 1 .. n : d = c + 1
    BY <2>1
  <2>2. /\ R[d] = add(field, R[c], mul(field, row[d], v[d]))
        /\ M[d] = add(field, mul(field, factor, R[c]), mul(field, more[d], v[d]))
    BY <1>2, <1>3, <1>5, <2>1
  <2>3. R[c] \in E /\ row[d] \in E /\ v[d] \in E /\ more[d] = mul(field, row[d], factor)
    BY <1>1, <1>2, <2>1 DEF Vector
  <2> DEFINE m == R[c]
             e == row[d]
             w == v[d]
  <2>4. {m, e, w} \subseteq E /\ R[d] = add(field, m, mul(field, e, w))
        /\ M[d] = add(field, mul(field, factor, m), mul(field, mul(field, e, factor), w))
    BY <2>2, <2>3
  <2> HIDE DEF m, e, w
  <2>5. mul(field, mul(field, e, factor), w) = mul(field, factor, mul(field, e, w))
    <3>1. mul(field, e, factor) = mul(field, factor, e)
      BY <2>4 DEF FieldLaws, BinaryLaws
    <3> QED
      BY <2>4, <3>1 DEF FieldLaws, TernaryLaws
  <2>6. mul(field, factor, add(field, m, mul(field, e, w)))
          = add(field, mul(field, factor, m), mul(field, factor, mul(field, e, w)))
    <3>1. mul(field, e, w) \in E
      BY <2>4 DEF FieldLaws, BinaryLaws
    <3> QED
      BY <2>4, <3>1 DEF FieldLaws, TernaryLaws
  <2> QED
    BY <2>4, <2>5, <2>6
<1>6. \A c \in Nat : c \in S
  <2> HIDE DEF S
  <2> QED
    BY <1>4, <1>5, SetInduction
<1> QED
  BY <1>1, <1>2, <1>3, <1>6 DEF more

-----------------------------------------------------------------------------
(* The matrix. *)

Matrix(E, rows, cols) == [1 .. rows -> Vector(E, cols)]

\* Rows with a pivot come first, their leading ones move right and stand alone
\* in their columns; the other rows are zero in the columns that are done.
Echelon(F, rows, m, c, p) ==
    /\ \E lead \in [1 .. p - 1 -> 1 .. c - 1] :
         \A k \in 1 .. p - 1 :
           /\ m[k][lead[k]] = one(F)
           /\ \A e \in 1 .. lead[k] - 1 : m[k][e] = zero(F)
           /\ \A l \in 1 .. rows : l # k => m[l][lead[k]] = zero(F)
           /\ \A l \in 1 .. p - 1 : k < l => lead[k] < lead[l]
    /\ \A l \in p .. rows : \A e \in 1 .. c - 1 : m[l][e] = zero(F)

\* A vector is orthogonal to the rows if all products are zero.
LEMMA OrthogonalRows ==
    ASSUME NEW E, FieldLaws(field, E), NEW rows \in Nat, NEW cols \in Nat, NEW m \in Matrix(E, rows, cols),
           NEW v \in Vector(E, cols)
    PROVE  Orthogonal(field, m, v) <=> \A k \in 1 .. rows : Dot(field, m[k], v) = zero(field)
<1>1. DOMAIN m = 1 .. rows /\ \A k \in 1 .. rows : m[k] \in Vector(E, cols)
  BY DEF Matrix
<1>2. \A k \in 1 .. rows : Dot(field, m[k], v) \in E
  <2> TAKE k \in 1 .. rows
  <2>1. zero(field) \in E /\ m[k] \in Vector(E, cols)
    BY <1>1 DEF FieldLaws, UnaryLaws
  <2> QED
    BY <2>1, DotScaled
<1>3. \A k \in 1 .. rows : is_zero(field, Dot(field, m[k], v)) <=> Dot(field, m[k], v) = zero(field)
  BY <1>2 DEF FieldLaws, UnaryLaws
<1> QED
  BY <1>1, <1>3 DEF Orthogonal

\* The result of the column's elimination, given where its pivot was found.
Target(m, c, p, pivots) ==
    LET swapped == [m EXCEPT ![pivots] = m[p], ![p] = m[pivots]]
        pivot   == Scaled(swapped[p], inv(field, swapped[p][c]))
    IN Cleared([swapped EXCEPT ![p] = pivot], p, c)

\* A field, a matrix over it, and an entry that may be the pivot of the row and the column.
Pivoted(E, rows, cols, m, c, p, pivots) ==
    /\ FieldLaws(field, E) /\ rows \in Nat /\ cols \in Nat /\ m \in Matrix(E, rows, cols)
    /\ c \in 1 .. cols /\ p \in 1 .. rows /\ pivots \in p .. rows /\ m[pivots][c] # zero(field)

\* How each row of the result comes from a row of the matrix.
Made(E, rows, cols, m, c, p, pivots, new) ==
    \E old \in Matrix(E, rows, cols), pivot \in Vector(E, cols), factor \in E, back \in E :
      /\ old = [m EXCEPT ![pivots] = m[p], ![p] = m[pivots]]
      /\ pivot = Scaled(m[pivots], factor)
      /\ mul(field, back, factor) = one(field) /\ back = m[pivots][c]
      /\ new \in Matrix(E, rows, cols)
      /\ new[p] = pivot
      /\ \A k \in 1 .. rows : k # p =>
           new[k] = IF old[k][c] = zero(field) THEN old[k] ELSE Reduced(old[k], old[k][c], pivot)

LEMMA TargetRows ==
    ASSUME NEW E, NEW rows, NEW cols, NEW m, NEW c, NEW p, NEW pivots,
           Pivoted(E, rows, cols, m, c, p, pivots)
    PROVE  Made(E, rows, cols, m, c, p, pivots, Target(m, c, p, pivots))
<1>0. /\ FieldLaws(field, E) /\ rows \in Nat /\ cols \in Nat /\ m \in Matrix(E, rows, cols)
      /\ c \in 1 .. cols /\ p \in 1 .. rows /\ pivots \in p .. rows /\ m[pivots][c] # zero(field)
  BY DEF Pivoted
<1> USE <1>0
<1> DEFINE old == [m EXCEPT ![pivots] = m[p], ![p] = m[pivots]]
           back == m[pivots][c]
           factor == inv(field, back)
           pivot == Scaled(m[pivots], factor)
           two == [old EXCEPT ![p] = pivot]
           new == [k \in 1 .. rows |-> IF k = p THEN pivot
                     ELSE IF old[k][c] = zero(field) THEN old[k] ELSE Reduced(old[k], old[k][c], pivot)]
<1>1. pivots \in 1 .. rows /\ p \in 1 .. rows
  OBVIOUS
<1>2. DOMAIN m = 1 .. rows /\ \A k \in 1 .. rows : m[k] \in Vector(E, cols)
  BY DEF Matrix
<1>3. old \in Matrix(E, rows, cols) /\ old[p] = m[pivots]
  BY <1>1, <1>2 DEF Matrix
<1>4. back \in E /\ back # zero(field)
  BY <1>1, <1>2 DEF Vector
<1>5. factor \in E /\ mul(field, back, factor) = one(field)
  BY <1>4 DEF FieldLaws, UnaryLaws
<1>6. pivot \in Vector(E, cols)
  <2>1. zero(field) \in E
    BY DEF FieldLaws, UnaryLaws
  <2>2. [e \in 1 .. cols |-> zero(field)] \in Vector(E, cols)
    BY <2>1 DEF Vector
  <2> HIDE DEF factor
  <2> QED
    BY <1>1, <1>2, <1>5, <2>2, DotScaled
<1>7. \A k \in 1 .. rows : old[k] \in Vector(E, cols) /\ old[k][c] \in E
  BY <1>3 DEF Matrix, Vector
<1>8. Target(m, c, p, pivots) = Cleared(two, p, c)
  BY <1>3 DEF Target
<1> HIDE DEF factor, back, pivot, old
<1>9. DOMAIN two = 1 .. rows /\ two[p] = pivot /\ \A k \in 1 .. rows : k # p => two[k] = old[k]
  BY <1>3 DEF Matrix
<1>10. \A k \in 1 .. rows : is_zero(field, old[k][c]) <=> old[k][c] = zero(field)
  BY <1>7 DEF FieldLaws, UnaryLaws
<1>11. Cleared(two, p, c) = new
  <2> HIDE DEF two, new
  <2>1. Cleared(two, p, c) = [k \in 1 .. rows |->
          IF k = p \/ is_zero(field, two[k][c]) THEN two[k] ELSE Reduced(two[k], two[k][c], two[p])]
    BY <1>9 DEF Cleared
  <2>2. \A k \in 1 .. rows :
          (IF k = p \/ is_zero(field, two[k][c]) THEN two[k] ELSE Reduced(two[k], two[k][c], two[p]))
            = IF k = p THEN pivot
              ELSE IF old[k][c] = zero(field) THEN old[k] ELSE Reduced(old[k], old[k][c], pivot)
    BY <1>9, <1>10
  <2>3. new = [k \in 1 .. rows |-> IF k = p THEN pivot
                 ELSE IF old[k][c] = zero(field) THEN old[k] ELSE Reduced(old[k], old[k][c], pivot)]
    BY DEF new
  <2> QED
    BY <2>1, <2>2, <2>3
<1>12. ASSUME NEW k \in 1 .. rows PROVE Reduced(old[k], old[k][c], pivot) \in Vector(E, cols)
  <2>1. zero(field) \in E
    BY DEF FieldLaws, UnaryLaws
  <2>2. [e \in 1 .. cols |-> zero(field)] \in Vector(E, cols)
    BY <2>1 DEF Vector
  <2> QED
    BY <1>6, <1>7, <2>2, DotReduced
<1>13. new \in Matrix(E, rows, cols)
  BY <1>6, <1>7, <1>12 DEF Matrix
<1>14. new[p] = pivot /\ \A k \in 1 .. rows : k # p =>
         new[k] = IF old[k][c] = zero(field) THEN old[k] ELSE Reduced(old[k], old[k][c], pivot)
  OBVIOUS
<1> HIDE DEF new
<1>15. Target(m, c, p, pivots) = new
  BY <1>8, <1>11
<1>16. /\ old = [m EXCEPT ![pivots] = m[p], ![p] = m[pivots]]
       /\ pivot = Scaled(m[pivots], factor) /\ back = m[pivots][c]
  BY DEF old, pivot, back
<1> QED
  BY <1>3, <1>4, <1>5, <1>6, <1>13, <1>14, <1>15, <1>16, Zenon DEF Made

\* Its entries: what was done before the column is kept, and the column is done.
LEMMA TargetEntries ==
    ASSUME NEW E, NEW rows, NEW cols, NEW m, NEW c, NEW p, NEW pivots,
           Pivoted(E, rows, cols, m, c, p, pivots),
           \A l \in p .. rows : \A e \in 1 .. c - 1 : m[l][e] = zero(field)
    PROVE  /\ Target(m, c, p, pivots)[p][c] = one(field)
           /\ \A k \in 1 .. rows : k # p => Target(m, c, p, pivots)[k][c] = zero(field)
           /\ \A k \in 1 .. rows : \A e \in 1 .. c - 1 : Target(m, c, p, pivots)[k][e] = m[k][e]
<1>0. /\ FieldLaws(field, E) /\ rows \in Nat /\ cols \in Nat /\ m \in Matrix(E, rows, cols)
      /\ c \in 1 .. cols /\ p \in 1 .. rows /\ pivots \in p .. rows /\ m[pivots][c] # zero(field)
  BY DEF Pivoted
<1> USE <1>0
<1> DEFINE new == Target(m, c, p, pivots)
<1>M. Made(E, rows, cols, m, c, p, pivots, new)
  BY TargetRows
<1> HIDE DEF new
<1>1. PICK old \in Matrix(E, rows, cols), pivot \in Vector(E, cols), factor \in E, back \in E :
        /\ old = [m EXCEPT ![pivots] = m[p], ![p] = m[pivots]]
        /\ pivot = Scaled(m[pivots], factor)
        /\ mul(field, back, factor) = one(field) /\ back = m[pivots][c]
        /\ new \in Matrix(E, rows, cols)
        /\ new[p] = pivot
        /\ \A k \in 1 .. rows : k # p =>
             new[k] = IF old[k][c] = zero(field) THEN old[k] ELSE Reduced(old[k], old[k][c], pivot)
  BY <1>M DEF Made
<1>2. \A k \in 1 .. rows : k \in DOMAIN m /\ m[k] \in Vector(E, cols) /\ old[k] \in Vector(E, cols)
  BY DEF Matrix
<1>3. pivots \in 1 .. rows /\ p \in 1 .. rows /\ c \in 1 .. cols /\ \A e \in 1 .. c - 1 : e \in 1 .. cols
  OBVIOUS
<1>4. \A e \in 1 .. cols : pivot[e] = mul(field, m[pivots][e], factor)
  BY <1>1, <1>2, <1>3 DEF Scaled, Vector
<1>5. zero(field) \in E /\ mul(field, zero(field), factor) = zero(field)
      /\ (\A e \in E : mul(field, e, zero(field)) = zero(field) /\ sub(field, e, zero(field)) = e
                       /\ sub(field, e, e) = zero(field))
      /\ (\A e \in E : mul(field, e, one(field)) = e)
  <2>1. zero(field) \in E /\ one(field) \in E
    BY DEF FieldLaws, UnaryLaws
  <2>2. \A e \in E : mul(field, e, one(field)) = e
    BY <2>1 DEF FieldLaws, UnaryLaws, BinaryLaws
  <2> QED
    BY <2>1, <2>2, Laws
<1>6. pivot[c] = one(field)
  BY <1>1, <1>3, <1>4
<1>7. \A e \in 1 .. c - 1 : pivot[e] = zero(field)
  BY <1>3, <1>4, <1>5
<1>8. \A k \in 1 .. rows : \A e \in 1 .. c - 1 : old[k][e] = m[k][e]
  <2> TAKE k \in 1 .. rows
  <2> TAKE e \in 1 .. c - 1
  <2>1. old[k] = IF k = p THEN m[pivots] ELSE IF k = pivots THEN m[p] ELSE m[k]
    BY <1>1, <1>2, <1>3
  <2>2. p \in p .. rows /\ m[p][e] = zero(field) /\ m[pivots][e] = zero(field)
    OBVIOUS
  <2> QED
    BY <2>1, <2>2
<1>9. \A k \in 1 .. rows : \A e \in 1 .. cols :
        Reduced(old[k], old[k][c], pivot)[e] = sub(field, old[k][e], mul(field, old[k][c], pivot[e]))
        /\ old[k][e] \in E
  BY <1>2, <1>3 DEF Reduced, Vector
<1>10. ASSUME NEW k \in 1 .. rows, k # p PROVE new[k][c] = zero(field)
  <2>1. CASE old[k][c] = zero(field)
    BY <1>1, <1>10, <2>1
  <2>2. CASE old[k][c] # zero(field)
    <3>1. new[k][c] = sub(field, old[k][c], mul(field, old[k][c], one(field))) /\ old[k][c] \in E
      BY <1>1, <1>3, <1>6, <1>9, <1>10, <2>2
    <3> QED
      BY <1>5, <3>1
  <2> QED
    BY <2>1, <2>2
<1>11. ASSUME NEW k \in 1 .. rows, NEW e \in 1 .. c - 1 PROVE new[k][e] = m[k][e]
  <2>1. CASE k = p
    <3>1. p \in p .. rows /\ m[p][e] = zero(field)
      OBVIOUS
    <3> QED
      BY <1>1, <1>7, <2>1, <3>1
  <2>2. CASE k # p /\ old[k][c] = zero(field)
    <3>1. new[k] = old[k]
      BY <1>1, <2>2
    <3> QED
      BY <1>8, <3>1
  <2>3. CASE k # p /\ old[k][c] # zero(field)
    <3>1. new[k][e] = sub(field, old[k][e], mul(field, old[k][c], zero(field)))
          /\ old[k][e] \in E /\ old[k][c] \in E
      <4>1. new[k] = Reduced(old[k], old[k][c], pivot)
        BY <1>1, <2>3
      <4>2. e \in 1 .. cols /\ pivot[e] = zero(field)
        BY <1>3, <1>7
      <4> QED
        BY <1>3, <1>9, <4>1, <4>2
    <3> QED
      BY <1>5, <1>8, <3>1
  <2> QED
    BY <2>1, <2>2, <2>3
<1> QED
  BY <1>1, <1>6, <1>10, <1>11 DEF new

\* A vector is orthogonal to its rows if and only if it is to those of the matrix.
LEMMA TargetSolutions ==
    ASSUME NEW E, NEW rows, NEW cols, NEW m, NEW c, NEW p, NEW pivots,
           Pivoted(E, rows, cols, m, c, p, pivots),
           NEW v \in Vector(E, cols)
    PROVE  Orthogonal(field, Target(m, c, p, pivots), v) <=> Orthogonal(field, m, v)
<1>0. /\ FieldLaws(field, E) /\ rows \in Nat /\ cols \in Nat /\ m \in Matrix(E, rows, cols)
      /\ c \in 1 .. cols /\ p \in 1 .. rows /\ pivots \in p .. rows /\ m[pivots][c] # zero(field)
  BY DEF Pivoted
<1> USE <1>0
<1> DEFINE new == Target(m, c, p, pivots)
           o == zero(field)
           Zero(row) == Dot(field, row, v) = o
<1>M. Made(E, rows, cols, m, c, p, pivots, new)
  BY TargetRows
<1> HIDE DEF new
<1>1. PICK old \in Matrix(E, rows, cols), pivot \in Vector(E, cols), factor \in E, back \in E :
        /\ old = [m EXCEPT ![pivots] = m[p], ![p] = m[pivots]]
        /\ pivot = Scaled(m[pivots], factor)
        /\ mul(field, back, factor) = one(field) /\ back = m[pivots][c]
        /\ new \in Matrix(E, rows, cols)
        /\ new[p] = pivot
        /\ \A k \in 1 .. rows : k # p =>
             new[k] = IF old[k][c] = o THEN old[k] ELSE Reduced(old[k], old[k][c], pivot)
  BY <1>M DEF Made
<1>2. \A k \in 1 .. rows : k \in DOMAIN m /\ m[k] \in Vector(E, cols) /\ old[k] \in Vector(E, cols)
                           /\ old[k][c] \in E
  BY DEF Matrix, Vector
<1>3. pivots \in 1 .. rows /\ p \in 1 .. rows
  OBVIOUS
<1>4. Zero(pivot) <=> Zero(m[pivots])
  <2>1. Dot(field, m[pivots], v) \in E /\ Dot(field, pivot, v) = mul(field, factor, Dot(field, m[pivots], v))
    BY <1>1, <1>2, <1>3, DotScaled
  <2>2. PICK d \in E : d = Dot(field, m[pivots], v)
    BY <2>1
  <2>3. mul(field, factor, o) = o /\ mul(field, back, o) = o
    BY Laws
  <2>4. mul(field, back, mul(field, factor, d)) = d
    <3>1. mul(field, mul(field, back, factor), d) = mul(field, back, mul(field, factor, d))
      BY DEF FieldLaws, TernaryLaws
    <3>2. mul(field, one(field), d) = d
      BY DEF FieldLaws, UnaryLaws
    <3> QED
      BY <1>1, <3>1, <3>2
  <2> HIDE DEF o
  <2> QED
    BY <2>1, <2>2, <2>3, <2>4
<1>5. ASSUME NEW k \in 1 .. rows, k # p, Zero(pivot) PROVE Zero(new[k]) <=> Zero(old[k])
  <2>1. CASE old[k][c] = o
    BY <1>1, <1>5, <2>1
  <2>2. CASE old[k][c] # o
    <3>1. PICK fac \in E : fac = old[k][c]
      BY <1>2
    <3>2. new[k] = Reduced(old[k], fac, pivot)
      BY <1>1, <1>5, <2>2, <3>1
    <3>3. /\ Dot(field, new[k], v) \in E
          /\ add(field, Dot(field, new[k], v), mul(field, fac, Dot(field, pivot, v))) = Dot(field, old[k], v)
      <4>1. PICK row \in Vector(E, cols) : row = old[k]
        BY <1>2
      <4>2. /\ Dot(field, Reduced(row, fac, pivot), v) \in E
            /\ add(field, Dot(field, Reduced(row, fac, pivot), v), mul(field, fac, Dot(field, pivot, v)))
                 = Dot(field, row, v)
        BY DotReduced
      <4> QED
        BY <3>2, <4>1, <4>2
    <3>4. mul(field, fac, o) = o /\ add(field, Dot(field, new[k], v), o) = Dot(field, new[k], v)
      BY <3>3, Laws
    <3> HIDE DEF o
    <3> QED
      BY <1>5, <3>3, <3>4
  <2> QED
    BY <2>1, <2>2
<1>6. (\A k \in 1 .. rows : Zero(new[k])) <=> (\A k \in 1 .. rows : Zero(old[k]))
  <2>1. old[p] = m[pivots] /\ new[p] = pivot
    BY <1>1, <1>2, <1>3
  <2> HIDE DEF Zero
  <2>2. Zero(new[p]) <=> Zero(old[p])
    BY <1>4, <2>1
  <2> QED
    BY <1>3, <1>5, <2>1, <2>2
<1>7. (\A k \in 1 .. rows : Zero(old[k])) <=> (\A k \in 1 .. rows : Zero(m[k]))
  <2>1. \A k \in 1 .. rows : old[k] = IF k = p THEN m[pivots] ELSE IF k = pivots THEN m[p] ELSE m[k]
    BY <1>1, <1>2, <1>3
  <2> HIDE DEF Zero
  <2>2. ASSUME \A k \in 1 .. rows : Zero(old[k]), NEW k \in 1 .. rows PROVE Zero(m[k])
    <3>1. Zero(old[p]) /\ Zero(old[pivots]) /\ Zero(old[k])
      BY <1>3, <2>2
    <3> QED
      BY <1>3, <2>1, <3>1
  <2>3. ASSUME \A k \in 1 .. rows : Zero(m[k]), NEW k \in 1 .. rows PROVE Zero(old[k])
    BY <1>3, <2>1, <2>3
  <2> QED
    BY <2>2, <2>3
<1>8. Orthogonal(field, new, v) <=> \A k \in 1 .. rows : Zero(new[k])
  BY <1>1, OrthogonalRows
<1>9. Orthogonal(field, m, v) <=> \A k \in 1 .. rows : Zero(m[k])
  BY OrthogonalRows
<1> HIDE DEF Zero
<1> QED
  BY <1>6, <1>7, <1>8, <1>9 DEF new

-----------------------------------------------------------------------------
(* The loop. *)

\* The state of the loop over a field E and a matrix of the given size: what
\* has been reduced, and that the solutions are those of the original.
Reducing(E, rows, cols, F, o, m, c, p) ==
    /\ FieldLaws(F, E) /\ \A n \in 0 .. F.bound - 1 : element(F, n) \in E
    /\ rows \in Nat /\ cols \in Nat /\ (rows = 0 => cols = 0)
    /\ o \in Matrix(E, rows, cols) /\ m \in Matrix(E, rows, cols)
    /\ c \in 1 .. cols + 1 /\ p \in 1 .. rows + 1
    /\ Echelon(F, rows, m, c, p)
    /\ \A v \in Vector(E, cols) : Orthogonal(F, m, v) <=> Orthogonal(F, o, v)

ReductionInv == \E E, rows, cols : Reducing(E, rows, cols, field, original, matrix, col, pivot_row)

\* A matrix and its field may be passed: the elements of the field obey its
\* laws and the entries are among them.
OverField(F, m) ==
    \E E, rows, cols :
      /\ FieldLaws(F, E) /\ \A n \in 0 .. F.bound - 1 : element(F, n) \in E
      /\ rows \in Nat /\ cols \in Nat /\ (rows = 0 => cols = 0)
      /\ m \in Matrix(E, rows, cols)

MatricesAreOverFields == \A m \in Matrices : OverField(m[1], m[2])

LEMMA SizeOfMatrix ==
    ASSUME NEW E, NEW rows \in Nat, NEW cols \in Nat, rows = 0 => cols = 0, matrix \in Matrix(E, rows, cols)
    PROVE  Rows = rows /\ Cols = cols
<1>1. DOMAIN matrix = 1 .. rows
  BY DEF Matrix
<1>2. Rows = rows
  BY DEF Rows, Matrix
<1>3. CASE rows = 0
  <2>1. matrix = <<>>
    BY <1>3 DEF Matrix
  <2> QED
    BY <1>2, <1>3, <2>1 DEF Cols
<1>4. CASE rows # 0
  <2>1. 1 \in 1 .. rows /\ matrix[1] \in Vector(E, cols)
    BY <1>4 DEF Matrix
  <2>2. matrix # <<>>
    BY <1>2, <1>4 DEF Rows
  <2>3. Len(matrix[1]) = cols
    BY <2>1 DEF Vector
  <2> QED
    BY <1>2, <2>2, <2>3 DEF Cols
<1> QED
  BY <1>3, <1>4

LEMMA ReductionStarts ==
    ASSUME MatricesAreOverFields, RowReduceInit
    PROVE  ReductionInv
<1>1. PICK m \in Matrices : field = m[1] /\ original = m[2]
  BY DEF RowReduceInit
<1>2. OverField(field, original)
  BY <1>1 DEF MatricesAreOverFields
<1>3. PICK E, rows, cols :
      /\ FieldLaws(field, E) /\ \A n \in 0 .. field.bound - 1 : element(field, n) \in E
      /\ rows \in Nat /\ cols \in Nat /\ (rows = 0 => cols = 0)
      /\ original \in Matrix(E, rows, cols)
  BY <1>2 DEF OverField
<1>4. matrix = original /\ col = 1 /\ pivot_row = 1
  BY DEF RowReduceInit
<1>5. Echelon(field, rows, matrix, col, pivot_row)
  <2> DEFINE lead == [k \in 1 .. 1 - 1 |-> 1]
  <2>1. lead \in [1 .. 1 - 1 -> 1 .. 1 - 1] /\ \A k \in 1 .. 1 - 1 : FALSE
    BY Z3
  <2> HIDE DEF lead
  <2>2. \A e \in 1 .. 1 - 1 : FALSE
    BY Z3
  <2> QED
    BY <1>3, <1>4, <2>1, <2>2 DEF Echelon
<1>6. col \in 1 .. cols + 1 /\ pivot_row \in 1 .. rows + 1
  BY <1>3, <1>4
<1>7. Reducing(E, rows, cols, field, original, matrix, col, pivot_row)
  BY <1>3, <1>4, <1>5, <1>6, Zenon DEF Reducing
<1> QED
  BY <1>7, Zenon DEF ReductionInv

\* The first entry of the column at or below the row, if there is one.
LEMMA SelectedRow ==
    ASSUME NEW E, FieldLaws(field, E), NEW rows \in Nat, NEW cols \in Nat, NEW m \in Matrix(E, rows, cols),
           NEW c \in 1 .. cols, NEW p \in 1 .. rows
    PROVE  \/ Selected(m, c, p) = rows + 1 /\ \A l \in p .. rows : m[l][c] = zero(field)
           \/ Selected(m, c, p) \in p .. rows /\ m[Selected(m, c, p)][c] # zero(field)
<1> DEFINE candidates == {k \in p .. Len(m) : ~is_zero(field, m[k][c])}
<1>1. Len(m) = rows
  BY DEF Matrix
<1>2. \A k \in p .. rows : m[k][c] \in E
  BY DEF Matrix, Vector
<1>3. candidates = {k \in p .. rows : m[k][c] # zero(field)}
  <2>1. \A e \in E : is_zero(field, e) <=> e = zero(field)
    BY DEF FieldLaws, UnaryLaws
  <2>2. \A k \in p .. rows : is_zero(field, m[k][c]) <=> m[k][c] = zero(field)
    BY <1>2, <2>1
  <2> QED
    BY <1>1, <2>2
<1> HIDE DEF candidates
<1>4. Selected(m, c, p) = IF candidates = {} THEN rows + 1 ELSE Min(candidates)
  BY <1>1 DEF Selected, candidates
<1>5. CASE candidates = {}
  BY <1>3, <1>4, <1>5
<1>6. CASE candidates # {}
  <2>1. candidates \in SUBSET Nat
    BY <1>3
  <2>2. PICK n \in candidates : \A k \in candidates : n <= k
    BY <1>6, <2>1, LeastElement
  <2>3. Min(candidates) \in candidates
    BY <2>2 DEF Min
  <2>4. Selected(m, c, p) \in candidates
    BY <1>4, <1>6, <2>3
  <2> QED
    BY <1>3, <2>4
<1> QED
  BY <1>5, <1>6

\* The columns so far stay in echelon form when the next one has no pivot.
LEMMA EchelonSkips ==
    ASSUME NEW F, NEW rows \in Nat, NEW m, NEW c \in Nat \ {0}, NEW p \in 1 .. rows, Echelon(F, rows, m, c, p),
           \A l \in p .. rows : m[l][c] = zero(F)
    PROVE  Echelon(F, rows, m, c + 1, p)
<1>1. PICK lead \in [1 .. p - 1 -> 1 .. c - 1] :
        \A k \in 1 .. p - 1 :
           /\ m[k][lead[k]] = one(F)
           /\ \A e \in 1 .. lead[k] - 1 : m[k][e] = zero(F)
           /\ \A l \in 1 .. rows : l # k => m[l][lead[k]] = zero(F)
           /\ \A l \in 1 .. p - 1 : k < l => lead[k] < lead[l]
  BY DEF Echelon
<1>2. lead \in [1 .. p - 1 -> 1 .. (c + 1) - 1]
  BY 1 .. c - 1 \subseteq 1 .. (c + 1) - 1
<1>3. ASSUME NEW l \in p .. rows, NEW e \in 1 .. (c + 1) - 1 PROVE m[l][e] = zero(F)
  <2>1. e = c \/ e \in 1 .. c - 1
    OBVIOUS
  <2> QED
    BY <2>1 DEF Echelon
<1> QED
  BY <1>1, <1>2, <1>3 DEF Echelon

\* It goes on with the row of the new pivot.
LEMMA EchelonGrows ==
    ASSUME NEW F, NEW rows \in Nat, NEW m, NEW new, NEW c \in Nat \ {0}, NEW p \in 1 .. rows,
           Echelon(F, rows, m, c, p),
           new[p][c] = one(F),
           \A k \in 1 .. rows : k # p => new[k][c] = zero(F),
           \A k \in 1 .. rows : \A e \in 1 .. c - 1 : new[k][e] = m[k][e]
    PROVE  Echelon(F, rows, new, c + 1, p + 1)
<1>1. PICK lead \in [1 .. p - 1 -> 1 .. c - 1] :
        \A k \in 1 .. p - 1 :
           /\ m[k][lead[k]] = one(F)
           /\ \A e \in 1 .. lead[k] - 1 : m[k][e] = zero(F)
           /\ \A l \in 1 .. rows : l # k => m[l][lead[k]] = zero(F)
           /\ \A l \in 1 .. p - 1 : k < l => lead[k] < lead[l]
  BY DEF Echelon
<1>2. \A k \in 1 .. p - 1 : lead[k] \in 1 .. c - 1 /\ k \in 1 .. rows /\ k # p
  OBVIOUS
<1> DEFINE more == [k \in 1 .. (p + 1) - 1 |-> IF k = p THEN c ELSE lead[k]]
<1>3. more \in [1 .. (p + 1) - 1 -> 1 .. (c + 1) - 1]
  <2> SUFFICES ASSUME NEW k \in 1 .. (p + 1) - 1
               PROVE  (IF k = p THEN c ELSE lead[k]) \in 1 .. (c + 1) - 1
    OBVIOUS
  <2>1. k = p \/ k \in 1 .. p - 1
    OBVIOUS
  <2> QED
    BY <1>2, <2>1
<1>4. more[p] = c /\ \A k \in 1 .. p - 1 : more[k] = lead[k]
  OBVIOUS
<1> HIDE DEF more
<1>5. ASSUME NEW k \in 1 .. p - 1
      PROVE  /\ new[k][more[k]] = one(F)
             /\ \A e \in 1 .. more[k] - 1 : new[k][e] = zero(F)
             /\ \A l \in 1 .. rows : l # k => new[l][more[k]] = zero(F)
             /\ \A l \in 1 .. (p + 1) - 1 : k < l => more[k] < more[l]
  <2>1. more[k] = lead[k] /\ lead[k] \in 1 .. c - 1 /\ k \in 1 .. rows
    BY <1>2, <1>4
  <2>2. new[k][more[k]] = one(F)
    BY <1>1, <2>1
  <2>3. \A e \in 1 .. more[k] - 1 : new[k][e] = zero(F)
    <3> TAKE e \in 1 .. more[k] - 1
    <3>1. e \in 1 .. lead[k] - 1 /\ e \in 1 .. c - 1
      BY <2>1
    <3>2. m[k][e] = zero(F)
      BY <1>1, <3>1
    <3>3. new[k][e] = m[k][e]
      BY <2>1, <3>1
    <3> QED
      BY <3>2, <3>3
  <2>4. \A l \in 1 .. rows : l # k => new[l][more[k]] = zero(F)
    <3> SUFFICES ASSUME NEW l \in 1 .. rows, l # k PROVE new[l][more[k]] = zero(F)
      OBVIOUS
    <3>1. m[l][lead[k]] = zero(F)
      BY <1>1
    <3>2. new[l][lead[k]] = m[l][lead[k]]
      BY <2>1
    <3> QED
      BY <2>1, <3>1, <3>2
  <2>5. \A l \in 1 .. (p + 1) - 1 : k < l => more[k] < more[l]
    <3> TAKE l \in 1 .. (p + 1) - 1
    <3>1. l = p \/ l \in 1 .. p - 1
      OBVIOUS
    <3>2. CASE l = p
      BY <1>4, <2>1, <3>2
    <3>3. CASE l \in 1 .. p - 1
      BY <1>1, <1>4, <2>1, <3>3
    <3> QED
      BY <3>1, <3>2, <3>3
  <2> QED
    BY <2>2, <2>3, <2>4, <2>5
<1>6. \A e \in 1 .. c - 1 : m[p][e] = zero(F)
  <2>1. p \in p .. rows
    OBVIOUS
  <2> QED
    BY <2>1 DEF Echelon
<1>12. p \in 1 .. rows /\ (\A e \in 1 .. c - 1 : new[p][e] = zero(F)) /\ \A l \in 1 .. (p + 1) - 1 : ~(p < l)
  BY <1>6
<1>7. /\ new[p][more[p]] = one(F)
      /\ \A e \in 1 .. more[p] - 1 : new[p][e] = zero(F)
      /\ \A l \in 1 .. rows : l # p => new[l][more[p]] = zero(F)
      /\ \A l \in 1 .. (p + 1) - 1 : p < l => more[p] < more[l]
  BY <1>4, <1>12
<1>8. ASSUME NEW l \in p + 1 .. rows, NEW e \in 1 .. (c + 1) - 1 PROVE new[l][e] = zero(F)
  <2>1. (e = c \/ e \in 1 .. c - 1) /\ l \in p .. rows /\ l \in 1 .. rows /\ l # p
    OBVIOUS
  <2>2. e \in 1 .. c - 1 => m[l][e] = zero(F)
    BY <2>1 DEF Echelon
  <2> QED
    BY <2>1, <2>2
<1>9. \A k \in 1 .. (p + 1) - 1 : k = p \/ k \in 1 .. p - 1
  OBVIOUS
<1>10. \A k \in 1 .. (p + 1) - 1 :
           /\ new[k][more[k]] = one(F)
           /\ \A e \in 1 .. more[k] - 1 : new[k][e] = zero(F)
           /\ \A l \in 1 .. rows : l # k => new[l][more[k]] = zero(F)
           /\ \A l \in 1 .. (p + 1) - 1 : k < l => more[k] < more[l]
  BY <1>5, <1>7, <1>9, Zenon
<1>11. \A l \in p + 1 .. rows : \A e \in 1 .. (c + 1) - 1 : new[l][e] = zero(F)
  BY <1>8
<1> QED
  BY <1>3, <1>10, <1>11, Zenon DEF Echelon

\* One column keeps the invariant.
LEMMA ReductionSteps ==
    ASSUME ReductionInv, Eliminate
    PROVE  ReductionInv'
<1>1. PICK E, rows, cols : Reducing(E, rows, cols, field, original, matrix, col, pivot_row)
  BY Zenon DEF ReductionInv
<1>0. /\ FieldLaws(field, E) /\ \A n \in 0 .. field.bound - 1 : element(field, n) \in E
      /\ rows \in Nat /\ cols \in Nat /\ (rows = 0 => cols = 0)
      /\ original \in Matrix(E, rows, cols) /\ matrix \in Matrix(E, rows, cols)
      /\ col \in 1 .. cols + 1 /\ pivot_row \in 1 .. rows + 1
      /\ Echelon(field, rows, matrix, col, pivot_row)
      /\ \A v \in Vector(E, cols) : Orthogonal(field, matrix, v) <=> Orthogonal(field, original, v)
  BY <1>1, Zenon DEF Reducing
<1>2. Rows = rows /\ Cols = cols
  BY <1>0, SizeOfMatrix
<1>3. col \in 1 .. cols /\ pivot_row \in 1 .. rows
  BY <1>0, <1>2 DEF Eliminate, Running
<1> DEFINE pivots == Selected(matrix, col, pivot_row)
<1>4. /\ field' = field /\ original' = original /\ col' = col + 1
      /\ pivots = rows + 1 => matrix' = matrix /\ pivot_row' = pivot_row
      /\ pivots # rows + 1 => /\ matrix' = Target(matrix, col, pivot_row, pivots)
                              /\ pivot_row' = pivot_row + 1
  BY <1>0, <1>2 DEF Eliminate, Target
<1>5. \/ pivots = rows + 1 /\ \A l \in pivot_row .. rows : matrix[l][col] = zero(field)
      \/ pivots \in pivot_row .. rows /\ matrix[pivots][col] # zero(field)
  <2>1. \/ Selected(matrix, col, pivot_row) = rows + 1
           /\ \A l \in pivot_row .. rows : matrix[l][col] = zero(field)
        \/ Selected(matrix, col, pivot_row) \in pivot_row .. rows
           /\ matrix[Selected(matrix, col, pivot_row)][col] # zero(field)
    <3> HIDE DEF pivots
    <3>1. FieldLaws(field, E) /\ matrix \in Matrix(E, rows, cols)
      BY <1>0
    <3>2. rows \in Nat /\ cols \in Nat
      BY <1>0
    <3> QED
      BY <1>3, <3>1, <3>2, SelectedRow
  <2> QED
    BY <2>1
<1> HIDE DEF pivots
<1>6. col' \in 1 .. cols + 1 /\ pivot_row' \in 1 .. rows + 1
  BY <1>0, <1>3, <1>4
<1>7. CASE pivots = rows + 1
  <2>1. \A l \in pivot_row .. rows : matrix[l][col] = zero(field)
    BY <1>0, <1>5, <1>7
  <2>2. Echelon(field, rows, matrix, col + 1, pivot_row)
    BY <1>0, <1>3, <2>1, EchelonSkips
  <2>3. Reducing(E, rows, cols, field', original', matrix', col', pivot_row')
    BY <1>0, <1>4, <1>6, <1>7, <2>2 DEF Reducing
  <2> QED
    BY <2>3, Zenon DEF ReductionInv
<1>8. CASE pivots # rows + 1
  <2> DEFINE new == Target(matrix, col, pivot_row, pivots)
  <2>1. Pivoted(E, rows, cols, matrix, col, pivot_row, pivots)
    BY <1>0, <1>3, <1>5, <1>8 DEF Pivoted
  <2>2. Made(E, rows, cols, matrix, col, pivot_row, pivots, new)
    BY <2>1, TargetRows
  <2>3. new \in Matrix(E, rows, cols)
    BY <2>2 DEF Made
  <2>4. \A l \in pivot_row .. rows : \A e \in 1 .. col - 1 : matrix[l][e] = zero(field)
    BY <1>0 DEF Echelon
  <2>5. /\ new[pivot_row][col] = one(field)
        /\ \A k \in 1 .. rows : k # pivot_row => new[k][col] = zero(field)
        /\ \A k \in 1 .. rows : \A e \in 1 .. col - 1 : new[k][e] = matrix[k][e]
    BY <2>1, <2>4, TargetEntries
  <2>6. \A v \in Vector(E, cols) : Orthogonal(field, new, v) <=> Orthogonal(field, matrix, v)
    BY <2>1, TargetSolutions
  <2> HIDE DEF new
  <2>7. Echelon(field, rows, new, col + 1, pivot_row + 1)
    <3>1. col \in Nat \ {0}
      BY <1>3
    <3> QED
      BY <1>0, <1>3, <2>5, <3>1, EchelonGrows
  <2>8. Reducing(E, rows, cols, field', original', matrix', col', pivot_row')
    <3>1. matrix' = new /\ pivot_row' = pivot_row + 1
      BY <1>4, <1>8 DEF new
    <3> QED
      BY <1>0, <1>4, <1>6, <2>3, <2>6, <2>7, <3>1 DEF Reducing
  <2> QED
    BY <2>8, Zenon DEF ReductionInv
<1> QED
  BY <1>7, <1>8

-----------------------------------------------------------------------------
\* The column of the first entry of a row.
LEMMA LeadingColumn ==
    ASSUME NEW E, FieldLaws(field, E), NEW cols \in Nat, Cols = cols, NEW row \in Vector(E, cols)
    PROVE  /\ (\A e \in 1 .. cols : row[e] = zero(field)) => Leading(row) = cols + 1
           /\ \A c \in 1 .. cols :
                row[c] = one(field) /\ (\A e \in 1 .. c - 1 : row[e] = zero(field)) => Leading(row) = c
<1> DEFINE entries == {c \in DOMAIN row : ~is_zero(field, row[c])}
<1>1. DOMAIN row = 1 .. cols /\ \A c \in 1 .. cols : row[c] \in E
  BY DEF Vector
<1>2. \A c \in 1 .. cols : is_zero(field, row[c]) <=> row[c] = zero(field)
  <2>1. \A e \in E : is_zero(field, e) <=> e = zero(field)
    BY DEF FieldLaws, UnaryLaws
  <2> QED
    BY <1>1, <2>1
<1>3. entries = {c \in 1 .. cols : row[c] # zero(field)}
  BY <1>1, <1>2
<1>4. Leading(row) = IF entries = {} THEN cols + 1 ELSE Min(entries)
  BY DEF Leading
<1> HIDE DEF entries
<1>5. ASSUME \A e \in 1 .. cols : row[e] = zero(field) PROVE Leading(row) = cols + 1
  BY <1>3, <1>4, <1>5
<1>6. ASSUME NEW c \in 1 .. cols, row[c] = one(field), \A e \in 1 .. c - 1 : row[e] = zero(field)
      PROVE  Leading(row) = c
  <2>1. one(field) # zero(field)
    BY DEF FieldLaws, UnaryLaws
  <2>2. c \in entries
    BY <1>3, <1>6, <2>1
  <2>3. \A k \in entries : c <= k
    <3> TAKE k \in entries
    <3>1. k \in 1 .. cols /\ row[k] # zero(field)
      BY <1>3
    <3> QED
      BY <1>6, <3>1
  <2>4. Min(entries) \in entries /\ \A k \in entries : Min(entries) <= k
    BY <2>2, <2>3 DEF Min
  <2>5. Min(entries) \in 1 .. cols
    BY <1>3, <2>4
  <2> QED
    BY <1>4, <2>2, <2>3, <2>4, <2>5
<1> QED
  BY <1>5, <1>6

LEMMA InvEndsReduced == ReductionInv => EndsReduced
<1> SUFFICES ASSUME ReductionInv, ~Running PROVE EndsReduced
  BY DEF EndsReduced
<1>1. PICK E, rows, cols : Reducing(E, rows, cols, field, original, matrix, col, pivot_row)
  BY Zenon DEF ReductionInv
<1>0. /\ FieldLaws(field, E) /\ \A n \in 0 .. field.bound - 1 : element(field, n) \in E
      /\ rows \in Nat /\ cols \in Nat /\ (rows = 0 => cols = 0)
      /\ original \in Matrix(E, rows, cols) /\ matrix \in Matrix(E, rows, cols)
      /\ col \in 1 .. cols + 1 /\ pivot_row \in 1 .. rows + 1
      /\ Echelon(field, rows, matrix, col, pivot_row)
      /\ \A v \in Vector(E, cols) : Orthogonal(field, matrix, v) <=> Orthogonal(field, original, v)
  BY <1>1, Zenon DEF Reducing
<1>2. Rows = rows /\ Cols = cols
  BY <1>0, SizeOfMatrix
<1>3. DOMAIN matrix = 1 .. rows /\ \A k \in 1 .. rows : matrix[k] \in Vector(E, cols)
  BY <1>0 DEF Matrix
<1>4. col = cols + 1 \/ pivot_row = rows + 1
  BY <1>0, <1>2 DEF Running
<1>5. PICK lead \in [1 .. pivot_row - 1 -> 1 .. col - 1] :
        \A k \in 1 .. pivot_row - 1 :
           /\ matrix[k][lead[k]] = one(field)
           /\ \A e \in 1 .. lead[k] - 1 : matrix[k][e] = zero(field)
           /\ \A l \in 1 .. rows : l # k => matrix[l][lead[k]] = zero(field)
           /\ \A l \in 1 .. pivot_row - 1 : k < l => lead[k] < lead[l]
  BY <1>0 DEF Echelon
<1>6. ASSUME NEW k \in 1 .. pivot_row - 1
      PROVE  k \in 1 .. rows /\ lead[k] \in 1 .. cols /\ Leading(matrix[k]) = lead[k]
  <2>1. k \in 1 .. rows /\ lead[k] \in 1 .. cols
    BY <1>0
  <2>2. PICK row \in Vector(E, cols) : row = matrix[k]
    BY <1>3, <2>1
  <2>3. PICK c \in 1 .. cols : c = lead[k]
    BY <2>1
  <2>4. row[c] = one(field) /\ \A e \in 1 .. c - 1 : row[e] = zero(field)
    BY <1>5, <2>2, <2>3
  <2>5. Leading(row) = c
    BY <1>0, <1>2, <2>4, LeadingColumn
  <2> QED
    BY <2>1, <2>2, <2>3, <2>5
<1>7. ASSUME NEW k \in 1 .. rows, k \notin 1 .. pivot_row - 1
      PROVE  Leading(matrix[k]) = cols + 1
  <2>1. k \in pivot_row .. rows /\ col = cols + 1
    BY <1>0, <1>4, <1>7
  <2>2. \A e \in 1 .. cols : matrix[k][e] = zero(field)
    BY <1>0, <2>1 DEF Echelon
  <2> QED
    BY <1>0, <1>2, <1>3, <2>2, LeadingColumn
<1>8. ASSUME NEW k \in 1 .. rows, NEW l \in k + 1 .. rows
      PROVE  Leading(matrix[l]) > (IF Leading(matrix[k]) > cols THEN cols ELSE Leading(matrix[k]))
  <2>1. l \in 1 .. rows /\ k < l
    BY <1>0
  <2>2. CASE l \in 1 .. pivot_row - 1
    <3>1. k \in 1 .. pivot_row - 1
      BY <1>0, <2>1, <2>2
    <3>2. lead[k] < lead[l]
      BY <1>5, <2>1, <2>2, <3>1
    <3> QED
      BY <1>0, <1>6, <2>2, <3>1, <3>2
  <2>3. CASE l \notin 1 .. pivot_row - 1
    <3>1. Leading(matrix[l]) = cols + 1
      BY <1>7, <2>1, <2>3
    <3>2. Leading(matrix[k]) \in 1 .. cols + 1
      BY <1>0, <1>6, <1>7
    <3> QED
      BY <1>0, <3>1, <3>2
  <2> QED
    BY <2>2, <2>3
<1>9. ASSUME NEW k \in 1 .. rows, Leading(matrix[k]) <= cols
      PROVE  /\ matrix[k][Leading(matrix[k])] = one(field)
             /\ \A l \in 1 .. rows \ {k} : is_zero(field, matrix[l][Leading(matrix[k])])
  <2>1. k \in 1 .. pivot_row - 1
    BY <1>0, <1>7, <1>9
  <2>2. Leading(matrix[k]) = lead[k] /\ matrix[k][lead[k]] = one(field)
        /\ \A l \in 1 .. rows : l # k => matrix[l][lead[k]] = zero(field)
    BY <1>5, <1>6, <2>1
  <2>3. is_zero(field, zero(field))
    BY <1>0 DEF FieldLaws, UnaryLaws
  <2> QED
    BY <2>2, <2>3
<1> QED
  BY <1>2, <1>3, <1>8, <1>9 DEF EndsReduced

LEMMA InvSolutionsKept == ReductionInv => SolutionsKept
<1> SUFFICES ASSUME ReductionInv PROVE SolutionsKept
  OBVIOUS
<1>1. PICK E, rows, cols : Reducing(E, rows, cols, field, original, matrix, col, pivot_row)
  BY Zenon DEF ReductionInv
<1>0. /\ FieldLaws(field, E) /\ \A n \in 0 .. field.bound - 1 : element(field, n) \in E
      /\ rows \in Nat /\ cols \in Nat /\ (rows = 0 => cols = 0)
      /\ original \in Matrix(E, rows, cols) /\ matrix \in Matrix(E, rows, cols)
      /\ col \in 1 .. cols + 1 /\ pivot_row \in 1 .. rows + 1
      /\ Echelon(field, rows, matrix, col, pivot_row)
      /\ \A v \in Vector(E, cols) : Orthogonal(field, matrix, v) <=> Orthogonal(field, original, v)
  BY <1>1, Zenon DEF Reducing
<1>2. Cols = cols
  BY <1>0, SizeOfMatrix
<1> DEFINE elements == {element(field, n) : n \in 0 .. field.bound - 1}
<1>3. elements \subseteq E
  BY <1>0
<1>4. ASSUME NEW v \in [1 .. cols -> elements]
      PROVE  Orthogonal(field, matrix, v) <=> Orthogonal(field, original, v)
  <2>1. v \in Vector(E, cols)
    BY <1>3 DEF Vector
  <2> QED
    BY <1>0, <2>1
<1> QED
  BY <1>2, <1>4 DEF SolutionsKept

\* For every matrix over a field, of any size, row_reduce keeps the solutions
\* of the linear system in every step and ends in reduced row echelon form.
THEOREM RowReduceIsRight ==
    ASSUME MatricesAreOverFields
    PROVE  RowReduceSpec => []ReducesTheSystem
<1>1. RowReduceInit => ReductionInv
  BY ReductionStarts
<1>2. ReductionInv /\ [Eliminate]_rowVars => ReductionInv'
  <2> SUFFICES ASSUME ReductionInv, [Eliminate]_rowVars PROVE ReductionInv'
    OBVIOUS
  <2>1. CASE Eliminate
    BY <2>1, ReductionSteps
  <2>2. CASE UNCHANGED rowVars
    BY <2>2 DEF rowVars, ReductionInv
  <2> QED
    BY <2>1, <2>2
<1>3. ReductionInv => ReducesTheSystem
  BY InvEndsReduced, InvSolutionsKept DEF ReducesTheSystem
<1> QED
  BY <1>1, <1>2, <1>3, PTL DEF RowReduceSpec

-----------------------------------------------------------------------------
(* POLYNOMIALS *)

(* Recursion over a range. *)

\* A function that a recursion defines, and steps that stay in a set.
Recurs(n, T, start, step, h) ==
    h \in [0 .. n -> T] /\ h[0] = start /\ \A k \in 1 .. n : h[k] = step[k][h[k - 1]]
StaysIn(n, T, step) == \A k \in 1 .. n, u \in T : step[k][u] \in T

IsOrbit(T, start, step, h) ==
    h \in [Nat -> T] /\ h[0] = start /\ \A n \in Nat : h[n + 1] = step[h[n]]

LEMMA Orbit ==
    ASSUME NEW T, NEW start \in T, NEW step \in [T -> T]
    PROVE  \E h : IsOrbit(T, start, step, h)
<1>1. PICK h \in [Nat -> T] : h[0] = start /\ \A n \in Nat : h[n + 1] = step[h[n]]
  BY Iterates
<1> QED
  BY <1>1 DEF IsOrbit

LEMMA Recurrence ==
    ASSUME NEW n \in Nat, NEW T, NEW start \in T, NEW step, StaysIn(n, T, step)
    PROVE  \E h : Recurs(n, T, start, step, h)
<1> DEFINE S == Nat \X T
           following(st) == <<st[1] + 1, IF st[1] + 1 <= n THEN step[st[1] + 1][st[2]] ELSE st[2]>>
           go == [st \in S |-> following(st)]
<1>1. <<0, start>> \in S
  OBVIOUS
<1>2. ASSUME NEW st \in S PROVE following(st) \in S
  <2>1. st[1] \in Nat /\ st[2] \in T
    OBVIOUS
  <2>2. st[1] + 1 <= n => step[st[1] + 1][st[2]] \in T
    <3> SUFFICES ASSUME st[1] + 1 <= n PROVE step[st[1] + 1][st[2]] \in T
      OBVIOUS
    <3>1. st[1] + 1 \in 1 .. n
      BY <2>1
    <3> QED
      BY <2>1, <3>1 DEF StaysIn
  <2> QED
    BY <2>1, <2>2
<1>3. go \in [S -> S]
  BY <1>2
<1>4. PICK st : IsOrbit(S, <<0, start>>, go, st)
  <2> HIDE DEF S, go
  <2> QED
    BY <1>1, <1>3, Orbit
<1>5. \A k \in Nat : st[k] \in S /\ st[k + 1] = following(st[k])
  BY <1>4 DEF IsOrbit
<1> DEFINE A == {k \in Nat : st[k][1] = k}
<1>6. \A k \in Nat : k \in A
  <2>1. 0 \in A
    BY <1>4 DEF IsOrbit
  <2>2. ASSUME NEW k \in Nat, k \in A PROVE k + 1 \in A
    <3>1. st[k][1] = k /\ st[k + 1][1] = st[k][1] + 1
      BY <1>5, <2>2
    <3> QED
      BY <3>1
  <2> HIDE DEF A
  <2> QED
    BY <2>1, <2>2, SetInduction
<1>7. \A k \in Nat : st[k][1] = k /\ st[k][2] \in T
  BY <1>5, <1>6
<1> DEFINE h == [k \in 0 .. n |-> st[k][2]]
<1>8. h \in [0 .. n -> T]
  BY <1>7
<1>9. h[0] = start
  BY <1>4 DEF IsOrbit
<1>10. ASSUME NEW k \in 1 .. n PROVE h[k] = step[k][h[k - 1]]
  <2>1. k - 1 \in Nat /\ k - 1 \in 0 .. n /\ k \in 0 .. n /\ (k - 1) + 1 = k
    OBVIOUS
  <2>2. st[k] = following(st[k - 1]) /\ st[k - 1][1] = k - 1
    BY <1>5, <1>7, <2>1
  <2>3. st[k][2] = step[k][st[k - 1][2]]
    BY <2>1, <2>2
  <2> QED
    BY <2>1, <2>3
<1> QED
  BY <1>8, <1>9, <1>10 DEF Recurs

-----------------------------------------------------------------------------
(* The order of monomials. *)

Monomials(n) == [1 .. n -> Nat]

LEMMA GreaterIsStrict == ASSUME NEW n \in Nat, NEW m \in Monomials(n) PROVE ~Greater(m, m)
  BY DEF Greater, Monomials

LEMMA GreaterIsTransitive ==
    ASSUME NEW n \in Nat, NEW l \in Monomials(n), NEW m \in Monomials(n), NEW o \in Monomials(n),
           Greater(l, m), Greater(m, o)
    PROVE  Greater(l, o)
<1>1. PICK i \in 1 .. n : l[i] > m[i] /\ \A k \in 1 .. i - 1 : l[k] = m[k]
  BY DEF Greater, Monomials
<1>2. PICK j \in 1 .. n : m[j] > o[j] /\ \A k \in 1 .. j - 1 : m[k] = o[k]
  BY DEF Greater, Monomials
<1>3. \A k \in 1 .. n : l[k] \in Nat /\ m[k] \in Nat /\ o[k] \in Nat
  BY DEF Monomials
<1>4. DOMAIN l = 1 .. n
  BY DEF Monomials
<1>5. CASE i < j
  <2>1. l[i] > o[i] /\ \A k \in 1 .. i - 1 : l[k] = o[k]
    BY <1>1, <1>2, <1>3, <1>5
  <2> QED
    BY <1>4, <2>1 DEF Greater
<1>6. CASE i = j
  <2>1. l[i] > o[i] /\ \A k \in 1 .. i - 1 : l[k] = o[k]
    BY <1>1, <1>2, <1>3, <1>6
  <2> QED
    BY <1>4, <2>1 DEF Greater
<1>7. CASE i > j
  <2>1. l[j] > o[j] /\ \A k \in 1 .. j - 1 : l[k] = o[k]
    BY <1>1, <1>2, <1>3, <1>7
  <2> QED
    BY <1>4, <2>1 DEF Greater
<1> QED
  BY <1>5, <1>6, <1>7

LEMMA GreaterIsTotal ==
    ASSUME NEW n \in Nat, NEW l \in Monomials(n), NEW m \in Monomials(n), l # m
    PROVE  Greater(l, m) \/ Greater(m, l)
<1> DEFINE D == {k \in 1 .. n : l[k] # m[k]}
<1>1. D # {} /\ D \in SUBSET Nat
  <2>1. \E k \in 1 .. n : l[k] # m[k]
    BY DEF Monomials
  <2> QED
    BY <2>1
<1>2. PICK k \in D : \A j \in D : k <= j
  <2> HIDE DEF D
  <2> QED
    BY <1>1, LeastElement
<1>3. k \in 1 .. n /\ l[k] # m[k] /\ \A j \in 1 .. k - 1 : l[j] = m[j] /\ m[j] = l[j]
  BY <1>2
<1>4. l[k] \in Nat /\ m[k] \in Nat /\ DOMAIN l = 1 .. n /\ DOMAIN m = 1 .. n
  BY <1>3 DEF Monomials
<1>5. l[k] > m[k] \/ m[k] > l[k]
  BY <1>3, <1>4
<1> QED
  BY <1>3, <1>4, <1>5 DEF Greater

LEMMA GreaterIsOneWay ==
    ASSUME NEW n \in Nat, NEW l \in Monomials(n), NEW m \in Monomials(n), Greater(l, m)
    PROVE  ~Greater(m, l) /\ l # m
  BY GreaterIsTransitive, GreaterIsStrict

\* Every term is greater than all behind it.
Strict(terms) ==
    \A j, k \in DOMAIN terms : j < k => Greater(terms[j][1], terms[k][1])

MonomialsOf(terms, n) == \A k \in DOMAIN terms : terms[k][1] \in Monomials(n)

LEMMA DescendingIsStrict ==
    ASSUME NEW n \in Nat, NEW A, NEW terms \in Seq(A), MonomialsOf(terms, n)
    PROVE  Descending(terms) <=> Strict(terms)
<1>1. Len(terms) \in Nat /\ DOMAIN terms = 1 .. Len(terms)
  OBVIOUS
<1>2. Strict(terms) => Descending(terms)
  BY <1>1 DEF Strict, Descending
<1>3. ASSUME Descending(terms) PROVE Strict(terms)
  <2> DEFINE B == {i \in Nat : \A j \in DOMAIN terms : j < i /\ i \in DOMAIN terms =>
                                 Greater(terms[j][1], terms[i][1])}
  <2>1. 0 \in B
    BY <1>1
  <2>2. ASSUME NEW i \in Nat, i \in B PROVE i + 1 \in B
    <3> SUFFICES ASSUME NEW j \in DOMAIN terms, j < i + 1, i + 1 \in DOMAIN terms
                 PROVE  Greater(terms[j][1], terms[i + 1][1])
      OBVIOUS
    <3>1. i + 1 \in 2 .. Len(terms) /\ (i + 1) - 1 = i /\ i \in DOMAIN terms
      BY <1>1
    <3>2. Greater(terms[i][1], terms[i + 1][1])
      <4>1. Greater(terms[(i + 1) - 1][1], terms[i + 1][1])
        BY <1>3, <3>1 DEF Descending
      <4> QED
        BY <3>1, <4>1
    <3>3. CASE j = i
      BY <3>2, <3>3
    <3>4. CASE j < i
      <4>1. Greater(terms[j][1], terms[i][1])
        BY <2>2, <3>1, <3>4
      <4>2. terms[j][1] \in Monomials(n) /\ terms[i][1] \in Monomials(n) /\ terms[i + 1][1] \in Monomials(n)
        BY <3>1 DEF MonomialsOf
      <4> QED
        BY <3>2, <4>1, <4>2, GreaterIsTransitive
    <3> QED
      BY <1>1, <3>3, <3>4
  <2>3. \A i \in Nat : i \in B
    <3> HIDE DEF B
    <3> QED
      BY <2>1, <2>2, SetInduction
  <2> QED
    BY <1>1, <2>3 DEF Strict
<1> QED
  BY <1>2, <1>3

\* Induction over a range.
LEMMA RangeInduction ==
    ASSUME NEW n \in Nat, NEW S, 0 \in S, \A k \in 1 .. n : k - 1 \in S => k \in S
    PROVE  \A k \in 0 .. n : k \in S
<1> DEFINE U == {k \in Nat : k <= n => k \in S}
<1>1. 0 \in U
  OBVIOUS
<1>2. ASSUME NEW k \in Nat, k \in U PROVE k + 1 \in U
  <2> SUFFICES ASSUME k + 1 <= n PROVE k + 1 \in S
    OBVIOUS
  <2>1. k + 1 \in 1 .. n /\ (k + 1) - 1 = k /\ k \in S
    BY <1>2
  <2> QED
    BY <2>1
<1>3. \A k \in Nat : k \in U
  <2> HIDE DEF U
  <2> QED
    BY <1>1, <1>2, SetInduction
<1> QED
  BY <1>3

-----------------------------------------------------------------------------
(* The terms at some places. *)

ChoosesBySteps(h, A, terms, places) ==
    /\ h \in [0 .. Len(terms) -> Seq(A)]
    /\ h[0] = <<>>
    /\ \A k \in 1 .. Len(terms) :
         h[k] = IF k \in places THEN Append(h[k - 1], terms[k]) ELSE h[k - 1]
    /\ chosen(terms, places) = h[Len(terms)]

LEMMA ChosenSteps ==
    ASSUME NEW A, NEW terms \in Seq(A), NEW places
    PROVE  \E h : ChoosesBySteps(h, A, terms, places)
<1> DEFINE n == Len(terms)
           T == Seq(A)
           kept[k \in 0 .. Len(terms)] ==
             IF k = 0 THEN <<>>
             ELSE IF k \in places THEN Append(kept[k - 1], terms[k]) ELSE kept[k - 1]
           after(k, u) == IF k \in places THEN Append(u, terms[k]) ELSE u
           step == [k \in 1 .. n |-> [u \in T |-> after(k, u)]]
<1>1. n \in Nat /\ <<>> \in T
  OBVIOUS
<1>2. \A k \in 1 .. n, u \in T : step[k][u] \in T /\ step[k][u] = after(k, u)
  OBVIOUS
<1>3. PICK h : Recurs(n, T, <<>>, step, h)
  <2>1. StaysIn(n, T, step)
    BY <1>2 DEF StaysIn
  <2> HIDE DEF n, T, step
  <2> QED
    BY <1>1, <2>1, Recurrence
<1>4. \A k \in 1 .. n : k - 1 \in 0 .. n /\ h[k - 1] \in T
  BY <1>1, <1>3 DEF Recurs
<1>5. \A k \in 1 .. n : h[k] = after(k, h[k - 1])
  <2> HIDE DEF step, after, n, T
  <2> QED
    BY <1>2, <1>3, <1>4 DEF Recurs
<1>6. h = [k \in 0 .. n |-> IF k = 0 THEN <<>> ELSE after(k, h[k - 1])]
  <2>1. \A k \in 0 .. n : h[k] = IF k = 0 THEN <<>> ELSE after(k, h[k - 1])
    <3> TAKE k \in 0 .. n
    <3>1. k # 0 => k \in 1 .. n
      BY <1>1
    <3> HIDE DEF after
    <3> QED
      BY <1>3, <1>5, <3>1 DEF Recurs
  <2> HIDE DEF n, after, T
  <2> QED
    BY <1>3, <2>1 DEF Recurs
<1>7. kept = [k \in 0 .. n |-> IF k = 0 THEN <<>> ELSE after(k, kept[k - 1])]
  BY <1>6
<1> HIDE DEF kept
<1>8. kept[0] = <<>> /\ \A k \in 1 .. n : kept[k] = after(k, kept[k - 1])
  <2>1. 0 \in 0 .. n /\ \A k \in 1 .. n : k \in 0 .. n /\ k # 0
    BY <1>1
  <2> HIDE DEF n, after, T
  <2> QED
    BY <1>7, <2>1
<1> DEFINE U == {k \in Nat : kept[k] \in T}
<1>9. \A k \in 0 .. n : k \in U
  <2>1. 0 \in U
    BY <1>1, <1>8
  <2>2. ASSUME NEW k \in 1 .. n, k - 1 \in U PROVE k \in U
    <3>1. after(k, kept[k - 1]) \in T
      BY <2>2
    <3> HIDE DEF after, T
    <3> QED
      BY <1>1, <1>8, <2>2, <3>1
  <2> HIDE DEF U, n
  <2> QED
    BY <1>1, <2>1, <2>2, RangeInduction, Zenon
<1>10. kept \in [0 .. n -> T]
  BY <1>7, <1>9
<1>11. chosen(terms, places) = kept[n]
  BY DEF chosen, kept
<1> QED
  BY <1>8, <1>10, <1>11 DEF ChoosesBySteps

\* The places, in their order, of the terms that are kept.
Picks(at, c, terms, places, n) ==
    /\ at \in [1 .. Len(c) -> 1 .. n]
    /\ \A i, j \in 1 .. Len(c) : i < j => at[i] < at[j]
    /\ \A i \in 1 .. Len(c) : at[i] \in places /\ c[i] = terms[at[i]]
    /\ \A p \in 1 .. n : p \in places => \E i \in 1 .. Len(c) : at[i] = p

LEMMA OneMorePlace ==
    ASSUME NEW A, NEW terms, NEW places, NEW k \in Nat, k # 0, NEW c \in Seq(A), NEW at,
           Picks(at, c, terms, places, k - 1), k \in places, terms[k] \in A
    PROVE  \E more : Picks(more, Append(c, terms[k]), terms, places, k)
<1> DEFINE l == Len(c)
           d == Append(c, terms[k])
           more == [i \in 1 .. l + 1 |-> IF i = l + 1 THEN k ELSE at[i]]
<1>1. l \in Nat /\ Len(d) = l + 1 /\ d[l + 1] = terms[k] /\ \A i \in 1 .. l : d[i] = c[i]
  OBVIOUS
<1>2. \A i \in 1 .. l : at[i] \in 1 .. k - 1 /\ at[i] \in places /\ c[i] = terms[at[i]]
  BY DEF Picks
<1>3. more[l + 1] = k /\ \A i \in 1 .. l : more[i] = at[i] /\ i \in 1 .. l + 1
  BY <1>1
<1> HIDE DEF d, l
<1>4. more \in [1 .. l + 1 -> 1 .. k]
  BY <1>1, <1>2
<1> HIDE DEF more
<1>5. \A i \in 1 .. l + 1 : i = l + 1 \/ i \in 1 .. l
  BY <1>1
<1>6. \A i, j \in 1 .. l + 1 : i < j => more[i] < more[j]
  <2> SUFFICES ASSUME NEW i \in 1 .. l + 1, NEW j \in 1 .. l + 1, i < j PROVE more[i] < more[j]
    OBVIOUS
  <2>1. i \in 1 .. l
    BY <1>1
  <2>2. CASE j = l + 1
    BY <1>2, <1>3, <2>1, <2>2
  <2>3. CASE j \in 1 .. l
    <3>1. at[i] < at[j]
      BY <2>1, <2>3 DEF Picks, l
    <3> QED
      BY <1>3, <2>1, <2>3, <3>1
  <2> QED
    BY <1>5, <2>2, <2>3
<1>7. \A i \in 1 .. l + 1 : more[i] \in places /\ d[i] = terms[more[i]]
  BY <1>1, <1>2, <1>3, <1>5
<1>8. \A p \in 1 .. k : p \in places => \E i \in 1 .. l + 1 : more[i] = p
  <2> SUFFICES ASSUME NEW p \in 1 .. k, p \in places PROVE \E i \in 1 .. l + 1 : more[i] = p
    OBVIOUS
  <2>1. CASE p = k
    BY <1>1, <1>3, <2>1
  <2>2. CASE p # k
    <3>1. p \in 1 .. k - 1
      BY <2>2
    <3>2. PICK i \in 1 .. l : at[i] = p
      BY <3>1 DEF Picks, l
    <3> QED
      BY <1>3, <3>2
  <2> QED
    BY <2>1, <2>2
<1>9. Picks(more, d, terms, places, k)
  BY <1>1, <1>4, <1>6, <1>7, <1>8 DEF Picks
<1> QED
  BY <1>9 DEF d

LEMMA ChosenPlaces ==
    ASSUME NEW A, NEW terms \in Seq(A), NEW places
    PROVE  /\ chosen(terms, places) \in Seq(A)
           /\ \E at : Picks(at, chosen(terms, places), terms, places, Len(terms))
<1>0. PICK h : ChoosesBySteps(h, A, terms, places)
  BY ChosenSteps
<1>1. /\ h \in [0 .. Len(terms) -> Seq(A)]
      /\ h[0] = <<>>
      /\ \A k \in 1 .. Len(terms) :
           h[k] = IF k \in places THEN Append(h[k - 1], terms[k]) ELSE h[k - 1]
      /\ chosen(terms, places) = h[Len(terms)]
  BY <1>0 DEF ChoosesBySteps
<1>2. PICK n \in Nat : n = Len(terms)
  OBVIOUS
<1> DEFINE U == {k \in 0 .. n : \E at : Picks(at, h[k], terms, places, k)}
<1>3. 0 \in U
  <2>1. Len(h[0]) = 0 /\ 0 \in 0 .. n
    BY <1>1, <1>2
  <2> DEFINE none == [i \in 1 .. 0 |-> i]
  <2>2. none \in [1 .. 0 -> 1 .. 0] /\ \A i \in 1 .. 0 : FALSE
    OBVIOUS
  <2> HIDE DEF none
  <2>3. Picks(none, h[0], terms, places, 0)
    BY <2>1, <2>2 DEF Picks
  <2> QED
    BY <2>1, <2>3
<1>4. ASSUME NEW k \in 1 .. n, k - 1 \in U PROVE k \in U
  <2>1. PICK at : Picks(at, h[k - 1], terms, places, k - 1)
    BY <1>4
  <2>2. h[k - 1] \in Seq(A) /\ terms[k] \in A /\ k \in Nat /\ k # 0 /\ k \in 0 .. n
    <3>1. k \in Nat /\ k # 0 /\ k \in 0 .. n /\ k - 1 \in 0 .. n
      OBVIOUS
    <3>2. h[k - 1] \in Seq(A)
      BY <1>1, <1>2, <3>1
    <3>3. terms[k] \in A
      BY <1>2
    <3> QED
      BY <3>1, <3>2, <3>3
  <2>3. CASE k \in places
    <3>1. h[k] = Append(h[k - 1], terms[k])
      BY <1>1, <1>2, <2>3
    <3>2. \E more : Picks(more, Append(h[k - 1], terms[k]), terms, places, k)
      BY <2>1, <2>2, <2>3, OneMorePlace
    <3> QED
      BY <2>2, <3>1, <3>2
  <2>4. CASE k \notin places
    <3>1. h[k] = h[k - 1]
      BY <1>1, <1>2, <2>4
    <3>2. PICK l \in Nat : l = Len(h[k])
      BY <2>2, <3>1
    <3>3. at \in [1 .. l -> 1 .. k]
      BY <2>1, <2>2, <3>1, <3>2 DEF Picks
    <3>4. \A p \in 1 .. k : p \in places => p \in 1 .. k - 1
      BY <2>4
    <3>5. Picks(at, h[k], terms, places, k)
      BY <2>1, <3>1, <3>2, <3>3, <3>4 DEF Picks
    <3> QED
      BY <2>2, <3>5
  <2> QED
    BY <2>3, <2>4
<1>5. \A k \in 0 .. n : k \in U
  <2> HIDE DEF U
  <2> QED
    BY <1>3, <1>4, RangeInduction
<1> QED
  BY <1>1, <1>2, <1>5

\* What is chosen of sorted terms is sorted, and the first term stays first.
LEMMA ChosenTerms ==
    ASSUME NEW A, NEW terms \in Seq(A), NEW places
    PROVE  LET c == chosen(terms, places) IN
           /\ c \in Seq(A)
           /\ \A i \in DOMAIN c : \E k \in DOMAIN terms : k \in places /\ c[i] = terms[k]
           /\ Strict(terms) => Strict(c)
           /\ (terms # <<>> /\ 1 \in places) => c # <<>> /\ c[1] = terms[1]
<1> DEFINE c == chosen(terms, places)
<1>1. c \in Seq(A)
  BY ChosenPlaces
<1>2. PICK at : Picks(at, c, terms, places, Len(terms))
  BY ChosenPlaces
<1> HIDE DEF c
<1>3. PICK n \in Nat, l \in Nat : n = Len(terms) /\ l = Len(c) /\ DOMAIN c = 1 .. l /\ DOMAIN terms = 1 .. n
  BY <1>1
<1>4. \A i \in 1 .. l : at[i] \in 1 .. n /\ at[i] \in places /\ c[i] = terms[at[i]]
  BY <1>2, <1>3 DEF Picks
<1>5. \A i \in DOMAIN c : \E k \in DOMAIN terms : k \in places /\ c[i] = terms[k]
  BY <1>3, <1>4
<1>6. ASSUME Strict(terms) PROVE Strict(c)
  <2> SUFFICES ASSUME NEW i \in 1 .. l, NEW j \in 1 .. l, i < j PROVE Greater(c[i][1], c[j][1])
    BY <1>3 DEF Strict
  <2>1. at[i] < at[j]
    BY <1>2, <1>3 DEF Picks
  <2>2. Greater(terms[at[i]][1], terms[at[j]][1])
    BY <1>3, <1>4, <1>6, <2>1 DEF Strict
  <2> QED
    BY <1>4, <2>2
<1>7. ASSUME terms # <<>>, 1 \in places PROVE c # <<>> /\ c[1] = terms[1]
  <2>1. 1 \in 1 .. n
    BY <1>3, <1>7
  <2>2. PICK i \in 1 .. l : at[i] = 1
    BY <1>2, <1>3, <1>7, <2>1 DEF Picks
  <2>3. i = 1
    <3> SUFFICES ASSUME 1 < i PROVE FALSE
      OBVIOUS
    <3>1. at[1] < at[i] /\ at[1] \in 1 .. n
      BY <1>2, <1>3, <1>4, <2>2 DEF Picks
    <3> QED
      BY <2>2, <3>1
  <2>4. c # <<>>
    BY <1>1, <1>3, <2>2
  <2> QED
    BY <1>4, <2>2, <2>3, <2>4
<1> QED
  BY <1>1, <1>5, <1>6, <1>7 DEF c

\* A recursion with steps that stay in a set.
LEMMA Recurred ==
    ASSUME NEW n \in Nat, NEW T, NEW start \in T, NEW step, StaysIn(n, T, step),
           NEW h, h = [k \in 0 .. n |-> h[k]], h[0] = start,
           \A k \in 1 .. n : h[k - 1] \in T => h[k] = step[k][h[k - 1]]
    PROVE  Recurs(n, T, start, step, h)
<1> DEFINE U == {k \in Nat : h[k] \in T}
<1>1. 0 \in U
  OBVIOUS
<1>2. ASSUME NEW k \in 1 .. n, k - 1 \in U PROVE k \in U
  <2>1. h[k - 1] \in T /\ k \in Nat
    BY <1>2
  <2>2. h[k] = step[k][h[k - 1]] /\ step[k][h[k - 1]] \in T
    BY <2>1 DEF StaysIn
  <2> QED
    BY <2>1, <2>2
<1>3. \A k \in 0 .. n : k \in U
  <2> HIDE DEF U
  <2> QED
    BY <1>1, <1>2, RangeInduction
<1>4. \A k \in 0 .. n : h[k] \in T
  BY <1>3
<1>5. h \in [0 .. n -> T]
  BY <1>4
<1>6. \A k \in 1 .. n : h[k] = step[k][h[k - 1]]
  <2> TAKE k \in 1 .. n
  <2>1. k - 1 \in 0 .. n
    OBVIOUS
  <2> QED
    BY <1>4, <2>1
<1> QED
  BY <1>5, <1>6 DEF Recurs

-----------------------------------------------------------------------------
(* Merging. *)

\* A pass over p and q that has come to i and j: what it has merged is sorted,
\* and greater than all that is left.
Merging(i, j, c, p, q, M, E) ==
    /\ i \in Nat /\ j \in Nat /\ i >= 1 /\ j >= 1
    /\ c \in Seq(M \X E \X E)
    /\ Strict(c)
    /\ \A k \in DOMAIN c : /\ \A l \in i .. Len(p) : Greater(c[k][1], p[l][1])
                           /\ \A l \in j .. Len(q) : Greater(c[k][1], q[l][1])
    /\ c = <<>> => i = 1 /\ j = 1
    /\ (c # <<>> /\ p # <<>> /\ q # <<>> /\ p[1][1] = q[1][1])
       => c[1] = <<p[1][1], p[1][2], q[1][2]>>

LEMMA PushKeepsStrict ==
    ASSUME NEW A, NEW c \in Seq(A), NEW e \in A, Strict(c),
           \A k \in DOMAIN c : Greater(c[k][1], e[1])
    PROVE  Strict(Append(c, e))
<1>1. PICK l \in Nat : l = Len(c) /\ DOMAIN c = 1 .. l
  OBVIOUS
<1> DEFINE d == Append(c, e)
<1>2. DOMAIN d = 1 .. l + 1 /\ d[l + 1] = e /\ \A k \in 1 .. l : d[k] = c[k]
  BY <1>1
<1> HIDE DEF d
<1>3. ASSUME NEW i \in 1 .. l + 1, NEW j \in 1 .. l + 1, i < j PROVE Greater(d[i][1], d[j][1])
  <2>1. i \in 1 .. l /\ (j = l + 1 \/ j \in 1 .. l)
    BY <1>1, <1>3
  <2>2. CASE j = l + 1
    BY <1>1, <1>2, <2>1, <2>2
  <2>3. CASE j \in 1 .. l
    <3>1. Greater(c[i][1], c[j][1])
      BY <1>1, <1>3, <2>1, <2>3 DEF Strict
    <3> QED
      BY <1>2, <2>1, <2>3, <3>1
  <2> QED
    BY <2>1, <2>2, <2>3
<1>4. Strict(d)
  BY <1>2, <1>3 DEF Strict
<1> QED
  BY <1>4 DEF d

LEMMA PushKeepsMerging ==
    ASSUME NEW M, NEW E, NEW p, NEW q, NEW i, NEW j, NEW c, Merging(i, j, c, p, q, M, E),
           NEW u \in 0 .. 1, NEW v \in 0 .. 1, NEW e \in M \X E \X E,
           \A k \in DOMAIN c : Greater(c[k][1], e[1]),
           \A l \in i + u .. Len(p) : Greater(e[1], p[l][1]),
           \A l \in j + v .. Len(q) : Greater(e[1], q[l][1]),
           Len(p) \in Nat, Len(q) \in Nat,
           (c = <<>> /\ p # <<>> /\ q # <<>> /\ p[1][1] = q[1][1]) => e = <<p[1][1], p[1][2], q[1][2]>>
    PROVE  Merging(i + u, j + v, Append(c, e), p, q, M, E)
<1> DEFINE A == M \X E \X E
           d == Append(c, e)
<1>1. i \in Nat /\ j \in Nat /\ i >= 1 /\ j >= 1 /\ c \in Seq(A)
  BY DEF Merging
<1> HIDE DEF A
<1>2. PICK l \in Nat : l = Len(c) /\ DOMAIN c = 1 .. l
  BY <1>1
<1>3. d \in Seq(A) /\ DOMAIN d = 1 .. l + 1 /\ d[l + 1] = e /\ \A k \in 1 .. l : d[k] = c[k]
  BY <1>1, <1>2 DEF A
<1>4. i + u \in Nat /\ j + v \in Nat /\ i + u >= 1 /\ j + v >= 1 /\ d # <<>>
  <2>1. Len(d) = l + 1
    BY <1>1, <1>2
  <2> QED
    BY <1>1, <1>2, <2>1
<1>5. Strict(d)
  <2>1. Strict(c)
    BY DEF Merging
  <2> QED
    BY <1>1, <2>1, PushKeepsStrict DEF A
<1> HIDE DEF d
<1>6. ASSUME NEW k \in 1 .. l + 1
      PROVE  /\ \A m \in i + u .. Len(p) : Greater(d[k][1], p[m][1])
             /\ \A m \in j + v .. Len(q) : Greater(d[k][1], q[m][1])
  <2>1. CASE k = l + 1
    BY <1>3, <2>1
  <2>2. CASE k # l + 1
    <3>1. k \in 1 .. l
      BY <2>2
    <3>2. \A m \in i + u .. Len(p) : m \in i .. Len(p)
      BY <1>1
    <3>3. \A m \in j + v .. Len(q) : m \in j .. Len(q)
      BY <1>1
    <3> QED
      BY <1>2, <1>3, <3>1, <3>2, <3>3 DEF Merging
  <2> QED
    BY <2>1, <2>2
<1>7. ASSUME p # <<>>, q # <<>>, p[1][1] = q[1][1] PROVE d[1] = <<p[1][1], p[1][2], q[1][2]>>
  <2>1. CASE c = <<>>
    <3>1. l = 0
      BY <1>2, <2>1
    <3> QED
      BY <1>3, <1>7, <2>1, <3>1
  <2>2. CASE c # <<>>
    <3>1. 1 \in 1 .. l
      BY <1>1, <1>2, <2>2
    <3>2. c[1] = <<p[1][1], p[1][2], q[1][2]>>
      BY <1>7, <2>2 DEF Merging
    <3> QED
      BY <1>3, <3>1, <3>2
  <2> QED
    BY <2>1, <2>2
<1>8. Merging(i + u, j + v, d, p, q, M, E)
  BY <1>3, <1>4, <1>5, <1>6, <1>7 DEF Merging, A
<1> QED
  BY <1>8 DEF d

IsMerging(u, p, q, M, E) == \E k, l, d : u = <<k, l, d>> /\ Merging(k, l, d, p, q, M, E)

LEMMA MergeStepKeeps ==
    ASSUME NEW n \in Nat, NEW M \in SUBSET Monomials(n), NEW E, NEW F, zero(F) \in E,
           NEW p \in Seq(M \X E), NEW q \in Seq(M \X E), Strict(p), Strict(q),
           NEW i, NEW j, NEW c, Merging(i, j, c, p, q, M, E)
    PROVE  IsMerging(merge_step(F, p, q, <<i, j, c>>), p, q, M, E)
<1> SUFFICES \E k, l, d : merge_step(F, p, q, <<i, j, c>>) = <<k, l, d>> /\ Merging(k, l, d, p, q, M, E)
  BY Zenon DEF IsMerging
<1> DEFINE o == zero(F)
<1>1. i \in Nat /\ j \in Nat /\ i >= 1 /\ j >= 1 /\ c \in Seq(M \X E \X E)
  BY DEF Merging
<1>2. PICK lp \in Nat, lq \in Nat : lp = Len(p) /\ lq = Len(q) /\ DOMAIN p = 1 .. lp /\ DOMAIN q = 1 .. lq
  OBVIOUS
<1>3. /\ \A k \in 1 .. lp : p[k][1] \in M /\ p[k][2] \in E /\ p[k][1] \in Monomials(n)
      /\ \A k \in 1 .. lq : q[k][1] \in M /\ q[k][2] \in E /\ q[k][1] \in Monomials(n)
  BY <1>2
<1>4. \A k \in DOMAIN c : c[k][1] \in Monomials(n)
  BY <1>1
<1>5. merge_step(F, p, q, <<i, j, c>>) =
        IF i > lp /\ j > lq THEN <<i, j, c>>
        ELSE IF j > lq \/ (i <= lp /\ Greater(p[i][1], q[j][1]))
        THEN <<i + 1, j + 0, Append(c, <<p[i][1], p[i][2], o>>)>>
        ELSE IF i <= lp /\ p[i][1] = q[j][1]
        THEN <<i + 1, j + 1, Append(c, <<p[i][1], p[i][2], q[j][2]>>)>>
        ELSE <<i + 0, j + 1, Append(c, <<q[j][1], o, q[j][2]>>)>>
  <2> DEFINE st == <<i, j, c>>
  <2>1. st[1] = i /\ st[2] = j /\ st[3] = c
    OBVIOUS
  <2> HIDE DEF st
  <2>2. merge_step(F, p, q, st) =
          IF i > lp /\ j > lq THEN st
          ELSE IF j > lq \/ (i <= lp /\ Greater(p[i][1], q[j][1]))
          THEN <<i + 1, j + 0, Append(c, <<p[i][1], p[i][2], o>>)>>
          ELSE IF i <= lp /\ p[i][1] = q[j][1]
          THEN <<i + 1, j + 1, Append(c, <<p[i][1], p[i][2], q[j][2]>>)>>
          ELSE <<i + 0, j + 1, Append(c, <<q[j][1], o, q[j][2]>>)>>
    BY <1>2, <2>1, Zenon DEF merge_step
  <2> QED
    BY <2>2 DEF st
<1>6. i <= lp => i \in 1 .. lp /\ \A k \in i + 1 .. lp : k \in 1 .. lp /\ Greater(p[i][1], p[k][1])
  <2> SUFFICES ASSUME i <= lp
               PROVE  i \in 1 .. lp /\ \A k \in i + 1 .. lp : k \in 1 .. lp /\ Greater(p[i][1], p[k][1])
    OBVIOUS
  <2>1. i \in 1 .. lp /\ \A k \in i + 1 .. lp : k \in 1 .. lp /\ i < k
    BY <1>1
  <2> QED
    BY <1>2, <2>1 DEF Strict
<1>7. j <= lq => j \in 1 .. lq /\ \A k \in j + 1 .. lq : k \in 1 .. lq /\ Greater(q[j][1], q[k][1])
  <2> SUFFICES ASSUME j <= lq
               PROVE  j \in 1 .. lq /\ \A k \in j + 1 .. lq : k \in 1 .. lq /\ Greater(q[j][1], q[k][1])
    OBVIOUS
  <2>1. j \in 1 .. lq /\ \A k \in j + 1 .. lq : k \in 1 .. lq /\ j < k
    BY <1>1
  <2> QED
    BY <1>2, <2>1 DEF Strict
<1>8. /\ i <= lp => \A k \in DOMAIN c : Greater(c[k][1], p[i][1])
      /\ j <= lq => \A k \in DOMAIN c : Greater(c[k][1], q[j][1])
  BY <1>1, <1>2 DEF Merging
<1>9. 0 \in 0 .. 1 /\ 1 \in 0 .. 1
  OBVIOUS
<1> HIDE DEF o
<1>10. ASSUME j > lq \/ (i <= lp /\ Greater(p[i][1], q[j][1])), ~(i > lp /\ j > lq)
       PROVE  Merging(i + 1, j + 0, Append(c, <<p[i][1], p[i][2], o>>), p, q, M, E)
  <2>1. i \in 1 .. lp
    BY <1>1, <1>2, <1>6, <1>10
  <2>2. PICK e \in M \X E \X E : e = <<p[i][1], p[i][2], o>> /\ e[1] = p[i][1]
    <3>1. <<p[i][1], p[i][2], o>> \in M \X E \X E
      BY <1>3, <2>1 DEF o
    <3>2. <<p[i][1], p[i][2], o>>[1] = p[i][1]
      OBVIOUS
    <3> QED
      BY <3>1, <3>2, Zenon
  <2>3. \A k \in DOMAIN c : Greater(c[k][1], e[1])
    BY <1>8, <2>1, <2>2
  <2>4. \A l \in i + 1 .. Len(p) : Greater(e[1], p[l][1])
    BY <1>2, <1>6, <2>1, <2>2
  <2>5. \A l \in j + 0 .. Len(q) : Greater(e[1], q[l][1])
    <3> SUFFICES ASSUME NEW l \in j .. lq PROVE Greater(p[i][1], q[l][1])
      BY <1>1, <1>2, <2>2
    <3>1. Greater(p[i][1], q[j][1]) /\ j \in 1 .. lq
      BY <1>1, <1>7, <1>10
    <3>2. l = j \/ (l \in j + 1 .. lq)
      BY <1>1
    <3>3. CASE l = j
      BY <3>1, <3>3
    <3>4. CASE l \in j + 1 .. lq
      <4>1. Greater(q[j][1], q[l][1]) /\ l \in 1 .. lq
        BY <1>7, <3>1, <3>4
      <4> QED
        BY <1>3, <2>1, <3>1, <4>1, GreaterIsTransitive
    <3> QED
      BY <3>2, <3>3, <3>4
  <2>6. (c = <<>> /\ p # <<>> /\ q # <<>> /\ p[1][1] = q[1][1]) => e = <<p[1][1], p[1][2], q[1][2]>>
    <3> SUFFICES ASSUME c = <<>>, q # <<>>, p[1][1] = q[1][1] PROVE FALSE
      OBVIOUS
    <3>1. i = 1 /\ j = 1
      BY DEF Merging
    <3>2. 1 <= lq
      BY <1>2
    <3>3. Greater(p[1][1], p[1][1]) /\ p[1][1] \in Monomials(n)
      BY <1>3, <1>10, <2>1, <3>1, <3>2
    <3> QED
      BY <3>3, GreaterIsStrict
  <2>7. Merging(i + 1, j + 0, Append(c, e), p, q, M, E)
    BY <1>2, <1>9, <2>3, <2>4, <2>5, <2>6, PushKeepsMerging
  <2> QED
    BY <2>2, <2>7
<1>11. ASSUME i <= lp, j <= lq, p[i][1] = q[j][1]
       PROVE  Merging(i + 1, j + 1, Append(c, <<p[i][1], p[i][2], q[j][2]>>), p, q, M, E)
  <2>1. i \in 1 .. lp /\ j \in 1 .. lq
    BY <1>6, <1>7, <1>11
  <2>2. PICK e \in M \X E \X E : e = <<p[i][1], p[i][2], q[j][2]>> /\ e[1] = p[i][1] /\ e[1] = q[j][1]
    <3>1. <<p[i][1], p[i][2], q[j][2]>> \in M \X E \X E
      BY <1>3, <1>11, <2>1
    <3>2. <<p[i][1], p[i][2], q[j][2]>>[1] = p[i][1]
      OBVIOUS
    <3> QED
      BY <1>11, <3>1, <3>2, Zenon
  <2>3. \A k \in DOMAIN c : Greater(c[k][1], e[1])
    BY <1>8, <1>11, <2>2
  <2>4. \A l \in i + 1 .. Len(p) : Greater(e[1], p[l][1])
    BY <1>2, <1>6, <1>11, <2>2
  <2>5. \A l \in j + 1 .. Len(q) : Greater(e[1], q[l][1])
    BY <1>2, <1>7, <1>11, <2>2
  <2>6. c = <<>> => e = <<p[1][1], p[1][2], q[1][2]>>
    BY <2>2 DEF Merging
  <2>7. Merging(i + 1, j + 1, Append(c, e), p, q, M, E)
    BY <1>2, <1>9, <2>3, <2>4, <2>5, <2>6, PushKeepsMerging
  <2> QED
    BY <2>2, <2>7
<1>12. ASSUME j <= lq, ~(i <= lp /\ Greater(p[i][1], q[j][1])), ~(i <= lp /\ p[i][1] = q[j][1])
       PROVE  Merging(i + 0, j + 1, Append(c, <<q[j][1], o, q[j][2]>>), p, q, M, E)
  <2>1. j \in 1 .. lq
    BY <1>7, <1>12
  <2>2. PICK e \in M \X E \X E : e = <<q[j][1], o, q[j][2]>> /\ e[1] = q[j][1]
    <3>1. <<q[j][1], o, q[j][2]>> \in M \X E \X E
      BY <1>3, <2>1 DEF o
    <3>2. <<q[j][1], o, q[j][2]>>[1] = q[j][1]
      OBVIOUS
    <3> QED
      BY <3>1, <3>2, Zenon
  <2>3. \A k \in DOMAIN c : Greater(c[k][1], e[1])
    BY <1>8, <1>12, <2>2
  <2>4. \A l \in j + 1 .. Len(q) : Greater(e[1], q[l][1])
    BY <1>2, <1>7, <1>12, <2>2
  <2>5. \A l \in i + 0 .. Len(p) : Greater(e[1], p[l][1])
    <3> SUFFICES ASSUME NEW l \in i .. lp PROVE Greater(q[j][1], p[l][1])
      BY <1>1, <1>2, <2>2
    <3>1. i \in 1 .. lp /\ i <= lp
      BY <1>1, <1>6
    <3>2. Greater(q[j][1], p[i][1])
      BY <1>3, <1>12, <2>1, <3>1, GreaterIsTotal
    <3>3. l = i \/ (l \in i + 1 .. lp)
      BY <1>1
    <3>4. CASE l = i
      BY <3>2, <3>4
    <3>5. CASE l \in i + 1 .. lp
      <4>1. Greater(p[i][1], p[l][1]) /\ l \in 1 .. lp
        BY <1>6, <3>1, <3>5
      <4> QED
        BY <1>3, <2>1, <3>1, <3>2, <4>1, GreaterIsTransitive
    <3> QED
      BY <3>3, <3>4, <3>5
  <2>6. (c = <<>> /\ p # <<>> /\ q # <<>> /\ p[1][1] = q[1][1]) => e = <<p[1][1], p[1][2], q[1][2]>>
    <3> SUFFICES ASSUME c = <<>>, p # <<>>, p[1][1] = q[1][1] PROVE FALSE
      OBVIOUS
    <3>1. i = 1 /\ j = 1
      BY DEF Merging
    <3>2. 1 <= lp
      BY <1>2
    <3> QED
      BY <1>12, <3>1, <3>2
  <2>7. Merging(i + 0, j + 1, Append(c, e), p, q, M, E)
    BY <1>2, <1>9, <2>3, <2>4, <2>5, <2>6, PushKeepsMerging
  <2> QED
    BY <2>2, <2>7
<1>13. CASE i > lp /\ j > lq
  BY <1>5, <1>13
<1>14. CASE ~(i > lp /\ j > lq) /\ (j > lq \/ (i <= lp /\ Greater(p[i][1], q[j][1])))
  BY <1>5, <1>10, <1>14
<1>15. CASE ~(j > lq \/ (i <= lp /\ Greater(p[i][1], q[j][1]))) /\ (i <= lp /\ p[i][1] = q[j][1])
  <2>1. j <= lq
    BY <1>1, <1>15
  <2> QED
    BY <1>5, <1>11, <1>15, <2>1
<1>16. CASE ~(j > lq \/ (i <= lp /\ Greater(p[i][1], q[j][1]))) /\ ~(i <= lp /\ p[i][1] = q[j][1])
  <2>1. j <= lq
    BY <1>1, <1>16
  <2> QED
    BY <1>5, <1>12, <1>16, <2>1
<1> QED
  BY <1>13, <1>14, <1>15, <1>16

IsMerge(c, p, q, M, E) ==
    /\ c \in Seq(M \X E \X E)
    /\ Strict(c)
    /\ (c # <<>> /\ p # <<>> /\ q # <<>> /\ p[1][1] = q[1][1])
       => c[1] = <<p[1][1], p[1][2], q[1][2]>>

LEMMA MergedTerms ==
    ASSUME NEW n \in Nat, NEW M \in SUBSET Monomials(n), NEW E, NEW F, zero(F) \in E,
           NEW p \in Seq(M \X E), NEW q \in Seq(M \X E), Strict(p), Strict(q)
    PROVE  IsMerge(merge_terms(F, p, q), p, q, M, E)
<1> DEFINE merging[k \in 0 .. Len(p) + Len(q)] ==
             IF k = 0 THEN <<1, 1, <<>>>> ELSE merge_step(F, p, q, merging[k - 1])
           m == Len(p) + Len(q)
           T == {st \in Nat \X Nat \X Seq(M \X E \X E) : Merging(st[1], st[2], st[3], p, q, M, E)}
           first == <<1, 1, <<>>>>
           after(u) == merge_step(F, p, q, u)
           step == [k \in 1 .. m |-> [u \in T |-> after(u)]]
<1>1. m \in Nat
  OBVIOUS
<1>2. first \in T
  <2>1. \A k \in DOMAIN <<>> : FALSE
    OBVIOUS
  <2>2. Merging(1, 1, <<>>, p, q, M, E)
    BY <2>1 DEF Merging, Strict
  <2>3. first \in Nat \X Nat \X Seq(M \X E \X E)
    <3> DEFINE S == Seq(M \X E \X E)
    <3>1. <<>> \in S
      OBVIOUS
    <3> HIDE DEF S
    <3>2. <<1, 1, <<>>>> \in Nat \X Nat \X S
      BY <3>1
    <3> QED
      BY <3>2 DEF S
  <2>4. first[1] = 1 /\ first[2] = 1 /\ first[3] = <<>>
    OBVIOUS
  <2> HIDE DEF first
  <2> QED
    BY <2>2, <2>3, <2>4
<1>3. ASSUME NEW u \in T PROVE after(u) \in T
  <2>1. PICK i \in Nat, j \in Nat, c \in Seq(M \X E \X E) : u = <<i, j, c>>
    OBVIOUS
  <2>2. Merging(i, j, c, p, q, M, E)
    BY <2>1
  <2>3. PICK k, l, d : merge_step(F, p, q, <<i, j, c>>) = <<k, l, d>> /\ Merging(k, l, d, p, q, M, E)
    <3>1. IsMerging(merge_step(F, p, q, <<i, j, c>>), p, q, M, E)
      BY <2>2, MergeStepKeeps
    <3> QED
      BY <3>1, Zenon DEF IsMerging
  <2>4. k \in Nat /\ l \in Nat /\ d \in Seq(M \X E \X E)
    BY <2>3 DEF Merging
  <2>5. <<k, l, d>> \in T
    BY <2>3, <2>4
  <2> HIDE DEF T
  <2> QED
    BY <2>1, <2>3, <2>5
<1> HIDE DEF T, first, after
<1>4. StaysIn(m, T, step) /\ \A k \in 1 .. m, u \in T : step[k][u] = after(u)
  BY <1>3 DEF StaysIn
<1> HIDE DEF m, step
<1>5. PICK h : Recurs(m, T, first, step, h)
  BY <1>1, <1>2, <1>4, Recurrence
<1>6. h \in [0 .. m -> T] /\ \A k \in 0 .. m : h[k] = IF k = 0 THEN first ELSE after(h[k - 1])
  <2>1. \A k \in 0 .. m : k # 0 => k \in 1 .. m /\ k - 1 \in 0 .. m
    BY <1>1
  <2>2. h \in [0 .. m -> T] /\ h[0] = first /\ \A k \in 1 .. m : h[k] = step[k][h[k - 1]]
    BY <1>5 DEF Recurs
  <2>3. \A k \in 1 .. m : k - 1 \in 0 .. m /\ h[k - 1] \in T
    BY <1>1, <2>2
  <2>4. \A k \in 1 .. m : h[k] = after(h[k - 1])
    BY <1>4, <2>2, <2>3, Zenon
  <2> QED
    BY <2>1, <2>2, <2>4
<1>7. merging = [k \in 0 .. m |-> IF k = 0 THEN first ELSE after(merging[k - 1])]
  <2>1. h = [k \in 0 .. m |-> IF k = 0 THEN first ELSE after(h[k - 1])]
    BY <1>6
  <2> QED
    BY <2>1 DEF m, first, after
<1> HIDE DEF merging
<1>8. Recurs(m, T, first, step, merging)
  <2>1. merging = [k \in 0 .. m |-> merging[k]]
    BY <1>7
  <2>2. 0 \in 0 .. m /\ \A k \in 1 .. m : k \in 0 .. m /\ k # 0
    BY <1>1
  <2>3. merging[0] = first /\ \A k \in 1 .. m : merging[k] = after(merging[k - 1])
    BY <1>7, <2>2
  <2>4. \A k \in 1 .. m : merging[k - 1] \in T => merging[k] = step[k][merging[k - 1]]
    BY <1>4, <2>3
  <2> QED
    BY <1>1, <1>2, <1>4, <2>1, <2>3, <2>4, Recurred
<1>9. merging[m] \in T
  BY <1>1, <1>8 DEF Recurs
<1>10. merge_terms(F, p, q) = merging[m][3]
  BY DEF merge_terms, merging, m
<1>11. Merging(merging[m][1], merging[m][2], merging[m][3], p, q, M, E)
  BY <1>9 DEF T
<1> QED
  BY <1>10, <1>11 DEF IsMerge, Merging

LEMMA Inserted ==
    ASSUME NEW A, NEW c \in Seq(A), NEW e \in A, NEW i \in 1 .. Len(c) + 1
    PROVE  /\ InsertAt(c, i, e) \in Seq(A)
           /\ Len(InsertAt(c, i, e)) = Len(c) + 1
           /\ InsertAt(c, i, e)[i] = e
           /\ \A k \in 1 .. i - 1 : InsertAt(c, i, e)[k] = c[k]
           /\ \A k \in i + 1 .. Len(c) + 1 : InsertAt(c, i, e)[k] = c[k - 1]
<1>1. PICK l \in Nat : l = Len(c) /\ i \in 1 .. l + 1
  OBVIOUS
<1> DEFINE u == SubSeq(c, 1, i - 1)
           v == SubSeq(c, i, l)
           w == u \o <<e>>
<1>2. u \in Seq(A) /\ Len(u) = i - 1 /\ \A k \in 1 .. i - 1 : u[k] = c[k]
  BY <1>1
<1>3. v \in Seq(A) /\ Len(v) = l - i + 1 /\ \A k \in 1 .. l - i + 1 : v[k] = c[i + k - 1]
  BY <1>1
<1>4. <<e>> \in Seq(A) /\ Len(<<e>>) = 1
  OBVIOUS
<1>5. InsertAt(c, i, e) = w \o v
  BY <1>1 DEF InsertAt
<1> HIDE DEF u, v
<1>6. w \in Seq(A) /\ Len(w) = i /\ w[i] = e /\ \A k \in 1 .. i - 1 : w[k] = c[k]
  BY <1>1, <1>2, <1>4
<1> HIDE DEF w
<1>7. w \o v \in Seq(A) /\ Len(w \o v) = l + 1
  <2>1. w \o v \in Seq(A) /\ Len(w \o v) = Len(w) + Len(v)
    BY <1>3, <1>6, ConcatProperties
  <2>2. Len(w) + Len(v) = l + 1
    BY <1>1, <1>3, <1>6
  <2> QED
    BY <2>1, <2>2
<1>8. (w \o v)[i] = e /\ \A k \in 1 .. i - 1 : (w \o v)[k] = c[k]
  BY <1>1, <1>3, <1>6
<1>9. ASSUME NEW k \in i + 1 .. l + 1 PROVE (w \o v)[k] = c[k - 1]
  <2>1. (w \o v)[k] = v[k - i] /\ k - i \in 1 .. l - i + 1
    BY <1>1, <1>3, <1>6
  <2>2. i + (k - i) - 1 = k - 1
    BY <1>1
  <2> QED
    BY <1>3, <2>1, <2>2
<1> QED
  BY <1>1, <1>5, <1>7, <1>8, <1>9

LEMMA Removed ==
    ASSUME NEW A, NEW c \in Seq(A), NEW i \in 1 .. Len(c)
    PROVE  /\ RemoveAt(c, i) \in Seq(A)
           /\ Len(RemoveAt(c, i)) = Len(c) - 1
           /\ \A k \in 1 .. Len(c) - 1 : RemoveAt(c, i)[k] = IF k < i THEN c[k] ELSE c[k + 1]
<1>1. PICK l \in Nat : l = Len(c) /\ i \in 1 .. l
  OBVIOUS
<1> DEFINE u == SubSeq(c, 1, i - 1)
           v == SubSeq(c, i + 1, l)
<1>2. u \in Seq(A) /\ Len(u) = i - 1 /\ \A k \in 1 .. i - 1 : u[k] = c[k]
  BY <1>1
<1>3. v \in Seq(A) /\ Len(v) = l - i /\ \A k \in 1 .. l - i : v[k] = c[i + 1 + k - 1]
  BY <1>1
<1>4. RemoveAt(c, i) = u \o v
  BY <1>1 DEF RemoveAt
<1> HIDE DEF u, v
<1>5. u \o v \in Seq(A) /\ Len(u \o v) = l - 1
  BY <1>1, <1>2, <1>3
<1>6. ASSUME NEW k \in 1 .. l - 1 PROVE (u \o v)[k] = IF k < i THEN c[k] ELSE c[k + 1]
  <2>1. CASE k < i
    BY <1>1, <1>2, <1>3, <2>1
  <2>2. CASE ~(k < i)
    <3>1. (u \o v)[k] = v[k - (i - 1)] /\ k - (i - 1) \in 1 .. l - i
      BY <1>1, <1>2, <1>3, <2>2
    <3>2. i + 1 + (k - (i - 1)) - 1 = k + 1
      BY <1>1
    <3> QED
      BY <1>3, <2>2, <3>1, <3>2
  <2> QED
    BY <2>1, <2>2
<1> QED
  BY <1>1, <1>4, <1>5, <1>6

-----------------------------------------------------------------------------
(* Sorting. *)

\* No term is smaller than one behind it.
Weakly(c) == \A i, j \in DOMAIN c : i < j => ~Greater(c[j][1], c[i][1])

\* The first term is e, and greater than the others.
Leads(c, e) == c # <<>> /\ c[1] = e /\ \A i \in DOMAIN c : i # 1 => Greater(e[1], c[i][1])

LEMMA PlacedTerm ==
    ASSUME NEW n \in Nat, NEW M \in SUBSET Monomials(n), NEW E,
           NEW c \in Seq(M \X E), NEW e \in M \X E, Weakly(c)
    PROVE  /\ placed(c, e) \in Seq(M \X E)
           /\ Weakly(placed(c, e))
           /\ c = <<>> => Leads(placed(c, e), e)
           /\ (c # <<>> /\ Leads(c, c[1]) /\ Greater(c[1][1], e[1])) => Leads(placed(c, e), c[1])
<1> DEFINE P == {k \in 1 .. Len(c) + 1 : k <= Len(c) => Greater(e[1], c[k][1])}
           p == Min(P)
           d == InsertAt(c, p, e)
<1>1. PICK l \in Nat : l = Len(c) /\ DOMAIN c = 1 .. l
  OBVIOUS
<1>2. P \in SUBSET Nat /\ P # {} /\ P = {k \in 1 .. l + 1 : k <= l => Greater(e[1], c[k][1])}
  <2>1. l + 1 \in P
    BY <1>1
  <2> QED
    BY <1>1, <2>1
<1>3. p \in P /\ \A k \in P : p <= k
  <2> HIDE DEF P
  <2>1. \E k \in P : \A j \in P : k <= j
    BY <1>2, LeastElement
  <2> QED
    BY <2>1 DEF Min
<1>4. placed(c, e) = d
  BY DEF placed
<1> HIDE DEF P, p
<1>5. p \in 1 .. l + 1 /\ p \in Nat /\ (p <= l => Greater(e[1], c[p][1])) /\ \A k \in 1 .. p - 1 : ~Greater(e[1], c[k][1])
  <2>1. p \in 1 .. l + 1 /\ (p <= l => Greater(e[1], c[p][1]))
    BY <1>2, <1>3
  <2>2. ASSUME NEW k \in 1 .. p - 1, Greater(e[1], c[k][1]) PROVE FALSE
    <3>1. k \in P
      BY <1>2, <2>1, <2>2
    <3> QED
      BY <1>3, <2>1, <3>1
  <2> QED
    BY <2>1, <2>2
<1>6. /\ d \in Seq(M \X E) /\ DOMAIN d = 1 .. l + 1 /\ d[p] = e
      /\ \A k \in 1 .. p - 1 : d[k] = c[k]
      /\ \A k \in p + 1 .. l + 1 : d[k] = c[k - 1]
  <2> DEFINE A == M \X E
  <2>1. c \in Seq(A) /\ e \in A /\ p \in 1 .. Len(c) + 1
    BY <1>1, <1>5
  <2> HIDE DEF A
  <2>2. /\ d \in Seq(A) /\ Len(d) = Len(c) + 1 /\ d[p] = e
        /\ \A k \in 1 .. p - 1 : d[k] = c[k]
        /\ \A k \in p + 1 .. Len(c) + 1 : d[k] = c[k - 1]
    BY <2>1, Inserted
  <2> HIDE DEF d
  <2>3. DOMAIN d = 1 .. l + 1
    BY <1>1, <2>2
  <2> QED
    BY <1>1, <2>2, <2>3 DEF A
<1> HIDE DEF d
<1>7. e[1] \in Monomials(n) /\ \A k \in 1 .. l : c[k][1] \in Monomials(n)
  BY <1>1
<1>8. \A k \in p .. l : k \in 1 .. l /\ Greater(e[1], c[k][1])
  <2> TAKE k \in p .. l
  <2>1. k \in 1 .. l /\ p \in 1 .. l /\ Greater(e[1], c[p][1])
    BY <1>5
  <2>2. CASE k = p
    BY <2>1, <2>2
  <2>3. CASE p < k
    <3>1. ~Greater(c[k][1], c[p][1])
      BY <1>1, <2>1, <2>3 DEF Weakly
    <3>2. c[k][1] = c[p][1] \/ Greater(c[p][1], c[k][1])
      BY <1>7, <2>1, <3>1, GreaterIsTotal
    <3>3. CASE c[k][1] = c[p][1]
      BY <2>1, <3>3
    <3>4. CASE Greater(c[p][1], c[k][1])
      BY <1>7, <2>1, <3>4, GreaterIsTransitive
    <3> QED
      BY <3>2, <3>3, <3>4
  <2> QED
    BY <1>5, <2>2, <2>3
<1>9. \A k \in 1 .. l + 1 : k \in 1 .. p - 1 \/ k = p \/ (k \in p + 1 .. l + 1 /\ k - 1 \in p .. l)
  BY <1>5
<1>10. ASSUME NEW i \in 1 .. l + 1, NEW j \in 1 .. l + 1, i < j
       PROVE  ~Greater(d[j][1], d[i][1])
  <2>1. CASE j \in 1 .. p - 1
    <3>1. i \in 1 .. p - 1 /\ i \in 1 .. l /\ j \in 1 .. l
      BY <1>5, <1>10, <2>1
    <3> QED
      BY <1>1, <1>6, <1>10, <2>1, <3>1 DEF Weakly
  <2>2. CASE j = p
    <3>1. i \in 1 .. p - 1
      BY <1>5, <1>10, <2>2
    <3> QED
      BY <1>5, <1>6, <2>2, <3>1
  <2>3. CASE j \in p + 1 .. l + 1 /\ j - 1 \in p .. l
    <3>1. d[j] = c[j - 1] /\ j - 1 \in 1 .. l /\ Greater(e[1], c[j - 1][1])
      BY <1>6, <1>8, <2>3
    <3>2. CASE i \in 1 .. p - 1
      <4>1. i \in 1 .. l /\ i < j - 1 /\ d[i] = c[i]
        BY <1>5, <1>6, <2>3, <3>2
      <4> QED
        BY <1>1, <3>1, <4>1 DEF Weakly
    <3>3. CASE i = p
      <4>1. ~Greater(c[j - 1][1], e[1])
        BY <1>7, <3>1, GreaterIsOneWay
      <4> QED
        BY <1>6, <3>1, <3>3, <4>1
    <3>4. CASE i \in p + 1 .. l + 1 /\ i - 1 \in p .. l
      <4>1. d[i] = c[i - 1] /\ i - 1 \in 1 .. l /\ i - 1 < j - 1
        BY <1>6, <1>8, <1>10, <3>4
      <4> QED
        BY <1>1, <3>1, <4>1 DEF Weakly
    <3> QED
      BY <1>9, <3>2, <3>3, <3>4
  <2> QED
    BY <1>9, <2>1, <2>2, <2>3
<1>11. Weakly(d)
  BY <1>6, <1>10 DEF Weakly
<1>12. d # <<>>
  BY <1>6
<1>13. ASSUME c = <<>> PROVE Leads(d, e)
  <2>1. l = 0 /\ p = 1 /\ DOMAIN d = 1 .. 1
    BY <1>1, <1>5, <1>6, <1>13
  <2> QED
    BY <1>6, <1>12, <2>1 DEF Leads
<1>14. ASSUME c # <<>>, Leads(c, c[1]), Greater(c[1][1], e[1]) PROVE Leads(d, c[1])
  <2>1. 1 \in 1 .. l
    BY <1>1, <1>14
  <2>2. ~Greater(e[1], c[1][1])
    BY <1>7, <1>14, <2>1, GreaterIsOneWay
  <2>3. p # 1
    BY <1>5, <2>1, <2>2
  <2>4. 1 \in 1 .. p - 1 /\ d[1] = c[1]
    BY <1>5, <1>6, <2>3
  <2>5. ASSUME NEW i \in 1 .. l + 1, i # 1 PROVE Greater(c[1][1], d[i][1])
    <3>1. CASE i \in 1 .. p - 1
      <4>1. i \in 1 .. l /\ d[i] = c[i]
        BY <1>5, <1>6, <3>1
      <4> QED
        BY <1>1, <1>14, <2>5, <4>1 DEF Leads
    <3>2. CASE i = p
      BY <1>6, <1>14, <3>2
    <3>3. CASE i \in p + 1 .. l + 1 /\ i - 1 \in p .. l
      <4>1. i - 1 \in 1 .. l /\ i - 1 # 1 /\ d[i] = c[i - 1]
        BY <1>5, <1>6, <2>3, <3>3
      <4> QED
        BY <1>1, <1>14, <4>1 DEF Leads
    <3> QED
      BY <1>9, <3>1, <3>2, <3>3
  <2> QED
    BY <1>6, <1>12, <2>4, <2>5 DEF Leads
<1> QED
  BY <1>4, <1>6, <1>11, <1>13, <1>14

IsSortedFrom(c, raw, A) ==
    c \in Seq(A) /\ Weakly(c) /\ (raw # <<>> /\ Leads(raw, raw[1]) => Leads(c, raw[1]))

LEMMA SortedTerms ==
    ASSUME NEW n \in Nat, NEW M \in SUBSET Monomials(n), NEW E, NEW raw \in Seq(M \X E)
    PROVE  IsSortedFrom(by_monomial(raw), raw, M \X E)
<1> DEFINE sorted[k \in 0 .. Len(raw)] == IF k = 0 THEN <<>> ELSE placed(sorted[k - 1], raw[k])
           m == Len(raw)
           A == M \X E
           T == {c \in Seq(A) : Weakly(c)}
           none == <<>>
           after(k, u) == placed(u, raw[k])
           step == [k \in 1 .. m |-> [u \in T |-> after(k, u)]]
<1>1. m \in Nat /\ DOMAIN raw = 1 .. m /\ \A k \in 1 .. m : raw[k] \in A
  OBVIOUS
<1>2. none \in T
  <2>1. Weakly(none)
    BY DEF Weakly
  <2> QED
    BY <2>1
<1>3. ASSUME NEW k \in 1 .. m, NEW u \in T PROVE after(k, u) \in T
  BY <1>1, PlacedTerm
<1> HIDE DEF A, T, none, after
<1>4. StaysIn(m, T, step) /\ \A k \in 1 .. m, u \in T : step[k][u] = after(k, u)
  BY <1>3 DEF StaysIn
<1> HIDE DEF m, step
<1>5. PICK h : Recurs(m, T, none, step, h)
  BY <1>1, <1>2, <1>4, Recurrence
<1>6. h \in [0 .. m -> T] /\ \A k \in 0 .. m : h[k] = IF k = 0 THEN none ELSE after(k, h[k - 1])
  <2>1. \A k \in 0 .. m : k # 0 => k \in 1 .. m /\ k - 1 \in 0 .. m
    BY <1>1
  <2>2. h \in [0 .. m -> T] /\ h[0] = none /\ \A k \in 1 .. m : h[k] = step[k][h[k - 1]]
    BY <1>5 DEF Recurs
  <2>3. \A k \in 1 .. m : h[k] = after(k, h[k - 1])
    BY <1>4, <2>1, <2>2
  <2> QED
    BY <2>1, <2>2, <2>3
<1>7. sorted = [k \in 0 .. m |-> IF k = 0 THEN none ELSE after(k, sorted[k - 1])]
  <2>1. h = [k \in 0 .. m |-> IF k = 0 THEN none ELSE after(k, h[k - 1])]
    BY <1>6
  <2> QED
    BY <2>1 DEF m, none, after
<1> HIDE DEF sorted
<1>8. sorted[0] = none /\ \A k \in 1 .. m : sorted[k] = after(k, sorted[k - 1])
  <2>1. 0 \in 0 .. m /\ \A k \in 1 .. m : k \in 0 .. m /\ k # 0
    BY <1>1
  <2> QED
    BY <1>7, <2>1
<1>9. Recurs(m, T, none, step, sorted)
  <2>1. sorted = [k \in 0 .. m |-> sorted[k]]
    BY <1>7
  <2>2. \A k \in 1 .. m : sorted[k - 1] \in T => sorted[k] = step[k][sorted[k - 1]]
    BY <1>4, <1>8
  <2> QED
    BY <1>1, <1>2, <1>4, <1>8, <2>1, <2>2, Recurred
<1>10. \A k \in 0 .. m : sorted[k] \in Seq(A) /\ Weakly(sorted[k])
  BY <1>9 DEF Recurs, T
<1>11. by_monomial(raw) = sorted[m] /\ m \in 0 .. m
  BY <1>1 DEF by_monomial, sorted, m
<1>12. ASSUME raw # <<>>, Leads(raw, raw[1]) PROVE Leads(sorted[m], raw[1])
  <2> DEFINE U == {k \in Nat : k = 0 \/ Leads(sorted[k], raw[1])}
  <2>1. 0 \in U
    OBVIOUS
  <2>2. ASSUME NEW k \in 1 .. m, k - 1 \in U PROVE k \in U
    <3>1. k \in Nat /\ k - 1 \in 0 .. m /\ raw[k] \in A
      BY <1>1
    <3>2. sorted[k] = placed(sorted[k - 1], raw[k]) /\ sorted[k - 1] \in Seq(A) /\ Weakly(sorted[k - 1])
      BY <1>8, <1>10, <3>1 DEF after
    <3>3. CASE k = 1
      <4>1. sorted[k - 1] = <<>>
        BY <1>8, <3>3 DEF none
      <4>2. Leads(placed(sorted[k - 1], raw[k]), raw[k])
        BY <3>1, <3>2, <4>1, PlacedTerm DEF A
      <4> QED
        BY <3>1, <3>2, <3>3, <4>2
    <3>4. CASE k # 1
      <4>1. Leads(sorted[k - 1], raw[1]) /\ sorted[k - 1] # <<>> /\ sorted[k - 1][1] = raw[1]
        BY <2>2, <3>4 DEF Leads
      <4>2. Greater(raw[1][1], raw[k][1])
        BY <1>1, <1>12, <3>4 DEF Leads
      <4>3. Leads(placed(sorted[k - 1], raw[k]), sorted[k - 1][1])
        BY <3>1, <3>2, <4>1, <4>2, PlacedTerm DEF A
      <4> QED
        BY <3>1, <3>2, <4>1, <4>3
    <3> QED
      BY <3>3, <3>4
  <2>3. \A k \in 0 .. m : k \in U
    <3> HIDE DEF U
    <3> QED
      BY <1>1, <2>1, <2>2, RangeInduction
  <2>4. m # 0
    BY <1>12 DEF m
  <2> QED
    BY <1>11, <2>3, <2>4
<1> QED
  BY <1>10, <1>11, <1>12 DEF IsSortedFrom, A

-----------------------------------------------------------------------------
(* Adding up. *)

IsJoined(d, c, e, A) ==
    /\ d \in Seq(A) /\ d # <<>> /\ Last(d)[1] = e[1]
    /\ (Strict(c) /\ (c # <<>> => ~Greater(e[1], Last(c)[1]))) => Strict(d)
    /\ c = <<>> => Leads(d, e)
    /\ (c # <<>> /\ Leads(c, c[1]) /\ Greater(c[1][1], e[1])) => Leads(d, c[1])

LEMMA JoinedTerm ==
    ASSUME NEW n \in Nat, NEW M \in SUBSET Monomials(n), NEW E, NEW F,
           \A u, v \in E : add(F, u, v) \in E,
           NEW c \in Seq(M \X E), NEW e \in M \X E
    PROVE  IsJoined(joined(F, c, e), c, e, M \X E)
<1> DEFINE d == joined(F, c, e)
           same == c # <<>> /\ Last(c)[1] = e[1]
<1>1. PICK l \in Nat : l = Len(c) /\ DOMAIN c = 1 .. l
  OBVIOUS
<1>2. e[1] \in M /\ e[2] \in E /\ e[1] \in Monomials(n)
      /\ \A k \in 1 .. l : c[k][1] \in M /\ c[k][2] \in E /\ c[k][1] \in Monomials(n)
  BY <1>1
<1>3. c # <<>> => 1 \in 1 .. l /\ l \in 1 .. l /\ Last(c) = c[l]
  BY <1>1 DEF Last
<1>4. CASE same
  <2>1. 1 \in 1 .. l /\ l \in 1 .. l /\ Last(c) = c[l] /\ c[l][1] = e[1]
    BY <1>3, <1>4
  <2>2. PICK v \in M \X E : v = <<e[1], add(F, c[l][2], e[2])>> /\ v[1] = e[1]
    <3>1. add(F, c[l][2], e[2]) \in E
      BY <1>2, <2>1
    <3>2. <<e[1], add(F, c[l][2], e[2])>> \in M \X E
      BY <1>2, <3>1
    <3>3. <<e[1], add(F, c[l][2], e[2])>>[1] = e[1]
      OBVIOUS
    <3> QED
      BY <3>2, <3>3, Zenon
  <2>3. d = [c EXCEPT ![l] = v]
    BY <1>1, <1>4, <2>1, <2>2 DEF joined
  <2> HIDE DEF d
  <2>4. d \in Seq(M \X E) /\ DOMAIN d = 1 .. l /\ Len(d) = l /\ \A k \in 1 .. l : d[k] = IF k = l THEN v ELSE c[k]
    <3>1. [c EXCEPT ![l] = v] \in Seq(M \X E) /\ Len([c EXCEPT ![l] = v]) = l
      BY <1>1, <2>1, ExceptSeq
    <3>2. \A k \in 1 .. l : [c EXCEPT ![l] = v][k] = IF k = l THEN v ELSE c[k]
      BY <1>1
    <3>3. DOMAIN [c EXCEPT ![l] = v] = 1 .. l
      BY <1>1
    <3> QED
      BY <2>3, <3>1, <3>2, <3>3, Zenon
  <2>5. \A k \in 1 .. l : d[k][1] = c[k][1]
    BY <2>1, <2>2, <2>4
  <2>6. d # <<>> /\ Last(d)[1] = e[1]
    BY <2>1, <2>2, <2>4 DEF Last
  <2>7. Strict(c) => Strict(d)
    BY <1>1, <2>4, <2>5 DEF Strict
  <2>8. c # <<>>
    BY <1>4
  <2>9. ASSUME Leads(c, c[1]), Greater(c[1][1], e[1]) PROVE Leads(d, c[1])
    <3>1. l # 1
      <4> SUFFICES ASSUME l = 1 PROVE FALSE
        OBVIOUS
      <4>1. Greater(e[1], e[1])
        BY <2>1, <2>9
      <4> QED
        BY <1>2, <4>1, GreaterIsStrict
    <3>2. d[1] = c[1]
      BY <2>1, <2>4, <3>1
    <3> QED
      BY <1>1, <2>4, <2>5, <2>6, <2>9, <3>2 DEF Leads
  <2> QED
    BY <2>4, <2>6, <2>7, <2>8, <2>9 DEF d, IsJoined
<1>5. CASE ~same
  <2>1. d = Append(c, e)
    BY <1>5 DEF joined
  <2> HIDE DEF d
  <2>2. d \in Seq(M \X E) /\ DOMAIN d = 1 .. l + 1 /\ Len(d) = l + 1 /\ d[l + 1] = e /\ \A k \in 1 .. l : d[k] = c[k]
    BY <1>1, <2>1
  <2>3. d # <<>> /\ Last(d)[1] = e[1]
    BY <1>1, <2>2 DEF Last
  <2>4. ASSUME Strict(c), c # <<>> => ~Greater(e[1], Last(c)[1]) PROVE Strict(d)
    <3>1. ASSUME NEW k \in 1 .. l PROVE Greater(c[k][1], e[1])
      <4>1. l \in 1 .. l /\ c # <<>> /\ Last(c) = c[l]
        BY <1>1, <1>3, <3>1
      <4>2. Greater(c[l][1], e[1])
        BY <1>2, <1>5, <2>4, <4>1, GreaterIsTotal
      <4>3. CASE k = l
        BY <4>2, <4>3
      <4>4. CASE k # l
        <5>1. Greater(c[k][1], c[l][1])
          BY <1>1, <2>4, <4>1, <4>4 DEF Strict
        <5> QED
          BY <1>2, <4>1, <4>2, <5>1, GreaterIsTransitive
      <4> QED
        BY <4>3, <4>4
    <3>2. \A k \in DOMAIN c : Greater(c[k][1], e[1])
      BY <1>1, <3>1
    <3> QED
      BY <2>1, <2>4, <3>2, PushKeepsStrict
  <2>5. ASSUME c = <<>> PROVE Leads(d, e)
    <3>1. l = 0
      BY <1>1, <2>5
    <3> QED
      BY <2>2, <2>3, <3>1 DEF Leads
  <2>6. ASSUME c # <<>>, Leads(c, c[1]), Greater(c[1][1], e[1]) PROVE Leads(d, c[1])
    <3>1. 1 \in 1 .. l /\ d[1] = c[1]
      BY <1>3, <2>2, <2>6
    <3>2. ASSUME NEW k \in 1 .. l + 1, k # 1 PROVE Greater(c[1][1], d[k][1])
      <4>1. CASE k = l + 1
        BY <2>2, <2>6, <4>1
      <4>2. CASE k # l + 1
        <5>1. k \in 1 .. l
          BY <4>2
        <5> QED
          BY <1>1, <2>2, <2>6, <3>2, <5>1 DEF Leads
      <4> QED
        BY <4>1, <4>2
    <3> QED
      BY <2>2, <2>3, <3>1, <3>2 DEF Leads
  <2> QED
    BY <2>2, <2>3, <2>4, <2>5, <2>6 DEF d, IsJoined
<1> QED
  BY <1>4, <1>5

LEMMA AddedTerms ==
    ASSUME NEW n \in Nat, NEW M \in SUBSET Monomials(n), NEW E, NEW F,
           \A u, v \in E : add(F, u, v) \in E, NEW raw \in Seq(M \X E), Weakly(raw)
    PROVE  /\ added_up(F, raw) \in Seq(M \X E)
           /\ Strict(added_up(F, raw))
           /\ (raw # <<>> /\ Leads(raw, raw[1])) => Leads(added_up(F, raw), raw[1])
<1> DEFINE done[k \in 0 .. Len(raw)] == IF k = 0 THEN <<>> ELSE joined(F, done[k - 1], raw[k])
           m == Len(raw)
           A == M \X E
           T == Seq(A)
           none == <<>>
           after(k, u) == joined(F, u, raw[k])
           step == [k \in 1 .. m |-> [u \in T |-> after(k, u)]]
<1>1. m \in Nat /\ DOMAIN raw = 1 .. m /\ \A k \in 1 .. m : raw[k] \in A
  OBVIOUS
<1>2. none \in T
  OBVIOUS
<1>3. ASSUME NEW k \in 1 .. m, NEW u \in T PROVE after(k, u) \in T
  <2>1. u \in Seq(M \X E) /\ raw[k] \in M \X E
    BY <1>1
  <2>2. IsJoined(joined(F, u, raw[k]), u, raw[k], M \X E)
    BY <2>1, JoinedTerm
  <2> QED
    BY <2>2 DEF IsJoined
<1> HIDE DEF A, T, none, after
<1>4. StaysIn(m, T, step) /\ \A k \in 1 .. m, u \in T : step[k][u] = after(k, u)
  BY <1>3 DEF StaysIn
<1> HIDE DEF m, step
<1>5. PICK h : Recurs(m, T, none, step, h)
  BY <1>1, <1>2, <1>4, Recurrence
<1>6. h \in [0 .. m -> T] /\ \A k \in 0 .. m : h[k] = IF k = 0 THEN none ELSE after(k, h[k - 1])
  <2>1. \A k \in 0 .. m : k # 0 => k \in 1 .. m /\ k - 1 \in 0 .. m
    BY <1>1
  <2>2. h \in [0 .. m -> T] /\ h[0] = none /\ \A k \in 1 .. m : h[k] = step[k][h[k - 1]]
    BY <1>5 DEF Recurs
  <2>3. \A k \in 1 .. m : h[k] = after(k, h[k - 1])
    BY <1>4, <2>1, <2>2
  <2> QED
    BY <2>1, <2>2, <2>3
<1>7. done = [k \in 0 .. m |-> IF k = 0 THEN none ELSE after(k, done[k - 1])]
  <2>1. h = [k \in 0 .. m |-> IF k = 0 THEN none ELSE after(k, h[k - 1])]
    BY <1>6
  <2> QED
    BY <2>1 DEF m, none, after
<1> HIDE DEF done
<1>8. done[0] = none /\ \A k \in 1 .. m : done[k] = after(k, done[k - 1])
  <2>1. 0 \in 0 .. m /\ \A k \in 1 .. m : k \in 0 .. m /\ k # 0
    BY <1>1
  <2> QED
    BY <1>7, <2>1
<1>9. Recurs(m, T, none, step, done)
  <2>1. done = [k \in 0 .. m |-> done[k]]
    BY <1>7
  <2>2. \A k \in 1 .. m : done[k - 1] \in T => done[k] = step[k][done[k - 1]]
    BY <1>4, <1>8
  <2> QED
    BY <1>1, <1>2, <1>4, <1>8, <2>1, <2>2, Recurred
<1>10. \A k \in 0 .. m : done[k] \in Seq(A)
  BY <1>9 DEF Recurs, T
<1>11. added_up(F, raw) = done[m] /\ m \in 0 .. m
  BY <1>1 DEF added_up, done, m
<1> DEFINE Good(k) == Strict(done[k]) /\ (k # 0 => done[k] # <<>> /\ Last(done[k])[1] = raw[k][1])
           Led(k) == k = 0 \/ Leads(done[k], raw[1])
           U == {k \in Nat : Good(k)}
           V == {k \in Nat : Led(k)}
<1>12. ASSUME NEW k \in 1 .. m
       PROVE  /\ k \in Nat /\ k # 0 /\ k - 1 \in 0 .. m /\ k - 1 \in Nat /\ raw[k] \in A
              /\ done[k] = joined(F, done[k - 1], raw[k]) /\ done[k - 1] \in Seq(A)
  BY <1>1, <1>8, <1>10 DEF after
<1>16. ASSUME NEW k \in 1 .. m PROVE IsJoined(done[k], done[k - 1], raw[k], A)
  <2>1. done[k - 1] \in Seq(M \X E) /\ raw[k] \in M \X E
    BY <1>12 DEF A
  <2>2. IsJoined(joined(F, done[k - 1], raw[k]), done[k - 1], raw[k], M \X E)
    BY <2>1, JoinedTerm
  <2> QED
    BY <1>12, <2>2 DEF A
<1>13. \A k \in 0 .. m : k \in U
  <2>1. 0 \in U
    BY <1>8 DEF Strict, none
  <2>2. ASSUME NEW k \in 1 .. m, k - 1 \in U PROVE k \in U
    <3>1. Good(k - 1)
      BY <2>2
    <3>2. done[k - 1] # <<>> => ~Greater(raw[k][1], Last(done[k - 1])[1])
      <4> SUFFICES ASSUME done[k - 1] # <<>> PROVE ~Greater(raw[k][1], Last(done[k - 1])[1])
        OBVIOUS
      <4>1. k # 1
        BY <1>8 DEF none
      <4>2. k - 1 \in 1 .. m /\ k - 1 < k /\ k - 1 # 0
        BY <1>1, <4>1
      <4>3. Last(done[k - 1])[1] = raw[k - 1][1]
        BY <3>1, <4>2
      <4>4. ~Greater(raw[k][1], raw[k - 1][1])
        BY <1>1, <4>2 DEF Weakly
      <4> QED
        BY <4>3, <4>4
    <3> HIDE DEF Good
    <3>3. Strict(done[k - 1])
      BY <3>1 DEF Good
    <3>4. Strict(done[k]) /\ done[k] # <<>> /\ Last(done[k])[1] = raw[k][1]
      BY <1>16, <3>2, <3>3 DEF IsJoined
    <3>5. Good(k)
      BY <3>4 DEF Good
    <3> QED
      BY <1>12, <3>5
  <2> HIDE DEF U
  <2> QED
    BY <1>1, <2>1, <2>2, RangeInduction
<1>14. ASSUME raw # <<>>, Leads(raw, raw[1]) PROVE Leads(done[m], raw[1])
  <2>1. 0 \in V
    OBVIOUS
  <2>2. ASSUME NEW k \in 1 .. m, k - 1 \in V PROVE k \in V
    <3>1. CASE k = 1
      <4>1. done[k - 1] = <<>>
        BY <1>8, <3>1 DEF none
      <4>2. Leads(done[k], raw[k])
        BY <1>16, <4>1 DEF IsJoined
      <4> QED
        BY <1>12, <3>1, <4>2
    <3>2. CASE k # 1
      <4>1. Leads(done[k - 1], raw[1]) /\ done[k - 1] # <<>> /\ done[k - 1][1] = raw[1]
        BY <2>2, <3>2 DEF Leads
      <4>2. Greater(raw[1][1], raw[k][1])
        BY <1>1, <1>14, <3>2 DEF Leads
      <4>3. Leads(done[k], done[k - 1][1])
        BY <1>16, <4>1, <4>2 DEF IsJoined
      <4> QED
        BY <1>12, <4>1, <4>3
    <3> QED
      BY <3>1, <3>2
  <2>3. \A k \in 0 .. m : k \in V
    <3> HIDE DEF V
    <3> QED
      BY <1>1, <2>1, <2>2, RangeInduction
  <2>4. m # 0
    BY <1>14 DEF m
  <2> QED
    BY <1>11, <2>3, <2>4
<1>15. Strict(done[m])
  BY <1>11, <1>13
<1> QED
  BY <1>10, <1>11, <1>14, <1>15 DEF A

-----------------------------------------------------------------------------
(* Canonical terms. *)

\* Sorted, without zeros and without a monomial twice.
CanonicalTerms(c, M, E, F) ==
    c \in Seq(M \X E) /\ Strict(c) /\ \A k \in DOMAIN c : c[k][2] # zero(F)

IsNonzero(d, c, M, E, F) ==
    /\ CanonicalTerms(d, M, E, F)
    /\ \A i \in DOMAIN d : \E k \in DOMAIN c : c[k][2] # zero(F) /\ d[i] = c[k]
    /\ (c # <<>> /\ c[1][2] # zero(F)) => d # <<>> /\ d[1] = c[1]

LEMMA NonzeroTerms ==
    ASSUME NEW M, NEW E, NEW F, NEW c \in Seq(M \X E), Strict(c)
    PROVE  IsNonzero(nonzero(F, c), c, M, E, F)
<1> DEFINE P == {k \in DOMAIN c : c[k][2] # zero(F)}
           d == chosen(c, P)
<1>1. nonzero(F, c) = d
  BY DEF nonzero
<1>2. /\ d \in Seq(M \X E)
      /\ \A i \in DOMAIN d : \E k \in DOMAIN c : k \in P /\ d[i] = c[k]
      /\ Strict(d)
      /\ (c # <<>> /\ 1 \in P) => d # <<>> /\ d[1] = c[1]
  <2> HIDE DEF P
  <2> QED
    BY ChosenTerms
<1> HIDE DEF d
<1>3. \A i \in DOMAIN d : \E k \in DOMAIN c : c[k][2] # zero(F) /\ d[i] = c[k]
  BY <1>2
<1>4. (c # <<>> /\ c[1][2] # zero(F)) => d # <<>> /\ d[1] = c[1]
  BY <1>2
<1>5. CanonicalTerms(d, M, E, F)
  BY <1>2, <1>3 DEF CanonicalTerms
<1> QED
  BY <1>1, <1>3, <1>4, <1>5 DEF IsNonzero

LEMMA CombinedTerms ==
    ASSUME NEW n \in Nat, NEW M \in SUBSET Monomials(n), NEW E, NEW F,
           \A u, v \in E : add(F, u, v) \in E, NEW raw \in Seq(M \X E)
    PROVE  /\ CanonicalTerms(combined(F, raw), M, E, F)
           /\ (raw # <<>> /\ Leads(raw, raw[1]) /\ raw[1][2] # zero(F))
              => combined(F, raw) # <<>> /\ combined(F, raw)[1] = raw[1]
<1> DEFINE c == by_monomial(raw)
           d == added_up(F, c)
<1>1. c \in Seq(M \X E) /\ Weakly(c) /\ ((raw # <<>> /\ Leads(raw, raw[1])) => Leads(c, raw[1]))
  BY SortedTerms DEF IsSortedFrom
<1>2. combined(F, raw) = nonzero(F, d)
  BY DEF combined
<1> HIDE DEF c
<1>3. /\ d \in Seq(M \X E) /\ Strict(d)
      /\ (c # <<>> /\ Leads(c, c[1])) => Leads(d, c[1])
  BY <1>1, AddedTerms
<1> HIDE DEF d
<1>5. IsNonzero(nonzero(F, d), d, M, E, F)
  BY <1>3, NonzeroTerms
<1>4. ASSUME raw # <<>>, Leads(raw, raw[1]), raw[1][2] # zero(F)
      PROVE  nonzero(F, d) # <<>> /\ nonzero(F, d)[1] = raw[1]
  <2>1. c # <<>> /\ c[1] = raw[1] /\ Leads(c, raw[1])
    BY <1>1, <1>4 DEF Leads
  <2>2. d # <<>> /\ d[1] = raw[1]
    BY <1>3, <2>1 DEF Leads
  <2>3. d[1][2] # zero(F)
    BY <1>4, <2>2
  <2>4. nonzero(F, d) # <<>> /\ nonzero(F, d)[1] = d[1]
    BY <1>5, <2>2, <2>3 DEF IsNonzero
  <2> QED
    BY <2>2, <2>4
<1>6. CanonicalTerms(nonzero(F, d), M, E, F)
  BY <1>5 DEF IsNonzero
<1> QED
  BY <1>2, <1>4, <1>6

-----------------------------------------------------------------------------
(* Powers. *)

LEMMA PowersStay ==
    ASSUME NEW E, NEW F, \A u, v \in E : mul(F, u, v) \in E, one(F) \in E, NEW e \in E, NEW m \in Nat
    PROVE  coeff_pow(F, e, m) \in E
<1> DEFINE powers[k \in 0 .. m] == IF k = 0 THEN <<one(F), e, m>> ELSE pow_step(F, powers[k - 1])
           T == E \X E \X Nat
           first == <<one(F), e, m>>
           after(u) == pow_step(F, u)
           step == [k \in 1 .. m |-> [u \in T |-> after(u)]]
<1>2. first \in T
  OBVIOUS
<1>3. ASSUME NEW u \in T PROVE after(u) \in T
  <2>1. PICK i \in E, j \in E, k \in Nat : u = <<i, j, k>>
    OBVIOUS
  <2>2. u[1] = i /\ u[2] = j /\ u[3] = k
    BY <2>1
  <2>3. k \div 2 \in Nat
    BY Z3
  <2>4. mul(F, i, j) \in E /\ mul(F, j, j) \in E
    OBVIOUS
  <2>5. after(u) = IF k = 0 THEN u ELSE <<IF k % 2 = 1 THEN mul(F, i, j) ELSE i, mul(F, j, j), k \div 2>>
    BY <2>2, Zenon DEF pow_step
  <2>6. (IF k % 2 = 1 THEN mul(F, i, j) ELSE i) \in E
    BY <2>4, Zenon
  <2>7. <<IF k % 2 = 1 THEN mul(F, i, j) ELSE i, mul(F, j, j), k \div 2>> \in T
    <3>1. PICK v \in E, w \in E, l \in Nat :
            v = (IF k % 2 = 1 THEN mul(F, i, j) ELSE i) /\ w = mul(F, j, j) /\ l = k \div 2
      BY <2>3, <2>4, <2>6, Zenon
    <3>2. <<v, w, l>> \in T
      OBVIOUS
    <3> QED
      BY <3>1, <3>2, Zenon
  <2> QED
    BY <2>5, <2>7, Zenon
<1> HIDE DEF T, first, after
<1>4. StaysIn(m, T, step) /\ \A k \in 1 .. m, u \in T : step[k][u] = after(u)
  BY <1>3 DEF StaysIn
<1> HIDE DEF step
<1>5. PICK h : Recurs(m, T, first, step, h)
  BY <1>2, <1>4, Recurrence
<1>6. h \in [0 .. m -> T] /\ \A k \in 0 .. m : h[k] = IF k = 0 THEN first ELSE after(h[k - 1])
  <2>1. \A k \in 0 .. m : k # 0 => k \in 1 .. m /\ k - 1 \in 0 .. m
    OBVIOUS
  <2>2. h \in [0 .. m -> T] /\ h[0] = first /\ \A k \in 1 .. m : h[k] = step[k][h[k - 1]]
    BY <1>5 DEF Recurs
  <2>3. \A k \in 1 .. m : h[k] = after(h[k - 1])
    BY <1>4, <2>1, <2>2
  <2> QED
    BY <2>1, <2>2, <2>3
<1>7. powers = [k \in 0 .. m |-> IF k = 0 THEN first ELSE after(powers[k - 1])]
  <2>1. h = [k \in 0 .. m |-> IF k = 0 THEN first ELSE after(h[k - 1])]
    BY <1>6
  <2> QED
    BY <2>1 DEF first, after
<1> HIDE DEF powers
<1>8. Recurs(m, T, first, step, powers)
  <2>1. powers = [k \in 0 .. m |-> powers[k]]
    BY <1>7
  <2>2. 0 \in 0 .. m /\ \A k \in 1 .. m : k \in 0 .. m /\ k # 0
    OBVIOUS
  <2>3. powers[0] = first /\ \A k \in 1 .. m : powers[k] = after(powers[k - 1])
    BY <1>7, <2>2
  <2>4. \A k \in 1 .. m : powers[k - 1] \in T => powers[k] = step[k][powers[k - 1]]
    BY <1>4, <2>3
  <2> QED
    BY <1>2, <1>4, <2>1, <2>3, <2>4, Recurred
<1>9. powers[m] \in T
  BY <1>8 DEF Recurs
<1>10. coeff_pow(F, e, m) = powers[m][1]
  BY DEF coeff_pow, powers
<1> QED
  BY <1>9, <1>10 DEF T

\* What the terms need of their coefficients.
CoefficientLaws(F, E) ==
    /\ FieldLaws(F, E)
    /\ \A u \in E : neg(F, u) \in E /\ (neg(F, u) = zero(F) => u = zero(F))
    /\ \A u \in E : sub(F, u, u) = zero(F)

LEMMA Closed ==
    ASSUME NEW F, NEW E, CoefficientLaws(F, E)
    PROVE  /\ zero(F) \in E /\ one(F) \in E /\ one(F) # zero(F)
           /\ \A u, v \in E : add(F, u, v) \in E /\ sub(F, u, v) \in E /\ mul(F, u, v) \in E
           /\ \A u \in E : neg(F, u) \in E /\ sub(F, u, u) = zero(F) /\ (neg(F, u) = zero(F) => u = zero(F))
           /\ \A u \in E : u # zero(F) => inv(F, u) \in E
  BY DEF CoefficientLaws, FieldLaws, UnaryLaws, BinaryLaws

\* A merge with a combination of the coefficients is sorted.
LEMMA CombinationOfMerge ==
    ASSUME NEW M, NEW E, NEW m \in Seq(M \X E \X E), Strict(m),
           NEW c \in Seq(M \X E), Len(c) = Len(m), \A k \in 1 .. Len(m) : c[k][1] = m[k][1]
    PROVE  Strict(c)
<1>1. DOMAIN c = 1 .. Len(m) /\ DOMAIN m = 1 .. Len(m)
  OBVIOUS
<1> QED
  BY <1>1 DEF Strict

LEMMA SumsAreCanonical ==
    ASSUME NEW n \in Nat, NEW M \in SUBSET Monomials(n), NEW E, NEW F, CoefficientLaws(F, E),
           NEW p, NEW q, CanonicalTerms(p, M, E, F), CanonicalTerms(q, M, E, F)
    PROVE  CanonicalTerms(nonzero(F, sum_of(F, merge_terms(F, p, q))), M, E, F)
<1> DEFINE m == merge_terms(F, p, q)
           c == sum_of(F, m)
<1>1. m \in Seq(M \X E \X E) /\ Strict(m)
  <2>1. zero(F) \in E /\ p \in Seq(M \X E) /\ q \in Seq(M \X E) /\ Strict(p) /\ Strict(q)
    BY Closed DEF CanonicalTerms
  <2>2. IsMerge(m, p, q, M, E)
    BY <2>1, MergedTerms
  <2> QED
    BY <2>2 DEF IsMerge
<1> HIDE DEF m
<1>2. PICK l \in Nat : l = Len(m) /\ DOMAIN m = 1 .. l
  BY <1>1
<1>3. \A k \in 1 .. l : m[k][1] \in M /\ m[k][2] \in E /\ m[k][3] \in E
  BY <1>1, <1>2
<1>4. ASSUME NEW k \in 1 .. l PROVE <<m[k][1], add(F, m[k][2], m[k][3])>> \in M \X E
  <2>1. add(F, m[k][2], m[k][3]) \in E
    BY <1>3, Closed
  <2> QED
    BY <1>3, <2>1
<1>5. c = [k \in 1 .. l |-> <<m[k][1], add(F, m[k][2], m[k][3])>>]
  BY <1>2 DEF sum_of
<1> HIDE DEF c
<1>6. c \in [1 .. l -> M \X E]
  BY <1>4, <1>5
<1>7. c \in Seq(M \X E) /\ Len(c) = l
  BY <1>6
<1>8. \A k \in 1 .. l : c[k][1] = m[k][1]
  BY <1>5
<1>9. Strict(c)
  BY <1>1, <1>2, <1>7, <1>8, CombinationOfMerge
<1>10. IsNonzero(nonzero(F, c), c, M, E, F)
  BY <1>7, <1>9, NonzeroTerms
<1> QED
  BY <1>10 DEF IsNonzero, c, m

\* Terms are smaller than a monomial.
Below(c, m) == \A k \in DOMAIN c : Greater(m, c[k][1])

\* A difference is canonical; if the leading terms are the same they cancels.
LEMMA DifferencesAreCanonical ==
    ASSUME NEW n \in Nat, NEW M \in SUBSET Monomials(n), NEW E, NEW F, CoefficientLaws(F, E),
           NEW p, NEW q, CanonicalTerms(p, M, E, F), CanonicalTerms(q, M, E, F)
    PROVE  /\ CanonicalTerms(nonzero(F, difference_of(F, merge_terms(F, p, q))), M, E, F)
           /\ (p # <<>> /\ q # <<>> /\ p[1] = q[1])
              => Below(nonzero(F, difference_of(F, merge_terms(F, p, q))), p[1][1])
<1> DEFINE m == merge_terms(F, p, q)
           c == difference_of(F, m)
           d == nonzero(F, c)
<1>0. zero(F) \in E /\ p \in Seq(M \X E) /\ q \in Seq(M \X E) /\ Strict(p) /\ Strict(q)
  BY Closed DEF CanonicalTerms
<1>1. IsMerge(m, p, q, M, E)
  BY <1>0, MergedTerms
<1>2. m \in Seq(M \X E \X E) /\ Strict(m)
  BY <1>1 DEF IsMerge
<1> HIDE DEF m
<1>3. PICK l \in Nat : l = Len(m) /\ DOMAIN m = 1 .. l
  BY <1>2
<1>4. \A k \in 1 .. l : m[k][1] \in M /\ m[k][2] \in E /\ m[k][3] \in E
  BY <1>2, <1>3
<1>5. ASSUME NEW k \in 1 .. l PROVE <<m[k][1], sub(F, m[k][2], m[k][3])>> \in M \X E
  <2>1. sub(F, m[k][2], m[k][3]) \in E
    BY <1>4, Closed
  <2> QED
    BY <1>4, <2>1
<1>6. c = [k \in 1 .. l |-> <<m[k][1], sub(F, m[k][2], m[k][3])>>]
  BY <1>3 DEF difference_of
<1> HIDE DEF c
<1>7. c \in [1 .. l -> M \X E]
  BY <1>5, <1>6
<1>8. c \in Seq(M \X E) /\ Len(c) = l /\ DOMAIN c = 1 .. l
  BY <1>7
<1>9. \A k \in 1 .. l : c[k][1] = m[k][1] /\ c[k][2] = sub(F, m[k][2], m[k][3])
  BY <1>6
<1>10. Strict(c)
  BY <1>2, <1>3, <1>8, <1>9, CombinationOfMerge
<1>11. IsNonzero(d, c, M, E, F)
  BY <1>8, <1>10, NonzeroTerms
<1> HIDE DEF d
<1>12. ASSUME p # <<>>, q # <<>>, p[1] = q[1] PROVE Below(d, p[1][1])
  <2> SUFFICES ASSUME NEW i \in DOMAIN d PROVE Greater(p[1][1], d[i][1])
    BY DEF Below
  <2>1. PICK k \in 1 .. l : c[k][2] # zero(F) /\ d[i] = c[k]
    BY <1>8, <1>11 DEF IsNonzero
  <2>2. m # <<>> /\ 1 \in 1 .. l
    BY <1>2, <1>3, <2>1
  <2>3. m[1] = <<p[1][1], p[1][2], p[1][2]>>
    BY <1>1, <1>12, <2>2 DEF IsMerge
  <2>4. m[1][1] = p[1][1] /\ m[1][2] = p[1][2] /\ m[1][3] = p[1][2]
    BY <2>3
  <2>5. c[1][2] = zero(F)
    <3>1. p[1][2] \in E
      BY <1>4, <2>2, <2>4
    <3>2. c[1][2] = sub(F, p[1][2], p[1][2])
      BY <1>9, <2>2, <2>4
    <3> QED
      BY <3>1, <3>2, Closed
  <2>6. 1 < k
    BY <2>1, <2>5
  <2>7. Greater(m[1][1], m[k][1])
    BY <1>2, <1>3, <2>1, <2>2, <2>6 DEF Strict
  <2> QED
    BY <1>9, <2>1, <2>4, <2>7
<1>13. CanonicalTerms(d, M, E, F)
  BY <1>11 DEF IsNonzero
<1> QED
  BY <1>12, <1>13 DEF d, c, m

\* The terms of a negation.
LEMMA NegationsAreCanonical ==
    ASSUME NEW M, NEW E, NEW F, CoefficientLaws(F, E), NEW p, CanonicalTerms(p, M, E, F)
    PROVE  CanonicalTerms([k \in DOMAIN p |-> <<p[k][1], neg(F, p[k][2])>>], M, E, F)
<1> DEFINE c == [k \in DOMAIN p |-> <<p[k][1], neg(F, p[k][2])>>]
<1>1. PICK l \in Nat : l = Len(p) /\ DOMAIN p = 1 .. l
  BY DEF CanonicalTerms
<1>2. \A k \in 1 .. l : p[k][1] \in M /\ p[k][2] \in E /\ p[k][2] # zero(F)
  BY <1>1 DEF CanonicalTerms
<1>3. \A k \in 1 .. l : neg(F, p[k][2]) \in E /\ neg(F, p[k][2]) # zero(F)
  BY <1>2, Closed
<1>4. \A k \in 1 .. l : <<p[k][1], neg(F, p[k][2])>> \in M \X E
  BY <1>2, <1>3
<1>5. c \in [1 .. l -> M \X E] /\ \A k \in 1 .. l : c[k][1] = p[k][1] /\ c[k][2] = neg(F, p[k][2])
  BY <1>1, <1>4
<1> HIDE DEF c
<1>6. c \in Seq(M \X E) /\ DOMAIN c = 1 .. l
  BY <1>5
<1>7. Strict(c)
  BY <1>1, <1>5, <1>6 DEF CanonicalTerms, Strict
<1>8. CanonicalTerms(c, M, E, F)
  BY <1>3, <1>5, <1>6, <1>7 DEF CanonicalTerms
<1> QED
  BY <1>8 DEF c

-----------------------------------------------------------------------------
(* Products. *)

\* The monomials of n variables.
Mon(n) == [1 .. n -> 0 .. ExponentRange - 1]

LEMMA MonAreMonomials ==
    ASSUME ExponentRange \in Nat, NEW n \in Nat
    PROVE  Mon(n) \in SUBSET Monomials(n)
  BY DEF Mon, Monomials

\* Places in a table of rows.
LEMMA RowAndColumn ==
    ASSUME NEW i \in Nat, NEW j \in Nat, NEW k \in 1 .. i * j
    PROVE  ((k - 1) \div j) + 1 \in 1 .. i /\ ((k - 1) % j) + 1 \in 1 .. j
<1>1. j # 0
  <2> SUFFICES ASSUME j = 0 PROVE FALSE
    OBVIOUS
  <2>1. i * j = 0
    OBVIOUS
  <2> QED
    BY <2>1
<1>2. PICK m \in Nat : m = k - 1
  OBVIOUS
<1>3. PICK e \in Nat : e = i * j
  BY Z3
<1>4. m < e
  BY <1>2, <1>3
<1>5. PICK q \in Int, o \in Nat : q = m \div j /\ o = m % j /\ o < j /\ m = j * q + o
  BY <1>1, Z3
<1>6. q >= 0
  <2> SUFFICES ASSUME q <= -1 PROVE FALSE
    BY <1>5
  <2>1. j * (q + 1) <= 0
    BY <1>1, <1>5, Z3
  <2>2. j * (q + 1) = j * q + j
    BY <1>5
  <2> QED
    BY <1>5, <2>1, <2>2
<1>7. q < i
  <2> SUFFICES ASSUME i <= q PROVE FALSE
    BY <1>5
  <2>1. PICK d \in Nat : q = i + d
    <3>1. q - i \in Nat /\ q = i + (q - i)
      BY <1>5
    <3> QED
      BY <3>1
  <2>2. j * q = i * j + j * d /\ j * d >= 0
    BY <2>1, Z3
  <2> QED
    BY <1>3, <1>4, <1>5, <2>1, <2>2
<1> QED
  BY <1>2, <1>5, <1>6, <1>7

LEMMA MonomialProducts ==
    ASSUME ExponentRange \in Nat \ {0}, NEW n \in Nat, NEW l \in Mon(n), NEW m \in Mon(n)
    PROVE  MonomialTimes(l, m) \in Mon(n)
<1>1. \A k \in 1 .. n : l[k] \in Int /\ m[k] \in Int /\ (l[k] + m[k]) % ExponentRange \in 0 .. ExponentRange - 1
  <2> SUFFICES ASSUME NEW k \in 1 .. n
               PROVE  l[k] \in Int /\ m[k] \in Int /\ (l[k] + m[k]) % ExponentRange \in 0 .. ExponentRange - 1
    OBVIOUS
  <2>1. l[k] \in 0 .. ExponentRange - 1 /\ m[k] \in 0 .. ExponentRange - 1
    BY DEF Mon
  <2>2. PICK i \in Int : i = l[k] + m[k]
    BY <2>1
  <2>3. i % ExponentRange \in 0 .. ExponentRange - 1
    BY ReducedEarly
  <2> QED
    BY <2>1, <2>2, <2>3
<1>2. DOMAIN l = 1 .. n
  BY DEF Mon
<1> QED
  BY <1>1, <1>2 DEF MonomialTimes, Mon

\* A product that does not wrap keeps the order: exponents in front of the
\* first different one are the same, the greater one fits.
LEMMA ProductsKeepOrder ==
    ASSUME ExponentRange \in Nat \ {0}, NEW n \in Nat, NEW l \in Mon(n), NEW m \in Mon(n), NEW o \in Mon(n),
           Greater(l, m), \A k \in 1 .. n : o[k] + l[k] < ExponentRange
    PROVE  Greater(MonomialTimes(o, l), MonomialTimes(o, m))
<1>1. PICK i \in 1 .. n : l[i] > m[i] /\ \A k \in 1 .. i - 1 : l[k] = m[k]
  BY DEF Greater, Mon
<1>2. \A k \in 1 .. n : l[k] \in Nat /\ m[k] \in Nat /\ o[k] \in Nat
  BY DEF Mon
<1>3. DOMAIN o = 1 .. n
  BY DEF Mon
<1> DEFINE u == MonomialTimes(o, l)
           v == MonomialTimes(o, m)
<1>4. DOMAIN u = 1 .. n /\ \A k \in 1 .. n : u[k] = (o[k] + l[k]) % ExponentRange /\ v[k] = (o[k] + m[k]) % ExponentRange
  BY <1>3 DEF MonomialTimes
<1>5. u[i] = o[i] + l[i]
  <2>1. PICK e \in Nat : e = o[i] + l[i]
    BY <1>2
  <2>2. e < ExponentRange
    BY <2>1
  <2>3. e % ExponentRange = e
    <3>1. e \in Int /\ 0 <= e /\ ExponentRange \in Nat /\ ExponentRange # 0
      OBVIOUS
    <3> QED
      BY <2>2, <3>1, ModOnce, Zenon
  <2> QED
    BY <1>4, <2>1, <2>3
<1>6. v[i] = o[i] + m[i]
  <2>1. PICK e \in Nat : e = o[i] + m[i]
    BY <1>2
  <2>2. e < ExponentRange
    <3>1. l[i] \in Nat /\ m[i] \in Nat /\ o[i] \in Nat /\ o[i] + l[i] < ExponentRange /\ l[i] > m[i]
      BY <1>1, <1>2
    <3> QED
      BY <2>1, <3>1
  <2>3. e % ExponentRange = e
    <3>1. e \in Int /\ 0 <= e /\ ExponentRange \in Nat /\ ExponentRange # 0
      OBVIOUS
    <3> QED
      BY <2>2, <3>1, ModOnce, Zenon
  <2> QED
    BY <1>4, <2>1, <2>3
<1>7. \A k \in 1 .. i - 1 : u[k] = v[k]
  BY <1>1, <1>4
<1> HIDE DEF u, v
<1>8. u[i] > v[i]
  BY <1>1, <1>2, <1>5, <1>6
<1>9. Greater(u, v)
  BY <1>4, <1>7, <1>8 DEF Greater
<1> QED
  BY <1>9 DEF u, v

LEMMA ProductsOfTerms ==
    ASSUME ExponentRange \in Nat \ {0}, NEW n \in Nat, NEW E, NEW F, CoefficientLaws(F, E),
           NEW u \in Mon(n) \X E, NEW v \in Mon(n) \X E
    PROVE  term_times(F, u, v) \in Mon(n) \X E
<1>1. u[1] \in Mon(n) /\ v[1] \in Mon(n) /\ u[2] \in E /\ v[2] \in E
  OBVIOUS
<1>2. MonomialTimes(u[1], v[1]) \in Mon(n)
  BY <1>1, MonomialProducts
<1>3. mul(F, u[2], v[2]) \in E
  BY <1>1, Closed
<1> QED
  BY <1>2, <1>3 DEF term_times

LEMMA ProductsAreCanonical ==
    ASSUME ExponentRange \in Nat \ {0}, NEW n \in Nat, NEW E, NEW F, CoefficientLaws(F, E),
           NEW p, NEW q, p.terms \in Seq(Mon(n) \X E), q.terms \in Seq(Mon(n) \X E)
    PROVE  products(F, p, q) \in Seq(Mon(n) \X E) /\ CanonicalTerms(combined(F, products(F, p, q)), Mon(n), E, F)
<1> DEFINE u == p.terms
           v == q.terms
           A == Mon(n) \X E
<1>1. PICK i \in Nat, j \in Nat : i = Len(u) /\ j = Len(v) /\ DOMAIN u = 1 .. i /\ DOMAIN v = 1 .. j
  OBVIOUS
<1>2. PICK m \in Nat : m = i * j
  BY Z3
<1>3. \A k \in 1 .. m : term_times(F, u[((k - 1) \div j) + 1], v[((k - 1) % j) + 1]) \in A
  <2> SUFFICES ASSUME NEW k \in 1 .. m
               PROVE  term_times(F, u[((k - 1) \div j) + 1], v[((k - 1) % j) + 1]) \in A
    OBVIOUS
  <2>1. k \in 1 .. i * j
    BY <1>2
  <2>2. PICK c \in 1 .. i, d \in 1 .. j : c = ((k - 1) \div j) + 1 /\ d = ((k - 1) % j) + 1
    BY <2>1, RowAndColumn
  <2>3. u[c] \in A /\ v[d] \in A
    BY <1>1
  <2>4. term_times(F, u[c], v[d]) \in A
    BY <2>3, ProductsOfTerms
  <2> QED
    BY <2>2, <2>4
<1>4. products(F, p, q) = [k \in 1 .. m |-> term_times(F, u[((k - 1) \div j) + 1], v[((k - 1) % j) + 1])]
  BY <1>1, <1>2 DEF products
<1> HIDE DEF A
<1>5. products(F, p, q) \in [1 .. m -> A]
  BY <1>3, <1>4
<1>6. products(F, p, q) \in Seq(A)
  BY <1>5
<1>7. Mon(n) \in SUBSET Monomials(n) /\ \A c, d \in E : add(F, c, d) \in E
  BY MonAreMonomials, Closed
<1> QED
  BY <1>6, <1>7, CombinedTerms DEF A


LEMMA ProductIsNonzero ==
    ASSUME NEW F, NEW E, FieldLaws(F, E), NEW u \in E, NEW v \in E, u # zero(F), v # zero(F)
    PROVE  mul(F, u, v) # zero(F)
<1> SUFFICES ASSUME mul(F, u, v) = zero(F) PROVE FALSE
  OBVIOUS
<1> DEFINE i == inv(F, u)
           o == zero(F)
           l == one(F)
<1>1. i \in E /\ mul(F, u, i) = l /\ o \in E /\ l \in E /\ mul(F, l, v) = v
  BY DEF FieldLaws, UnaryLaws
<1>2. mul(F, i, u) = l
  BY <1>1 DEF FieldLaws, BinaryLaws
<1>3. mul(F, mul(F, i, u), v) = mul(F, i, mul(F, u, v))
  BY <1>1 DEF FieldLaws, TernaryLaws
<1>4. mul(F, i, o) = o
  BY <1>1, Laws
<1> QED
  BY <1>1, <1>2, <1>3, <1>4

\* The coefficient of a division's term times the divisor's.
LEMMA QuotientOfCoefficients ==
    ASSUME NEW F, NEW E, FieldLaws(F, E), NEW u \in E, NEW v \in E, v # zero(F)
    PROVE  mul(F, mul(F, u, inv(F, v)), v) = u /\ mul(F, u, inv(F, v)) \in E
<1> DEFINE i == inv(F, v)
           l == one(F)
<1>1. i \in E /\ mul(F, v, i) = l /\ l \in E /\ mul(F, l, u) = u
  BY DEF FieldLaws, UnaryLaws
<1>2. mul(F, i, v) = l /\ mul(F, u, l) = u /\ mul(F, u, i) \in E
  BY <1>1 DEF FieldLaws, BinaryLaws
<1>3. mul(F, mul(F, u, i), v) = mul(F, u, mul(F, i, v))
  BY <1>1 DEF FieldLaws, TernaryLaws
<1> QED
  BY <1>2, <1>3

\* The product of one term and terms that it does not wrap starts with the
\* product of the leading ones.
LEMMA LeadingProduct ==
    ASSUME ExponentRange \in Nat \ {0}, NEW n \in Nat, NEW E, NEW F, CoefficientLaws(F, E),
           NEW p, NEW q, NEW e \in Mon(n) \X E, p.terms = <<e>>, e[2] # zero(F),
           CanonicalTerms(q.terms, Mon(n), E, F), q.terms # <<>>,
           \A k \in 1 .. n : e[1][k] + q.terms[1][1][k] < ExponentRange
    PROVE  /\ combined(F, products(F, p, q)) # <<>>
           /\ combined(F, products(F, p, q))[1] = term_times(F, e, q.terms[1])
<1> DEFINE v == q.terms
           A == Mon(n) \X E
           raw == products(F, p, q)
<1>1. v \in Seq(A) /\ Strict(v) /\ p.terms \in Seq(A) /\ Len(p.terms) = 1 /\ p.terms[1] = e
  BY DEF CanonicalTerms
<1>2. PICK l \in Nat : l = Len(v) /\ DOMAIN v = 1 .. l
  BY <1>1
<1>3. 1 \in 1 .. l
  BY <1>1, <1>2
<1>4. raw = [k \in 1 .. 1 * l |-> term_times(F, p.terms[((k - 1) \div l) + 1], v[((k - 1) % l) + 1])]
  BY <1>1, <1>2 DEF products
<1>5. ASSUME NEW k \in 1 .. l PROVE ((k - 1) \div l) + 1 = 1 /\ ((k - 1) % l) + 1 = k
  <2>1. k \in 1 .. 1 * l /\ 1 \in Nat
    OBVIOUS
  <2>2. ((k - 1) \div l) + 1 \in 1 .. 1
    BY <2>1, RowAndColumn
  <2>3. PICK d \in Nat : d = k - 1 /\ d < l
    OBVIOUS
  <2>4. d % l = d
    <3>1. d \in Int /\ 0 <= d /\ l # 0
      BY <2>3
    <3> QED
      BY <2>3, <3>1, ModOnce, Zenon
  <2>5. PICK j : j = ((k - 1) \div l) + 1
    OBVIOUS
  <2>6. j = 1
    BY <2>2, <2>5
  <2>7. ((k - 1) % l) + 1 = d + 1 /\ d + 1 = k
    BY <2>3, <2>4
  <2> QED
    BY <2>5, <2>6, <2>7
<1>6. 1 * l = l
  OBVIOUS
<1> HIDE DEF raw, v
<1>7. DOMAIN raw = 1 .. l /\ \A k \in 1 .. l : raw[k] = term_times(F, e, v[k])
  BY <1>1, <1>4, <1>5, <1>6
<1>8. raw \in Seq(A) /\ CanonicalTerms(combined(F, raw), Mon(n), E, F)
  BY <1>1, ProductsAreCanonical DEF raw, v
<1>9. raw # <<>>
  BY <1>3, <1>7
<1>10. \A k \in 1 .. l : v[k][1] \in Mon(n) /\ v[k][2] \in E /\ v[k][2] # zero(F)
  BY <1>1, <1>2 DEF CanonicalTerms, v
<1>11. e[1] \in Mon(n) /\ e[2] \in E
  OBVIOUS
<1>12. ASSUME NEW k \in 1 .. l, k # 1 PROVE Greater(raw[1][1], raw[k][1])
  <2>1. Greater(v[1][1], v[k][1])
    BY <1>1, <1>2, <1>3, <1>12 DEF Strict
  <2>2. \A j \in 1 .. n : e[1][j] + v[1][1][j] < ExponentRange
    BY Zenon DEF v
  <2>3. Greater(MonomialTimes(e[1], v[1][1]), MonomialTimes(e[1], v[k][1]))
    BY <1>3, <1>10, <1>11, <2>1, <2>2, ProductsKeepOrder
  <2> QED
    BY <1>3, <1>7, <2>3 DEF term_times
<1>13. Leads(raw, raw[1])
  BY <1>7, <1>9, <1>12 DEF Leads
<1>14. raw[1][2] # zero(F)
  <2>1. mul(F, e[2], v[1][2]) # zero(F)
    BY <1>3, <1>10, <1>11, ProductIsNonzero DEF CoefficientLaws
  <2> QED
    BY <1>3, <1>7, <2>1 DEF term_times
<1>15. combined(F, raw) # <<>> /\ combined(F, raw)[1] = raw[1]
  <2>1. Mon(n) \in SUBSET Monomials(n) /\ \A c, d \in E : add(F, c, d) \in E
    BY MonAreMonomials, Closed
  <2> QED
    BY <1>8, <1>9, <1>13, <1>14, <2>1, CombinedTerms
<1> QED
  BY <1>3, <1>7, <1>15 DEF raw, v

-----------------------------------------------------------------------------
(* Polynomials. *)

IsPoly(p, F, vs) ==
    p = Poly(vs, p.terms) /\ CanonicalTerms(p.terms, Mon(Len(vs)), Coefficients(F), F)

LEMMA PolysAre ==
    ASSUME ExponentRange \in Nat \ {0}, NEW F, NEW A, NEW vs \in Seq(A), NEW p
    PROVE  p \in Polys(F, vs) <=> IsPoly(p, F, vs)
<1> DEFINE n == Len(vs)
           E == Coefficients(F)
           c == p.terms
<1>1. n \in Nat /\ Exponents(vs) = Mon(n)
  BY DEF Exponents, Mon
<1> HIDE DEF n, E
<1>2. Mon(n) \in SUBSET Monomials(n)
  BY <1>1, MonAreMonomials
<1>3. ASSUME c \in Seq(Mon(n) \X E) PROVE Descending(c) <=> Strict(c)
  <2>1. MonomialsOf(c, n)
    BY <1>2, <1>3 DEF MonomialsOf
  <2> QED
    BY <1>1, <1>3, <2>1, DescendingIsStrict
<1>4. p \in Polys(F, vs) <=>
        /\ p \in [variables : {vs}, terms : Seq(Mon(n) \X E)]
        /\ Descending(c) /\ \A k \in DOMAIN c : c[k][2] # zero(F)
  BY <1>1 DEF Polys, E
<1>5. p \in [variables : {vs}, terms : Seq(Mon(n) \X E)] <=> p = Poly(vs, c) /\ c \in Seq(Mon(n) \X E)
  BY DEF Poly
<1> HIDE DEF c
<1>6. IsPoly(p, F, vs) <=> p = Poly(vs, c) /\ CanonicalTerms(c, Mon(n), E, F)
  BY DEF IsPoly, n, E, c
<1> QED
  BY <1>3, <1>4, <1>5, <1>6 DEF CanonicalTerms

LEMMA PolyOfTerms ==
    ASSUME NEW F, NEW vs, NEW c, CanonicalTerms(c, Mon(Len(vs)), Coefficients(F), F)
    PROVE  IsPoly(Poly(vs, c), F, vs) /\ Poly(vs, c).variables = vs /\ Poly(vs, c).terms = c
  BY DEF IsPoly, Poly

LEMMA PartsOfPoly ==
    ASSUME NEW F, NEW vs, NEW p, IsPoly(p, F, vs)
    PROVE  p.variables = vs /\ CanonicalTerms(p.terms, Mon(Len(vs)), Coefficients(F), F)
  BY DEF IsPoly, Poly

LEMMA SumIsPoly ==
    ASSUME ExponentRange \in Nat \ {0}, NEW F, CoefficientLaws(F, Coefficients(F)),
           NEW vs, Len(vs) \in Nat, NEW p, NEW q, IsPoly(p, F, vs), IsPoly(q, F, vs)
    PROVE  IsPoly(poly_add(F, p, q), F, vs)
<1> DEFINE E == Coefficients(F)
           M == Mon(Len(vs))
           c == nonzero(F, sum_of(F, merge_terms(F, p.terms, q.terms)))
<1>1. p.variables = vs /\ CanonicalTerms(p.terms, M, E, F) /\ CanonicalTerms(q.terms, M, E, F)
  BY PartsOfPoly
<1>2. M \in SUBSET Monomials(Len(vs))
  BY MonAreMonomials
<1>3. poly_add(F, p, q) = Poly(vs, c)
  BY <1>1 DEF poly_add
<1>4. CanonicalTerms(c, M, E, F)
  <2> HIDE DEF M, E
  <2> QED
    BY <1>1, <1>2, SumsAreCanonical DEF E
<1> QED
  BY <1>3, <1>4, PolyOfTerms

LEMMA DifferenceIsPoly ==
    ASSUME ExponentRange \in Nat \ {0}, NEW F, CoefficientLaws(F, Coefficients(F)),
           NEW vs, Len(vs) \in Nat, NEW p, NEW q, IsPoly(p, F, vs), IsPoly(q, F, vs)
    PROVE  /\ IsPoly(poly_sub(F, p, q), F, vs)
           /\ (p.terms # <<>> /\ q.terms # <<>> /\ p.terms[1] = q.terms[1])
              => Below(poly_sub(F, p, q).terms, p.terms[1][1])
<1> DEFINE E == Coefficients(F)
           M == Mon(Len(vs))
           c == nonzero(F, difference_of(F, merge_terms(F, p.terms, q.terms)))
<1>1. p.variables = vs /\ CanonicalTerms(p.terms, M, E, F) /\ CanonicalTerms(q.terms, M, E, F)
  BY PartsOfPoly
<1>2. M \in SUBSET Monomials(Len(vs))
  BY MonAreMonomials
<1>3. poly_sub(F, p, q) = Poly(vs, c)
  BY <1>1 DEF poly_sub
<1>4. /\ CanonicalTerms(c, M, E, F)
      /\ (p.terms # <<>> /\ q.terms # <<>> /\ p.terms[1] = q.terms[1]) => Below(c, p.terms[1][1])
  <2> HIDE DEF M, E
  <2>1. CoefficientLaws(F, E)
    BY DEF E
  <2> QED
    BY <1>1, <1>2, <2>1, DifferencesAreCanonical
<1> QED
  BY <1>3, <1>4, PolyOfTerms

LEMMA NegationIsPoly ==
    ASSUME NEW F, CoefficientLaws(F, Coefficients(F)), NEW vs, NEW p, IsPoly(p, F, vs)
    PROVE  IsPoly(poly_neg(F, p), F, vs)
<1> DEFINE c == [k \in DOMAIN p.terms |-> <<p.terms[k][1], neg(F, p.terms[k][2])>>]
<1>1. p.variables = vs /\ CanonicalTerms(p.terms, Mon(Len(vs)), Coefficients(F), F)
  BY PartsOfPoly
<1>2. poly_neg(F, p) = Poly(vs, c)
  BY <1>1 DEF poly_neg
<1>3. CanonicalTerms(c, Mon(Len(vs)), Coefficients(F), F)
  BY <1>1, NegationsAreCanonical
<1> QED
  BY <1>2, <1>3, PolyOfTerms

LEMMA ProductIsPoly ==
    ASSUME ExponentRange \in Nat \ {0}, NEW F, CoefficientLaws(F, Coefficients(F)),
           NEW vs, Len(vs) \in Nat, NEW p, NEW q, IsPoly(p, F, vs), IsPoly(q, F, vs)
    PROVE  IsPoly(poly_mul(F, p, q), F, vs)
<1>1. p.variables = vs /\ p.terms \in Seq(Mon(Len(vs)) \X Coefficients(F))
      /\ q.terms \in Seq(Mon(Len(vs)) \X Coefficients(F))
  BY PartsOfPoly DEF CanonicalTerms
<1>2. poly_mul(F, p, q) = Poly(vs, combined(F, products(F, p, q)))
  BY <1>1 DEF poly_mul
<1>3. CanonicalTerms(combined(F, products(F, p, q)), Mon(Len(vs)), Coefficients(F), F)
  BY <1>1, ProductsAreCanonical
<1> QED
  BY <1>2, <1>3, PolyOfTerms

LEMMA TermIsPoly ==
    ASSUME NEW F, NEW vs, NEW m \in Mon(Len(vs)), NEW c \in Coefficients(F)
    PROVE  /\ IsPoly(from_term(F, vs, m, c), F, vs)
           /\ from_term(F, vs, m, c).terms = IF c = zero(F) THEN <<>> ELSE <<<<m, c>>>>
<1> DEFINE d == IF c = zero(F) THEN <<>> ELSE <<<<m, c>>>>
           A == Mon(Len(vs)) \X Coefficients(F)
<1>1. from_term(F, vs, m, c) = Poly(vs, d)
  BY DEF from_term
<1>2. <<m, c>> \in A
  OBVIOUS
<1>3. d \in Seq(A) /\ \A k \in DOMAIN d : k = 1 /\ d[k] = <<m, c>> /\ c # zero(F)
  <2> HIDE DEF A
  <2>1. CASE c = zero(F)
    BY <2>1
  <2>2. CASE c # zero(F)
    <3>1. PICK e \in A : e = <<m, c>>
      BY <1>2
    <3>2. <<e>> \in Seq(A) /\ \A k \in DOMAIN <<e>> : k = 1 /\ <<e>>[k] = e
      OBVIOUS
    <3> QED
      BY <2>2, <3>1, <3>2
  <2> QED
    BY <2>1, <2>2
<1> HIDE DEF d
<1>4. CanonicalTerms(d, Mon(Len(vs)), Coefficients(F), F)
  BY <1>3 DEF CanonicalTerms, Strict
<1> QED
  BY <1>1, <1>4, PolyOfTerms DEF d

LEMMA ValueIsPoly ==
    ASSUME ExponentRange \in Nat \ {0}, NEW F, CoefficientLaws(F, Coefficients(F)),
           NEW vs, Len(vs) \in Nat, NEW p, IsPoly(p, F, vs),
           NEW v \in 1 .. Len(vs), NEW c \in Coefficients(F)
    PROVE  IsPoly(evaluate(F, p, v, c), F, vs)
<1> DEFINE E == Coefficients(F)
           n == Len(vs)
           u == p.terms
           value(k) == <<[u[k][1] EXCEPT ![v] = 0], mul(F, u[k][2], coeff_pow(F, c, u[k][1][v]))>>
           raw == [k \in DOMAIN u |-> value(k)]
<1>1. p.variables = vs /\ u \in Seq(Mon(n) \X E)
  BY PartsOfPoly DEF CanonicalTerms
<1>2. evaluate(F, p, v, c) = Poly(vs, combined(F, raw))
  BY <1>1 DEF evaluate
<1>3. PICK l \in Nat : l = Len(u) /\ DOMAIN u = 1 .. l
  BY <1>1
<1> HIDE DEF E, u
<1>4. ASSUME NEW k \in 1 .. l PROVE value(k) \in Mon(n) \X E
  <2>1. u[k][1] \in Mon(n) /\ u[k][2] \in E
    BY <1>1, <1>3
  <2>2. u[k][1][v] \in Nat
    BY <2>1 DEF Mon
  <2>3. coeff_pow(F, c, u[k][1][v]) \in E
    <3>1. one(F) \in E /\ c \in E /\ \A i, j \in E : mul(F, i, j) \in E
      BY Closed DEF E
    <3> QED
      BY <2>2, <3>1, PowersStay
  <2>4. mul(F, u[k][2], coeff_pow(F, c, u[k][1][v])) \in E
    BY <2>1, <2>3, Closed DEF E
  <2>5. [u[k][1] EXCEPT ![v] = 0] \in Mon(n)
    BY <2>1 DEF Mon
  <2> QED
    BY <2>4, <2>5
<1> HIDE DEF value
<1>5. raw \in [1 .. l -> Mon(n) \X E]
  BY <1>3, <1>4
<1>6. raw \in Seq(Mon(n) \X E)
  BY <1>5
<1> HIDE DEF raw
<1>7. CanonicalTerms(combined(F, raw), Mon(n), E, F)
  <2>1. Mon(n) \in SUBSET Monomials(n) /\ \A i, j \in E : add(F, i, j) \in E
    BY MonAreMonomials, Closed DEF E
  <2> HIDE DEF n
  <2>2. n \in Nat
    BY DEF n
  <2> QED
    BY <1>6, <2>1, <2>2, CombinedTerms
<1> QED
  BY <1>2, <1>7, PolyOfTerms DEF E

-----------------------------------------------------------------------------
(* Leading coefficients. *)

LEMMA RemovedExponent ==
    ASSUME NEW n \in Nat, NEW m \in Mon(n), NEW v \in 1 .. n
    PROVE  /\ RemoveAt(m, v) \in Mon(n - 1)
           /\ \A k \in 1 .. n - 1 : RemoveAt(m, v)[k] = IF k < v THEN m[k] ELSE m[k + 1]
<1> DEFINE S == 0 .. ExponentRange - 1
           d == RemoveAt(m, v)
<1>1. m \in [1 .. n -> S]
  BY DEF Mon
<1> HIDE DEF S
<1>2. m \in Seq(S) /\ Len(m) = n
  BY <1>1
<1>3. d \in Seq(S) /\ Len(d) = n - 1 /\ \A k \in 1 .. n - 1 : d[k] = IF k < v THEN m[k] ELSE m[k + 1]
  BY <1>2, Removed
<1> HIDE DEF d
<1>4. d \in [1 .. n - 1 -> S]
  BY <1>3
<1>5. d \in Mon(n - 1)
  BY <1>4 DEF Mon, S
<1> QED
  BY <1>3, <1>5 DEF d

LEMMA RemovedKeepsOrder ==
    ASSUME NEW n \in Nat, NEW l \in Mon(n), NEW m \in Mon(n), NEW v \in 1 .. n,
           Greater(l, m), l[v] = m[v], ExponentRange \in Nat
    PROVE  Greater(RemoveAt(l, v), RemoveAt(m, v))
<1> DEFINE c == RemoveAt(l, v)
           d == RemoveAt(m, v)
<1>1. PICK i \in 1 .. n : l[i] > m[i] /\ \A k \in 1 .. i - 1 : l[k] = m[k]
  BY DEF Greater, Mon
<1>2. /\ DOMAIN c = 1 .. n - 1
      /\ \A k \in 1 .. n - 1 : c[k] = IF k < v THEN l[k] ELSE l[k + 1]
      /\ \A k \in 1 .. n - 1 : d[k] = IF k < v THEN m[k] ELSE m[k + 1]
  <2>1. c \in Mon(n - 1)
    BY RemovedExponent
  <2>2. DOMAIN c = 1 .. n - 1
    BY <2>1 DEF Mon
  <2> QED
    BY <2>2, RemovedExponent
<1>3. i # v
  <2>1. l[i] \in Nat /\ m[i] \in Nat
    BY DEF Mon
  <2> QED
    BY <1>1, <2>1
<1> HIDE DEF c, d
<1>4. CASE i < v
  <2>1. i \in 1 .. n - 1 /\ c[i] > d[i]
    BY <1>1, <1>2, <1>4
  <2>2. \A k \in 1 .. i - 1 : c[k] = d[k]
    BY <1>1, <1>2, <1>4
  <2> QED
    BY <1>2, <2>1, <2>2 DEF Greater, c, d
<1>5. CASE i > v
  <2>1. PICK j \in 1 .. n - 1 : j = i - 1 /\ j + 1 = i
    BY <1>5
  <2>2. c[j] > d[j]
    BY <1>1, <1>2, <1>5, <2>1
  <2>3. \A k \in 1 .. j - 1 : c[k] = d[k]
    <3> SUFFICES ASSUME NEW k \in 1 .. j - 1 PROVE c[k] = d[k]
      OBVIOUS
    <3>1. k \in 1 .. n - 1 /\ k \in 1 .. i - 1 /\ k + 1 \in 1 .. i - 1
      BY <2>1
    <3> QED
      BY <1>1, <1>2, <3>1
  <2>4. Greater(c, d)
    BY <1>2, <2>1, <2>2, <2>3 DEF Greater
  <2> QED
    BY <2>4 DEF c, d
<1> QED
  BY <1>3, <1>4, <1>5

LEMMA LeadingCoefficientIsPoly ==
    ASSUME ExponentRange \in Nat \ {0}, NEW F, NEW A, NEW vs \in Seq(A), NEW p, IsPoly(p, F, vs),
           NEW v \in 1 .. Len(vs)
    PROVE  IsPoly(leading_coefficient_in(p, v), F, RemoveAt(vs, v))
<1> DEFINE E == Coefficients(F)
           u == p.terms
           D == degree_in(p, v)
           P == {k \in DOMAIN u : u[k][1][v] = D}
           top == chosen(u, P)
           c == [k \in DOMAIN top |-> <<RemoveAt(top[k][1], v), top[k][2]>>]
           ws == RemoveAt(vs, v)
<1>1. PICK n \in Nat : n = Len(vs) /\ v \in 1 .. n
  OBVIOUS
<1>2. p.variables = vs /\ u \in Seq(Mon(n) \X E) /\ Strict(u) /\ \A k \in DOMAIN u : u[k][2] # zero(F)
  BY <1>1, PartsOfPoly DEF CanonicalTerms
<1>3. leading_coefficient_in(p, v) = Poly(ws, c)
  BY <1>2 DEF leading_coefficient_in
<1>4. Len(ws) = n - 1
  BY <1>1, Removed
<1> HIDE DEF D, E, u, ws
<1>5. /\ top \in Seq(Mon(n) \X E) /\ Strict(top)
      /\ \A i \in DOMAIN top : \E k \in DOMAIN u : k \in P /\ top[i] = u[k]
  <2> DEFINE B == Mon(n) \X E
  <2>1. u \in Seq(B)
    BY <1>2
  <2> HIDE DEF B, P
  <2> QED
    BY <1>2, <2>1, ChosenTerms DEF B
<1>6. \A i \in DOMAIN top : top[i][1][v] = D /\ top[i][2] # zero(F)
  BY <1>2, <1>5
<1> HIDE DEF P, top
<1>7. PICK l \in Nat : l = Len(top) /\ DOMAIN top = 1 .. l
  BY <1>5
<1>8. ASSUME NEW k \in 1 .. l
      PROVE  /\ top[k][1] \in Mon(n) /\ <<RemoveAt(top[k][1], v), top[k][2]>> \in Mon(n - 1) \X E
             /\ top[k][1][v] = D /\ top[k][2] # zero(F)
  <2>1. top[k][1] \in Mon(n) /\ top[k][2] \in E
    BY <1>5, <1>7
  <2>2. RemoveAt(top[k][1], v) \in Mon(n - 1)
    BY <1>1, <2>1, RemovedExponent
  <2> QED
    BY <1>6, <1>7, <2>1, <2>2
<1>9. c \in [1 .. l -> Mon(n - 1) \X E]
  BY <1>7, <1>8
<1>10. c \in Seq(Mon(n - 1) \X E) /\ DOMAIN c = 1 .. l
  BY <1>9
<1>11. \A k \in 1 .. l : c[k][1] = RemoveAt(top[k][1], v) /\ c[k][2] = top[k][2]
  BY <1>7
<1> HIDE DEF c
<1>12. ASSUME NEW i \in 1 .. l, NEW j \in 1 .. l, i < j PROVE Greater(c[i][1], c[j][1])
  <2>1. Greater(top[i][1], top[j][1])
    BY <1>5, <1>7, <1>12 DEF Strict
  <2>2. top[i][1] \in Mon(n) /\ top[j][1] \in Mon(n) /\ top[i][1][v] = top[j][1][v]
    BY <1>8
  <2>3. Greater(RemoveAt(top[i][1], v), RemoveAt(top[j][1], v))
    BY <1>1, <2>1, <2>2, RemovedKeepsOrder
  <2> QED
    BY <1>11, <2>3
<1>13. CanonicalTerms(c, Mon(Len(ws)), E, F)
  <2>1. Strict(c)
    BY <1>10, <1>12 DEF Strict
  <2>2. \A k \in DOMAIN c : c[k][2] # zero(F)
    BY <1>8, <1>10, <1>11
  <2>3. Mon(Len(ws)) = Mon(n - 1)
    BY <1>4
  <2> QED
    BY <1>10, <2>1, <2>2, <2>3 DEF CanonicalTerms
<1>14. IsPoly(Poly(ws, c), F, ws)
  BY <1>13, PolyOfTerms DEF E
<1> QED
  BY <1>3, <1>14 DEF ws

-----------------------------------------------------------------------------
(* Divisions end. *)

\* Every value of a loop is the result of a last state.
EndsIn(S, size, out, R) == \A st \in S : size[st] = 0 => out[st] \in R

LEMMA LoopEndsIn ==
    ASSUME NEW S, NEW size, NEW next, NEW out, NEW h, NEW R,
           Loop(S, size, next, out, h), Shrinks(S, size, next),
           EndsIn(S, size, out, R)
    PROVE  \A st \in S : h[st] \in R
<1> DEFINE T == {n \in Nat : \A st \in S : size[st] <= n => h[st] \in R}
<1>1. \A st \in S : h[st] = IF size[st] = 0 THEN out[st] ELSE h[next[st]]
  BY DEF Loop
<1>2. 0 \in T
  BY <1>1 DEF Shrinks, EndsIn
<1>3. ASSUME NEW n \in Nat, n \in T PROVE n + 1 \in T
  <2> SUFFICES ASSUME NEW st \in S, size[st] <= n + 1 PROVE h[st] \in R
    OBVIOUS
  <2>1. CASE size[st] = 0
    BY <1>1, <2>1 DEF EndsIn
  <2>2. CASE size[st] # 0
    <3>1. next[st] \in S /\ size[next[st]] < size[st] /\ size[st] \in Nat /\ size[next[st]] \in Nat
      BY <2>2 DEF Shrinks
    <3>2. size[next[st]] <= n
      BY <3>1
    <3> QED
      BY <1>1, <1>3, <2>2, <3>1, <3>2
  <2> QED
    BY <2>1, <2>2
<1> HIDE DEF T
<1>4. \A n \in Nat : n \in T
  BY <1>2, <1>3, SetInduction
<1>5. ASSUME NEW st \in S PROVE h[st] \in R
  <2>1. size[st] \in Nat /\ size[st] <= size[st]
    BY DEF Shrinks
  <2>2. size[st] \in T
    BY <1>4, <2>1
  <2> QED
    BY <2>1, <2>2 DEF T
<1> QED
  BY <1>5

\* A number for each monomial that grows with the order: the exponents are
\* its digits.
IsRank(rank, n) ==
    /\ \A m \in Mon(n) : rank[m] \in Nat
    /\ \A l, m \in Mon(n) : Greater(l, m) => rank[m] < rank[l]

Agree(l, m, k) == \A j \in 1 .. k : l[j] = m[j]
DiffersBy(l, m, k) == \E i \in 1 .. k : l[i] > m[i] /\ Agree(l, m, i - 1)
Ranks(h, n, k) ==
    /\ h \in [Mon(n) -> Nat]
    /\ \A l, m \in Mon(n) : Agree(l, m, k) => h[l] = h[m]
    /\ \A l, m \in Mon(n) : DiffersBy(l, m, k) => h[m] < h[l]

LEMMA OneMoreDigit ==
    ASSUME ExponentRange \in Nat \ {0}, NEW n \in Nat, NEW k \in 1 .. n, NEW h, Ranks(h, n, k - 1)
    PROVE  Ranks([m \in Mon(n) |-> h[m] * ExponentRange + m[k]], n, k)
<1> DEFINE R == ExponentRange
           d == [m \in Mon(n) |-> h[m] * R + m[k]]
<1>1. \A m \in Mon(n) : m[k] \in 0 .. R - 1 /\ h[m] \in Nat
  BY DEF Mon, Ranks
<1>2. \A m \in Mon(n) : d[m] = h[m] * R + m[k]
  OBVIOUS
<1>3. d \in [Mon(n) -> Nat]
  <2>1. ASSUME NEW m \in Mon(n) PROVE h[m] * R + m[k] \in Nat
    <3>1. PICK e \in Nat, o \in Nat : e = h[m] /\ o = m[k]
      BY <1>1
    <3>2. e * R \in Nat
      OBVIOUS
    <3> QED
      BY <3>1, <3>2
  <2> QED
    BY <2>1
<1> HIDE DEF d
<1>4. ASSUME NEW l \in Mon(n), NEW m \in Mon(n), Agree(l, m, k) PROVE d[l] = d[m]
  <2>1. Agree(l, m, k - 1) /\ l[k] = m[k]
    BY <1>4 DEF Agree
  <2>2. h[l] = h[m]
    BY <2>1 DEF Ranks
  <2> QED
    BY <1>2, <2>1, <2>2
<1>5. ASSUME NEW l \in Mon(n), NEW m \in Mon(n), DiffersBy(l, m, k) PROVE d[m] < d[l]
  <2>1. PICK i \in 1 .. k : l[i] > m[i] /\ Agree(l, m, i - 1)
    BY <1>5 DEF DiffersBy
  <2>2. PICK e \in Nat, o \in Nat : e = h[l] /\ o = h[m]
    BY <1>1
  <2>3. PICK v \in 0 .. R - 1, w \in 0 .. R - 1 : v = l[k] /\ w = m[k]
    BY <1>1
  <2>4. d[l] = e * R + v /\ d[m] = o * R + w
    BY <1>2, <2>2, <2>3
  <2>5. CASE i = k
    <3>1. e = o /\ w < v
      BY <2>1, <2>2, <2>3, <2>5 DEF Ranks
    <3>2. e * R \in Nat
      OBVIOUS
    <3> QED
      BY <2>4, <3>1, <3>2
  <2>6. CASE i # k
    <3>1. i \in 1 .. k - 1
      BY <2>6
    <3>2. o < e
      BY <2>1, <2>2, <3>1 DEF DiffersBy, Ranks
    <3>3. PICK c \in Nat : e = o + 1 + c
      <4>1. e - o - 1 \in Nat /\ e = o + 1 + (e - o - 1)
        BY <3>2
      <4> QED
        BY <4>1
    <3>4. e * R = o * R + R + c * R /\ c * R \in Nat /\ o * R \in Nat
      BY <3>3, Z3
    <3> QED
      BY <2>4, <3>4
  <2> QED
    BY <2>5, <2>6
<1>6. Ranks(d, n, k)
  BY <1>3, <1>4, <1>5 DEF Ranks
<1> QED
  BY <1>6 DEF d

LEMMA RankedMonomials ==
    ASSUME ExponentRange \in Nat \ {0}, NEW n \in Nat
    PROVE  \E rank : IsRank(rank, n)
<1> DEFINE T == [Mon(n) -> Nat]
           more(k, u) == [m \in Mon(n) |-> u[m] * ExponentRange + m[k]]
           step == [k \in 1 .. n |-> [u \in T |-> more(k, u)]]
           first == [m \in Mon(n) |-> 0]
<1>1. first \in T
  OBVIOUS
<1>2. ASSUME NEW k \in 1 .. n, NEW u \in T PROVE more(k, u) \in T
  <2>1. ASSUME NEW m \in Mon(n) PROVE u[m] * ExponentRange + m[k] \in Nat
    <3>1. PICK c \in Nat, d \in Nat : c = u[m] /\ d = m[k]
      BY DEF Mon
    <3>2. c * ExponentRange \in Nat
      OBVIOUS
    <3> QED
      BY <3>1, <3>2
  <2> QED
    BY <2>1
<1>3. Ranks(first, n, 0)
  BY <1>1 DEF Ranks, DiffersBy
<1>4. \A u : \A k \in 1 .. n : Ranks(u, n, k - 1) => Ranks(more(k, u), n, k)
  BY OneMoreDigit
<1> HIDE DEF more, first
<1>5. StaysIn(n, T, step) /\ \A k \in 1 .. n, u \in T : step[k][u] = more(k, u)
  BY <1>2 DEF StaysIn
<1> HIDE DEF T, step
<1>6. PICK h : Recurs(n, T, first, step, h)
  BY <1>1, <1>5, Recurrence
<1> DEFINE A == {k \in Nat : Ranks(h[k], n, k)}
<1>7. 0 \in A
  BY <1>3, <1>6 DEF Recurs
<1>8. ASSUME NEW k \in 1 .. n, k - 1 \in A PROVE k \in A
  <2>1. k - 1 \in 0 .. n /\ k \in Nat
    OBVIOUS
  <2>2. h[k] = more(k, h[k - 1])
    BY <1>5, <1>6, <2>1 DEF Recurs
  <2> QED
    BY <1>4, <1>8, <2>1, <2>2
<1> HIDE DEF A
<1>9. n \in A
  <2>1. \A k \in 0 .. n : k \in A
    BY <1>7, <1>8, RangeInduction
  <2> QED
    BY <2>1
<1>10. Ranks(h[n], n, n)
  BY <1>9 DEF A
<1>11. ASSUME NEW l \in Mon(n), NEW m \in Mon(n), Greater(l, m) PROVE h[n][m] < h[n][l]
  <2>1. DiffersBy(l, m, n)
    BY <1>11 DEF Greater, DiffersBy, Agree, Mon
  <2> QED
    BY <1>10, <2>1 DEF Ranks
<1>12. IsRank(h[n], n)
  BY <1>10, <1>11 DEF Ranks, IsRank
<1> QED
  BY <1>12

\* A number for each polynomial that gets smaller with the leading term.
IsWeight(w, F, vs) ==
    /\ \A p \in Polys(F, vs) : w[p] \in Nat /\ (w[p] = 0 <=> p.terms = <<>>)
    /\ \A p, q \in Polys(F, vs) :
         (p.terms # <<>> /\ Below(q.terms, p.terms[1][1])) => w[q] < w[p]

LEMMA WeightedPolys ==
    ASSUME ExponentRange \in Nat \ {0}, NEW F, NEW A, NEW vs \in Seq(A)
    PROVE  \E w : IsWeight(w, F, vs)
<1>1. PICK n \in Nat : n = Len(vs)
  OBVIOUS
<1>2. PICK rank : IsRank(rank, n)
  BY RankedMonomials
<1> DEFINE weight(p) == IF p.terms = <<>> THEN 0 ELSE 1 + rank[p.terms[1][1]]
           P == Polys(F, vs)
           w == [p \in P |-> weight(p)]
<1>3. ASSUME NEW p \in P, p.terms # <<>> PROVE p.terms[1][1] \in Mon(n) /\ rank[p.terms[1][1]] \in Nat /\ 1 \in DOMAIN p.terms
  <2>1. p.terms \in Seq(Mon(n) \X Coefficients(F))
    BY <1>1, PolysAre, PartsOfPoly DEF CanonicalTerms
  <2>2. PICK c \in Seq(Mon(n) \X Coefficients(F)) : c = p.terms
    BY <2>1
  <2>3. 1 \in DOMAIN c /\ c[1] \in Mon(n) \X Coefficients(F)
    BY <1>3, <2>2
  <2>4. c[1][1] \in Mon(n)
    BY <2>3
  <2> QED
    BY <1>2, <2>2, <2>3, <2>4 DEF IsRank
<1>4. \A p \in P : w[p] = weight(p)
  OBVIOUS
<1> HIDE DEF w, P
<1>5. \A p \in P : w[p] \in Nat /\ (w[p] = 0 <=> p.terms = <<>>)
  BY <1>3, <1>4
<1>6. ASSUME NEW p \in P, NEW q \in P, p.terms # <<>>, Below(q.terms, p.terms[1][1])
      PROVE  w[q] < w[p]
  <2>1. w[p] = 1 + rank[p.terms[1][1]] /\ rank[p.terms[1][1]] \in Nat /\ p.terms[1][1] \in Mon(n)
    <3>1. w[p] = 1 + rank[p.terms[1][1]]
      BY <1>4, <1>6, Zenon
    <3>2. rank[p.terms[1][1]] \in Nat /\ p.terms[1][1] \in Mon(n)
      BY <1>3, <1>6, Zenon
    <3> QED
      BY <3>1, <3>2
  <2>2. CASE q.terms = <<>>
    <3>1. w[q] = 0
      BY <1>4, <2>2
    <3> QED
      BY <2>1, <3>1
  <2>3. CASE q.terms # <<>>
    <3>1. w[q] = 1 + rank[q.terms[1][1]] /\ rank[q.terms[1][1]] \in Nat /\ q.terms[1][1] \in Mon(n) /\ 1 \in DOMAIN q.terms
      <4>1. w[q] = 1 + rank[q.terms[1][1]]
        BY <1>4, <2>3, Zenon
      <4>2. rank[q.terms[1][1]] \in Nat /\ q.terms[1][1] \in Mon(n) /\ 1 \in DOMAIN q.terms
        BY <1>3, <2>3, Zenon
      <4> QED
        BY <4>1, <4>2
    <3>2. Greater(p.terms[1][1], q.terms[1][1])
      BY <1>6, <3>1 DEF Below
    <3>3. rank[q.terms[1][1]] < rank[p.terms[1][1]]
      BY <1>2, <2>1, <3>1, <3>2 DEF IsRank
    <3> QED
      BY <2>1, <3>1, <3>3
  <2> QED
    BY <2>2, <2>3
<1> QED
  BY <1>5, <1>6 DEF IsWeight, P

\* Monomials whose quotient has no negative exponent.
LEMMA MonomialQuotient ==
    ASSUME ExponentRange \in Nat \ {0}, NEW n \in Nat, NEW l \in Mon(n), NEW m \in Mon(n), divides(m, l)
    PROVE  /\ MonomialOver(l, m) \in Mon(n)
           /\ \A k \in 1 .. n : MonomialOver(l, m)[k] + m[k] < ExponentRange
           /\ MonomialTimes(MonomialOver(l, m), m) = l
<1> DEFINE o == MonomialOver(l, m)
<1>1. DOMAIN l = 1 .. n /\ DOMAIN m = 1 .. n
  BY DEF Mon
<1>2. \A k \in 1 .. n : l[k] \in 0 .. ExponentRange - 1 /\ m[k] \in 0 .. ExponentRange - 1 /\ m[k] <= l[k]
  BY <1>1 DEF Mon, divides
<1>3. o = [k \in 1 .. n |-> l[k] - m[k]]
  BY <1>1 DEF MonomialOver
<1>4. \A k \in 1 .. n : l[k] - m[k] \in 0 .. ExponentRange - 1
  BY <1>2
<1>5. o \in Mon(n)
  BY <1>3, <1>4 DEF Mon
<1>6. \A k \in 1 .. n : o[k] + m[k] = l[k]
  BY <1>2, <1>3
<1> HIDE DEF o
<1>7. DOMAIN o = 1 .. n
  BY <1>3
<1>8. \A k \in 1 .. n : l[k] % ExponentRange = l[k]
  <2> SUFFICES ASSUME NEW k \in 1 .. n PROVE l[k] % ExponentRange = l[k]
    OBVIOUS
  <2>1. PICK e \in 0 .. ExponentRange - 1 : e = l[k]
    BY <1>2
  <2>2. e \in Int /\ 0 <= e /\ e < ExponentRange /\ ExponentRange \in Nat /\ ExponentRange # 0
    BY <2>1
  <2>3. e % ExponentRange = e
    BY <2>2, ModOnce, Zenon
  <2> QED
    BY <2>1, <2>3
<1>9. MonomialTimes(o, m) = l
  <2>1. MonomialTimes(o, m) = [k \in 1 .. n |-> l[k]]
    BY <1>6, <1>7, <1>8 DEF MonomialTimes
  <2>2. l = [k \in 1 .. n |-> l[k]]
    BY DEF Mon
  <2> QED
    BY <2>1, <2>2
<1>10. \A k \in 1 .. n : o[k] + m[k] < ExponentRange
  BY <1>2, <1>6
<1> QED
  BY <1>5, <1>9, <1>10 DEF o

\* The leading term of a polynomial.
LEMMA LeadingTermOf ==
    ASSUME NEW F, NEW vs, Len(vs) \in Nat, NEW p, IsPoly(p, F, vs), p.terms # <<>>
    PROVE  /\ leading_monomial(p) \in Mon(Len(vs)) /\ leading_coeff(p) \in Coefficients(F)
           /\ leading_coeff(p) # zero(F)
           /\ p.terms[1] = <<leading_monomial(p), leading_coeff(p)>>
<1>1. CanonicalTerms(p.terms, Mon(Len(vs)), Coefficients(F), F)
  BY PartsOfPoly
<1>2. PICK c \in Seq(Mon(Len(vs)) \X Coefficients(F)) : c = p.terms
  BY <1>1 DEF CanonicalTerms
<1>3. 1 \in DOMAIN c /\ c[1] \in Mon(Len(vs)) \X Coefficients(F)
  BY <1>2
<1>4. c[1][2] # zero(F)
  BY <1>1, <1>2, <1>3 DEF CanonicalTerms
<1>5. c[1][1] \in Mon(Len(vs)) /\ c[1][2] \in Coefficients(F) /\ c[1] = <<c[1][1], c[1][2]>>
  BY <1>3
<1> QED
  BY <1>2, <1>4, <1>5 DEF leading_monomial, leading_coeff

\* The term of a quotient cancels the leading term.
LEMMA CancelledIsPoly ==
    ASSUME ExponentRange \in Nat \ {0}, NEW F, CoefficientLaws(F, Coefficients(F)),
           NEW vs, Len(vs) \in Nat, NEW p, NEW q, IsPoly(p, F, vs), IsPoly(q, F, vs),
           q.terms # <<>>, ~Stuck(p, q)
    PROVE  /\ IsPoly(Factor(F, p, q), F, vs)
           /\ IsPoly(Cancelled(F, p, Factor(F, p, q), q), F, vs)
           /\ Below(Cancelled(F, p, Factor(F, p, q), q).terms, p.terms[1][1])
<1> DEFINE n == Len(vs)
           E == Coefficients(F)
<1>1. p.terms # <<>> /\ divides(leading_monomial(q), leading_monomial(p))
  BY DEF Stuck, IsZeroPoly
<1>2. PICK l \in Mon(n), c \in E : /\ l = leading_monomial(p) /\ c = leading_coeff(p) /\ c # zero(F)
                                   /\ p.terms[1] = <<l, c>>
  BY <1>1, LeadingTermOf
<1>3. PICK m \in Mon(n), d \in E : /\ m = leading_monomial(q) /\ d = leading_coeff(q) /\ d # zero(F)
                                   /\ q.terms[1] = <<m, d>>
  BY LeadingTermOf
<1>4. PICK o \in Mon(n) : /\ o = MonomialOver(l, m)
                          /\ \A k \in 1 .. n : o[k] + m[k] < ExponentRange
                          /\ MonomialTimes(o, m) = l
  BY <1>1, <1>2, <1>3, MonomialQuotient
<1>5. FieldLaws(F, E)
  BY DEF CoefficientLaws
<1>6. PICK u \in E : u = mul(F, c, inv(F, d)) /\ mul(F, u, d) = c
  <2> HIDE DEF E
  <2> QED
    BY <1>3, <1>5, QuotientOfCoefficients
<1>7. u # zero(F)
  <2>1. mul(F, zero(F), d) = zero(F)
    BY <1>5, Laws
  <2> QED
    BY <1>2, <1>6, <2>1
<1>8. p.variables = vs /\ CanonicalTerms(q.terms, Mon(n), E, F)
  BY PartsOfPoly
<1>9. Factor(F, p, q) = from_term(F, vs, o, u)
  BY <1>2, <1>3, <1>4, <1>6, <1>8 DEF Factor
<1>10. PICK h : h = Factor(F, p, q)
  OBVIOUS
<1>11. IsPoly(h, F, vs) /\ h.terms = <<<<o, u>>>>
  <2>1. /\ IsPoly(from_term(F, vs, o, u), F, vs)
        /\ from_term(F, vs, o, u).terms = IF u = zero(F) THEN <<>> ELSE <<<<o, u>>>>
    BY TermIsPoly
  <2>2. h = from_term(F, vs, o, u)
    BY <1>9, <1>10, Zenon
  <2> QED
    BY <1>7, <2>1, <2>2
<1>12. PICK e \in Mon(n) \X E : e = <<o, u>>
  OBVIOUS
<1>13. e[1] = o /\ e[2] = u /\ h.terms = <<e>>
  BY <1>11, <1>12
<1>14. PICK w : w = poly_mul(F, h, q)
  OBVIOUS
<1>15. IsPoly(w, F, vs)
  BY <1>11, <1>14, ProductIsPoly
<1>16. w.terms = combined(F, products(F, h, q))
  BY <1>14 DEF poly_mul, Poly
<1>17. w.terms # <<>> /\ w.terms[1] = term_times(F, e, q.terms[1])
  <2>1. \A k \in 1 .. n : e[1][k] + q.terms[1][1][k] < ExponentRange
    BY <1>3, <1>4, <1>13
  <2>2. e[2] # zero(F)
    BY <1>7, <1>13
  <2> HIDE DEF n, E
  <2>3. n \in Nat /\ CoefficientLaws(F, E)
    BY DEF n, E
  <2>4. /\ combined(F, products(F, h, q)) # <<>>
        /\ combined(F, products(F, h, q))[1] = term_times(F, e, q.terms[1])
    BY <1>8, <1>13, <2>1, <2>2, <2>3, LeadingProduct
  <2> QED
    BY <1>16, <2>4
<1>18. term_times(F, e, q.terms[1]) = p.terms[1]
  <2>1. term_times(F, e, q.terms[1]) = <<MonomialTimes(o, m), mul(F, u, d)>>
    BY <1>3, <1>13 DEF term_times
  <2> QED
    BY <1>2, <1>4, <1>6, <2>1
<1>19. Cancelled(F, p, h, q) = poly_sub(F, p, w)
  BY <1>14 DEF Cancelled
<1>20. IsPoly(poly_sub(F, p, w), F, vs) /\ Below(poly_sub(F, p, w).terms, p.terms[1][1])
  BY <1>1, <1>15, <1>17, <1>18, DifferenceIsPoly
<1> QED
  BY <1>10, <1>11, <1>19, <1>20

\* What is left behind a leading term that goes to the remainder.
LEMMA RestIsPoly ==
    ASSUME ExponentRange \in Nat \ {0}, NEW F, CoefficientLaws(F, Coefficients(F)),
           NEW vs, Len(vs) \in Nat, NEW p, IsPoly(p, F, vs), p.terms # <<>>
    PROVE  /\ IsPoly(LeadingTerm(F, p), F, vs)
           /\ IsPoly(poly_sub(F, p, LeadingTerm(F, p)), F, vs)
           /\ Below(poly_sub(F, p, LeadingTerm(F, p)).terms, p.terms[1][1])
<1>1. PICK l \in Mon(Len(vs)), c \in Coefficients(F) :
             /\ l = leading_monomial(p) /\ c = leading_coeff(p) /\ c # zero(F)
             /\ p.terms[1] = <<l, c>>
  BY LeadingTermOf
<1>2. p.variables = vs
  BY PartsOfPoly
<1>3. PICK h : h = LeadingTerm(F, p)
  OBVIOUS
<1>4. h = from_term(F, vs, l, c)
  BY <1>1, <1>2, <1>3 DEF LeadingTerm
<1>5. IsPoly(h, F, vs) /\ h.terms = <<<<l, c>>>>
  BY <1>1, <1>4, TermIsPoly
<1>6. h.terms # <<>> /\ h.terms[1] = p.terms[1]
  BY <1>1, <1>5
<1>7. IsPoly(poly_sub(F, p, h), F, vs) /\ Below(poly_sub(F, p, h).terms, p.terms[1][1])
  BY <1>5, <1>6, DifferenceIsPoly
<1> QED
  BY <1>3, <1>5, <1>7

\* One step of a division.
LEMMA DivisionStep ==
    ASSUME ExponentRange \in Nat \ {0}, NEW F, CoefficientLaws(F, Coefficients(F)),
           NEW A, NEW vs \in Seq(A), NEW w, IsWeight(w, F, vs),
           NEW p \in Polys(F, vs), NEW q \in Polys(F, vs), q.terms # <<>>
    PROVE  /\ w[p] \in Nat
           /\ w[p] = 0 <=> IsZeroPoly(p)
           /\ ~Stuck(p, q) => /\ Factor(F, p, q) \in Polys(F, vs)
                              /\ Cancelled(F, p, Factor(F, p, q), q) \in Polys(F, vs)
                              /\ w[Cancelled(F, p, Factor(F, p, q), q)] < w[p]
           /\ ~IsZeroPoly(p) => /\ LeadingTerm(F, p) \in Polys(F, vs)
                                /\ poly_sub(F, p, LeadingTerm(F, p)) \in Polys(F, vs)
                                /\ w[poly_sub(F, p, LeadingTerm(F, p))] < w[p]
<1>1. Len(vs) \in Nat /\ IsPoly(p, F, vs) /\ IsPoly(q, F, vs)
  BY PolysAre
<1>2. w[p] \in Nat /\ (w[p] = 0 <=> IsZeroPoly(p))
  BY DEF IsWeight, IsZeroPoly
<1>3. ASSUME ~Stuck(p, q)
      PROVE  /\ Factor(F, p, q) \in Polys(F, vs)
             /\ Cancelled(F, p, Factor(F, p, q), q) \in Polys(F, vs)
             /\ w[Cancelled(F, p, Factor(F, p, q), q)] < w[p]
  <2>1. PICK h, d : h = Factor(F, p, q) /\ d = Cancelled(F, p, h, q)
    OBVIOUS
  <2>2. IsPoly(h, F, vs) /\ IsPoly(d, F, vs) /\ Below(d.terms, p.terms[1][1])
    BY <1>1, <1>3, <2>1, CancelledIsPoly
  <2>3. h \in Polys(F, vs) /\ d \in Polys(F, vs)
    BY <2>2, PolysAre
  <2>4. p.terms # <<>>
    BY <1>3 DEF Stuck, IsZeroPoly
  <2> QED
    BY <2>1, <2>2, <2>3, <2>4 DEF IsWeight
<1>4. ASSUME ~IsZeroPoly(p)
      PROVE  /\ LeadingTerm(F, p) \in Polys(F, vs)
             /\ poly_sub(F, p, LeadingTerm(F, p)) \in Polys(F, vs)
             /\ w[poly_sub(F, p, LeadingTerm(F, p))] < w[p]
  <2>1. PICK h, d : h = LeadingTerm(F, p) /\ d = poly_sub(F, p, h)
    OBVIOUS
  <2>2. p.terms # <<>>
    BY <1>4 DEF IsZeroPoly
  <2>3. IsPoly(h, F, vs) /\ IsPoly(d, F, vs) /\ Below(d.terms, p.terms[1][1])
    BY <1>1, <2>1, <2>2, RestIsPoly
  <2>4. h \in Polys(F, vs) /\ d \in Polys(F, vs)
    BY <2>3, PolysAre
  <2> QED
    BY <2>1, <2>2, <2>3, <2>4 DEF IsWeight
<1> QED
  BY <1>2, <1>3, <1>4

\* The division in one variable ends, with quotient and remainder.
LEMMA LeadingDivisionIsPoly ==
    ASSUME ExponentRange \in Nat \ {0}, NEW F, CoefficientLaws(F, Coefficients(F)),
           NEW A, NEW vs \in Seq(A),
           NEW p \in Polys(F, vs), NEW q \in Polys(F, vs), q.terms # <<>>
    PROVE  divide_leading(F, p, q) \in Polys(F, vs) \X Polys(F, vs)
<1> DEFINE P == Polys(F, vs)
           S == P \X P
           ends(st) == Stuck(st[2], q)
           step(st) == <<poly_add(F, st[1], Factor(F, st[2], q)),
                        Cancelled(F, st[2], Factor(F, st[2], q), q)>>
           start == <<ZeroPoly(vs), p>>
           h == CHOOSE h : h = [st \in S |-> IF ends(st) THEN st ELSE h[step(st)]]
<1>1. p.variables = vs
  BY PolysAre, PartsOfPoly
<1>2. divide_leading(F, p, q) = h[start]
  BY <1>1 DEF divide_leading
<1>3. ASSUME NEW u \in P, NEW v \in P PROVE poly_add(F, u, v) \in P
  <2>1. Len(vs) \in Nat /\ IsPoly(u, F, vs) /\ IsPoly(v, F, vs)
    BY PolysAre
  <2>2. IsPoly(poly_add(F, u, v), F, vs)
    BY <2>1, SumIsPoly
  <2> QED
    BY <2>2, PolysAre
<1>4. start \in S
  <2>1. CanonicalTerms(<<>>, Mon(Len(vs)), Coefficients(F), F)
    BY DEF CanonicalTerms, Strict
  <2>2. IsPoly(ZeroPoly(vs), F, vs)
    BY <2>1, PolyOfTerms DEF ZeroPoly
  <2>3. ZeroPoly(vs) \in P
    BY <2>2, PolysAre
  <2> QED
    BY <2>3
<1>5. PICK w : IsWeight(w, F, vs)
  BY WeightedPolys
<1> HIDE DEF P
<1>6. ASSUME NEW u \in P, NEW v \in P, ~Stuck(v, q)
      PROVE  step(<<u, v>>) \in S /\ w[v] \in Nat /\ w[step(<<u, v>>)[2]] < w[v] /\ w[v] # 0
  <2>1. /\ Factor(F, v, q) \in P /\ Cancelled(F, v, Factor(F, v, q), q) \in P
        /\ w[Cancelled(F, v, Factor(F, v, q), q)] < w[v] /\ w[v] \in Nat
        /\ w[v] = 0 <=> IsZeroPoly(v)
    BY <1>5, <1>6, DivisionStep DEF P
  <2>2. w[v] # 0
    BY <1>6, <2>1 DEF Stuck
  <2>3. poly_add(F, u, Factor(F, v, q)) \in P
    BY <1>3, <2>1
  <2> QED
    BY <2>1, <2>2, <2>3
<1> DEFINE size == [st \in S |-> IF ends(st) THEN 0 ELSE w[st[2]]]
           next == [st \in S |-> step(st)]
           out == [st \in S |-> st]
<1>7. \A st \in S : st[1] \in P /\ st[2] \in P /\ st = <<st[1], st[2]>>
  OBVIOUS
<1>8. ASSUME NEW st \in S, ~ends(st)
      PROVE  step(st) \in S /\ w[st[2]] \in Nat /\ w[step(st)[2]] < w[st[2]] /\ w[st[2]] # 0
  <2> HIDE DEF S
  <2>1. PICK u \in P, v \in P : st = <<u, v>>
    <3>1. st[1] \in P /\ st[2] \in P /\ st = <<st[1], st[2]>>
      BY <1>7, Zenon
    <3>2. \E u, v \in P : st = <<u, v>>
      BY <3>1, Zenon
    <3> QED
      BY <3>2, Zenon
  <2>2. ~Stuck(v, q)
    BY <1>8, <2>1
  <2> HIDE DEF step
  <2>3. st[2] = v
    BY <2>1
  <2> QED
    BY <1>6, <2>1, <2>2, <2>3, Zenon
<1>9. \A st \in S : /\ size[st] = IF ends(st) THEN 0 ELSE w[st[2]]
                   /\ next[st] = step(st) /\ out[st] = st
  OBVIOUS
<1> HIDE DEF step, S, size, next, out, ends
<1>10. Shrinks(S, size, next)
  <2>1. ASSUME NEW st \in S
        PROVE  size[st] \in Nat /\ (size[st] # 0 => next[st] \in S /\ size[next[st]] < size[st])
    <3>1. CASE ends(st)
      BY <1>9, <3>1
    <3>2. CASE ~ends(st)
      <4>1. next[st] = step(st) /\ step(st) \in S /\ size[st] = w[st[2]] /\ w[st[2]] \in Nat
            /\ w[step(st)[2]] < w[st[2]] /\ w[st[2]] # 0
        BY <1>8, <1>9, <3>2
      <4>2. size[step(st)] = 0 \/ size[step(st)] = w[step(st)[2]]
        BY <1>9, <4>1
      <4>3. 0 < w[st[2]]
        BY <4>1
      <4> QED
        BY <4>1, <4>2, <4>3
    <3> QED
      BY <3>1, <3>2
  <2> QED
    BY <2>1 DEF Shrinks
<1>11. \A st \in S : size[st] = 0 <=> ends(st)
  BY <1>8, <1>9
<1>12. \A g1 : Loop(S, size, next, out, g1) <=> g1 = [st \in S |-> IF ends(st) THEN st ELSE g1[step(st)]]
  <2>1. ASSUME NEW g1
        PROVE  [st \in S |-> IF size[st] = 0 THEN out[st] ELSE g1[next[st]]]
                 = [st \in S |-> IF ends(st) THEN st ELSE g1[step(st)]]
    BY <1>9, <1>11
  <2> QED
    BY <2>1, Zenon DEF Loop
<1>13. Loop(S, size, next, out, h)
  <2>1. \E g1 : Loop(S, size, next, out, g1)
    BY <1>10, LoopIsDefined
  <2>2. h = CHOOSE g1 : g1 = [st \in S |-> IF ends(st) THEN st ELSE g1[step(st)]]
    BY DEF S, ends, step
  <2> HIDE DEF h
  <2> QED
    BY <1>12, <2>1, <2>2, Zenon
<1> HIDE DEF h, start
<1>14. EndsIn(S, size, out, S)
  BY <1>9 DEF EndsIn
<1>15. h[start] \in S
  <2>1. \A st \in S : h[st] \in S
    BY <1>10, <1>13, <1>14, LoopEndsIn, Zenon
  <2> QED
    BY <1>4, <2>1
<1> QED
  BY <1>2, <1>15 DEF S, P

\* Over every field the division of polynomials in any number of variables ends:
\* each step makes the leading term smaller.  Quotient and remainder are
\* canonical.
THEOREM DivisionIsPoly ==
    ASSUME ExponentRange \in Nat \ {0}, NEW F, CoefficientLaws(F, Coefficients(F)),
           NEW A, NEW vs \in Seq(A),
           NEW p \in Polys(F, vs), NEW q \in Polys(F, vs), q.terms # <<>>
    PROVE  multivariate_div_rem(F, p, q) \in Polys(F, vs) \X Polys(F, vs)
<1> DEFINE P == Polys(F, vs)
           S == P \X P \X P
           ends(st) == IsZeroPoly(st[2])
           behind(st) == <<st[1], poly_sub(F, st[2], LeadingTerm(F, st[2])),
                          poly_add(F, st[3], LeadingTerm(F, st[2]))>>
           cancels(st) == <<poly_add(F, st[1], Factor(F, st[2], q)),
                          Cancelled(F, st[2], Factor(F, st[2], q), q), st[3]>>
           step(st) == IF Stuck(st[2], q) THEN behind(st) ELSE cancels(st)
           start == <<ZeroPoly(vs), p, ZeroPoly(vs)>>
           h == CHOOSE h : h = [st \in S |-> IF ends(st) THEN <<st[1], st[3]>>
                                            ELSE IF Stuck(st[2], q) THEN h[behind(st)] ELSE h[cancels(st)]]
<1>1. p.variables = vs
  BY PolysAre, PartsOfPoly
<1>2. multivariate_div_rem(F, p, q) = h[start]
  BY <1>1 DEF multivariate_div_rem
<1>3. ASSUME NEW u \in P, NEW v \in P PROVE poly_add(F, u, v) \in P
  <2>1. Len(vs) \in Nat /\ IsPoly(u, F, vs) /\ IsPoly(v, F, vs)
    BY PolysAre
  <2>2. IsPoly(poly_add(F, u, v), F, vs)
    BY <2>1, SumIsPoly
  <2> QED
    BY <2>2, PolysAre
<1>4. start \in S
  <2>1. CanonicalTerms(<<>>, Mon(Len(vs)), Coefficients(F), F)
    BY DEF CanonicalTerms, Strict
  <2>2. IsPoly(ZeroPoly(vs), F, vs)
    BY <2>1, PolyOfTerms DEF ZeroPoly
  <2>3. ZeroPoly(vs) \in P
    BY <2>2, PolysAre
  <2> QED
    BY <2>3
<1>5. PICK w : IsWeight(w, F, vs)
  BY WeightedPolys
<1> HIDE DEF P
<1>6. ASSUME NEW u \in P, NEW v \in P, NEW c \in P, ~IsZeroPoly(v)
      PROVE  step(<<u, v, c>>) \in S /\ w[v] \in Nat /\ w[step(<<u, v, c>>)[2]] < w[v]
  <2>1. w[v] \in Nat
    BY <1>5, DivisionStep DEF P
  <2>2. CASE Stuck(v, q)
    <3>1. /\ LeadingTerm(F, v) \in P /\ poly_sub(F, v, LeadingTerm(F, v)) \in P
          /\ w[poly_sub(F, v, LeadingTerm(F, v))] < w[v]
      BY <1>5, <1>6, DivisionStep DEF P
    <3>2. poly_add(F, c, LeadingTerm(F, v)) \in P
      BY <1>3, <3>1
    <3> QED
      BY <2>1, <2>2, <3>1, <3>2
  <2>3. CASE ~Stuck(v, q)
    <3>1. /\ Factor(F, v, q) \in P /\ Cancelled(F, v, Factor(F, v, q), q) \in P
          /\ w[Cancelled(F, v, Factor(F, v, q), q)] < w[v]
      BY <1>5, <2>3, DivisionStep DEF P
    <3>2. poly_add(F, u, Factor(F, v, q)) \in P
      BY <1>3, <3>1
    <3> QED
      BY <2>1, <2>3, <3>1, <3>2
  <2> QED
    BY <2>2, <2>3
<1>7. ASSUME NEW u \in P PROVE w[u] \in Nat /\ (w[u] = 0 <=> IsZeroPoly(u))
  BY <1>5, DivisionStep DEF P
<1> DEFINE size == [st \in S |-> w[st[2]]]
           next == [st \in S |-> step(st)]
           out == [st \in S |-> <<st[1], st[3]>>]
<1>8. \A st \in S : st[1] \in P /\ st[2] \in P /\ st[3] \in P /\ st = <<st[1], st[2], st[3]>>
  OBVIOUS
<1>9. ASSUME NEW st \in S, ~ends(st)
      PROVE  step(st) \in S /\ w[step(st)[2]] < w[st[2]]
  <2> HIDE DEF S
  <2>1. PICK u \in P, v \in P, c \in P : st = <<u, v, c>>
    <3>1. st[1] \in P /\ st[2] \in P /\ st[3] \in P /\ st = <<st[1], st[2], st[3]>>
      BY <1>8, Zenon
    <3> HIDE DEF P
    <3>2. \E u, v, c \in P : st = <<u, v, c>>
      BY <3>1, Zenon
    <3> QED
      BY <3>2, Zenon
  <2>2. ~IsZeroPoly(v)
    BY <1>9, <2>1
  <2> HIDE DEF step
  <2>3. st[2] = v
    BY <2>1
  <2> QED
    BY <1>6, <2>1, <2>2, <2>3, Zenon
<1>10. \A st \in S : size[st] = w[st[2]] /\ next[st] = step(st) /\ out[st] = <<st[1], st[3]>>
  OBVIOUS
<1>11. \A st \in S : w[st[2]] \in Nat /\ (w[st[2]] = 0 <=> ends(st))
  BY <1>7, <1>8
<1>12. \A st \in S : out[st] \in P \X P
  BY <1>8, <1>10
<1> HIDE DEF step, S, size, next, out, ends
<1>13. Shrinks(S, size, next)
  <2>1. ASSUME NEW st \in S
        PROVE  size[st] \in Nat /\ (size[st] # 0 => next[st] \in S /\ size[next[st]] < size[st])
    <3>1. size[st] = w[st[2]] /\ w[st[2]] \in Nat
      BY <1>10, <1>11
    <3>2. ASSUME size[st] # 0 PROVE next[st] \in S /\ size[next[st]] < size[st]
      <4>1. next[st] = step(st) /\ step(st) \in S /\ w[step(st)[2]] < w[st[2]]
        BY <1>9, <1>10, <1>11, <3>1, <3>2
      <4>2. size[step(st)] = w[step(st)[2]]
        BY <1>10, <4>1
      <4> QED
        BY <3>1, <4>1, <4>2
    <3> QED
      BY <3>1, <3>2
  <2> QED
    BY <2>1 DEF Shrinks
<1>14. \A st \in S : size[st] = 0 <=> ends(st)
  BY <1>10, <1>11
<1>15. \A g1 : Loop(S, size, next, out, g1)
                <=> g1 = [st \in S |-> IF ends(st) THEN <<st[1], st[3]>>
                                      ELSE IF Stuck(st[2], q) THEN g1[behind(st)] ELSE g1[cancels(st)]]
  <2>1. ASSUME NEW g1
        PROVE  [st \in S |-> IF size[st] = 0 THEN out[st] ELSE g1[next[st]]]
                 = [st \in S |-> IF ends(st) THEN <<st[1], st[3]>>
                                ELSE IF Stuck(st[2], q) THEN g1[behind(st)] ELSE g1[cancels(st)]]
    <3>1. \A st \in S : g1[next[st]] = IF Stuck(st[2], q) THEN g1[behind(st)] ELSE g1[cancels(st)]
      <4>1. \A st \in S : g1[step(st)] = IF Stuck(st[2], q) THEN g1[behind(st)] ELSE g1[cancels(st)]
        <5> HIDE DEF behind, cancels
        <5> QED
          BY DEF step
      <4> HIDE DEF behind, cancels
      <4> QED
        BY <1>10, <4>1
    <3> HIDE DEF behind, cancels
    <3> QED
      BY <1>10, <1>14, <3>1
  <2> HIDE DEF behind, cancels
  <2> QED
    BY <2>1, Zenon DEF Loop
<1>16. Loop(S, size, next, out, h)
  <2>1. \E g1 : Loop(S, size, next, out, g1)
    BY <1>13, LoopIsDefined
  <2>2. h = CHOOSE g1 : g1 = [st \in S |-> IF ends(st) THEN <<st[1], st[3]>>
                                          ELSE IF Stuck(st[2], q) THEN g1[behind(st)] ELSE g1[cancels(st)]]
    BY DEF S, ends
  <2> HIDE DEF h, behind, cancels
  <2> QED
    BY <1>15, <2>1, <2>2, Zenon
<1> HIDE DEF h, start, behind, cancels
<1>17. h[start] \in P \X P
  <2> DEFINE R == P \X P
  <2>1. EndsIn(S, size, out, R)
    BY <1>12 DEF EndsIn
  <2> HIDE DEF R
  <2>2. \A st \in S : h[st] \in R
    BY <1>13, <1>16, <2>1, LoopEndsIn, Zenon
  <2> QED
    BY <1>4, <2>2 DEF R
<1> QED
  BY <1>2, <1>17 DEF P

-----------------------------------------------------------------------------
(* The client of poly_core. *)

LEMMA PrimeCoefficients ==
    ASSUME NEW F, PrimeField(F)
    PROVE  /\ CoefficientLaws(F, Coefficients(F))
           /\ \A n \in 0 .. F.modulus - 1 : element(F, n) \in Coefficients(F)
<1>1. PICK p \in 2 .. MaxUnsigned : p = F.modulus /\ IsPrime(p) /\ F = FiniteFieldRing(p)
  BY DEF PrimeField
<1>2. p \in Nat /\ p # 0 /\ p >= 2 /\ MaxUnsigned \in Nat /\ p <= MaxUnsigned
  BY UnsignedAssumption
<1>3. F.kind = "residues" /\ Coefficients(F) = Residues(p)
  <2>1. F.kind = "residues" /\ F.modulus = p
    <3>1. FiniteFieldRing(p).kind = "residues" /\ FiniteFieldRing(p).modulus = p
      BY DEF FiniteFieldRing
    <3> QED
      BY <1>1, <3>1, Zenon
  <2> QED
    BY <2>1, Zenon DEF Coefficients, Residues
<1>4. FieldLaws(F, Residues(p))
  BY <1>1, ResiduesAreAField
<1>5. \A n \in 0 .. p - 1 : n % p = n
  <2> SUFFICES ASSUME NEW n \in 0 .. p - 1 PROVE n % p = n
    OBVIOUS
  <2>1. n \in Int /\ 0 <= n /\ n < p
    BY <1>2
  <2> QED
    BY <1>2, <2>1, ModOnce, Zenon
<1>6. \A n \in 0 .. p - 1 : element(F, n) = [modulus |-> p, value |-> n] /\ element(F, n) \in Residues(p)
  BY <1>1, <1>3, <1>5 DEF element, FieldElement, Residues
<1>7. zero(F) = [modulus |-> p, value |-> 0]
  <2>1. 0 \in 0 .. p - 1
    BY <1>2
  <2> QED
    BY <1>6, <2>1 DEF zero
<1>8. ASSUME NEW u \in Residues(p)
      PROVE  neg(F, u) \in Residues(p) /\ (neg(F, u) = zero(F) => u = zero(F))
  <2>1. neg(F, u) = FieldNeg(u)
    BY <1>3 DEF neg
  <2>2. PICK v \in 0 .. p - 1 : u = [modulus |-> p, value |-> v]
    BY DEF Residues
  <2>3. CASE v = 0
    <3>1. u = zero(F)
      BY <1>7, <2>2, <2>3
    <3>2. FieldNeg(u) \in Residues(p)
      BY ResidueOperations
    <3> QED
      BY <2>1, <3>1, <3>2
  <2>4. CASE v # 0
    <3>1. PICK w \in 1 .. p - 1 : w = p - v
      BY <1>2, <2>4
    <3>2. w % (MaxUnsigned + 1) = w
      <4>1. w \in Int /\ 0 <= w /\ w < MaxUnsigned + 1 /\ MaxUnsigned + 1 \in Nat /\ MaxUnsigned + 1 # 0
        BY <1>2
      <4> QED
        BY <4>1, ModOnce, Zenon
    <3>3. w % p = w /\ w \in 0 .. p - 1
      BY <1>2, <1>5
    <3>4. FieldNeg(u) = [modulus |-> p, value |-> w]
      BY <2>2, <2>4, <3>1, <3>2, <3>3 DEF FieldNeg, FieldElement, Unsigned
    <3> QED
      BY <1>7, <2>1, <3>1, <3>3, <3>4 DEF Residues
  <2> QED
    BY <2>3, <2>4
<1>9. \A u \in Residues(p) : sub(F, u, u) = zero(F)
  BY <1>4, Laws
<1> QED
  BY <1>1, <1>3, <1>4, <1>6, <1>8, <1>9 DEF CoefficientLaws

\* For matrices over prime fields there is nothing to assume of the field.
OverPrimeFieldsOnly ==
    \A m \in Matrices :
      /\ PrimeField(m[1])
      /\ \E rows, cols \in Nat : /\ rows = 0 => cols = 0
                                /\ m[2] \in Matrix(Coefficients(m[1]), rows, cols)

\* Modulo every prime that fits the word row_reduce keeps the solutions of the
\* system in every step and ends in reduced row echelon form.
THEOREM RowReduceIsRightModuloPrimes ==
    ASSUME OverPrimeFieldsOnly
    PROVE  RowReduceSpec => []ReducesTheSystem
<1>1. ASSUME NEW m \in Matrices PROVE OverField(m[1], m[2])
  <2>1. PICK F : F = m[1]
    OBVIOUS
  <2>2. PrimeField(F)
    BY <1>1, <2>1 DEF OverPrimeFieldsOnly
  <2>3. PICK rows \in Nat, cols \in Nat : /\ rows = 0 => cols = 0
                                         /\ m[2] \in Matrix(Coefficients(F), rows, cols)
    BY <1>1, <2>1 DEF OverPrimeFieldsOnly
  <2>4. PICK E : E = Coefficients(F)
    OBVIOUS
  <2>5. FieldLaws(F, E) /\ \A n \in 0 .. F.modulus - 1 : element(F, n) \in E
    BY <2>2, <2>4, PrimeCoefficients DEF CoefficientLaws
  <2>6. F.bound = F.modulus
    <3>1. PICK p : p = F.modulus
      OBVIOUS
    <3>2. F = FiniteFieldRing(p)
      BY <2>2, <3>1 DEF PrimeField
    <3>3. FiniteFieldRing(p).bound = p
      BY DEF FiniteFieldRing
    <3> QED
      BY <3>1, <3>2, <3>3, Zenon
  <2> QED
    BY <2>1, <2>3, <2>4, <2>5, <2>6 DEF OverField
<1>2. MatricesAreOverFields
  BY <1>1 DEF MatricesAreOverFields
<1> QED
  BY <1>2, RowReduceIsRight

LEMMA PolysOfVariables ==
    ASSUME NEW F, NEW p
    PROVE  (p.variables \in Seq(STRING) /\ p \in Polys(F, p.variables))
             <=> \E vs \in Seq(STRING) : IsPoly(p, F, vs) /\ p.variables = vs
<1>1. ASSUME NEW vs \in Seq(STRING) PROVE p \in Polys(F, vs) <=> IsPoly(p, F, vs)
  BY ExponentAssumption, PolysAre
<1> QED
  BY <1>1

\* The field has a prime modulus wherever the client computes, and the second
\* register keeps variables whose bound on degrees is an exponent.
PolynomialsInv ==
    /\ base.kind = "residues" => PrimeField(base)
    /\ MaxDegree[Len(g.variables)] \in 0 .. ExponentRange - 1
    /\ TermsAreCanonical

LEMMA PolynomialsStart == PolynomialsInit => PolynomialsInv
<1> SUFFICES ASSUME PolynomialsInit PROVE PolynomialsInv
  OBVIOUS
<1>1. PICK start \in Starts : base = start[1] /\ f = start[2] /\ g = start[3]
  BY DEF PolynomialsInit
<1>2. /\ start[1].kind = "residues" => PrimeField(start[1])
      /\ \A p \in {start[2], start[3]} : p.variables \in Seq(STRING) /\ p \in Polys(start[1], p.variables)
      /\ MaxDegree[Len(start[3].variables)] \in 0 .. ExponentRange - 1
  BY StartsAssumption
<1> QED
  BY <1>1, <1>2 DEF PolynomialsInv, TermsAreCanonical, CanonicalPoly

LEMMA PolynomialsStep == PolynomialsInv /\ [PolynomialsNext]_polyVars => PolynomialsInv'
<1> SUFFICES ASSUME PolynomialsInv, [PolynomialsNext]_polyVars PROVE PolynomialsInv'
  OBVIOUS
<1>1. CASE UNCHANGED polyVars
  BY <1>1 DEF PolynomialsInv, TermsAreCanonical, CanonicalPoly, polyVars
<1> SUFFICES ASSUME PolynomialsNext PROVE PolynomialsInv'
  BY <1>1
<1>2. PrimeField(base) /\ base.kind = "residues"
  BY DEF PolynomialsNext, Ready, PolynomialsInv
<1> DEFINE E == Coefficients(base)
<1>3. CoefficientLaws(base, E) /\ \A n \in 0 .. base.modulus - 1 : element(base, n) \in E
  BY <1>2, PrimeCoefficients
<1>4. PICK vs \in Seq(STRING) : IsPoly(f, base, vs) /\ f.variables = vs
  BY PolysOfVariables DEF PolynomialsInv, TermsAreCanonical, CanonicalPoly
<1>5. PICK ws \in Seq(STRING) : IsPoly(g, base, ws) /\ g.variables = ws
  BY PolysOfVariables DEF PolynomialsInv, TermsAreCanonical, CanonicalPoly
<1>6. Len(vs) \in Nat /\ Len(ws) \in Nat /\ ExponentRange \in Nat \ {0}
  BY ExponentAssumption
\* What every action makes of the registers.
<1>7. ASSUME base' = base, NEW us \in Seq(STRING), IsPoly(f', base, us), IsPoly(g', base, ws)
      PROVE  PolynomialsInv'
  <2>1. f'.variables = us /\ g'.variables = ws
    BY <1>7, PartsOfPoly
  <2>2. /\ f'.variables \in Seq(STRING) /\ f' \in Polys(base, f'.variables)
        /\ g'.variables \in Seq(STRING) /\ g' \in Polys(base, g'.variables)
    BY <1>7, <2>1, PolysOfVariables
  <2> QED
    BY <1>2, <1>5, <1>7, <2>1, <2>2 DEF PolynomialsInv, TermsAreCanonical, CanonicalPoly
<1>8. ASSUME UNCHANGED <<base, f, g>> PROVE PolynomialsInv'
  BY <1>8 DEF PolynomialsInv, TermsAreCanonical, CanonicalPoly
<1> HIDE DEF E
<1>9. ASSUME AddTerm PROVE PolynomialsInv'
  <2>1. PICK m \in [DOMAIN g.variables -> 0 .. MaxDegree[Len(g.variables)]], n \in 0 .. base.modulus - 1 :
             Result(<<"load">>, f, poly_add(base, g, from_term(base, g.variables, m, element(base, n))))
    BY <1>9 DEF AddTerm
  <2>2. m \in Mon(Len(ws))
    <3>1. DOMAIN g.variables = 1 .. Len(ws) /\ MaxDegree[Len(g.variables)] \in 0 .. ExponentRange - 1
      BY <1>5 DEF PolynomialsInv
    <3> QED
      BY <1>6, <3>1 DEF Mon
  <2>3. IsPoly(from_term(base, ws, m, element(base, n)), base, ws)
    BY <1>3, <2>2, TermIsPoly DEF E
  <2>4. IsPoly(poly_add(base, g, from_term(base, ws, m, element(base, n))), base, ws)
    BY <1>3, <1>5, <1>6, <2>3, SumIsPoly DEF E
  <2> QED
    BY <1>4, <1>5, <1>7, <2>1, <2>4 DEF Result
<1>10. ASSUME NEW op, NEW p, Binary(op, p), vs = ws => IsPoly(p, base, vs) PROVE PolynomialsInv'
  <2>1. CASE SameVariables
    <3>1. vs = ws /\ Result(<<op>>, p, g)
      BY <1>4, <1>5, <1>10, <2>1 DEF Binary, SameVariables
    <3> QED
      BY <1>5, <1>7, <1>10, <3>1 DEF Result
  <2>2. CASE ~SameVariables
    BY <1>8, <1>10, <2>2 DEF Binary, Raises
  <2> QED
    BY <2>1, <2>2
<1>11. ASSUME AddPoly PROVE PolynomialsInv'
  <2>1. vs = ws => IsPoly(poly_add(base, f, g), base, vs)
    BY <1>3, <1>4, <1>5, <1>6, SumIsPoly DEF E
  <2> QED
    BY <1>10, <1>11, <2>1 DEF AddPoly
<1>12. ASSUME SubPoly PROVE PolynomialsInv'
  <2>1. vs = ws => IsPoly(poly_sub(base, f, g), base, vs)
    BY <1>3, <1>4, <1>5, <1>6, DifferenceIsPoly DEF E
  <2> QED
    BY <1>10, <1>12, <2>1 DEF SubPoly
<1>13. ASSUME MulPoly PROVE PolynomialsInv'
  <2>1. vs = ws => IsPoly(poly_mul(base, f, g), base, vs)
    BY <1>3, <1>4, <1>5, <1>6, ProductIsPoly DEF E
  <2> QED
    BY <1>10, <1>13, <2>1 DEF MulPoly
<1>14. ASSUME NegPoly PROVE PolynomialsInv'
  <2>1. IsPoly(poly_neg(base, f), base, vs)
    BY <1>3, <1>4, NegationIsPoly DEF E
  <2> QED
    BY <1>5, <1>7, <1>14, <2>1 DEF NegPoly, Result
<1>15. ASSUME Evaluate PROVE PolynomialsInv'
  <2>1. PICK v \in DOMAIN f.variables, n \in 0 .. base.modulus - 1 :
             Result(<<"evaluate", v, n>>, evaluate(base, f, v, element(base, n)), g)
    BY <1>15 DEF Evaluate
  <2>2. v \in 1 .. Len(vs)
    BY <1>4
  <2>3. IsPoly(evaluate(base, f, v, element(base, n)), base, vs)
    BY <1>3, <1>4, <1>6, <2>2, ValueIsPoly DEF E
  <2> QED
    BY <1>5, <1>7, <2>1, <2>3 DEF Result
<1>16. ASSUME LeadingCoefficient PROVE PolynomialsInv'
  <2>1. PICK v \in DOMAIN f.variables :
             Result(<<"leading_coefficient", v>>, leading_coefficient_in(f, v), g)
    BY <1>16 DEF LeadingCoefficient
  <2>2. v \in 1 .. Len(vs)
    BY <1>4
  <2>3. IsPoly(leading_coefficient_in(f, v), base, RemoveAt(vs, v))
    BY <1>4, <1>6, <2>2, LeadingCoefficientIsPoly
  <2>4. RemoveAt(vs, v) \in Seq(STRING)
    BY <2>2, Removed
  <2> QED
    BY <1>5, <1>7, <2>1, <2>3, <2>4 DEF Result
<1>17. ASSUME DivRem PROVE PolynomialsInv'
  <2>1. CASE ~SameVariables \/ IsZeroPoly(g)
    BY <1>8, <1>17, <2>1 DEF DivRem, Raises
  <2>2. CASE SameVariables /\ ~IsZeroPoly(g)
    <3>1. vs = ws /\ g.terms # <<>>
      BY <1>4, <1>5, <2>2 DEF SameVariables, IsZeroPoly
    <3>2. f \in Polys(base, vs) /\ g \in Polys(base, vs)
      BY <1>4, <1>5, <1>6, <3>1, PolysAre
    <3>3. /\ divide_leading(base, f, g) \in Polys(base, vs) \X Polys(base, vs)
          /\ multivariate_div_rem(base, f, g) \in Polys(base, vs) \X Polys(base, vs)
      BY <1>3, <1>6, <3>1, <3>2, LeadingDivisionIsPoly, DivisionIsPoly DEF E
    <3>4. PICK qr : /\ qr \in Polys(base, vs) \X Polys(base, vs)
                    /\ Result(<<"div_rem">>, qr[1], qr[2])
      BY <1>17, <2>2, <3>3 DEF DivRem, univariate_div_rem
    <3>5. qr[1] \in Polys(base, vs) /\ qr[2] \in Polys(base, vs)
      BY <3>4
    <3>6. IsPoly(qr[1], base, vs) /\ IsPoly(qr[2], base, ws)
      BY <1>6, <3>1, <3>5, PolysAre
    <3> QED
      BY <1>7, <3>4, <3>6 DEF Result
  <2> QED
    BY <2>1, <2>2
<1> QED
  BY <1>9, <1>11, <1>12, <1>13, <1>14, <1>15, <1>16, <1>17 DEF PolynomialsNext

\* Whatever the field, the variables, the width of an exponent and the sequence
\* of calls: the terms stay in descending order, no monomial twice and none
\* with the coefficient zero, also where exponents of products wrap around.
THEOREM TermsStayCanonical == PolynomialsSpec => []TermsAreCanonical
<1>1. PolynomialsInv => TermsAreCanonical
  BY DEF PolynomialsInv
<1> QED
  BY <1>1, PolynomialsStart, PolynomialsStep, PTL DEF PolynomialsSpec
===============================================================================
