---------------------------- MODULE FiniteField ----------------------------
(***************************************************************************)
(* Residues of src/src/numerica_core/include/numerica_core/finite_field.hh *)
(* as records [modulus, value] of machine words.  Every operation computes *)
(* in the word and goes through the constructor, which reduces again.      *)
(***************************************************************************)
EXTENDS Integers

CONSTANTS
    MaxUnsigned,     \* the largest value of T
    HasWideProduct   \* whether the product of two words can be computed at once:
                     \* always for 32 bits, with a 128-bit type for 64

ASSUME UnsignedAssumption == MaxUnsigned \in Nat \ {0} /\ HasWideProduct \in BOOLEAN

Unsigned(n) == n % (MaxUnsigned + 1)

FieldElement(m, n) == [modulus |-> m, value |-> n % m]

\* Mutant: a sum that wrapped around looks small.
FieldAddNoWrap(a, b) ==
    LET m == a.modulus
        sum == Unsigned(a.value + b.value)
    IN FieldElement(m, IF sum >= m THEN Unsigned(sum - m) ELSE sum)

FieldAdd(a, b) ==
    LET m == a.modulus
        sum == Unsigned(a.value + b.value)
    IN FieldElement(m, IF sum >= m \/ sum < a.value THEN Unsigned(sum - m) ELSE sum)

FieldSub(a, b) ==
    LET m == a.modulus
        diff == Unsigned(a.value - b.value)
    IN FieldElement(m, IF a.value < b.value THEN Unsigned(diff + m) ELSE diff)

FieldNeg(a) == FieldElement(a.modulus, IF a.value = 0 THEN 0 ELSE Unsigned(a.modulus - a.value))

\* Addition below a modulus of any size without leaving the word.
add_mod(x, y, m) == IF x >= Unsigned(m - y) THEN Unsigned(x - Unsigned(m - y))
                    ELSE Unsigned(x + y)

\* Doubling and adding, one bit of y at a time: the states are <<x, y, result>>.
portable_mul_mod(a, b, m) ==
    LET peasant[s \in Nat \X Nat \X Nat] ==
          IF s[2] = 0 THEN s[3]
          ELSE peasant[<<add_mod(s[1], s[1], m), s[2] \div 2,
                         IF s[2] % 2 = 1 THEN add_mod(s[3], s[1], m) ELSE s[3]>>]
    IN peasant[<<a % m, b, 0>>]

mul_mod(a, b, m) == IF HasWideProduct THEN (a * b) % m ELSE portable_mul_mod(a, b, m)

FieldMul(a, b) == FieldElement(a.modulus, mul_mod(a.value, b.value, a.modulus))

\* Fermat: the value to the power modulus - 2, by squaring; zero throws.  The
\* states are <<base, exponent, result>>.
FieldInv(a) ==
    LET residues == [modulus : {a.modulus}, value : 0 .. a.modulus - 1]
        power[s \in residues \X Nat \X residues] ==
          IF s[2] = 0 THEN s[3]
          ELSE power[<<FieldMul(s[1], s[1]), s[2] \div 2,
                       IF s[2] % 2 = 1 THEN FieldMul(s[3], s[1]) ELSE s[3]>>]
    IN IF a.value = 0 THEN "domain_error"
       ELSE power[<<a, Unsigned(a.modulus - 2), FieldElement(a.modulus, 1)>>]

\* What a modulus has to be; the constructor does not check it.
IsPrime(p) == p \in Nat /\ p >= 2 /\ \A d \in 2 .. p - 1 : p % d # 0
=============================================================================
