------------------------------- MODULE BigInt -------------------------------
(***************************************************************************)
(* The integers of src/src/numerica_core/big_int.cc: a machine word while  *)
(* the value fits one, a GMP integer otherwise.                            *)
(*                                                                         *)
(* A BigInt is a record [is_small, small_value, impl].  impl stands for    *)
(* the mpz_t behind the pointer, 0 for the null pointer.  GMP computes on  *)
(* all integers; what enters and leaves it goes through a C long, which    *)
(* may be narrower than int64_t (it is on 64-bit Windows).                 *)
(***************************************************************************)
EXTENDS Integers

CONSTANTS
    MaxWord,          \* the largest int64_t
    MaxLong,          \* the largest long
    HasInt128,        \* whether the compiler has a type for products of two words
    mpz_gcd(_, _),    \* GMP's gcd
    mpz_gcdext(_, _)  \* GMP's <<g, s, t>> with s * a + t * b = g

ASSUME WordAssumption ==
    /\ MaxWord \in Nat \ {0}
    /\ MaxLong \in 1 .. MaxWord
    /\ HasInt128 \in BOOLEAN

MinWord == -MaxWord - 1
Word    == MinWord .. MaxWord
MinLong == -MaxLong - 1

Magnitude(n) == IF n < 0 THEN -n ELSE n

\* What a word operation leaves in the word.
Machine(n) == ((n - MinWord) % (2 * (MaxWord + 1))) + MinWord

\* Division that rounds toward zero, of words and of GMP integers.
Quot(n, m) == LET q == Magnitude(n) \div Magnitude(m)
              IN IF (n < 0) = (m < 0) THEN q ELSE -q
Rem(n, m)  == n - m * Quot(n, m)

-----------------------------------------------------------------------------
Small(n) == [is_small |-> TRUE, small_value |-> n, impl |-> 0]

fits_in_int64(n) == MinLong <= n /\ n <= MaxLong

\* A result that GMP computed: back to a word if it fits.
Shrunk(n) == IF fits_in_int64(n) THEN Small(n)
             ELSE [is_small |-> FALSE, small_value |-> 0, impl |-> n]

\* Impl(int64_t): the word cast to unsigned long, or to long if negative.
ToGmp(w) == IF w >= 0 THEN w % (2 * (MaxLong + 1))
            ELSE ((w - MinLong) % (2 * (MaxLong + 1))) + MinLong

promote_to_big(b) == IF b.is_small THEN ToGmp(b.small_value) ELSE b.impl

\* The integer a BigInt stands for.
Value(b) == IF b.is_small THEN b.small_value ELSE b.impl

-----------------------------------------------------------------------------
add_overflows(a, b) == \/ b > 0 /\ a > MaxWord - b
                       \/ b < 0 /\ a < MinWord - b

sub_overflows(a, b) == \/ b < 0 /\ a > MaxWord + b
                       \/ b > 0 /\ a < MinWord + b

\* The check of a compiler without a 128-bit type.
portable_mul_overflows(a, b) ==
    /\ a # 0 /\ b # 0
    /\ IF a = MinWord THEN b # 1
       ELSE IF b = MinWord THEN a # 1
       ELSE Magnitude(a) > MaxWord \div Magnitude(b)

mul_overflows(a, b) ==
    IF HasInt128 THEN a * b < MinWord \/ a * b > MaxWord
    ELSE portable_mul_overflows(a, b)

div_overflows(a, b) == a = MinWord /\ b = -1

BothSmall(a, b) == a.is_small /\ b.is_small

Add(a, b) ==
    IF BothSmall(a, b) /\ ~add_overflows(a.small_value, b.small_value)
    THEN Small(Machine(a.small_value + b.small_value))
    ELSE Shrunk(promote_to_big(a) + promote_to_big(b))

Sub(a, b) ==
    IF BothSmall(a, b) /\ ~sub_overflows(a.small_value, b.small_value)
    THEN Small(Machine(a.small_value - b.small_value))
    ELSE Shrunk(promote_to_big(a) - promote_to_big(b))

Mul(a, b) ==
    IF BothSmall(a, b) /\ ~mul_overflows(a.small_value, b.small_value)
    THEN Small(Machine(a.small_value * b.small_value))
    ELSE Shrunk(promote_to_big(a) * promote_to_big(b))

\* For b other than zero, where Div and Mod throw.
Div(a, b) ==
    IF BothSmall(a, b) /\ ~div_overflows(a.small_value, b.small_value)
    THEN Small(Machine(Quot(a.small_value, b.small_value)))
    ELSE Shrunk(Quot(promote_to_big(a), promote_to_big(b)))

Mod(a, b) ==
    IF BothSmall(a, b) /\ ~div_overflows(a.small_value, b.small_value)
    THEN Small(Machine(Rem(a.small_value, b.small_value)))
    ELSE Shrunk(Rem(promote_to_big(a), promote_to_big(b)))

Neg(a) ==
    IF a.is_small /\ a.small_value # MinWord
    THEN Small(Machine(-a.small_value))
    ELSE Shrunk(-promote_to_big(a))

\* Mutant: reads the word of a promoted number.
CompareStale(a, b) == a.small_value - b.small_value

\* operator<=> is the sign of this difference.
Compare(a, b) == IF BothSmall(a, b) THEN a.small_value - b.small_value
                 ELSE promote_to_big(a) - promote_to_big(b)

Less(a, b)   == Compare(a, b) < 0
Equal(a, b)  == Compare(a, b) = 0
IsZero(a)    == Equal(a, Small(0))

Gcd(a, b) == Shrunk(mpz_gcd(promote_to_big(a), promote_to_big(b)))

\* extended_gcd: <<g, x, y>>.
ExtendedGcd(a, b) ==
    LET e == mpz_gcdext(promote_to_big(a), promote_to_big(b))
    IN <<Shrunk(e[1]), Shrunk(e[2]), Shrunk(e[3])>>

-----------------------------------------------------------------------------
BigInts == [is_small : BOOLEAN, small_value : Int, impl : Int]

\* A BigInt uses the word exactly when its value fits, and nothing is left
\* over in the part it does not use.
IsBigInt(b) ==
    /\ b \in BigInts
    /\ \/ b.is_small /\ b.small_value \in Word /\ b.impl = 0
       \/ ~b.is_small /\ b.small_value = 0 /\ b.impl \notin Word
=============================================================================
