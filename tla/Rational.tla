------------------------------ MODULE Rational ------------------------------
(***************************************************************************)
(* src/src/numerica_core/rational.cc: fractions of two BigInts, and the    *)
(* reconstruction of a fraction from its residue.                          *)
(***************************************************************************)
EXTENDS BigInt

\* A call that throws std::domain_error.
DomainError == "domain_error"

abs_value(b) == IF Less(b, Small(0)) THEN Neg(b) ELSE b

Fraction(n, d) == [numerator |-> n, denominator |-> d]

\* Mutant: the common divisor is found and not divided by.
Uncancelled(n, d, g) == Fraction(n, d)

\* For a positive d: zero has the denominator one.
cancel(n, d, g) ==
    IF IsZero(n) THEN Fraction(n, Small(1))
    ELSE IF Equal(g, Small(1)) THEN Fraction(n, d)
    ELSE Fraction(Div(n, g), Div(d, g))

lowest(n, d) == cancel(n, d, Gcd(abs_value(n), d))

reduce(n, d) ==
    LET negative == Less(d, Small(0))
    IN lowest(IF negative THEN Neg(n) ELSE n, IF negative THEN Neg(d) ELSE d)

Rational(n, d) == IF IsZero(d) THEN DomainError ELSE reduce(n, d)

Cross(Op(_, _), p, q) ==
    Rational(Op(Mul(p.numerator, q.denominator), Mul(q.numerator, p.denominator)),
             Mul(p.denominator, q.denominator))

Plus(p, q)   == Cross(Add, p, q)
Minus(p, q)  == Cross(Sub, p, q)
Times(p, q)  == Rational(Mul(p.numerator, q.numerator), Mul(p.denominator, q.denominator))
Over(p, q)   == IF IsZero(q.numerator) THEN DomainError
                ELSE Rational(Mul(p.numerator, q.denominator), Mul(p.denominator, q.numerator))
Negated(p)   == Rational(Neg(p.numerator), p.denominator)
Reciprocal(p) == IF IsZero(p.numerator) THEN DomainError
                ELSE Rational(p.denominator, p.numerator)

SameRational(p, q) == /\ Equal(p.numerator, q.numerator)
                      /\ Equal(p.denominator, q.denominator)

\* operator<=>, as the sign of this difference.
Order(p, q) == Compare(Mul(p.numerator, q.denominator), Mul(q.numerator, p.denominator))

-----------------------------------------------------------------------------
\* Newton's method from the value itself; for b >= 0.
isqrt(b) ==
    LET next(x) == Div(Add(x, Div(b, x)), Small(2))
        walk[k \in Nat] == IF k = 0 THEN b ELSE next(walk[k - 1])
        stops(k) == ~Less(walk[k + 1], walk[k])
    IN IF IsZero(b) THEN Small(0)
       ELSE walk[CHOOSE k \in 0 .. Value(b) : stops(k) /\ \A j \in 0 .. k - 1 : ~stops(j)]

\* The continued fraction of modulus / residue, up to the first remainder
\* within the bound: <<remainder, cofactor>>, or <<>> if a remainder vanishes.
Expansion(residue, modulus, bound) ==
    LET step[r_prev \in BigInts, r_curr \in BigInts, t_prev \in BigInts, t_curr \in BigInts] ==
          LET quotient == Div(r_prev, r_curr)
          IN IF ~Less(bound, r_curr) THEN <<r_curr, t_curr>>
             ELSE IF IsZero(r_curr) THEN <<>>
             ELSE step[r_curr, Sub(r_prev, Mul(quotient, r_curr)),
                       t_curr, Sub(t_prev, Mul(quotient, t_curr))]
    IN step[modulus, Mod(Add(Mod(residue, modulus), modulus), modulus), Small(0), Small(1)]

\* A fraction n / t in lowest terms, t within the bound.
Accepted(n, t, bound) ==
    LET d == abs_value(t)
    IN IF IsZero(d) \/ Less(bound, d) THEN <<>>
       ELSE IF ~Equal(Gcd(abs_value(n), d), Small(1)) THEN <<>>
       ELSE <<Rational(n, t)>>

AcceptedIfFound(found, bound) ==
    IF found = <<>> THEN <<>> ELSE Accepted(found[1], found[2], bound)

ReconstructThrows(modulus) == ~Less(Small(0), modulus)

\* reconstruct with a bound: <<>> for std::nullopt.
ReconstructWithin(residue, modulus, bound) ==
    IF ReconstructThrows(modulus) THEN DomainError
    ELSE AcceptedIfFound(Expansion(residue, modulus, bound), bound)

DefaultBound(modulus) == isqrt(Div(modulus, Small(2)))

\* reconstruct with the default bound.
Reconstruct(residue, modulus) == ReconstructWithin(residue, modulus, DefaultBound(modulus))
=============================================================================
