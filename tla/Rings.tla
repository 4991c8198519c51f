------------------------------- MODULE Rings -------------------------------
(***************************************************************************)
(* The rings of src/src/algebra_core/rings.cc and rings.hh: one interface  *)
(* over BigInt, Rational and FiniteField.  A ring is a record [kind,       *)
(* modulus, bound]; bound limits the elements a model visits.              *)
(***************************************************************************)
EXTENDS Rational, FiniteField

IntegerRing(bound)   == [kind |-> "integers", modulus |-> 0, bound |-> bound]
RationalField(bound) == [kind |-> "rationals", modulus |-> 0, bound |-> bound]
FiniteFieldRing(m)   == [kind |-> "residues", modulus |-> m, bound |-> m]

element(r, n) == CASE r.kind = "integers"  -> Shrunk(n)
                   [] r.kind = "rationals" -> Fraction(Shrunk(n), Small(1))
                   [] r.kind = "residues"  -> FieldElement(r.modulus, n)

zero(r) == element(r, 0)
one(r)  == element(r, 1)

add(r, a, b) == CASE r.kind = "integers"  -> Add(a, b)
                  [] r.kind = "rationals" -> Plus(a, b)
                  [] r.kind = "residues"  -> FieldAdd(a, b)

sub(r, a, b) == CASE r.kind = "integers"  -> Sub(a, b)
                  [] r.kind = "rationals" -> Minus(a, b)
                  [] r.kind = "residues"  -> FieldSub(a, b)

mul(r, a, b) == CASE r.kind = "integers"  -> Mul(a, b)
                  [] r.kind = "rationals" -> Times(a, b)
                  [] r.kind = "residues"  -> FieldMul(a, b)

neg(r, a) == CASE r.kind = "integers"  -> Neg(a)
               [] r.kind = "rationals" -> Negated(a)
               [] r.kind = "residues"  -> FieldNeg(a)

\* Of a field; DomainError for zero.
inv(r, a) == CASE r.kind = "rationals" -> Reciprocal(a)
               [] r.kind = "residues"  -> FieldInv(a)

is_zero(r, a) == CASE r.kind = "integers"  -> IsZero(a)
                   [] r.kind = "rationals" -> SameRational(a, zero(r))
                   [] r.kind = "residues"  -> a = zero(r)

\* Of a Euclidean domain, for b other than zero: <<quotient, remainder>>.
div_rem(r, a, b) == CASE r.kind = "integers" -> <<Div(a, b), Mod(a, b)>>
                      [] r.kind = "residues" -> <<mul(r, a, inv(r, b)), zero(r)>>

-----------------------------------------------------------------------------
\* The laws of a field (Field of concepts.hh), for F with the elements E.
UnaryLaws(F, E) ==
    /\ zero(F) \in E /\ one(F) \in E /\ zero(F) # one(F)
    /\ \A u \in E : /\ add(F, zero(F), u) = u /\ mul(F, one(F), u) = u
                    /\ is_zero(F, u) <=> u = zero(F)
                    /\ u # zero(F) => inv(F, u) \in E /\ mul(F, u, inv(F, u)) = one(F)

BinaryLaws(F, E) ==
    \A u, v \in E : /\ {add(F, u, v), sub(F, u, v), mul(F, u, v)} \subseteq E
                    /\ add(F, u, v) = add(F, v, u) /\ mul(F, u, v) = mul(F, v, u)
                    /\ add(F, sub(F, u, v), v) = u

TernaryLaws(F, E) ==
    \A u, v, w \in E : /\ add(F, add(F, u, v), w) = add(F, u, add(F, v, w))
                       /\ mul(F, mul(F, u, v), w) = mul(F, u, mul(F, v, w))
                       /\ mul(F, u, add(F, v, w)) = add(F, mul(F, u, v), mul(F, u, w))

FieldLaws(F, E) == UnaryLaws(F, E) /\ BinaryLaws(F, E) /\ TernaryLaws(F, E)

\* The finite fields with a modulus that is one.
PrimeField(r) == r.modulus \in 2 .. MaxUnsigned /\ IsPrime(r.modulus) /\ r = FiniteFieldRing(r.modulus)
=============================================================================
