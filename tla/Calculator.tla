----------------------------- MODULE Calculator -----------------------------
(***************************************************************************)
(* A client of the rings: two registers over one ring, every operation of  *)
(* the ring on what they hold, results used again as operands.             *)
(***************************************************************************)
EXTENDS Rings, Sequences

CONSTANT Rings        \* the rings a client may choose

VARIABLES ring, x, y, \* the ring and the registers
          call        \* the last call: its name, arguments and outcome

vars == <<ring, x, y, call>>

\* The element as a fraction of integers.
Meaning(r, a) == CASE r.kind = "integers"  -> <<Value(a), 1>>
                   [] r.kind = "rationals" -> <<Value(a.numerator), Value(a.denominator)>>
                   [] r.kind = "residues"  -> <<a.value, 1>>

Exact == INSTANCE ExactCalculator WITH x <- Meaning(ring, x), y <- Meaning(ring, y)

InRing(kinds) == ring.kind \in kinds

\* The bound of the model on the elements it visits.
Bounded(a) == \/ InRing({"residues"})
              \/ \A k \in 1 .. 2 : Magnitude(Meaning(ring, a)[k]) <= ring.bound

Return(op, a, b) == /\ Bounded(a) /\ Bounded(b)
                    /\ x' = a /\ y' = b /\ call' = <<op>> /\ UNCHANGED ring

Throws(op) == call' = <<op, DomainError>> /\ UNCHANGED <<ring, x, y>>

-----------------------------------------------------------------------------
Init == /\ ring \in Rings
        /\ x = zero(ring) /\ y = zero(ring)
        /\ call = <<"start">>

\* The second register becomes the element a, constructed from n and d.
Loaded(n, d, a) == /\ Bounded(x) /\ Bounded(a)
                   /\ y' = a /\ call' = <<"load", n, d>> /\ UNCHANGED <<ring, x>>

LoadedFraction(n, d) ==
    IF d = 0 THEN call' = <<"load", n, d, DomainError>> /\ UNCHANGED <<ring, x, y>>
    ELSE Loaded(n, d, Rational(Shrunk(n), Shrunk(d)))

\* The constructors: from a word or a string, from two integers, from a word.
Load == \/ /\ InRing({"integers"})
           /\ \/ \E n \in -ring.bound .. ring.bound : Loaded(n, 1, Shrunk(n))
              \/ \E n \in Word : Loaded(n, 1, Small(n))
        \/ /\ InRing({"rationals"})
           /\ \E n, d \in {k \in -ring.bound .. ring.bound : 2 * Magnitude(k) <= ring.bound} :
                 LoadedFraction(n, d)
        \/ /\ InRing({"residues"})
           /\ \E n \in 0 .. MaxUnsigned : Loaded(n, 1, FieldElement(ring.modulus, n))

Copy == Return("copy", x, x)

\* The moved-from BigInt is a small zero.
Move == InRing({"integers"}) /\ Return("move", Small(0), x)

AddCall == Return("add", add(ring, x, y), y)
SubCall == Return("sub", sub(ring, x, y), y)
MulCall == Return("mul", mul(ring, x, y), y)
NegCall == Return("neg", neg(ring, x), y)

InvCall == /\ InRing({"rationals", "residues"})
           /\ IF is_zero(ring, x) THEN Throws("inv") ELSE Return("inv", inv(ring, x), y)

DivRemCall ==
    /\ InRing({"integers", "residues"})
    /\ IF is_zero(ring, y) THEN Throws("div_rem")
       ELSE Return("div_rem", div_rem(ring, x, y)[1], div_rem(ring, x, y)[2])

GcdCall == InRing({"integers"}) /\ Return("gcd", Gcd(x, y), y)

BezoutCall == /\ InRing({"integers"})
              /\ Return("bezout", ExtendedGcd(x, y)[2], ExtendedGcd(x, y)[3])

ReconstructedOrNot(residue, modulus, bound, default) ==
    \E found \in {ReconstructWithin(Shrunk(residue), Shrunk(modulus), bound)} :
      /\ x' = IF found = <<>> THEN x ELSE found[1]
      /\ call' = <<"reconstruct", residue, modulus, Value(bound), default,
                   IF found = <<>> THEN "nullopt" ELSE "found">>
      /\ UNCHANGED <<ring, y>>

\* Rational::reconstruct reads no register: one call from the start is enough.
\* Residues, moduli and bounds outside their documented ranges are tried too.
ReconstructCall ==
    /\ InRing({"rationals"}) /\ call = <<"start">>
    /\ \E modulus \in -1 .. ring.bound * ring.bound :
       \E residue \in -1 .. modulus :
         IF ReconstructThrows(Shrunk(modulus))
         THEN /\ call' = <<"reconstruct", residue, modulus, 0, FALSE, DomainError>>
              /\ UNCHANGED <<ring, x, y>>
         ELSE \/ \E given \in -1 .. modulus :
                   ReconstructedOrNot(residue, modulus, Shrunk(given), FALSE)
              \/ ReconstructedOrNot(residue, modulus, DefaultBound(Shrunk(modulus)), TRUE)

Next == \/ Load \/ Copy \/ Move \/ AddCall \/ SubCall \/ MulCall \/ NegCall \/ InvCall
        \/ DivRemCall \/ GcdCall \/ BezoutCall \/ ReconstructCall

Spec == Init /\ [][Next]_vars

-----------------------------------------------------------------------------
\* An element has one representation, so that equality of representations is
\* equality of numbers: words whenever they suffice, lowest terms over a
\* positive denominator, residues below the modulus.
Canonical(a) ==
    CASE ring.kind = "integers"  -> IsBigInt(a)
      [] ring.kind = "rationals" -> /\ IsBigInt(a.numerator) /\ IsBigInt(a.denominator)
                                    /\ Value(a.denominator) > 0
                                    /\ Exact!IsGcd(1, Value(a.numerator), Value(a.denominator))
      [] ring.kind = "residues"  -> /\ a \in [modulus : {ring.modulus}, value : Nat]
                                    /\ a.value < ring.modulus

\* Both registers always hold the one representation of their number
\* (BigInt's promotions and shrinks, Rational::reduce(), FiniteField's constructor).
TypeOK == Canonical(x) /\ Canonical(y)

\* The comparison operators order the registers as the numbers they stand for,
\* across both representations of an integer (BigInt and Rational operator<=>).
OrderIsExact ==
    LET a == Meaning(ring, x)   b == Meaning(ring, y)   difference == a[1] * b[2] - b[1] * a[2]
    IN /\ InRing({"integers"}) => /\ Less(x, y) <=> difference < 0
                                  /\ Equal(x, y) <=> difference = 0
       /\ InRing({"rationals"}) => /\ Order(x, y) < 0 <=> difference < 0
                                   /\ SameRational(x, y) <=> difference = 0

\* Whatever the width of the word, the calculator computes with exact numbers:
\* the interface of big_int.hh, rational.hh, finite_field.hh and rings.hh.
ImplementsArithmetic == Exact!Spec
=============================================================================
