------------------------------ MODULE Algebra ------------------------------
(***************************************************************************)
(* Numbers, rings and polynomials as a whole: a client of the rings,       *)
(* Euclid's loop over the integers, row reduction over a field, a client   *)
(* of the polynomials, and factorization.  The parts share the operations  *)
(* of Rings and no state; part says which of them a behaviour runs, the    *)
(* others rest.                                                            *)
(***************************************************************************)
EXTENDS Calculator, Euclid, RowReduce, Polynomials, PolynomialGcd

CONSTANTS
    Divisors(_, _),                           \* over a field and variables: candidates for common divisors
    kMaxSplitAttempts, FactorInputs           \* see Factorization

VARIABLES
    part,
    factor_field, product, phase, rest, derived, multiplicity, parts,
    remaining, degree, groups, pending, attempt, factors    \* of Factorization

factorVars == <<factor_field, product, phase, rest, derived, multiplicity, parts,
                remaining, degree, groups, pending, attempt, factors>>

\* Factorization squares what it factors, and its squares fit the exponents.
Split == INSTANCE Factorization
           WITH field <- factor_field, f <- product, b <- rest, d <- derived, i <- multiplicity,
                ExponentRange <- 4 * ExponentRange

algebraVars == <<vars, rowVars, euclidVars, polyVars, factorVars, part>>

CalculatorRests == ring = IntegerRing(0) /\ x = zero(ring) /\ y = zero(ring) /\ call = <<"start">>
LoopRests       == EuclidStart(0, 0)
ReductionRests  == field = RationalField(0) /\ original = <<>> /\ matrix = <<>>
                   /\ col = 1 /\ pivot_row = 1
PolynomialsRest == /\ base = FiniteFieldRing(2)
                   /\ f = ZeroPoly(<<>>) /\ g = ZeroPoly(<<>>) /\ last = <<"start">>
SplitRests      == Split!FactorStart(<<FiniteFieldRing(2), ZeroPoly(<<>>)>>)

AlgebraInit ==
    /\ part \in {"calculator", "euclid", "row_reduce", "polynomials", "factorization"}
    /\ IF part = "calculator"    THEN Init ELSE CalculatorRests
    /\ IF part = "euclid"        THEN EuclidInit ELSE LoopRests
    /\ IF part = "row_reduce"    THEN RowReduceInit ELSE ReductionRests
    /\ IF part = "polynomials"   THEN PolynomialsInit ELSE PolynomialsRest
    /\ IF part = "factorization" THEN Split!FactorInit ELSE SplitRests

AlgebraNext ==
    \/ part = "calculator" /\ Next /\ UNCHANGED <<rowVars, euclidVars, polyVars, factorVars, part>>
    \/ Divide /\ UNCHANGED <<vars, rowVars, polyVars, factorVars, part>>
    \/ Eliminate /\ UNCHANGED <<vars, euclidVars, polyVars, factorVars, part>>
    \/ part = "polynomials" /\ PolynomialsNext
       /\ UNCHANGED <<vars, rowVars, euclidVars, factorVars, part>>
    \/ Split!FactorNext /\ UNCHANGED <<vars, rowVars, euclidVars, polyVars, part>>

AlgebraSpec == AlgebraInit /\ [][AlgebraNext]_algebraVars

-----------------------------------------------------------------------------
Quotients(d) == {multivariate_div_rem(base, p, d)[1] : p \in {f, g}}

IsConstant(p) == \A k \in DOMAIN p.terms : p.terms[k][1] = Unit(p.variables)

\* d divides both registers of Polynomials, and what is left of them has no
\* divisor in common (what is left may be a common divisor itself).
IsGreatest(d) ==
    IF IsZeroPoly(f) /\ IsZeroPoly(g) THEN IsZeroPoly(d)
    ELSE /\ ~IsZeroPoly(d) /\ leading_coeff(d) = one(base)
         /\ DividesBoth(base, d, f, g)
         /\ \E left \in {Quotients(d)} :
            \A c \in (Divisors(base, f.variables) \cup left) \ {ZeroPoly(f.variables)} :
              (\A p \in left : DividesPoly(base, c, p)) => IsConstant(c)

ComputedGcd == IF base.kind = "residues" THEN finite_field_multivariate_gcd(base, f, g)
               ELSE rational_multivariate_gcd(base, f, g)

\* The leading coefficients survive the reduction modulo every prime.
Reducible(p) == \A k \in DOMAIN kMultivariateGcdPrimes :
                  LET prime == Shrunk(kMultivariateGcdPrimes[k])
                      Vanishes(n) == IsZero(canonical_residue(n, prime))
                  IN IsZeroPoly(p) \/ ~Vanishes(leading_coeff(p).numerator)

\* Every content of the registers that is computed with is loaded at some point.
JustLoaded == last \in {<<"start">>, <<"load">>}

GreatestUnlessItThrows(o) == IsOk(o) => IsGreatest(o.poly)

\* A gcd of the registers that is returned is the greatest common divisor,
\* whichever evaluation points were unlucky; only an exception may take its
\* place (multivariate_gcd.hh: "never silently returning an incorrect GCD").
\* Over the rationals this takes leading coefficients that no prime divides.
GcdIsGreatest ==
    /\ SameVariables /\ JustLoaded
    /\ base.kind = "rationals" => Reducible(f) /\ Reducible(g)
    => GreatestUnlessItThrows(ComputedGcd)

\* The same without the condition on the leading coefficients.
RationalGcdIsGreatest == base.kind = "rationals" => GreatestUnlessItThrows(ComputedGcd)

-----------------------------------------------------------------------------
\* Factors multiply to the polynomial and are irreducible.
FactorsAreRight == Split!FactorsAreRight

\* Euclid's loop and all loops of the factorization end: the remainders shrink,
\* and every iteration of a factorization lowers its measure.
LoopsEnd == RemaindersShrink /\ Split!WorkShrinks
=============================================================================
