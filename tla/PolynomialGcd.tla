--------------------------- MODULE PolynomialGcd ---------------------------
(***************************************************************************)
(* The greatest common divisor of polynomials in several variables, by     *)
(* evaluation and interpolation:                                           *)
(* src/src/poly_core/include/poly_core/multivariate_gcd.hh.  Variable 1 is *)
(* the main variable.                                                      *)
(*                                                                         *)
(* An outcome is a polynomial or an exception: std::domain_error, or the   *)
(* internal UnluckyPoint.                                                  *)
(***************************************************************************)
EXTENDS Polynomial

CONSTANTS
    kMaxEliminationAttempts,
    kMaxTopLevelAttempts,
    SeedStep,                  \* between the seeds of two top-level attempts: 1000
    kMultivariateGcdPrimes     \* a sequence

Ok(f)        == [result |-> "ok", poly |-> f]
Throw(error) == [result |-> error, poly |-> ZeroPoly(<<>>)]
IsOk(o)      == o.result = "ok"

\* Adds one so many times.
field_element_from_index(r, index) == element(r, index)

insert_missing_variable(r, content, v, variables) ==
    FoldLeft(LAMBDA done, t : poly_add(r, done, from_term(r, variables, InsertAt(t[1], v, 0), t[2])),
             ZeroPoly(variables), content.terms)

\* The polynomial that vanishes at all points but the k-th, where it is one.
basis(r, v, variables, points, k) ==
    LET constant(c) == constant_poly(r, variables, c)
        variable_poly == from_term(r, variables, [Unit(variables) EXCEPT ![v] = 1], one(r))
        others == RemoveAt(points, k)
    IN poly_mul(r, FoldLeft(LAMBDA f, point : poly_mul(r, f, poly_sub(r, variable_poly, constant(point))),
                            constant(one(r)), others),
                constant(inv(r, FoldLeft(LAMBDA c, point : mul(r, c, sub(r, points[k], point)),
                                         one(r), others))))

\* Throws if two points are the same residue: their difference has no inverse.
lagrange_interpolate(r, v, variables, points, samples) ==
    IF ~IsInjective(points) THEN Throw("domain_error")
    ELSE Ok(FoldLeftDomain(LAMBDA f, k : poly_add(r, f, poly_mul(r, samples[k],
                                                            basis(r, v, variables, points, k))),
                           ZeroPoly(variables), points))

-----------------------------------------------------------------------------
Unlucky(o) == o.result = "unlucky"

\* The leaf: all variables but the main one are evaluated, and the predicted
\* leading coefficient is a constant.
scaled_gcd(r, variables, gcd, expected) ==
    IF IsZeroPoly(gcd) THEN Throw("unlucky")
    ELSE Ok(embed_univariate(variables, 1,
              poly_mul(r, gcd, constant_poly(r, gcd.variables, leading_coeff(expected)))))

EliminatedGcd(r, f, g, expected) ==
    IF IsZeroPoly(expected) THEN Throw("unlucky")
    ELSE scaled_gcd(r, f.variables, univariate_gcd(r, to_univariate(f, 1), to_univariate(g, 1)), expected)

\* The candidate must agree with the sample at a point it was not made from.
Checked(r, v, candidate, point, sample) ==
    IF ~IsOk(candidate) \/ evaluate(r, candidate.poly, v, point) = sample THEN candidate
    ELSE Throw("unlucky")

\* The first sample that fails decides.
Interpolated(r, v, variables, points, samples) ==
    LET failed == SelectSeq(samples, LAMBDA o : ~IsOk(o))
    IN IF failed # <<>> THEN failed[1]
       ELSE Checked(r, v, lagrange_interpolate(r, v, variables, Front(points),
                                               [k \in DOMAIN Front(points) |-> samples[k].poly]),
                    Last(points), Last(samples).poly)

Exhausted(o) == IF Unlucky(o) THEN Throw("domain_error") ELSE o

\* Eliminates the variables from v on.  Every attempt takes the samples at
\* consecutive points, one more than the bound on the degree asks for.
RECURSIVE gcd_eliminate(_, _, _, _, _, _, _)
gcd_eliminate(r, f, g, expected, v, degree_bounds, point_seed) ==
    LET num_points == degree_bounds[v] + 1
        Points(offset) ==
          [k \in 1 .. num_points + 1 |-> field_element_from_index(r, offset + k - 1)]
        Offset(attempt) == point_seed + (attempt - 1) * (num_points + 1) + 1
    IN IF v > Len(f.variables) THEN EliminatedGcd(r, f, g, expected)
       ELSE Exhausted(FoldLeft(
              LAMBDA o, offset :
                IF ~Unlucky(o) THEN o
                ELSE Interpolated(r, v, f.variables, Points(offset),
                       [k \in 1 .. num_points + 1 |->
                          gcd_eliminate(r, evaluate(r, f, v, Points(offset)[k]),
                                        evaluate(r, g, v, Points(offset)[k]),
                                        evaluate(r, expected, v - 1, Points(offset)[k]),
                                        v + 1, degree_bounds, offset)]),
              Throw("unlucky"), [attempt \in 1 .. kMaxEliminationAttempts |-> Offset(attempt)]))

RECURSIVE finite_field_multivariate_gcd(_, _, _)

\* The coefficients of the powers of variable v, in the order of the terms.
CoefficientsIn(r, f, v) ==
    LET exponents == FoldLeft(LAMBDA done, t : IF Contains(done, t[1][v]) THEN done
                                               ELSE Append(done, t[1][v]), <<>>, f.terms)
        Coefficient(e) == LET own == SelectSeq(f.terms, LAMBDA t : t[1][v] = e)
                          IN Poly(RemoveAt(f.variables, v),
                                  [k \in DOMAIN own |-> <<RemoveAt(own[k][1], v), own[k][2]>>])
    IN [k \in DOMAIN exponents |-> Coefficient(exponents[k])]

\* Mutant: the content is that of the leading coefficient alone.
content_of_leading(r, f, v) == Ok(monic_normalize(r, CoefficientsIn(r, f, v)[1]))

gcd_of_all(r, polys) ==
    FoldLeft(LAMBDA o, g : IF IsOk(o) THEN finite_field_multivariate_gcd(r, o.poly, g) ELSE o,
             Ok(polys[1]), Tail(polys))

monic_outcome(r, o) == IF IsOk(o) THEN Ok(monic_normalize(r, o.poly)) ELSE o

\* The gcd of the coefficients.
content_in(r, f, v) ==
    monic_outcome(r, gcd_of_all(r, CoefficientsIn(r, f, v)))

DividesPoly(r, g, f) == IsZeroPoly(multivariate_div_rem(r, f, g)[2])

DividesBoth(r, d, f, g) == \A p \in {f, g} : DividesPoly(r, d, p)

\* What is left of f without its content.
primitive_part(r, f, content) ==
    multivariate_div_rem(r, f, insert_missing_variable(r, content, 1, f.variables))[1]

\* Only what divides both is trusted.
Verified(r, f, g, o) ==
    IF IsOk(o) /\ DividesBoth(r, o.poly, f, g) THEN o ELSE Throw("domain_error")

\* The gcd of two polynomials without contents, for the gcd expected of their
\* leading coefficients: eliminate, with another seed as long as it fails.
PrimitiveGcd(r, f, g, expected) ==
    IF ~IsOk(expected) THEN expected
    ELSE FoldLeft(
           LAMBDA o, seed :
             IF IsOk(o) THEN o
             ELSE Verified(r, f, g, monic_outcome(r, gcd_eliminate(r, f, g, expected.poly, 2,
                    [v \in DOMAIN f.variables |-> Min({degree_in(f, v), degree_in(g, v)})], seed))),
           Throw("domain_error"), [attempt \in 1 .. kMaxTopLevelAttempts |-> (attempt - 1) * SeedStep])

\* The gcds of the contents and of the rest, together.
product_gcd(r, variables, content, primitive) ==
    IF ~IsOk(content) THEN content
    ELSE IF ~IsOk(primitive) THEN primitive
    ELSE Ok(monic_normalize(r, poly_mul(r, insert_missing_variable(r, content.poly, 1, variables),
                                           primitive.poly)))

GcdOfPrimitives(r, f, g) ==
    PrimitiveGcd(r, f, g, finite_field_multivariate_gcd(r, leading_coefficient_in(f, 1),
                                                           leading_coefficient_in(g, 1)))

GcdOfParts(r, f, g, content_f, content_g) ==
    IF ~IsOk(content_f) THEN content_f
    ELSE IF ~IsOk(content_g) THEN content_g
    ELSE product_gcd(r, f.variables,
                     finite_field_multivariate_gcd(r, content_f.poly, content_g.poly),
                     GcdOfPrimitives(r, primitive_part(r, f, content_f.poly),
                                        primitive_part(r, g, content_g.poly)))

\* For two polynomials in the same variables.
finite_field_multivariate_gcd(r, f, g) ==
    IF IsZeroPoly(f) \/ IsZeroPoly(g)
    THEN Ok(monic_normalize(r, IF IsZeroPoly(f) THEN g ELSE f))
    ELSE IF Len(f.variables) = 1 THEN Ok(univariate_gcd(r, f, g))
    ELSE GcdOfParts(r, f, g, content_in(r, f, 1), content_in(r, g, 1))

-----------------------------------------------------------------------------
canonical_residue(b, modulus) ==
    LET residue == Mod(b, modulus)
    IN IF Less(residue, Small(0)) THEN Add(residue, modulus) ELSE residue

residue_of(b, prime) == FieldElement(prime, Value(canonical_residue(b, Shrunk(prime))))

\* Of a rational whose denominator does not vanish.
reduce_rational_mod(c, prime) ==
    FieldMul(residue_of(c.numerator, prime), FieldInv(residue_of(c.denominator, prime)))

reduce_polynomial_mod(f, prime) ==
    IF \E k \in DOMAIN f.terms : residue_of(f.terms[k][2].denominator, prime).value = 0
    THEN Throw("domain_error")
    ELSE Ok(FoldLeft(LAMBDA done, t :
                       poly_add(FiniteFieldRing(prime), done,
                                from_term(FiniteFieldRing(prime), f.variables, t[1],
                                          reduce_rational_mod(t[2], prime))),
                     ZeroPoly(f.variables), f.terms))

\* <<>> for std::nullopt: some coefficient of f is the residue of no fraction.
lifted_terms(f, rationals, lifted) ==
    IF Contains(lifted, <<>>) THEN <<>>
    ELSE <<FoldLeftDomain(LAMBDA done, k :
             poly_add(rationals, done,
                      from_term(rationals, f.variables, f.terms[k][1], lifted[k][1])),
           ZeroPoly(f.variables), lifted)>>

reconstruct_polynomial(f, rationals, prime) ==
    lifted_terms(f, rationals, [k \in DOMAIN f.terms |->
                                  Reconstruct(Shrunk(f.terms[k][2].value), Shrunk(prime))])

\* The gcd modulo a prime.
ModularGcd(prime, f_mod, g_mod) ==
    IF IsOk(f_mod) /\ IsOk(g_mod)
    THEN finite_field_multivariate_gcd(FiniteFieldRing(prime), f_mod.poly, g_mod.poly)
    ELSE Throw("domain_error")

\* ... lifted, if that divides both.
VerifiedLift(rationals, f, g, lift) ==
    IF lift # <<>> /\ ~IsZeroPoly(lift[1]) /\ DividesBoth(rationals, lift[1], f, g)
    THEN Ok(lift[1]) ELSE Throw("runtime_error")

lifted_gcd(rationals, prime, o) ==
    IF IsOk(o) THEN reconstruct_polynomial(o.poly, rationals, prime) ELSE <<>>

\* Over the rationals: one prime after the other.
rational_multivariate_gcd(rationals, f, g) ==
    IF IsZeroPoly(f) /\ IsZeroPoly(g) THEN Ok(ZeroPoly(f.variables))
    ELSE FoldLeft(
           LAMBDA o, prime :
             IF IsOk(o) THEN o
             ELSE VerifiedLift(rationals, f, g,
                    lifted_gcd(rationals, prime,
                      ModularGcd(prime, reduce_polynomial_mod(f, prime),
                                        reduce_polynomial_mod(g, prime)))),
           Throw("runtime_error"), kMultivariateGcdPrimes)
=============================================================================
