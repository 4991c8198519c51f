---------------------------- MODULE Polynomials ----------------------------
(***************************************************************************)
(* A client of poly_core: two registers with polynomials over one field,   *)
(* every operation of MultivariatePolynomial on what they hold, results    *)
(* used again as operands.                                                 *)
(***************************************************************************)
EXTENDS Polynomial

CONSTANTS
    Starts,             \* <<field, f, g>>: what a client may start with
    MaxDegree           \* for each number of variables, the degrees the model computes with

\* A client starts with what constructors make, over fields with a prime modulus
\* or over the rationals, and the bound on degrees is an exponent.
ASSUME StartsAssumption ==
    \A start \in Starts :
      /\ start[1].kind = "residues" => PrimeField(start[1])
      /\ \A p \in {start[2], start[3]} :
           p.variables \in Seq(STRING) /\ p \in Polys(start[1], p.variables)
      /\ MaxDegree[Len(start[3].variables)] \in 0 .. ExponentRange - 1

VARIABLES base, f, g,   \* the field and the registers
          last          \* the last call: its name, arguments and outcome

polyVars == <<base, f, g, last>>

\* The polynomial as a function from all exponents.
AsFunction(p) ==
    [m \in [DOMAIN p.variables -> 0 .. ExponentRange - 1] |->
       LET at == {k \in DOMAIN p.terms : p.terms[k][1] = m}
       IN IF at = {} THEN 0 ELSE p.terms[Min(at)][2].value]

ExactPoly == INSTANCE ExactPolynomials
               WITH modulus <- base.modulus, f <- AsFunction(f), g <- AsFunction(g), call <- last

\* The bound of the model: results of a higher degree are looked at, not used.
WithinDegrees(p) == \A v \in DOMAIN p.variables : degree_in(p, v) <= MaxDegree[Len(p.variables)]

Ready == base.kind = "residues" /\ WithinDegrees(f) /\ WithinDegrees(g)

Result(op, p, q) == f' = p /\ g' = q /\ last' = op /\ UNCHANGED base
Raises(op, error) == last' = Append(op, error) /\ UNCHANGED <<base, f, g>>

SameVariables == f.variables = g.variables

\* require_same_variables.
Binary(op, result) ==
    IF SameVariables THEN Result(<<op>>, result, g) ELSE Raises(<<op>>, "invalid_argument")

PolynomialsInit == /\ \E start \in Starts : base = start[1] /\ f = start[2] /\ g = start[3]
                   /\ last = <<"start">>

\* One more term for the second register: from_term and a sum.
AddTerm == SameVariables
           /\ \E m \in [DOMAIN g.variables -> 0 .. MaxDegree[Len(g.variables)]] :
              \E n \in 0 .. base.modulus - 1 :
                Result(<<"load">>, f, poly_add(base, g, from_term(base, g.variables, m, element(base, n))))

AddPoly == Binary("add", poly_add(base, f, g))
SubPoly == Binary("sub", poly_sub(base, f, g))
MulPoly == Binary("mul", poly_mul(base, f, g))
NegPoly == Result(<<"neg">>, poly_neg(base, f), g)

Evaluate == \E v \in DOMAIN f.variables, n \in 0 .. base.modulus - 1 :
              Result(<<"evaluate", v, n>>, evaluate(base, f, v, element(base, n)), g)

LeadingCoefficient ==
    /\ Len(f.variables) > 1
    /\ \E v \in DOMAIN f.variables :
         Result(<<"leading_coefficient", v>>, leading_coefficient_in(f, v), g)

\* The polynomial ring of one variable has its own division.
DivRem ==
    LET result == IF Len(f.variables) = 1 THEN univariate_div_rem(base, f, g)
                  ELSE multivariate_div_rem(base, f, g)
    IN IF ~SameVariables THEN Raises(<<"div_rem">>, "invalid_argument")
       ELSE IF IsZeroPoly(g) THEN Raises(<<"div_rem">>, "logic_error")
       ELSE \E qr \in {result} : Result(<<"div_rem">>, qr[1], qr[2])

PolynomialsNext == /\ Ready
                   /\ \/ AddTerm \/ AddPoly \/ SubPoly \/ MulPoly \/ NegPoly \/ Evaluate
                      \/ LeadingCoefficient \/ DivRem

PolynomialsSpec == PolynomialsInit /\ [][PolynomialsNext]_polyVars

-----------------------------------------------------------------------------
CanonicalPoly(p) == p.variables \in Seq(STRING) /\ p \in Polys(base, p.variables)

\* "Terms are kept sorted in descending Monomial order [...] with no
\* zero-coefficient or duplicate-monomial entries - every public
\* constructor/operator maintains this invariant" (polynomial.hh), also when
\* exponents wrap around.
TermsAreCanonical == CanonicalPoly(f) /\ CanonicalPoly(g)

\* Sums, products, values, quotients and remainders are the mathematical ones.
ImplementsPolynomials == [][ExactPoly!Next]_(ExactPoly!vars)
=============================================================================
