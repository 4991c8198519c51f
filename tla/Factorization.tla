--------------------------- MODULE Factorization ---------------------------
(***************************************************************************)
(* factor_univariate_finite_field of                                       *)
(* src/src/poly_core/include/poly_core/factorization.hh: Yun's squarefree  *)
(* decomposition, then for every part the split by the degree of its       *)
(* factors, then Cantor and Zassenhaus's random split of every group.  A   *)
(* step is one iteration of one of these loops; a random polynomial is any *)
(* polynomial.                                                             *)
(***************************************************************************)
EXTENDS Polynomial

CONSTANTS kMaxSplitAttempts,    \* 200
          FactorInputs          \* <<field, f>>: what a caller may pass

VARIABLES field, f,          \* the arguments
          phase,             \* the loop that runs, or how the call ended
          b, d, i,           \* Yun's loop
          parts,             \* squarefree parts to split: <<part, multiplicity>>
          remaining, degree, \* what is left of the first part, and the degree looked for
          groups,            \* groups to split: <<degree, group>>
          pending, attempt,  \* products to split of the first group; tries for the last one
          factors            \* found: <<factor, multiplicity>>

factorVars ==
    <<field, f, phase, b, d, i, parts, remaining, degree, groups, pending, attempt, factors>>

Degree(p)  == degree_in(p, 1)
Quotient(p, q) == univariate_div_rem(field, p, q)[1]
Modulo(p, q)   == univariate_div_rem(field, p, q)[2]
Gcd1(p, q)     == univariate_gcd(field, p, q)
Const(p, n)    == constant_poly(field, p.variables, element(field, n))
Variable(p)    == from_term(field, p.variables, <<1>>, one(field))
Difference(p, q) == poly_sub(field, p, q)

univariate_derivative(p) ==
    LET Scaled(t) == FoldLeft(LAMBDA c, k : add(field, c, t[2]), zero(field),
                              [k \in 1 .. t[1][1] |-> k])
        AddTerm(done, t) ==
          IF t[1][1] = 0 THEN done
          ELSE poly_add(field, done, from_term(field, p.variables, <<t[1][1] - 1>>, Scaled(t)))
    IN FoldLeft(AddTerm, ZeroPoly(p.variables), p.terms)

bigint_pow(base, exponent) ==
    LET pow[e \in Nat] == IF e = 0 THEN Small(1) ELSE Mul(pow[e - 1], base)
    IN pow[exponent]

\* Squaring; the exponent may be longer than a word, and a negative one is
\* taken for zero.
RECURSIVE squarings(_, _, _, _)
squarings(square, e, result, p) ==
    IF ~Less(Small(0), e) THEN result
    ELSE LET times_square == [q \in {square, result} |-> Modulo(poly_mul(field, q, square), p)]
         IN squarings(times_square[square], Div(e, Small(2)),
                      IF IsZero(Mod(e, Small(2))) THEN result ELSE times_square[result], p)

poly_powmod(base, exponent, p) == squarings(Modulo(base, p), exponent, Const(p, 1), p)

-----------------------------------------------------------------------------
Invalid == Len(f.variables) # 1 \/ IsZeroPoly(f) \/ field.modulus = 2

\* What the call starts with; a part that is not in use is empty or zero.
FactorStart(input) ==
    /\ field = input[1] /\ f = input[2]
    /\ parts = <<>> /\ groups = <<>> /\ pending = <<>> /\ factors = <<>>
    /\ i = 1 /\ degree = 1 /\ attempt = 0
    /\ remaining = ZeroPoly(f.variables)
    /\ IF Invalid THEN phase = "invalid_argument" /\ b = f /\ d = f
       ELSE /\ phase = "squarefree"
            /\ \E monic_f \in {monic_normalize(field, f)} :
               \E f_prime \in {univariate_derivative(monic_f)} :
               \E a0 \in {Gcd1(monic_f, f_prime)} :
                 /\ b = Quotient(monic_f, a0)
                 /\ d = Difference(Quotient(f_prime, a0), univariate_derivative(b))

FactorInit == \E input \in FactorInputs : FactorStart(input)

\* Mutant: d is not reduced by the derivative of the new b.
SquarefreeStepKeepsDerivative ==
    /\ phase = "squarefree" /\ Degree(b) > 0
    /\ \E a \in {Gcd1(b, d)} :
         /\ parts' = IF Degree(a) > 0 THEN Append(parts, <<a, i>>) ELSE parts
         /\ b' = Quotient(b, a)
         /\ d' = Quotient(d, a)
    /\ i' = i + 1
    /\ UNCHANGED <<field, f, phase, remaining, degree, groups, pending, attempt, factors>>

\* squarefree_decomposition: the factors of multiplicity i leave b.
SquarefreeStep ==
    /\ phase = "squarefree" /\ Degree(b) > 0
    /\ \E a \in {Gcd1(b, d)} :
         /\ parts' = IF Degree(a) > 0 THEN Append(parts, <<a, i>>) ELSE parts
         /\ b' = Quotient(b, a)
         /\ d' = Difference(Quotient(d, a), univariate_derivative(b'))
    /\ i' = i + 1
    /\ UNCHANGED <<field, f, phase, remaining, degree, groups, pending, attempt, factors>>

\* To the next part, or the end.
NextPart ==
    /\ \/ phase = "squarefree" /\ Degree(b) = 0
       \/ phase = "split" /\ groups = <<>>
    /\ parts' = IF phase = "split" THEN Tail(parts) ELSE parts
    /\ phase' = IF parts' = <<>> THEN "done" ELSE "distinct"
    /\ remaining' = IF parts' = <<>> THEN ZeroPoly(f.variables) ELSE parts'[1][1]
    /\ degree' = 1
    /\ UNCHANGED <<field, f, b, d, i, groups, pending, attempt, factors>>

\* Mutant: stops at the degree of the remainder, so that a factor of exactly
\* half the degree stays in one group with another.
DistinctDegreeTooShort(p, k) == Degree(p) > 2 * k

DistinctDegreeGoesOn(p, k) == Degree(p) >= 2 * k

\* prime_big: the modulus is cast to a signed word, negative if it does not fit.
SignedPrime == Small(Machine(field.modulus))

\* x^(p^k)
Frobenius(x_poly, k, p) == poly_powmod(x_poly, bigint_pow(SignedPrime, k), p)

\* distinct_degree_split: x^(p^degree) - x has all factors of the degree.
DistinctDegreeStep ==
    /\ phase = "distinct" /\ DistinctDegreeGoesOn(remaining, degree)
    /\ \E x_poly \in {Variable(remaining)} :
       \E found \in {Gcd1(remaining, Difference(Frobenius(x_poly, degree, remaining), x_poly))} :
         IF Degree(found) > 0
         THEN /\ groups' = Append(groups, <<degree, found>>)
              /\ remaining' = Quotient(remaining, found)
         ELSE UNCHANGED <<groups, remaining>>
    /\ degree' = degree + 1
    /\ UNCHANGED <<field, f, phase, b, d, i, parts, pending, attempt, factors>>

\* What is left is irreducible; the first group is next.
StartSplit ==
    /\ phase = "distinct" /\ ~DistinctDegreeGoesOn(remaining, degree)
    /\ groups' = IF Degree(remaining) > 0 THEN Append(groups, <<Degree(remaining), remaining>>)
                 ELSE groups
    /\ pending' = IF groups' = <<>> THEN <<>> ELSE <<groups'[1][2]>>
    /\ remaining' = ZeroPoly(f.variables)
    /\ phase' = "split" /\ attempt' = 0
    /\ UNCHANGED <<field, f, b, d, i, parts, degree, factors>>

Splitting == phase = "split" /\ groups # <<>>
Top == Last(pending)

\* equal_degree_split: a factor of the group's degree is done.
TakeFactor ==
    /\ Splitting /\ pending # <<>> /\ Degree(Top) = groups[1][1]
    /\ factors' = Append(factors, <<Top, parts[1][2]>>)
    /\ pending' = Front(pending) /\ attempt' = 0
    /\ UNCHANGED <<field, f, phase, b, d, i, parts, remaining, degree, groups>>

NextGroup ==
    /\ Splitting /\ pending = <<>>
    /\ groups' = Tail(groups)
    /\ pending' = IF Tail(groups) = <<>> THEN <<>> ELSE <<groups[2][2]>>
    /\ attempt' = 0
    /\ UNCHANGED <<field, f, phase, b, d, i, parts, remaining, degree, factors>>

HalfOrder(k) == Div(Sub(bigint_pow(SignedPrime, k), Small(1)), Small(2))

\* A common factor with a random polynomial r, or with r^((p^d - 1) / 2) - 1.
CommonOrSplit(common, p, r) ==
    IF Degree(common) > 0 THEN common
    ELSE Gcd1(p, Difference(poly_powmod(r, HalfOrder(groups[1][1]), p), Const(p, 1)))

Splitter(p, r) == CommonOrSplit(Gcd1(p, r), p, r)

RandomPolys(p) ==
    {Poly(p.variables, SelectSeq([k \in 1 .. Degree(p) |-> <<<<Degree(p) - k>>, c[k]>>],
                                 LAMBDA t : t[2] # zero(field)))
       : c \in [1 .. Degree(p) -> {element(field, n) : n \in 0 .. field.modulus - 1}]}

TrySplit ==
    /\ Splitting /\ pending # <<>> /\ Degree(Top) # groups[1][1]
    /\ attempt < kMaxSplitAttempts
    /\ \E r \in RandomPolys(Top) : \E g \in {IF IsZeroPoly(r) THEN Const(Top, 1) ELSE Splitter(Top, r)} :
         IF Degree(g) \in 1 .. Degree(Top) - 1
         THEN pending' = Front(pending) \o <<g, Quotient(Top, g)>> /\ attempt' = 0
         ELSE attempt' = attempt + 1 /\ UNCHANGED pending
    /\ UNCHANGED <<field, f, phase, b, d, i, parts, remaining, degree, groups, factors>>

GiveUp ==
    /\ Splitting /\ pending # <<>> /\ Degree(Top) # groups[1][1]
    /\ attempt = kMaxSplitAttempts
    /\ phase' = "runtime_error"
    /\ UNCHANGED <<field, f, b, d, i, parts, remaining, degree, groups, pending, attempt, factors>>

FactorNext == \/ SquarefreeStep \/ NextPart \/ DistinctDegreeStep \/ StartSplit
              \/ TakeFactor \/ NextGroup \/ TrySplit \/ GiveUp

FactorSpec == FactorInit /\ [][FactorNext]_factorVars

-----------------------------------------------------------------------------
MonicPolys(n) ==
    {Poly(f.variables, <<<<<<n>>, one(field)>>>> \o SelectSeq(
        [k \in 1 .. n |-> <<<<n - k>>, c[k]>>], LAMBDA t : t[2] # zero(field)))
       : c \in [1 .. n -> {element(field, m) : m \in 0 .. field.modulus - 1}]}

Times1(p, q) == poly_mul(field, p, q)
PowerOf(p, n) == FoldLeft(LAMBDA done, k : Times1(done, p), Const(p, 1), [k \in 1 .. n |-> k])

\* No multiplicity reaches the characteristic: x^4 over three elements has
\* derivative x^3, and only one of its four factors is found.
SmallMultiplicities ==
    \A n \in 1 .. Degree(f) \div field.modulus : \A p \in MonicPolys(n) :
      ~IsZeroPoly(Modulo(f, PowerOf(p, field.modulus)))

Irreducible(p) == /\ Degree(p) > 0 /\ leading_coeff(p) = one(field)
                  /\ \A n \in 1 .. Degree(p) \div 2 : \A q \in MonicPolys(n) :
                       ~IsZeroPoly(Modulo(p, q))

\* All parts at hand, each with its multiplicity: what is found, the products
\* to split, the groups behind the first, and the parts behind the first.
Inventory ==
    LET m == IF parts = <<>> THEN 0 ELSE parts[1][2]
        Weigh(seq) == [k \in DOMAIN seq |-> <<seq[k], m>>]
        later == IF groups = <<>> THEN <<>> ELSE IF phase = "split" THEN Tail(groups) ELSE groups
    IN factors \o Weigh(pending) \o Weigh([k \in DOMAIN later |-> later[k][2]])
         \o (IF phase = "distinct" THEN Weigh(<<remaining>>) ELSE <<>>)
         \o (IF parts = <<>> THEN <<>> ELSE Tail(parts))

\* For a modulus above the largest word the exponents of distinct_degree_split
\* are wrong, and products may be reported as factors.
PrimeFitsWord == field.modulus <= MaxWord

\* Nothing is lost or counted twice on the way from the squarefree parts to
\* the factors, whatever the random polynomials are, and a factor that is
\* reported is monic and, over a prime that fits the word, irreducible
\* (factorization.hh: f == leading_coefficient * product(factor^multiplicity)).
FactorsAreRight ==
    phase \in {"distinct", "split", "done"} /\ SmallMultiplicities =>
      /\ f = FoldLeft(LAMBDA p, part : Times1(p, PowerOf(part[1], part[2])),
                      constant_poly(field, f.variables, leading_coeff(f)), Inventory)
      /\ PrimeFitsWord => \A k \in DOMAIN factors : Irreducible(factors[k][1])

\* What the loops have before them, the outermost first: the phases, Yun's
\* multiplicities, the parts, the two loops over a part, the degrees to look
\* for, the groups, the splits of a group, the tries for a split.
Measure ==
    << CASE phase = "squarefree" -> 2 [] phase \in {"distinct", "split"} -> 1 [] OTHER -> 0,
       IF phase = "squarefree" THEN field.modulus - i ELSE 0,
       Len(parts),
       IF phase = "distinct" THEN 1 ELSE 0,
       IF phase = "distinct" THEN Degree(f) - degree ELSE 0,
       Len(groups),
       FoldLeft(LAMBDA n, p : n + 2 * Degree(p) - 1, 0, pending),
       kMaxSplitAttempts - attempt >>

\* Every iteration lowers the measure, which never becomes negative, so the
\* call ends whatever the random polynomials are: in particular Yun's loop ends
\* before its counter reaches the characteristic, also when multiplicities do.
WorkShrinks ==
    [][/\ phase \in {"squarefree", "distinct", "split"}
       /\ Greater(Measure, Measure')
       /\ \A k \in DOMAIN Measure : Measure'[k] >= 0]_factorVars
=============================================================================
