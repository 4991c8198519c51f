----------------------------- MODULE MCAlgebra -----------------------------
(* Instances of Algebra for TLC. *)
EXTENDS Algebra

MCGcd(n, m) ==
    IF n = 0 /\ m = 0 THEN 0
    ELSE Max({h \in 1 .. Magnitude(n) + Magnitude(m) : n % h = 0 /\ m % h = 0})

\* The smallest cofactors.
MCGcdExt(n, m) ==
    LET divisor == MCGcd(n, m)
        near == -(Magnitude(n) + Magnitude(m) + 1) .. (Magnitude(n) + Magnitude(m) + 1)
        Fits(i) == \E j \in near : n * i + m * j = divisor
        i == CHOOSE i \in near : Fits(i) /\ \A k \in near : Fits(k) => Magnitude(i) <= Magnitude(k)
    IN <<divisor, i, CHOOSE j \in near : n * i + m * j = divisor>>

MCRings == {IntegerRing(9), RationalField(4)} \cup {FiniteFieldRing(p) : p \in {2, 13}}

MCInputs == {-12, -7, -1, 0, 1, 4, 9, 18}

MatricesOver(k, rows, cols, entries) ==
    {<<k, m>> : m \in [1 .. rows -> [1 .. cols -> {element(k, n) : n \in entries}]]}

\* Square over two elements, wide over three, and a few over the rationals.
MCMatrices == MatricesOver(FiniteFieldRing(2), 3, 3, 0 .. 1)
                \cup MatricesOver(FiniteFieldRing(3), 2, 3, 0 .. 2)
                \cup MatricesOver(RationalField(3), 2, 2, {-3, 0, 2})

\* The hypothesis of RowReduceIsRight, for the finite ones among their fields.
ASSUME FiniteFieldsObeyTheLaws ==
    \A p \in {2, 3} : FieldLaws(FiniteFieldRing(p), {element(FiniteFieldRing(p), n) : n \in 0 .. p - 1})

\* In place of the two Mersenne primes.
MCPrimes == <<11, 13>>

\* Computed with: one variable to the square, more variables to the power one.
MCMaxDegree == <<2, 1, 0>>

\* For terms in descending order.
PolyOf(k, variables, terms) ==
    Poly(variables, SelectSeq([n \in DOMAIN terms |-> <<terms[n][1], element(k, terms[n][2])>>],
                              LAMBDA u : u[2] # zero(k)))
X   == <<"x">>
XY  == <<"x", "y">>
XYZ == <<"x", "y", "z">>

\* Factors of the inputs of gcd: their points of evaluation are unlucky where
\* two of them meet, and leading coefficients depend on the other variables.
MCFactors(k, variables) ==
    {PolyOf(k, variables, terms) : terms \in
       CASE Len(variables) = 1 -> {<< <<<<1>>, 1>>, <<<<0>>, n>> >> : n \in 0 .. 2}
         [] Len(variables) = 2 ->
              { << <<<<0, 1>>, 1>> >>,
                << <<<<1, 0>>, 1>>, <<<<0, 1>>, 1>> >>,
                << <<<<1, 0>>, 1>>, <<<<0, 1>>, 2>>, <<<<0, 0>>, 1>> >>,
                << <<<<1, 1>>, 1>>, <<<<0, 0>>, 1>> >>,
                << <<<<1, 1>>, 2>>, <<<<1, 0>>, 1>>, <<<<0, 1>>, 1>> >> }
         [] Len(variables) = 3 ->
              { << <<<<1, 0, 0>>, 1>>, <<<<0, 1, 0>>, 1>>, <<<<0, 0, 1>>, 1>> >>,
                << <<<<1, 0, 1>>, 1>>, <<<<0, 1, 0>>, 2>> >>,
                << <<<<0, 1, 0>>, 1>>, <<<<0, 0, 1>>, 2>> >> }}

\* Two products with a factor in common.
Planted(k, variables) ==
    {<<k, poly_mul(k, p, q), poly_mul(k, p, h)>> : p, q, h \in MCFactors(k, variables)}

\* Arithmetic starts from zero, and visits everything within the degrees; the
\* other starts are products with factors in common.
MCStarts ==
    {<<FiniteFieldRing(3), ZeroPoly(X), ZeroPoly(X)>>,
     <<FiniteFieldRing(2), ZeroPoly(XY), ZeroPoly(XY)>>}
      \cup UNION {Planted(on[1], on[2]) :
                     on \in {<<FiniteFieldRing(7), XY>>, <<FiniteFieldRing(13), XYZ>>,
                             <<RationalField(0), X>>}}

\* A leading coefficient that the first prime divides.
MCRationalStarts ==
    LET p == PolyOf(RationalField(0), X, << <<<<1>>, 11>>, <<<<0>>, 1>> >>)
    IN {<<RationalField(0), p, p>>} \cup Planted(RationalField(0), X)

\* All monic polynomials of the degree over the field.
Monic(k, n) ==
    {<<k, Poly(X, <<<<<<n>>, one(k)>>>> \o SelectSeq([e \in 1 .. n |-> <<<<n - e>>, c[e]>>],
                                                          LAMBDA u : u[2] # zero(k)))>>
       : c \in [1 .. n -> {element(k, m) : m \in 0 .. k.modulus - 1}]}

\* Three over the field of three elements with the leading coefficient two: a
\* factor, two of the same degree, and two of different degrees.
MCNotMonic ==
    {PolyOf(FiniteFieldRing(3), X, terms) : terms \in
       { << <<<<1>>, 2>>, <<<<0>>, 1>> >>, << <<<<2>>, 2>>, <<<<0>>, 1>> >>,
         << <<<<3>>, 2>>, <<<<2>>, 2>>, <<<<1>>, 2>>, <<<<0>>, 2>> >> }}

\* All monic ones of degree four and less over three elements, a few others,
\* those over a field whose modulus does not fit the word, and the calls that throw.
MCFactorInputs ==
    LET F3 == FiniteFieldRing(3) IN
    UNION {Monic(F3, n) : n \in 0 .. 4} \cup Monic(FiniteFieldRing(5), 2)
      \cup {<<F3, p>> : p \in MCNotMonic}
      \cup Monic(FiniteFieldRing(2), 1)
      \cup {<<F3, ZeroPoly(X)>>, <<F3, PolyOf(F3, X, << <<<<3>>, 2>>, <<<<0>>, 1>> >>)>>}
=============================================================================
