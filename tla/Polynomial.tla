----------------------------- MODULE Polynomial -----------------------------
(***************************************************************************)
(* src/src/poly_core: sparse polynomials over a ring of Rings, with their  *)
(* division and univariate gcd (polynomial.hh, monomial.cc,                *)
(* multivariate_division.hh, univariate_gcd.hh).                           *)
(*                                                                         *)
(* A polynomial is a record [variables, terms]; a term is a pair of a      *)
(* monomial, the sequence of its exponents, and a coefficient.  The ring   *)
(* is the first argument of every operator, as it is a member of every     *)
(* polynomial of the code.                                                 *)
(***************************************************************************)
EXTENDS Rings, SequencesExt

CONSTANT ExponentRange     \* how many values an Exponent has: 2^32

ASSUME ExponentAssumption == ExponentRange \in Nat \ {0}

\* Monomials: lexicographic order; products wrap around without a check.
Greater(m, n) == \E k \in DOMAIN m : /\ m[k] > n[k]
                                     /\ \A j \in 1 .. k - 1 : m[j] = n[j]
MonomialTimes(m, n) == [k \in DOMAIN m |-> (m[k] + n[k]) % ExponentRange]
divides(m, n)       == \A k \in DOMAIN m : m[k] <= n[k]
MonomialOver(m, n)  == [k \in DOMAIN m |-> m[k] - n[k]]
Unit(variables)     == [k \in DOMAIN variables |-> 0]

Poly(variables, terms) == [variables |-> variables, terms |-> terms]
ZeroPoly(variables)    == Poly(variables, <<>>)
IsZeroPoly(f)          == f.terms = <<>>

from_term(r, variables, m, c) ==
    Poly(variables, IF c = zero(r) THEN <<>> ELSE <<<<m, c>>>>)
constant_poly(r, variables, c) == from_term(r, variables, Unit(variables), c)

leading_monomial(f) == f.terms[1][1]
leading_coeff(f)    == f.terms[1][2]

\* The terms at some places, in their order.
chosen(terms, places) ==
    LET kept[k \in 0 .. Len(terms)] ==
          IF k = 0 THEN <<>>
          ELSE IF k \in places THEN Append(kept[k - 1], terms[k]) ELSE kept[k - 1]
    IN kept[Len(terms)]

nonzero(r, terms) == chosen(terms, {k \in DOMAIN terms : terms[k][2] # zero(r)})

\* One step of a pass over the sorted terms of both that has come to <<i, j, merged>>.
merge_step(r, f, g, state) ==
    LET i == state[1]
        j == state[2]
        Pushed(di, dj, m, u, v) == <<i + di, j + dj, Append(state[3], <<m, u, v>>)>>
    IN IF i > Len(f) /\ j > Len(g) THEN state
       ELSE IF j > Len(g) \/ (i <= Len(f) /\ Greater(f[i][1], g[j][1]))
       THEN Pushed(1, 0, f[i][1], f[i][2], zero(r))
       ELSE IF i <= Len(f) /\ f[i][1] = g[j][1]
       THEN Pushed(1, 1, f[i][1], f[i][2], g[j][2])
       ELSE Pushed(0, 1, g[j][1], zero(r), g[j][2])

\* Each monomial with its coefficient in f and in g, zero where it has none.
merge_terms(r, f, g) ==
    LET merging[k \in 0 .. Len(f) + Len(g)] ==
          IF k = 0 THEN <<1, 1, <<>>>> ELSE merge_step(r, f, g, merging[k - 1])
    IN merging[Len(f) + Len(g)][3]

sum_of(r, merged) == [k \in DOMAIN merged |-> <<merged[k][1], add(r, merged[k][2], merged[k][3])>>]
difference_of(r, merged) ==
    [k \in DOMAIN merged |-> <<merged[k][1], sub(r, merged[k][2], merged[k][3])>>]

poly_add(r, f, g) == Poly(f.variables, nonzero(r, sum_of(r, merge_terms(r, f.terms, g.terms))))
poly_sub(r, f, g) == Poly(f.variables, nonzero(r, difference_of(r, merge_terms(r, f.terms, g.terms))))
poly_neg(r, f) ==
    Poly(f.variables, [k \in DOMAIN f.terms |-> <<f.terms[k][1], neg(r, f.terms[k][2])>>])

\* A term goes behind the ones that are not smaller.
placed(sorted, t) ==
    InsertAt(sorted, Min({k \in 1 .. Len(sorted) + 1 : k <= Len(sorted) => Greater(t[1], sorted[k][1])}), t)

by_monomial(raw) ==
    LET sorted[k \in 0 .. Len(raw)] == IF k = 0 THEN <<>> ELSE placed(sorted[k - 1], raw[k])
    IN sorted[Len(raw)]

\* A term joins the one before it if they have one monomial.
joined(r, done, t) ==
    IF done # <<>> /\ Last(done)[1] = t[1]
    THEN [done EXCEPT ![Len(done)] = <<t[1], add(r, Last(done)[2], t[2])>>]
    ELSE Append(done, t)

added_up(r, sorted) ==
    LET done[k \in 0 .. Len(sorted)] == IF k = 0 THEN <<>> ELSE joined(r, done[k - 1], sorted[k])
    IN done[Len(sorted)]

\* Products and substitutions: sort, add up neighbours with one monomial, drop zeros.
combined(r, raw) == nonzero(r, added_up(r, by_monomial(raw)))

term_times(r, u, v) == <<MonomialTimes(u[1], v[1]), mul(r, u[2], v[2])>>

products(r, f, g) ==
    [k \in 1 .. Len(f.terms) * Len(g.terms) |->
       term_times(r, f.terms[((k - 1) \div Len(g.terms)) + 1], g.terms[((k - 1) % Len(g.terms)) + 1])]

\* Mutant: relies on multiples of a term being in the order of the terms.
poly_mul_in_order(r, f, g) ==
    Poly(f.variables, IF Len(f.terms) = 1 THEN products(r, f, g) ELSE combined(r, products(r, f, g)))

poly_mul(r, f, g) == Poly(f.variables, combined(r, products(r, f, g)))

degree_in(f, v) == Max({0} \cup {f.terms[k][1][v] : k \in DOMAIN f.terms})

leading_coefficient_in(f, v) ==
    LET top == chosen(f.terms, {k \in DOMAIN f.terms : f.terms[k][1][v] = degree_in(f, v)})
    IN Poly(RemoveAt(f.variables, v), [k \in DOMAIN top |-> <<RemoveAt(top[k][1], v), top[k][2]>>])

\* One step of a power that has come to <<result, power, remaining>>.
pow_step(r, state) ==
    IF state[3] = 0 THEN state
    ELSE <<IF state[3] % 2 = 1 THEN mul(r, state[1], state[2]) ELSE state[1],
           mul(r, state[2], state[2]), state[3] \div 2>>

coeff_pow(r, base, exponent) ==
    LET powers[k \in 0 .. exponent] ==
          IF k = 0 THEN <<one(r), base, exponent>> ELSE pow_step(r, powers[k - 1])
    IN powers[exponent][1]

evaluate(r, f, v, value) ==
    Poly(f.variables,
         combined(r, [k \in DOMAIN f.terms |->
                        LET t == f.terms[k] IN
                        <<[t[1] EXCEPT ![v] = 0], mul(r, t[2], coeff_pow(r, value, t[1][v]))>>]))

\* Defined when no other variable occurs; logic_error otherwise.
to_univariate(f, v) ==
    Poly(<<f.variables[v]>>, [k \in DOMAIN f.terms |-> <<<<f.terms[k][1][v]>>, f.terms[k][2]>>])

embed_univariate(variables, v, f) ==
    Poly(variables, [k \in DOMAIN f.terms |->
                       <<[Unit(variables) EXCEPT ![v] = f.terms[k][1][1]], f.terms[k][2]>>])

-----------------------------------------------------------------------------
Coefficients(r) == IF r.kind = "residues" THEN [modulus : {r.modulus}, value : 0 .. r.modulus - 1]
                   ELSE [numerator : BigInts, denominator : BigInts]

\* What the constructors and operators make: "Terms are kept sorted in descending
\* Monomial order [...] with no zero-coefficient or duplicate-monomial entries"
\* (polynomial.hh).
Exponents(variables) == [DOMAIN variables -> 0 .. ExponentRange - 1]
Descending(terms) == \A k \in 2 .. Len(terms) : Greater(terms[k - 1][1], terms[k][1])
Polys(r, variables) ==
    {p \in [variables : {variables}, terms : Seq(Exponents(variables) \X Coefficients(r))] :
       Descending(p.terms) /\ \A k \in DOMAIN p.terms : p.terms[k][2] # zero(r)}

\* The term whose product with g has the leading term of f.
Factor(r, f, g) ==
    from_term(r, f.variables, MonomialOver(leading_monomial(f), leading_monomial(g)),
              mul(r, leading_coeff(f), inv(r, leading_coeff(g))))

\* Nothing is left, or the leading term is no multiple of the divisor's.
Stuck(f, g) == IsZeroPoly(f) \/ ~divides(leading_monomial(g), leading_monomial(f))

Cancelled(r, f, factor, g) == poly_sub(r, f, poly_mul(r, factor, g))

\* As far as leading terms are multiples: <<quotient, what is left>>.
divide_leading(r, f, g) ==
    LET P == Polys(r, f.variables)
        dividing[s \in P \X P] ==
          IF Stuck(s[2], g) THEN s
          ELSE dividing[<<poly_add(r, s[1], Factor(r, s[2], g)),
                          Cancelled(r, s[2], Factor(r, s[2], g), g)>>]
    IN dividing[<<ZeroPoly(f.variables), f>>]

\* Mutant: gives up at the first leading term the divisor's does not divide.
div_rem_until_stuck(r, f, g) == divide_leading(r, f, g)

LeadingTerm(r, f) == from_term(r, f.variables, leading_monomial(f), leading_coeff(f))

\* <<quotient, remainder>>, for polynomials in the same variables.  A leading
\* term the divisor's does not divide goes to the remainder, and the division
\* goes on behind it.
multivariate_div_rem(r, f, g) ==
    LET P == Polys(r, f.variables)
        reducing[s \in P \X P \X P] ==
          IF IsZeroPoly(s[2]) THEN <<s[1], s[3]>>
          ELSE IF Stuck(s[2], g)
          THEN reducing[<<s[1], poly_sub(r, s[2], LeadingTerm(r, s[2])),
                          poly_add(r, s[3], LeadingTerm(r, s[2]))>>]
          ELSE reducing[<<poly_add(r, s[1], Factor(r, s[2], g)),
                          Cancelled(r, s[2], Factor(r, s[2], g), g), s[3]>>]
    IN reducing[<<ZeroPoly(f.variables), f, ZeroPoly(f.variables)>>]

\* Long division stops at the first remainder of a smaller degree.
univariate_div_rem(r, f, g) == divide_leading(r, f, g)

monic_normalize(r, f) ==
    IF IsZeroPoly(f) THEN f
    ELSE poly_mul(r, f, constant_poly(r, f.variables, inv(r, leading_coeff(f))))

univariate_gcd(r, f, g) ==
    LET P == Polys(r, f.variables)
        euclid[s \in P \X P] ==
          IF IsZeroPoly(s[2]) THEN s[1] ELSE euclid[<<s[2], univariate_div_rem(r, s[1], s[2])[2]>>]
    IN monic_normalize(r, euclid[<<f, g>>])
=============================================================================
