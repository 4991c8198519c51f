----------------------------- MODULE Normalize -----------------------------
(***************************************************************************)
(* src/src/atom_core/normalize.cc: combining like terms and powers, bottom *)
(* up, without expanding products.                                         *)
(***************************************************************************)
EXTENDS Terms

number(q) == num(q[1], q[2])

\* <<coefficient, term>>: a coefficient is seen in front of one factor only.
split_coefficient(t) ==
    IF t.tag = "Mul" /\ Len(t.args) = 2 /\ t.args[1].tag = "Num"
    THEN <<t.args[1].num, t.args[2]>> ELSE <<One, t>>

\* <<exponent, base>>.
split_power(t) == IF t.tag = "Pow" /\ t.args[2].tag = "Num"
                  THEN <<t.args[2].num, t.args[1]>> ELSE <<One, t>>

IsNumber(t)    == t.tag = "Num"
IsNotNumber(t) == t.tag # "Num"

\* Mutant: the first coefficient counts, and not the sum.
CollectedFirst(pairs) ==
    SelectSeq([k \in DOMAIN pairs |-> IF \A j \in 1 .. k - 1 : pairs[j][2] # pairs[k][2]
                                      THEN pairs[k] ELSE <<Zero, pairs[k][2]>>],
              LAMBDA p : p[1] # Zero)

\* The std::map of normalize_add and normalize_mul: the parts of the given
\* <<weight, part>> pairs with the sums of their weights, each part once.
Collected(pairs) ==
    LET first(k) == \A j \in 1 .. k - 1 : pairs[j][2] # pairs[k][2]
        total(k) == FoldLeft(LAMBDA sum, p : IF p[2] = pairs[k][2] THEN Plus(sum, p[1]) ELSE sum,
                             Zero, pairs)
        keys     == SelectSeq([k \in DOMAIN pairs |-> k], first)
    IN [k \in DOMAIN keys |-> <<total(keys[k]), pairs[keys[k]][2]>>]

\* The operands other than numbers, like ones combined; weight zero drops out.
Combined(kids, Split(_), Join(_)) ==
    LET others == SelectSeq(kids, IsNotNumber)
        found  == SelectSeq(Collected([k \in DOMAIN others |-> Split(others[k])]),
                            LAMBDA p : p[1] # Zero)
    IN [k \in DOMAIN found |-> IF found[k][1] = One THEN found[k][2] ELSE Join(found[k])]

\* The operands with the constant unless it is neutral, or the only one as it is.
Rejoined(tag, kids, constant, neutral) ==
    LET all == IF constant # neutral \/ kids = <<>> THEN Append(kids, number(constant)) ELSE kids
    IN IF Len(all) = 1 THEN all[1] ELSE build_variadic(tag, all)

normalize_add(kids) ==
    LET constant == FoldLeft(LAMBDA sum, u : Plus(sum, u.num), Zero, SelectSeq(kids, IsNumber))
    IN Rejoined("Add", Combined(kids, split_coefficient, LAMBDA p : mul(<<number(p[1]), p[2]>>)),
                constant, Zero)

normalize_mul(kids) ==
    LET constant == FoldLeft(LAMBDA prod, u : Times(prod, u.num), One, SelectSeq(kids, IsNumber))
    IN IF constant = Zero THEN number(Zero)
       ELSE Rejoined("Mul", Combined(kids, split_power, LAMBDA p : pow(p[2], number(p[1]))),
                     constant, One)

normalize_pow(base, exponent) ==
    IF exponent = number(Zero) THEN number(One)
    ELSE IF exponent = number(One) THEN base
    ELSE pow(base, exponent)

RECURSIVE normalize(_)
normalize(t) ==
    LET kids == [k \in DOMAIN t.args |-> normalize(t.args[k])]
    IN CASE t.tag = "Add" -> normalize_add(kids)
         [] t.tag = "Mul" -> normalize_mul(kids)
         [] t.tag = "Pow" -> normalize_pow(kids[1], kids[2])
         [] t.tag = "Fun" -> fun(t.sym, kids)
         [] OTHER         -> t
=============================================================================
