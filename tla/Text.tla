-------------------------------- MODULE Text --------------------------------
(***************************************************************************)
(* Expressions as text: src/src/atom_core/printer.cc and parser.cc.        *)
(*                                                                         *)
(* A text is a sequence of tokens, what tokenize() makes of its characters *)
(* but for the End token: <<"Number", n>>, <<"Ident", s>> with s a symbol  *)
(* of the parser's namespace, and <<c>> for the other characters.  print() *)
(* never puts two names or numbers next to each other, so its tokens are   *)
(* those of its characters.                                                *)
(***************************************************************************)
EXTENDS Terms

Number(n) == <<"Number", n>>
Ident(s)  == <<"Ident", s>>

-----------------------------------------------------------------------------
(* print(): render and wrap_if_needed.                                     *)

\* Mutant: a power needs no parentheses anywhere.
precedence_power == [Add |-> 1, Mul |-> 2, Pow |-> 4, Num |-> 4, Var |-> 4, Fun |-> 4]

precedence == [Add |-> 1, Mul |-> 2, Pow |-> 3, Num |-> 4, Var |-> 4, Fun |-> 4]

Parenthesized(text) == <<<<"(">>>> \o text \o <<<<")">>>>

Separated(texts, separator) ==
    FlattenSeq([k \in DOMAIN texts |-> (IF k = 1 THEN <<>> ELSE <<separator>>) \o texts[k]])

\* Rational::to_string.
Digits(q) == (IF q[1] < 0 THEN <<<<"-">>>> ELSE <<>>) \o <<Number(IF q[1] < 0 THEN -q[1] ELSE q[1])>>
               \o (IF q[2] = 1 THEN <<>> ELSE <<<<"/">>, Number(q[2])>>)

RECURSIVE print(_)
print(t) ==
    LET child(k, min_prec) == LET text == print(t.args[k]) IN
          IF precedence[t.args[k].tag] < min_prec THEN Parenthesized(text) ELSE text
        children(min_prec, c) == Separated([k \in DOMAIN t.args |-> child(k, min_prec)], <<c>>)
    IN CASE t.tag = "Num" -> Digits(t.num)
         [] t.tag = "Var" -> <<Ident(t.sym)>>
         [] t.tag = "Add" -> children(2, "+")
         [] t.tag = "Mul" -> children(3, "*")
         [] t.tag = "Pow" -> child(1, 4) \o <<<<"^">>>> \o child(2, 3)
         [] t.tag = "Fun" -> <<Ident(t.sym)>> \o Parenthesized(children(1, ","))

-----------------------------------------------------------------------------
(* parse(): each operator is a method of Parser that starts at token p of  *)
(* ts and returns <<next position, term>>, or <<>> when it throws.         *)

Kind(ts, p) == IF p > Len(ts) THEN "End" ELSE ts[p][1]

\* A method returned: go on with its result, unless it threw.
Then(result, Next(_, _)) == IF result = <<>> THEN <<>> ELSE Next(result[1], result[2])

Expect(kind, ts, result) ==
    Then(result, LAMBDA p, t : IF Kind(ts, p) = kind THEN <<p + 1, t>> ELSE <<>>)

starts_primary(kind) == kind \in {"Number", "Ident", "("}

Inverted(t) == pow(t, num(-1, 1))
negate(t)  == mul(<<num(-1, 1), t>>)

RECURSIVE parse_expression(_, _, _), climb(_, _, _, _), parse_unary(_, _)
RECURSIVE parse_primary(_, _), parse_args(_, _, _)

\* Precedence climbing: 1 for sums, 2 for products.
parse_expression(ts, p, min_prec) ==
    Then(parse_unary(ts, p), LAMBDA q, lhs : climb(ts, q, lhs, min_prec))

climb(ts, p, lhs, min_prec) ==
    LET k == Kind(ts, p)
        on(Op(_), q, prec) == Then(parse_expression(ts, q, prec),
                                   LAMBDA next, rhs : climb(ts, next, Op(rhs), min_prec))
    IN CASE k = "+" /\ min_prec <= 1 -> on(LAMBDA rhs : add(<<lhs, rhs>>), p + 1, 2)
         [] k = "-" /\ min_prec <= 1 -> on(LAMBDA rhs : add(<<lhs, negate(rhs)>>), p + 1, 2)
         [] k = "*" /\ min_prec <= 2 -> on(LAMBDA rhs : mul(<<lhs, rhs>>), p + 1, 3)
         [] k = "/" /\ min_prec <= 2 -> on(LAMBDA rhs : mul(<<lhs, Inverted(rhs)>>), p + 1, 3)
         [] starts_primary(k) /\ min_prec <= 2 -> on(LAMBDA rhs : mul(<<lhs, rhs>>), p, 3)
         [] OTHER -> <<p, lhs>>

\* Mutant: an exponent has no sign and no exponent of its own.
parse_pow_primary(ts, p, base) ==
    IF Kind(ts, p) # "^" THEN <<p, base>>
    ELSE Then(parse_primary(ts, p + 1), LAMBDA q, exponent : <<q, pow(base, exponent)>>)

\* What a ^ behind the base makes of it; the exponent may have a sign.
parse_pow(ts, p, base) ==
    IF Kind(ts, p) # "^" THEN <<p, base>>
    ELSE Then(parse_unary(ts, p + 1), LAMBDA q, exponent : <<q, pow(base, exponent)>>)

\* A minus in front of a number is part of the number.
parse_unary(ts, p) ==
    LET k == Kind(ts, p) IN
    CASE k = "-" /\ Kind(ts, p + 1) = "Number" -> parse_pow(ts, p + 2, num(-ts[p + 1][2], 1))
      [] k = "-" /\ Kind(ts, p + 1) # "Number" ->
           Then(parse_unary(ts, p + 1), LAMBDA q, t : <<q, negate(t)>>)
      [] k = "+" -> parse_unary(ts, p + 1)
      [] OTHER   -> Then(parse_primary(ts, p), LAMBDA q, base : parse_pow(ts, q, base))

parse_args(ts, p, args) ==
    Then(parse_expression(ts, p, 1),
         LAMBDA q, t : IF Kind(ts, q) = "," THEN parse_args(ts, q + 1, Append(args, t))
                       ELSE <<q, Append(args, t)>>)

parse_primary(ts, p) ==
    LET k == Kind(ts, p) IN
    CASE k = "Number" -> <<p + 1, num(ts[p][2], 1)>>
      [] k = "Ident" /\ Kind(ts, p + 1) # "(" -> <<p + 1, var(ts[p][2])>>
      [] k = "Ident" /\ Kind(ts, p + 1) = "(" ->
           Then(Expect(")", ts, IF Kind(ts, p + 2) = ")" THEN <<p + 2, <<>>>>
                                ELSE parse_args(ts, p + 2, <<>>)),
                LAMBDA q, args : <<q, fun(ts[p][2], args)>>)
      [] k = "(" -> Expect(")", ts, parse_expression(ts, p + 1, 1))
      [] OTHER   -> <<>>

\* <<the term>>, or <<>> for a syntax error.
parse(ts) ==
    LET result == parse_expression(ts, 1, 1) IN
    IF ts = <<>> \/ result = <<>> THEN <<>>
    ELSE IF Kind(ts, result[1]) # "End" THEN <<>> ELSE <<result[2]>>

-----------------------------------------------------------------------------
(* The grammar of parser.hh, by splitting a text instead of walking it:    *)
(* the terms a text can be read as, for each level of binding power.       *)

RECURSIVE Sums(_), Products(_), Unaries(_), Powers(_), Primaries(_), ArgLists(_)

\* What Op makes of the readings of the two sides of an operator c.
Splits(ts, c, Left(_), Right(_), Op(_, _)) ==
    UNION {{Op(l, r) : l \in Left(SubSeq(ts, 1, k - 1)), r \in Right(SubSeq(ts, k + 1, Len(ts)))} :
             k \in {k \in DOMAIN ts : ts[k] = <<c>>}}

Sums(ts) == Products(ts)
    \cup Splits(ts, "+", Sums, Products, LAMBDA l, r : add(<<l, r>>))
    \cup Splits(ts, "-", Sums, Products, LAMBDA l, r : add(<<l, negate(r)>>))

\* A name in front of a parenthesis is called, as in f(x, y), or multiplied,
\* as in x(y+1): parser.hh has an example of both.
Products(ts) == Unaries(ts)
    \cup Splits(ts, "*", Products, Unaries, LAMBDA l, r : mul(<<l, r>>))
    \cup Splits(ts, "/", Products, Unaries, LAMBDA l, r : mul(<<l, Inverted(r)>>))
    \cup UNION {{mul(<<l, r>>) : l \in Products(SubSeq(ts, 1, k - 1)),
                                 r \in Powers(SubSeq(ts, k, Len(ts)))} :
                k \in 2 .. Len(ts)}

\* A negative number is a literal.
Unaries(ts) ==
    IF Len(ts) = 2 /\ ts[1] = <<"-">> /\ ts[2][1] = "Number" THEN {num(-ts[2][2], 1)}
    ELSE CASE Kind(ts, 1) = "-" -> {negate(t) : t \in Unaries(Tail(ts))}
           [] Kind(ts, 1) = "+" -> Unaries(Tail(ts))
           [] OTHER             -> Powers(ts)

Powers(ts) == Primaries(ts) \cup Splits(ts, "^", Primaries, Unaries, pow)

Primaries(ts) ==
    LET enclosed(k) == Len(ts) > k /\ ts[k] = <<"(">> /\ Last(ts) = <<")">>
        inside(k)   == SubSeq(ts, k + 1, Len(ts) - 1)
    IN IF Len(ts) = 1 /\ ts[1][1] = "Number" THEN {num(ts[1][2], 1)}
       ELSE IF Len(ts) = 1 /\ ts[1][1] = "Ident" THEN {var(ts[1][2])}
       ELSE IF enclosed(1) THEN Sums(inside(1))
       ELSE IF enclosed(2) /\ ts[1][1] = "Ident"
            THEN {fun(ts[1][2], args) : args \in ArgLists(inside(2))}
       ELSE {}

\* Lists of arguments between commas.
ArgLists(ts) ==
    (IF ts = <<>> THEN {<<>>} ELSE {<<t>> : t \in Sums(ts)})
      \cup UNION {{<<t>> \o rest : t \in Sums(SubSeq(ts, 1, k - 1)),
                    rest \in ArgLists(SubSeq(ts, k + 1, Len(ts))) \ {<<>>}} :
                  k \in {k \in DOMAIN ts : ts[k] = <<",">>}}
=============================================================================
