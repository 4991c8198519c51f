----------------------------- MODULE MCSymbolic -----------------------------
(* Texts, rules and terms for TLC. *)
EXTENDS Symbolic

X == Ident(1)
Y == Ident(2)
F == Ident(3)
Op(c) == <<c>>

TextsOf(tokens, lengths) == UNION {[1 .. n -> tokens] : n \in lengths}

AllTokens == {Number(2), X, F} \cup {Op(c) : c \in {"+", "-", "*", "/", "^", "(", ")", ","}}

\* Every short sequence of tokens, and longer ones without some of them.
ShortTexts == TextsOf(AllTokens, 0 .. 3)
LongTexts  == TextsOf({Number(2), X} \cup {Op(c) : c \in {"-", "*", "^"}}, 4 .. 5)
CallTexts  == TextsOf({F, Op("("), Op(")"), Op(",")}, 4 .. 6)

\* Operands around two operators.
Operands == {<<Number(0)>>, <<Number(1)>>, <<Number(2)>>, <<X>>, <<Y>>,
             <<Op("("), X, Op("+"), Y, Op(")")>>, <<Op("("), Number(2), Op("*"), X, Op(")")>>,
             <<Ident(5), Op("("), Number(2), Op("*"), X, Op(")")>>}
Infix == {<<Op(c)>> : c \in {"+", "*", "/", "^"}}
Few == {<<Number(2)>>, <<X>>, <<Y>>, <<Ident(5), Op("("), Number(2), Op("*"), X, Op(")")>>}
RichTexts == {l \o p \o m : l, m \in Operands, p \in Infix}
               \cup {l \o p \o m \o q \o r : l, m, r \in Few, p, q \in Infix}

MCTexts == ShortTexts \cup LongTexts \cup CallTexts \cup RichTexts

MCPoints == {<<0, 1>>, <<1, 1>>, <<-1, 1>>}

-----------------------------------------------------------------------------
(* Rewriting. *)

a == var(1)
b == var(2)
one == num(1, 1)
x == var(3)    \* x_
y == var(4)    \* y_
xs == var(5)   \* xs__
zs == var(6)   \* zs___
f(terms) == fun(7, terms)
g(terms) == fun(8, terms) \* symmetric

MCUnderscores == <<0, 0, 1, 1, 2, 3, 0, 0>>
MCSymmetric == {8}

SmallPatterns == {a, one, x, y}

\* One operator over leaves, with and without a wildcard for lists.
FlatPatterns ==
    {f(<<p, q>>) : p, q \in SmallPatterns} \cup {g(<<p, q>>) : p, q \in SmallPatterns}
      \cup {add(<<p, q>>) : p, q \in SmallPatterns} \cup {pow(p, q) : p, q \in {a, x, y}}
      \cup {f(<<p, w>>) : p \in {a, x}, w \in {xs, zs}}
      \cup {f(<<w, p>>) : p \in {a, x}, w \in {xs, zs}}
      \cup {g(<<w, p>>) : p \in {a, x}, w \in {xs, zs}}
      \cup {add(<<w, p>>) : p \in {a, x}, w \in {xs, zs}}
      \cup {mul(<<w, p>>) : p \in {a, x}, w \in {xs, zs}}

\* Lists that share wildcards with their surroundings, and misused ones.
DeepPatterns ==
    {f(<<add(<<x, y>>), x>>), f(<<x, add(<<x, y>>)>>), g(<<f(<<x>>), x>>), f(<<f(<<x>>)>>),
     g(<<f(<<x, y>>), x>>), add(<<f(<<x, b>>), mul(<<x, y>>)>>), f(<<f(<<x, zs>>), x>>),
     g(<<f(<<xs>>), f(<<xs>>)>>), g(<<f(<<xs>>), xs>>), add(<<f(<<zs>>), x, zs>>),
     pow(add(<<x, y>>), one), pow(x, pow(y, a)), f(<<pow(xs, a)>>), f(<<xs, zs>>), xs,
     g(<<x, y, one>>), g(<<x, y, x>>), add(<<g(<<x, y>>), one, y>>)}

MCPatterns == SmallPatterns \cup FlatPatterns \cup DeepPatterns

MCReplacements == {x, b, f(<<x>>), add(<<zs, one>>), g(<<xs, a>>), mul(<<xs>>), pow(x, y)}

MCRules == [pattern : MCPatterns, replacement : MCReplacements, guard : {"none"}]
             \cup [pattern : SmallPatterns \cup DeepPatterns, replacement : {b, f(<<x>>), mul(<<xs>>)},
                   guard : {"numbers"}]

Leaves == {a, b, one}
Pairs == {<<s, t>> : s, t \in Leaves}
FlatTargets ==
    {f(p) : p \in Pairs} \cup {g(p) : p \in Pairs} \cup {add(p) : p \in Pairs}
      \cup {pow(p[1], p[2]) : p \in Pairs} \cup {f(<<s>>) : s \in Leaves}
      \cup {f(<<s, t, a>>) : s, t \in Leaves} \cup {g(<<s, t, b>>) : s, t \in Leaves}
DeepTargets ==
    {f(<<add(p), b>>) : p \in Pairs} \cup {g(<<f(p), a>>) : p \in Pairs}
      \cup {f(<<a, f(p)>>) : p \in Pairs} \cup {add(<<a, f(<<s>>), b>>) : s \in Leaves}
      \cup {g(<<f(p), f(<<a, b>>)>>) : p \in Pairs}
      \cup {f(<<f(<<f(<<s>>)>>)>>) : s \in Leaves}
      \cup {pow(a, pow(s, f(<<f(<<b>>)>>))) : s \in Leaves}
      \cup {add(<<mul(<<s, a>>), f(<<s, b>>), pow(s, one)>>) : s \in Leaves}

MCTargets == Leaves \cup FlatTargets \cup DeepTargets
=============================================================================
