-------------------------------- MODULE Terms --------------------------------
(***************************************************************************)
(* Expressions as values: what the slots of an AtomStore stand for, for    *)
(* the modules that work on expressions.  That a store keeps one slot for  *)
(* each of them is the subject of AtomStore, so same_slot() is equality    *)
(* here.                                                                   *)
(*                                                                         *)
(* A term is a record [tag, num, sym, args]: num is the rational of a Num  *)
(* as a pair in lowest terms, sym the symbol of a Var or Fun.              *)
(***************************************************************************)
EXTENDS Integers, FiniteSets, SequencesExt

Variadic == {"Add", "Mul"}

Node(tag, n, s, args) == [tag |-> tag, num |-> n, sym |-> s, args |-> args]

-----------------------------------------------------------------------------
(* Rationals as pairs in lowest terms over a positive denominator: what      *)
(* Calculator shows a Rational to stand for, without its representation.     *)

LOCAL Abs(n) == IF n < 0 THEN -n ELSE n

LOCAL GcdOf[n \in Nat, m \in Nat] == IF m = 0 THEN n ELSE GcdOf[m, n % m]

Frac(n, d) == LET g == GcdOf[Abs(n), Abs(d)]
                  s == IF d < 0 THEN -1 ELSE 1
              IN <<(s * n) \div g, (s * d) \div g>>

Zero == <<0, 1>>
One  == <<1, 1>>

Plus(p, q)   == Frac(p[1] * q[2] + q[1] * p[2], p[2] * q[2])
Minus(p, q)  == Frac(p[1] * q[2] - q[1] * p[2], p[2] * q[2])
Times(p, q)  == Frac(p[1] * q[1], p[2] * q[2])
Over(p, q)   == Frac(p[1] * q[2], p[2] * q[1])
Negated(p)   == <<-p[1], p[2]>>

\* The sum of Op(k) for k in m .. n.
SumFrom(m, n, Op(_)) == FoldLeft(LAMBDA sum, k : Plus(sum, Op(k)), Zero, [k \in 1 .. n - m + 1 |-> k + m - 1])

-----------------------------------------------------------------------------
(* AtomView::operator<=>, as -1, 0, 1.                                     *)

TagRank == [Num |-> 0, Var |-> 1, Add |-> 2, Mul |-> 3, Pow |-> 4, Fun |-> 5]

Sign(n) == IF n < 0 THEN -1 ELSE IF n > 0 THEN 1 ELSE 0

RECURSIVE Compare(_, _)
Compare(a, b) ==
    LET child(k) == Compare(a.args[k], b.args[k])
        differ == {k \in DOMAIN a.args \cap DOMAIN b.args : a.args[k] # b.args[k]}
    IN CASE a.tag # b.tag -> Sign(TagRank[a.tag] - TagRank[b.tag])
         [] a.num # b.num -> Sign(a.num[1] * b.num[2] - b.num[1] * a.num[2])
         [] a.sym # b.sym -> Sign(a.sym - b.sym)
         [] OTHER -> IF differ # {}
                     THEN child(CHOOSE k \in differ : \A l \in differ : k <= l)
                     ELSE Sign(Len(a.args) - Len(b.args))

Sorted(terms) == SortSeq(terms, LAMBDA a, b : Compare(a, b) < 0)

-----------------------------------------------------------------------------
(* The builders of AtomStore.                                              *)

num(n, d)     == Node("Num", <<n, d>>, 0, <<>>)
var(s)        == Node("Var", <<0, 1>>, s, <<>>)
pow(b, e)     == Node("Pow", <<0, 1>>, 0, <<b, e>>)
fun(s, terms) == Node("Fun", <<0, 1>>, s, terms)

\* flatten_operands: operands of the same tag dissolve, one level down.
flatten_operands(tag, terms) ==
    FlattenSeq([k \in DOMAIN terms |->
                  IF terms[k].tag = tag THEN terms[k].args ELSE <<terms[k]>>])

build_variadic(tag, terms) == Node(tag, <<0, 1>>, 0, Sorted(flatten_operands(tag, terms)))

add(terms) == build_variadic("Add", terms)
mul(terms) == build_variadic("Mul", terms)

\* The node t with other children.
Rebuilt(t, terms) ==
    CASE t.tag \in Variadic -> build_variadic(t.tag, terms)
      [] t.tag = "Pow"      -> pow(terms[1], terms[2])
      [] t.tag = "Fun"      -> fun(t.sym, terms)
      [] OTHER              -> t

-----------------------------------------------------------------------------
RECURSIVE Subterms(_)
Subterms(t) == {t} \cup UNION {Subterms(t.args[k]) : k \in DOMAIN t.args}

RECURSIVE Size(_)
Size(t) == 1 + FoldLeft(LAMBDA n, u : n + Size(u), 0, t.args)

\* How often the variable s occurs in t.
RECURSIVE Occurrences(_, _)
Occurrences(s, t) ==
    (IF t.tag = "Var" /\ t.sym = s THEN 1 ELSE 0)
      + FoldLeft(LAMBDA n, u : n + Occurrences(s, u), 0, t.args)
=============================================================================
