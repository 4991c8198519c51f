------------------------------- MODULE Series -------------------------------
(***************************************************************************)
(* taylor_series() of                                                      *)
(* src/src/calculus_core/include/calculus_core/series.hh and the truncated *)
(* series it computes with, HyperDual of                                   *)
(* src/src/numerica_core/include/numerica_core/hyper_dual.hh.              *)
(*                                                                         *)
(* A series is the function of its coefficients.  Scalars are fractions    *)
(* where the code has floating-point numbers, so exp, log, sin and cos are *)
(* known only where they are rational: at 0, and log at 1.                 *)
(***************************************************************************)
EXTENDS Derivative

CONSTANT Order    \* of the truncation
ASSUME OrderAssumption == Order \in Nat \ {0}

Degrees == 0 .. Order

\* A call that throws, or meets a scalar that is no fraction.
Nothing == <<>>

constant(q) == [k \in Degrees |-> IF k = 0 THEN q ELSE Zero]
variable(q) == [k \in Degrees |-> IF k = 0 THEN q ELSE IF k = 1 THEN One ELSE Zero]

Sum(f, g)     == [k \in Degrees |-> Plus(f[k], g[k])]
Product(f, g) == [k \in Degrees |-> SumFrom(0, k, LAMBDA i : Times(f[i], g[k - i]))]

\* The series whose k-th coefficient follows from the earlier ones, c[0 .. k - 1].
Recurrence(Next(_, _)) ==
    FoldLeft(LAMBDA c, k : [j \in 0 .. k |-> IF j < k THEN c[j] ELSE Next(c, k)],
             <<>>, [k \in 1 .. Order + 1 |-> k - 1])

Division(f, g) ==
    IF g[0] = Zero THEN Nothing
    ELSE Recurrence(LAMBDA q, k :
           Over(Minus(f[k], SumFrom(0, k - 1, LAMBDA i : Times(q[i], g[k - i]))), g[0]))

\* i * g[i] * h[k - i], over i in m .. n: coefficients of g' * h.
ChainSum(g, h, m, n, k) == SumFrom(m, n, LAMBDA i : Times(Times(<<i, 1>>, g[i]), h[k - i]))

Divided(q, k) == Over(q, <<k, 1>>)

Exp(b) ==
    IF b[0] # Zero THEN Nothing
    ELSE Recurrence(LAMBDA c, k : IF k = 0 THEN One ELSE Divided(ChainSum(b, c, 1, k, k), k))

Log(b) ==
    IF b[0] # One THEN Nothing
    ELSE Recurrence(LAMBDA c, k :
           IF k = 0 THEN Zero
           ELSE Over(Minus(b[k], Divided(ChainSum(c, b, 1, k - 1, k), k)), b[0]))

\* <<sine, cosine>> of each degree.
SinCos(b) ==
    LET chain(sc, k, side) ==
          Divided(SumFrom(1, k, LAMBDA i : Times(Times(<<i, 1>>, b[i]), sc[k - i][side])), k)
    IN IF b[0] # Zero THEN Nothing
       ELSE Recurrence(LAMBDA sc, k : IF k = 0 THEN <<Zero, One>>
                                      ELSE <<chain(sc, k, 2), Negated(chain(sc, k, 1))>>)

\* One side of a joint computation.
Side(sc, n) == IF sc = Nothing THEN Nothing ELSE [k \in Degrees |-> sc[k][n]]

\* An operation on series that have been computed.
Lift1(f, Op(_))        == IF f = Nothing THEN Nothing ELSE Op(f)
Lift2(f, g, Op(_, _))  == IF f = Nothing \/ g = Nothing THEN Nothing ELSE Op(f, g)

\* Repeated squaring; a negative power is the quotient of one by the positive.
RECURSIVE Squared(_, _, _)
Squared(result, power, magnitude) ==
    IF magnitude = 0 THEN result
    ELSE Squared(IF magnitude % 2 = 1 THEN Product(result, power) ELSE result,
                 Product(power, power), magnitude \div 2)

integer_power(base, n) ==
    IF n >= 0 THEN Squared(constant(One), base, n)
    ELSE Division(constant(One), Squared(constant(One), base, -n))

builtin_call(head, f) ==
    CASE head = sin -> Side(SinCos(f), 1)
      [] head = cos -> Side(SinCos(f), 2)
      [] head = exp -> Exp(f)
      [] head = ln  -> Log(f)
      [] OTHER      -> Nothing

RECURSIVE evaluate_hyper_dual(_, _, _)
evaluate_hyper_dual(t, v, value) ==
    LET child(k) == evaluate_hyper_dual(t.args[k], v, value)
        folded(Op(_, _), start) ==
          FoldLeftDomain(LAMBDA f, k : Lift2(f, child(k), Op), constant(start), t.args)
    IN CASE t.tag = "Num" -> constant(t.num)
         [] t.tag = "Var" -> IF t.sym = v THEN value ELSE Nothing
         [] t.tag = "Add" -> folded(Sum, Zero)
         [] t.tag = "Mul" -> folded(Product, One)
         [] t.tag = "Pow" ->
              IF t.args[2].tag = "Num" /\ t.args[2].num[2] = 1
              THEN Lift1(child(1), LAMBDA f : integer_power(f, t.args[2].num[1]))
              ELSE Lift1(Lift2(child(2), Lift1(child(1), Log), Product), Exp)
         [] t.tag = "Fun" ->
              IF Len(t.args) # 1 THEN Nothing ELSE Lift1(child(1), LAMBDA f : builtin_call(t.sym, f))

\* The coefficients of the expansion of t in v around the point.
taylor_series(t, v, point) == evaluate_hyper_dual(t, v, variable(point))
=============================================================================
