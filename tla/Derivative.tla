----------------------------- MODULE Derivative -----------------------------
(***************************************************************************)
(* The rules of src/src/calculus_core/derivative.cc.  The hooks are the    *)
(* four builtin ones; how they get into the registry is HookRegistry.      *)
(***************************************************************************)
EXTENDS Terms

CONSTANTS sin, cos, exp, ln      \* the builtin heads, as symbols

Heads == {sin, cos, exp, ln}

is_zero(t) == t = num(0, 1)

\* The builtin hooks: the partial derivative by the only argument.
Partial(head, u) ==
    CASE head = sin -> fun(cos, <<u>>)
      [] head = cos -> mul(<<num(-1, 1), fun(sin, <<u>>)>>)
      [] head = exp -> fun(exp, <<u>>)
      [] head = ln  -> pow(u, num(-1, 1))

\* derivative() throws unless every call in t has a hook and its one argument.
Differentiable(t) ==
    \A u \in Subterms(t) : u.tag = "Fun" => u.sym \in Heads /\ Len(u.args) = 1

\* Mutant: takes the logarithm rule's second term alone.
PowerRuleKeepsExponent(base, exponent, base_derivative) ==
    mul(<<exponent, pow(base, exponent), base_derivative>>)

\* g * f^(g - 1) * f'.
PowerRule(base, exponent, base_derivative) ==
    LET minus_one == IF exponent.tag = "Num"
                     THEN LET q == Minus(exponent.num, One) IN num(q[1], q[2])
                     ELSE add(<<exponent, num(-1, 1)>>)
    IN mul(<<exponent, pow(base, minus_one), base_derivative>>)

derivative_pow(base, exponent, base_derivative, exponent_derivative) ==
    LET power == pow(base, exponent)
        log   == fun(ln, <<base>>)
        inner == add(<<mul(<<exponent_derivative, log>>),
                       mul(<<exponent, base_derivative, pow(base, num(-1, 1))>>)>>)
    IN CASE is_zero(base_derivative) /\ is_zero(exponent_derivative) -> num(0, 1)
         [] is_zero(exponent_derivative) -> PowerRule(base, exponent, base_derivative)
         [] is_zero(base_derivative)     -> mul(<<power, log, exponent_derivative>>)
         [] OTHER                        -> mul(<<power, inner>>)

\* With respect to the variable v, unsimplified.
RECURSIVE derivative(_, _)
derivative(t, v) ==
    LET d(k) == derivative(t.args[k], v)
        term(k) == mul(<<d(k)>> \o RemoveAt(t.args, k))
    IN CASE t.tag = "Num" -> num(0, 1)
         [] t.tag = "Var" -> num(IF t.sym = v THEN 1 ELSE 0, 1)
         [] t.tag = "Add" -> add([k \in DOMAIN t.args |-> d(k)])
         [] t.tag = "Mul" -> add([k \in DOMAIN t.args |-> term(k)])
         [] t.tag = "Pow" -> derivative_pow(t.args[1], t.args[2], d(1), d(2))
         [] t.tag = "Fun" -> add(<<mul(<<Partial(t.sym, t.args[1]), d(1)>>)>>)
=============================================================================
