--------------------------- MODULE MCHookRegistry ---------------------------
(* Instances of HookRegistry for TLC: two builtins stand for the four. *)
EXTENDS HookRegistry, TLC

CONSTANTS t1, t2, t3, sin, cos, user_f, h1, h2

MCBuiltins == <<sin, cos>>
AllHeads   == {sin, cos, user_f}

\* user_f(sin(x)) and sin(x).
MCExpressions == {<<user_f, sin>>, <<cos>>}

\* None of which makes a hook call itself.
MCRegistrations == {<<user_f, h1>>, <<user_f, h2>>, <<sin, h2>>}

\* h1 differentiates sin inside; h2 registers h1 for user_f.
MCBody == (h1 :> Differentiate(<<sin>>)) @@ (h2 :> Register(user_f, h1))
=============================================================================
