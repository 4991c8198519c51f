------------------------------ MODULE Symbolic ------------------------------
(***************************************************************************)
(* The layers on top of the expressions: a program that reads, normalizes, *)
(* differentiates and prints an expression, and a call that rewrites one   *)
(* with a rule.  part says which of the two a behaviour runs, the other    *)
(* rests.                                                                  *)
(***************************************************************************)
EXTENDS Expressions, Rewriting

VARIABLE part

symbolicVars == <<vars, expressionVars, part>>

\* A call on a number, which no rule can be about.
RewritingRests == /\ rule = [pattern |-> num(0, 1), replacement |-> num(0, 1), guard |-> "none"]
                  /\ current = num(0, 1) /\ iteration = 0 /\ status = "returned"

SymbolicInit ==
    /\ part \in {"expressions", "rewriting"}
    /\ IF part = "expressions" THEN ExpressionInit ELSE ExpressionStart(<<>>)
    /\ IF part = "rewriting"   THEN Init ELSE RewritingRests

SymbolicNext ==
    \/ part = "expressions" /\ ExpressionNext /\ UNCHANGED <<vars, part>>
    \/ Next /\ UNCHANGED <<expressionVars, part>>

SymbolicSpec == SymbolicInit /\ [][SymbolicNext]_symbolicVars
=============================================================================
