------------------------------ MODULE Rewriting ------------------------------
(***************************************************************************)
(* src/src/pattern_core/rewrite.cc: a rule applied to every subterm, again *)
(* and again, until nothing changes or the cap on passes is reached.  The  *)
(* store in which the terms are built is the subject of AtomStore.         *)
(***************************************************************************)
EXTENDS Matcher

CONSTANTS Rules,         \* [pattern, replacement, guard]; see Accepts for guards
          Targets,       \* the terms to rewrite
          MaxIterations  \* max_iterations

ASSUME CapIsNat == MaxIterations \in Nat

VARIABLES rule, current, iteration, status

vars == <<rule, current, iteration, status>>

-----------------------------------------------------------------------------
\* What a call that throws returns in place of a term.
Thrown == Node("Thrown", <<0, 1>>, 0, <<>>)

SplicedInto(r, k, bindings) ==
    /\ r.args[k].tag = "Var" /\ r.args[k].sym \in DOMAIN bindings
    /\ bindings[r.args[k].sym].sequence

\* Mutant: a sum or product of one operand is not reduced to it.
RECURSIVE substitute_keeping_single(_, _)
substitute_keeping_single(r, bindings) ==
    LET parts == FlattenSeq([k \in DOMAIN r.args |->
                     IF SplicedInto(r, k, bindings) /\ r.tag # "Pow"
                     THEN bindings[r.args[k].sym].terms
                     ELSE <<substitute_keeping_single(r.args[k], bindings)>>])
    IN CASE r.tag = "Num" -> r
         [] r.tag = "Var" ->
              IF r.sym \in DOMAIN bindings
              THEN IF bindings[r.sym].sequence THEN Thrown ELSE bindings[r.sym].terms[1]
              ELSE IF is_wildcard(r.sym) THEN Thrown ELSE r
         [] OTHER ->
              IF Contains(parts, Thrown) THEN Thrown
              ELSE IF r.tag = "Add" /\ parts = <<>> THEN num(0, 1)
              ELSE IF r.tag = "Mul" /\ parts = <<>> THEN num(1, 1)
              ELSE Rebuilt(r, parts)

\* substitute_impl: a captured list is spliced into its operand list, anywhere
\* else it throws, as a wildcard without value does.
RECURSIVE substitute(_, _)
substitute(r, bindings) ==
    LET parts == FlattenSeq([k \in DOMAIN r.args |->
                     IF SplicedInto(r, k, bindings) /\ r.tag # "Pow"
                     THEN bindings[r.args[k].sym].terms
                     ELSE <<substitute(r.args[k], bindings)>>])
    IN CASE r.tag = "Num" -> r
         [] r.tag = "Var" ->
              IF r.sym \in DOMAIN bindings
              THEN IF bindings[r.sym].sequence THEN Thrown ELSE bindings[r.sym].terms[1]
              ELSE IF is_wildcard(r.sym) THEN Thrown ELSE r
         [] OTHER ->
              IF Contains(parts, Thrown) THEN Thrown
              ELSE IF r.tag = "Add" /\ parts = <<>> THEN num(0, 1)
              ELSE IF r.tag = "Mul" /\ parts = <<>> THEN num(1, 1)
              ELSE IF r.tag \in Variadic /\ Len(parts) = 1 THEN parts[1]
              ELSE Rebuilt(r, parts)

\* The guards a program may give: none, or one that wants numbers only.
Accepts(guard, bindings) ==
    \/ guard = "none"
    \/ guard = "numbers" /\ \A s \in DOMAIN bindings :
         \A k \in DOMAIN bindings[s].terms : bindings[s].terms[k].tag = "Num"

\* The rule, tried on one node.
Applied(r, t) ==
    LET found == match(r.pattern, t) IN
    CASE found.kind = "throws" -> Thrown
      [] found.kind = "match" /\ Accepts(r.guard, found.bindings) ->
           substitute(r.replacement, found.bindings)
      [] OTHER -> t

\* Mutant: exponents are not visited.
RECURSIVE replace_all_but_exponents(_, _)
replace_all_but_exponents(r, t) ==
    LET parts == [k \in DOMAIN t.args |->
                    IF t.tag = "Pow" /\ k = 2 THEN t.args[k]
                    ELSE replace_all_but_exponents(r, t.args[k])]
    IN IF Contains(parts, Thrown) THEN Thrown ELSE Applied(r, Rebuilt(t, parts))

\* replace_all_impl: children first, then the node rebuilt from them.
RECURSIVE replace_all(_, _)
replace_all(r, t) ==
    LET parts == [k \in DOMAIN t.args |-> replace_all(r, t.args[k])]
    IN IF Contains(parts, Thrown) THEN Thrown ELSE Applied(r, Rebuilt(t, parts))

-----------------------------------------------------------------------------
(* replace_all_multiple.                                                   *)

TypeOK ==
    /\ rule \in Rules
    /\ iteration \in 0 .. MaxIterations
    /\ status \in {"running", "returned", "exceeded", "threw"}
    /\ status = "threw" <=> current = Thrown

Init ==
    /\ rule \in Rules
    /\ current \in Targets
    /\ iteration = 0
    /\ status = "running"

\* One more pass, which ends the call if it throws or changes nothing.
Pass ==
    /\ status = "running" /\ iteration < MaxIterations
    /\ current' = replace_all(rule, current)
    /\ iteration' = iteration + 1
    /\ status' = CASE current' = Thrown  -> "threw"
                   [] current' = current -> "returned"
                   [] OTHER              -> "running"
    /\ UNCHANGED rule

\* The passes are used up: runtime_error.
Exceed ==
    /\ status = "running" /\ iteration = MaxIterations
    /\ status' = "exceeded"
    /\ UNCHANGED <<rule, current, iteration>>

Next == Pass \/ Exceed

Spec == Init /\ [][Next]_vars

-----------------------------------------------------------------------------
(* Properties *)

\* Sums and products have two operands or more, through every pass: no splice
\* and no flattening leaves one that is shorter (substitute_impl).
NoShortSums ==
    \A t \in Subterms(current) : t.tag \in Variadic => Len(t.args) >= 2

\* In these patterns a list is captured from positions once at most.
CapturesCommute(p) ==
    \A c \in Subterms(p) : ~IsCommutative(c) =>
        \A k \in DOMAIN c.args : IsSequence(c.args[k]) => Occurrences(c.args[k].sym, p) = 1

\* t with the operands of symmetric functions in order, as no builder has them.
RECURSIVE Ordered(_)
Ordered(t) ==
    LET parts == [k \in DOMAIN t.args |-> Ordered(t.args[k])]
    IN IF t.tag = "Fun" /\ t.sym \in Symmetric THEN fun(t.sym, Sorted(parts))
       ELSE Rebuilt(t, parts)

\* With the wildcards replaced by what they were bound to, the pattern is the
\* very term it matched, up to the order of a symmetric function's operands.
ReadsAsTarget(found) ==
    Ordered(substitute(rule.pattern, found.bindings)) = Ordered(current)

\* A match is right, through nested lists and repeated wildcards (match()).
MatchIsRight ==
    LET found == match(rule.pattern, current) IN
    found.kind = "match" /\ CapturesCommute(rule.pattern) => ReadsAsTarget(found)

\* matcher.cc:21-24 has the context of a repeated sequence wildcard be
\* commutative, so that the order of a capture cannot matter: then a match is
\* right for every pattern.
RepeatedMatchIsRight ==
    LET found == match(rule.pattern, current) IN
    found.kind = "match" => ReadsAsTarget(found)

\* A match is found if there is one, by a search with attempts to spare, for
\* the patterns whose operand lists do not depend on each other.
MatchIsFound ==
    /\ current # Thrown
    /\ ChoicesArePrivate(rule.pattern)
    /\ match(rule.pattern, current).kind = "none"
    => ~HasMatch(rule.pattern, current)

\* The nodes of p other than wildcards.
Solid(p) == Size(p) - FoldSet(LAMBDA s, n : n + Occurrences(s, p), 0, Wildcards(p))

Shrinks(r) ==
    /\ Solid(r.replacement) < Solid(r.pattern)
    /\ \A s \in Wildcards(r.replacement) :
         Occurrences(s, r.replacement) <= Occurrences(s, r.pattern)

Redex(r, t) == LET found == match(r.pattern, t) IN
    found.kind = "match" /\ Accepts(r.guard, found.bindings)

\* With a rule that shrinks what it matches every pass that changes anything
\* makes the term smaller, and a call returns only when the rule applies to no
\* subterm: replace_all_multiple() ends, "fully rewritten", for such rules.
ShrinkingRulesFinish ==
    [][Shrinks(rule) =>
         /\ status' = "running" => Size(current') < Size(current)
         /\ status' = "returned" => \A t \in Subterms(current') : ~Redex(rule, t)]_vars
=============================================================================
