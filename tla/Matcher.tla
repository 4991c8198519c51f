------------------------------- MODULE Matcher -------------------------------
(***************************************************************************)
(* src/src/pattern_core/matcher.cc and wildcard.cc: patterns with          *)
(* wildcards, matched by a search that may give up.                        *)
(***************************************************************************)
EXTENDS Terms

CONSTANTS Underscores, \* Underscores[s]: the trailing underscores of symbol s's name
          Symmetric,   \* the symbols registered as symmetric
          MaxAttempts  \* kMaxCommutativeAssignmentAttempts

ASSUME SymbolsHaveNames == DOMAIN Underscores \subseteq Nat /\ MaxAttempts \in Nat

wildcard_kind(s) ==
    CASE Underscores[s] = 0 -> "none"
      [] Underscores[s] = 1 -> "Single"
      [] Underscores[s] = 2 -> "AtLeastOne"
      [] OTHER              -> "AnyCount"

is_wildcard(s) == wildcard_kind(s) # "none"

IsSequence(p) == p.tag = "Var" /\ wildcard_kind(p.sym) \in {"AtLeastOne", "AnyCount"}

\* What a wildcard is bound to: a term, or the list it captured.
Single(t)      == [sequence |-> FALSE, terms |-> <<t>>]
Many(terms) == [sequence |-> TRUE, terms |-> terms]

NoBindings == <<>>

Matched(bindings) == [kind |-> "match", bindings |-> bindings]
NoMatch           == [kind |-> "none", bindings |-> NoBindings]
Misuse            == [kind |-> "throws", bindings |-> NoBindings] \* invalid_argument

-----------------------------------------------------------------------------
\* Equal up to order, whatever list the terms were captured from.
same_multiset(lhs, rhs) == Sorted(lhs) = Sorted(rhs)

\* Mutant: a repeated wildcard takes its latest value.
BindLatest(s, value, bindings) == Matched((s :> value) @@ bindings)

\* A wildcard's first occurrence binds it, a later one must agree.
Bind(s, value, bindings) ==
    IF s \notin DOMAIN bindings THEN Matched((s :> value) @@ bindings)
    ELSE LET bound == bindings[s] IN
         IF /\ bound.sequence = value.sequence
            /\ IF value.sequence THEN same_multiset(bound.terms, value.terms) ELSE bound = value
         THEN Matched(bindings)
         ELSE NoMatch

bind_sequence(s, captured, bindings) ==
    IF wildcard_kind(s) = "AtLeastOne" /\ captured = <<>>
    THEN NoMatch
    ELSE Bind(s, Many(captured), bindings)

RECURSIVE match_impl(_, _, _)

\* One pattern after the other, each with the bindings of those before it.
RECURSIVE match_in_order(_, _, _)
match_in_order(patterns, targets, bindings) ==
    IF patterns = <<>> THEN Matched(bindings)
    ELSE LET first == match_impl(Head(patterns), Head(targets), bindings) IN
         IF first.kind = "match"
         THEN match_in_order(Tail(patterns), Tail(targets), first.bindings)
         ELSE first

\* Mutant: the search keeps its first choice for each operand.
RECURSIVE assign_greedily(_, _, _, _, _, _)
assign_greedily(normals, pool, taken, from, bindings, attempts) ==
    LET places == {i \in from .. Len(pool) : i \notin ToSet(taken)}
        i == CHOOSE j \in places : \A k \in places : j <= k
        probe == match_impl(normals[Len(taken) + 1], pool[i], bindings)
    IN IF Len(taken) = Len(normals)
       THEN [kind |-> "match", bindings |-> bindings, taken |-> taken, attempts |-> attempts]
       ELSE IF places = {} \/ attempts = 0
       THEN [kind |-> "none", bindings |-> NoBindings, taken |-> <<>>, attempts |-> attempts]
       ELSE IF probe.kind = "throws"
       THEN [kind |-> "throws", bindings |-> NoBindings, taken |-> <<>>, attempts |-> 0]
       ELSE IF probe.kind = "none"
       THEN assign_greedily(normals, pool, taken, i + 1, bindings, attempts - 1)
       ELSE assign_greedily(normals, pool, Append(taken, i), 1, probe.bindings, attempts - 1)

\* assign_normals: the first len(taken) normals have taken their places in the
\* pool; the next one tries the free places from `from' on.  All levels of the
\* search spend the same attempts.
RECURSIVE assign_normals(_, _, _, _, _, _)
assign_normals(normals, pool, taken, from, bindings, attempts) ==
    LET places == {i \in from .. Len(pool) : i \notin ToSet(taken)}
        i == CHOOSE j \in places : \A k \in places : j <= k
        probe == match_impl(normals[Len(taken) + 1], pool[i], bindings)
        deeper == assign_normals(normals, pool, Append(taken, i), 1, probe.bindings, attempts - 1)
        Ends(kind) == [kind |-> kind, bindings |-> bindings, taken |-> taken,
                       attempts |-> attempts]
        Retry(left) == assign_normals(normals, pool, taken, i + 1, bindings, left)
    IN IF Len(taken) = Len(normals) THEN Ends("match")
       ELSE IF places = {} \/ attempts = 0 THEN Ends("none")
       ELSE IF probe.kind = "throws" THEN Ends("throws")
       ELSE IF probe.kind = "none" THEN Retry(attempts - 1)
       ELSE IF deeper.kind = "none" THEN Retry(deeper.attempts)
       ELSE deeper

\* Of the assignments of operands only the first is taken to the wildcard that
\* captures the rest, and to the patterns that come after this list.
match_commutative(patterns, targets, bindings) ==
    LET wild     == SelectSeq(patterns, IsSequence)
        normals  == SelectSeq(patterns, LAMBDA p : ~IsSequence(p))
        assigned == assign_normals(normals, targets, <<>>, 1, bindings, MaxAttempts)
        free     == SetToSortSeq(DOMAIN targets \ ToSet(assigned.taken), <)
        leftover == [k \in DOMAIN free |-> targets[free[k]]]
    IN IF Len(wild) > 1 THEN Misuse
       ELSE IF Len(normals) > Len(targets) THEN NoMatch
       ELSE IF wild = <<>> /\ Len(normals) # Len(targets) THEN NoMatch
       ELSE IF assigned.kind = "throws" THEN Misuse
       ELSE IF assigned.kind = "none" THEN NoMatch
       ELSE IF wild = <<>> THEN Matched(assigned.bindings)
       ELSE bind_sequence(wild[1].sym, leftover, assigned.bindings)

match_positional_with_sequence(patterns, targets, bindings) ==
    LET wild   == {k \in DOMAIN patterns : IsSequence(patterns[k])}
        at     == CHOOSE k \in wild : TRUE
        middle == Len(targets) - Len(patterns) + 1
        fixed  == match_in_order(RemoveAt(patterns, at),
                                 SubSeq(targets, 1, at - 1)
                                   \o SubSeq(targets, at + middle, Len(targets)),
                                 bindings)
    IN IF Cardinality(wild) > 1 THEN Misuse
       ELSE IF wild = {}
       THEN IF Len(patterns) # Len(targets) THEN NoMatch
            ELSE match_in_order(patterns, targets, bindings)
       ELSE IF middle < 0 \/ (middle = 0 /\ wildcard_kind(patterns[at].sym) = "AtLeastOne")
       THEN NoMatch
       ELSE IF fixed.kind # "match" THEN fixed
       ELSE bind_sequence(patterns[at].sym, SubSeq(targets, at, at + middle - 1), fixed.bindings)

match_impl(p, t, bindings) ==
    IF p.tag = "Var" /\ is_wildcard(p.sym)
    THEN IF IsSequence(p) THEN Misuse ELSE Bind(p.sym, Single(t), bindings)
    ELSE IF p.tag # t.tag \/ p.num # t.num \/ p.sym # t.sym THEN NoMatch
    ELSE CASE p.tag \in {"Num", "Var"} -> Matched(bindings)
           [] p.tag = "Pow" -> match_in_order(p.args, t.args, bindings)
           [] p.tag \in Variadic \/ (p.tag = "Fun" /\ p.sym \in Symmetric) ->
                match_commutative(p.args, t.args, bindings)
           [] OTHER -> match_positional_with_sequence(p.args, t.args, bindings)

match(p, t) == match_impl(p, t, NoBindings)

-----------------------------------------------------------------------------
(* What a match is, without a search: the wildcards have values, fixed in  *)
(* advance, under which the pattern reads as the target.                   *)

IsCommutative(p) == p.tag \in Variadic \/ (p.tag = "Fun" /\ p.sym \in Symmetric)

Wildcards(p) == {u.sym : u \in {v \in Subterms(p) : v.tag = "Var" /\ is_wildcard(v.sym)}}

RECURSIVE Reads(_, _, _)
Reads(p, t, value) ==
    LET normals == {k \in DOMAIN p.args : ~IsSequence(p.args[k])}
        wild    == DOMAIN p.args \ normals
        Captures(rest) ==
            \A k \in wild :
                /\ value[p.args[k].sym].sequence
                /\ same_multiset(value[p.args[k].sym].terms, rest)
                /\ rest = <<>> => wildcard_kind(p.args[k].sym) = "AnyCount"
        \* normals[k] matches the operand at place[k], the wildcard takes the rest.
        Places  == {place \in [normals -> DOMAIN t.args] :
                      \A k, l \in normals : place[k] = place[l] => k = l}
        InOrder == {place \in Places :
                      \A k \in normals : \/ place[k] = k /\ \A w \in wild : k < w
                                         \/ place[k] = k + Len(t.args) - Len(p.args)
                                              /\ \A w \in wild : k > w}
        Rest(place) ==
            LET free == SetToSortSeq(DOMAIN t.args \ {place[k] : k \in normals}, <)
            IN [k \in DOMAIN free |-> t.args[free[k]]]
    IN IF p.tag = "Var" /\ is_wildcard(p.sym) THEN value[p.sym] = Single(t)
       ELSE /\ p.tag = t.tag /\ p.num = t.num /\ p.sym = t.sym
            /\ wild = {} => Len(p.args) = Len(t.args)
            /\ \E place \in IF IsCommutative(p) THEN Places ELSE InOrder :
                 /\ \A k \in normals : Reads(p.args[k], t.args[place[k]], value)
                 /\ Captures(Rest(place))

\* The lists a sequence wildcard can capture from terms of t.
Captured(t) ==
    {<<>>} \cup UNION {{[k \in 1 .. Cardinality(S) |->
                           u.args[SetToSortSeq(S, <)[k]]] : S \in SUBSET DOMAIN u.args}
                        : u \in Subterms(t)}

Values(p, t) ==
    {value \in [Wildcards(p) -> {Single(u) : u \in Subterms(t)} \cup {Many(s) : s \in Captured(t)}] :
        \A s \in Wildcards(p) : value[s].sequence <=> wildcard_kind(s) # "Single"}

\* Some values of the wildcards make the pattern read as the target.
HasMatch(p, t) == \E value \in Values(p, t) : Reads(p, t, value)

\* No list of operands shares a wildcard with the rest of the pattern, and a
\* wildcard that captures the rest of one stands alone: whatever assignment
\* the search tries first, nothing later depends on it.
ChoicesArePrivate(p) ==
    \A c \in Subterms(p) : IsCommutative(c) =>
        /\ \A s \in Wildcards(c) : Occurrences(s, p) = Occurrences(s, c)
        /\ \A k \in DOMAIN c.args : IsSequence(c.args[k]) => Occurrences(c.args[k].sym, p) = 1
=============================================================================
