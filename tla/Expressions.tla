----------------------------- MODULE Expressions -----------------------------
(***************************************************************************)
(* A program that works on an expression: it reads it from a text, brings  *)
(* it to normal form, takes derivatives of it and prints it, in any order. *)
(***************************************************************************)
EXTENDS Text, Normalize, Series

CONSTANTS Texts,      \* what the program may be given to read
          Variables,  \* the symbols it differentiates by
          Points,     \* where the properties expand a term into its series
          MaxRead,    \* bound: of a text that is compared with the grammar
          MaxSize,    \* bound: of a term that is differentiated
          MaxTaken    \* bound: on the derivatives of one behaviour

VARIABLES text,   \* what was read or printed last
          term,   \* the expression
          before, \* the expression before the last call
          taken,  \* derivatives taken so far
          call    \* the last call

expressionVars == <<text, term, before, taken, call>>

ExpressionStart(read) ==
    /\ text = read
    /\ term = num(0, 1) /\ before = term
    /\ taken = 0
    /\ call = <<"start">>

ExpressionInit == \E read \in Texts : ExpressionStart(read)

\* parse() of what the program was given, or of what it printed.
ReadText ==
    /\ call[1] \in {"start", "print"}
    /\ IF parse(text) = <<>> THEN call' = <<"syntax_error">> /\ UNCHANGED term
       ELSE call' = <<"parse">> /\ term' = parse(text)[1]
    /\ before' = term
    /\ UNCHANGED <<text, taken>>

HasTerm == call[1] \notin {"start", "syntax_error", "print"}

Normal ==
    /\ HasTerm
    /\ term' = normalize(term)
    /\ call' = <<"normalize">>
    /\ before' = term
    /\ UNCHANGED <<text, taken>>

Differentiate(v) ==
    /\ HasTerm /\ Size(term) <= MaxSize /\ taken < MaxTaken
    /\ IF Differentiable(term)
       THEN term' = derivative(term, v) /\ call' = <<"derivative", v>>
       ELSE call' = <<"invalid_argument">> /\ UNCHANGED term
    /\ taken' = taken + 1
    /\ before' = term
    /\ UNCHANGED text

Written ==
    /\ HasTerm
    /\ text' = print(term)
    /\ call' = <<"print">>
    /\ before' = term
    /\ UNCHANGED <<term, taken>>

ExpressionNext == ReadText \/ Normal \/ (\E v \in Variables : Differentiate(v)) \/ Written

ExpressionSpec == ExpressionInit /\ [][ExpressionNext]_expressionVars

-----------------------------------------------------------------------------
(* Reading and printing.                                                   *)

\* A minus, a number and a ^ in a row, which parser.hh and parser.cc read
\* differently: the code's own comment has the minus belong to the number.
NegatedPower(ts) ==
    \E k \in 1 .. Len(ts) - 2 : ts[k] = <<"-">> /\ ts[k + 1][1] = "Number" /\ ts[k + 2] = <<"^">>

\* A name with a parenthesis behind it, a call or a factor by parser.hh.  The
\* code makes every one a call, its own example x(y+1) of a product included.
CallOrProduct(ts) == \E k \in 1 .. Len(ts) - 1 : ts[k][1] = "Ident" /\ ts[k + 1] = <<"(">>

\* The parser accepts a text exactly when the grammar of parser.hh has a
\* reading for it, and then returns such a reading, the only one but for names
\* that may be called or multiplied: no token is dropped, no operator takes too
\* much or too little (parse_expression, parse_unary).
FollowsGrammar ==
    call[1] \in {"parse", "syntax_error"} /\ Len(text) <= MaxRead /\ ~NegatedPower(text) =>
        \E readings \in {Sums(text)} :
           IF call = <<"parse">>
           THEN term \in readings /\ (CallOrProduct(text) \/ readings = {term})
           ELSE readings = {}

\* What was printed parses to the very same term ("round-trip guarantee",
\* printer.hh:12), for terms without fractions and without the sums and
\* products of fewer than two operands that no text stands for.
HasText(t) == \A u \in Subterms(t) : /\ u.num[2] = 1
                                     /\ u.tag \in Variadic => Len(u.args) >= 2

ParsesBack == call = <<"print">> /\ HasText(term) => parse(text) = <<term>>

-----------------------------------------------------------------------------
(* Meaning.                                                                *)

\* The term with 1 for the variables other than v.
RECURSIVE Fixed(_, _)
Fixed(t, v) == IF t.tag = "Var" /\ t.sym # v THEN num(1, 1)
               ELSE Rebuilt(t, [k \in DOMAIN t.args |-> Fixed(t.args[k], v)])

Expansion(t, v, q) == taylor_series(Fixed(t, v), v, q)

\* Normalizing keeps the function: wherever the term had a series, the normal
\* form has the same one (normalize(), all its rules together).
NormalizeKeepsSeries ==
    call = <<"normalize">> /\ term # before =>
      \A v \in Variables, q \in Points :
        Expansion(before, v, q) \in {Nothing, Expansion(term, v, q)}

\* Exponents by which the power rule applies and leads to no pole.
PlainExponents(t) ==
    \A u \in Subterms(t) : u.tag = "Pow" => u.args[2].tag = "Num" /\ u.args[2].num # Zero

\* The symbolic derivative and the automatic one agree: the derivative's series
\* is the derivative of the series, in every case of the power rule
\* (derivative_pow) and through products and calls.
DerivativeMatchesSeries ==
    call[1] = "derivative" =>
      \A q \in Points :
        LET s == Expansion(before, call[2], q)
            d == Expansion(term, call[2], q)
        IN s # Nothing => IF d = Nothing THEN ~PlainExponents(before)
                          ELSE \A k \in 0 .. Order - 1 : d[k] = Times(<<k + 1, 1>>, s[k + 1])

=============================================================================
