------------------------------ MODULE TermBank ------------------------------
(***************************************************************************)
(* What an AtomStore promises its users (atom.hh): a bank of terms in      *)
(* which a handle stands for one term for ever, a term has one handle, and *)
(* sums and products are bags of operands, never nested in their own kind. *)
(*                                                                         *)
(* A term is <<tag, payload, operands>>: a bag of terms for Add and Mul, a *)
(* sequence of terms for Pow and Fun, empty for Num and Var.               *)
(***************************************************************************)
EXTENDS Naturals, Sequences, Bags

CONSTANTS Handles,    \* what a builder may return
          NoHandle,   \* the answer of a builder that threw
          Requests(_) \* [tag, payload, args] requests over a set of handles

Variadic == {"Add", "Mul"}

VARIABLES bank,  \* bank[h]: the term of handle h, for the handles given so far
          call   \* the last request and its answer, [request, slot]

bankVars == <<bank, call>>

Issued == DOMAIN bank

Terms == {bank[h] : h \in Issued}

-----------------------------------------------------------------------------
\* The operand bag of a sum or product: nested ones of the same tag dissolve.
OperandBag(tag, args) ==
    LET operands(h) == IF bank[h][1] = tag THEN bank[h][3] ELSE SetToBag({bank[h]})
        sum[k \in 0 .. Len(args)] ==
            IF k = 0 THEN EmptyBag ELSE sum[k - 1] (+) operands(args[k])
    IN sum[Len(args)]

Meaning(request) ==
    <<request.tag, request.payload,
      IF request.tag \in Variadic
        THEN OperandBag(request.tag, request.args)
        ELSE [k \in DOMAIN request.args |-> bank[request.args[k]]]>>

Init ==
    /\ bank = [h \in {} |-> NoHandle]
    /\ call = [request |-> [tag |-> "none", payload |-> 0, args |-> <<>>], slot |-> NoHandle]

\* The request is answered with the one handle of its term, a new one if it has none.
Build(request) ==
    LET t == Meaning(request) IN
    \E h \in Handles :
        /\ call' = [request |-> request, slot |-> h]
        /\ \/ h \in Issued /\ t = bank[h] /\ UNCHANGED bank
           \/ /\ t \notin Terms /\ h \notin Issued
              /\ bank' = [i \in Issued \cup {h} |-> IF i = h THEN t ELSE bank[i]]

\* Out of memory: the request has no effect on any term or handle.
Fail(request) ==
    /\ call' = [request |-> request, slot |-> NoHandle]
    /\ UNCHANGED bank

Next == \E request \in Requests(Issued) : Build(request) \/ Fail(request)

Spec == Init /\ [][Next]_bankVars
=============================================================================
