--------------------------- MODULE SymbolRegistry ---------------------------
(***************************************************************************)
(* What symbol.hh promises of get_symbol() and symbol_name(): one          *)
(* dictionary from qualified names to definitions.  A call takes effect at *)
(* a single instant; the first definition of a name wins for ever, and its *)
(* id belongs to that name alone.  symbol.hh compares attribute sets.  Of   *)
(* lists that name an attribute twice, where the code departs from it      *)
(* (README, section 5), this dictionary promises less: they may conflict   *)
(* with a list of the same set.                                            *)
(***************************************************************************)
EXTENDS Naturals

CONSTANTS Threads, Requests, Ids,
          Name(_),     \* the qualified name a request is about
          Same(_, _),  \* two attribute lists are the same attribute set
          Repeats(_)   \* an attribute list names an attribute twice

VARIABLES defined,   \* defined[n]: id, attributes and site of the symbol n
          asking,    \* threads whose call has not taken effect yet
          request,
          outcome

vars == <<defined, asking, request, outcome>>

UsedIds == {defined[n].id : n \in DOMAIN defined}

Init ==
    /\ defined = [n \in {} |-> [id |-> 0]]
    /\ asking = {}
    /\ \E r \in Requests : request = [t \in Threads |-> r]
    /\ outcome = [t \in Threads |-> [kind |-> "none"]]

Ask(t) ==
    /\ t \notin asking
    /\ asking' = asking \cup {t}
    /\ \E r \in Requests : request' = [request EXCEPT ![t] = r]
    /\ outcome' = [outcome EXCEPT ![t] = [kind |-> "none"]]
    /\ UNCHANGED defined

Answer(t, o) ==
    /\ t \in asking
    /\ asking' = asking \ {t}
    /\ outcome' = [outcome EXCEPT ![t] = o]
    /\ UNCHANGED request

\* The call asks for the attribute set the name was defined with ...
Resolve(t) ==
    LET n == Name(request[t]) IN
    /\ n \in DOMAIN defined
    /\ Same(request[t].attributes, defined[n].attributes)
    /\ Answer(t, [kind |-> "symbol", id |-> defined[n].id])
    /\ UNCHANGED defined

\* ... or for another one, which is an error that names the first site.
Refuse(t) ==
    LET n == Name(request[t]) IN
    /\ n \in DOMAIN defined
    /\ \/ ~Same(request[t].attributes, defined[n].attributes)
       \/ Repeats(request[t].attributes) \/ Repeats(defined[n].attributes)
    /\ Answer(t, [kind |-> "conflict", location |-> defined[n].location])
    /\ UNCHANGED defined

Define(t) ==
    LET n == Name(request[t]) IN
    /\ n \notin DOMAIN defined
    /\ \E id \in Ids \ UsedIds :
         /\ Answer(t, [kind |-> "symbol", id |-> id])
         /\ defined' = [m \in DOMAIN defined \cup {n} |->
                          IF m = n THEN [id |-> id, attributes |-> request[t].attributes,
                                         location |-> t]
                          ELSE defined[m]]

\* Out of memory: the call fails and the dictionary is as it was.
Fail(t) ==
    /\ Answer(t, [kind |-> "bad_alloc"])
    /\ UNCHANGED defined

ReadName(t) ==
    /\ t \notin asking
    /\ \E n \in DOMAIN defined :
         outcome' = [outcome EXCEPT ![t] = [kind |-> "read", id |-> defined[n].id, name |-> n]]
    /\ UNCHANGED <<defined, asking, request>>

\* ... and so may a call that reads a symbol's name.
FailToRead(t) ==
    /\ t \notin asking
    /\ outcome' = [outcome EXCEPT ![t] = [kind |-> "bad_alloc"]]
    /\ UNCHANGED <<defined, asking, request>>

Next == \E t \in Threads :
          \/ Ask(t) \/ Resolve(t) \/ Refuse(t) \/ Define(t) \/ Fail(t)
          \/ ReadName(t) \/ FailToRead(t)

Spec == Init /\ [][Next]_vars

=============================================================================
