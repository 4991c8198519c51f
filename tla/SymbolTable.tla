---------------------------- MODULE SymbolTable ----------------------------
(***************************************************************************)
(* The process-wide symbol table (src/src/symbol_table/symbol_table.cc):   *)
(* get_symbol() called from several threads, one step per access to shared *)
(* memory.  Readers load the atomic snapshot pointer without a lock;       *)
(* writers copy the snapshot under write_mutex_ and publish the copy.      *)
(*                                                                         *)
(* A string is the sequence of its pieces between the "::" separators, so  *)
(* "a::b" is <<"a", "b">> and joining two strings with "::" is \o.         *)
(*                                                                         *)
(* The C++ memory model is explicit.  snapshots is the modification order  *)
(* of snapshot_, and view[t] is the newest store thread t is known to have *)
(* seen: a load may return any store from view[t] on, so it may be stale.  *)
(* Locking write_mutex_ joins the view the last unlock left in mutexView.  *)
(***************************************************************************)
EXTENDS Naturals, Sequences, FiniteSets

CONSTANTS Threads,          \* the threads of the process
          Pairs,            \* <<namespace, name>> arguments of get_symbol
          AttributeLists,   \* its attribute arguments, sequences of attributes
          Requests,         \* the calls of get_symbol the program makes
          SymbolAttribute,  \* Symmetric, Antisymmetric, Linear
          MaxFailures,      \* bound: allocations that may fail in a behaviour
          NoThread          \* write_mutex_ is free

ASSUME NoThreadIsNotAThread == NoThread \notin Threads
ASSUME SomethingToAskFor   == Requests # {}
ASSUME RequestsAreTyped    == Requests \subseteq [pair : Pairs, attributes : AttributeLists]
ASSUME MaxFailuresIsNat    == MaxFailures \in Nat
ASSUME AttributesAreListed == AttributeLists \subseteq Seq(SymbolAttribute)
ASSUME FinitelyManyPairs   == IsFiniteSet(Pairs)

VARIABLES snapshots,  \* every Snapshot published so far, oldest first
          view,       \* view[t]: index of the newest snapshot t has seen
          owner,      \* the thread inside insert_or_validate's lock_guard
          mutexView,  \* the view the last unlock of write_mutex_ released
          pc,         \* pc[t]: where thread t is in get_symbol
          request,    \* request[t]: arguments of the call t is running
          next,       \* next[t]: the copy t is about to publish
          outcome,    \* outcome[t]: what t's last call returned or threw
          handles,    \* handles[t]: Symbols t holds, with what was asked for
          failures    \* allocations that have failed (bounded)

vars == <<snapshots, view, owner, mutexView, pc, request, next, outcome, handles, failures>>

-----------------------------------------------------------------------------
qualify(pair) == pair[1] \o pair[2]

Names == {qualify(p) : p \in Pairs}

Entry == [name : Names, attributes : AttributeLists, location : Threads]

\* index_by_qualified_name as a total function: 0 for a name that is absent,
\* else the position of its entry.  C++ ids count from 0, positions from 1.
Snapshot == [entries : Seq(Entry), index : [Names -> Nat]]

EmptySnapshot == [entries |-> <<>>, index |-> [n \in Names |-> 0]]

Finds(s, n) == s.index[n] # 0
IdOf(s, n) == s.index[n] - 1
EntryOf(s, id) == s.entries[id + 1]
IsValidId(s, id) == id + 1 \in DOMAIN s.entries

Occurrences(list, a) == Cardinality({i \in DOMAIN list : list[i] = a})

\* Mutant: the lists are compared as they come, without being sorted.
SameOrder(requested, existing) == requested = existing

same_attributes(requested, existing) ==
    /\ Len(requested) = Len(existing)
    /\ \A a \in SymbolAttribute : Occurrences(requested, a) = Occurrences(existing, a)

NoOutcome       == [kind |-> "none"]
Returned(id)    == [kind |-> "symbol", id |-> id]
Conflict(site)  == [kind |-> "conflict", location |-> site]
BadAlloc        == [kind |-> "bad_alloc"]
Read(id, name)  == [kind |-> "read", id |-> id, name |-> name]
OutOfRange      == [kind |-> "out_of_range"]

Outcome == {NoOutcome, BadAlloc, OutOfRange}
             \cup [kind : {"symbol"}, id : Nat]
             \cup [kind : {"conflict"}, location : Threads]
             \cup [kind : {"read"}, id : Nat, name : Names]

Latest == snapshots[Len(snapshots)]

NameOf(t) == qualify(request[t].pair)

\* What a lookup that found the name returns or throws.
Validate(s, t) ==
    LET id == IdOf(s, NameOf(t)) IN
    IF same_attributes(request[t].attributes, EntryOf(s, id).attributes)
    THEN Returned(id)
    ELSE Conflict(EntryOf(s, id).location)

\* Mutant: the id is read from the vector after push_back.
IdAfterPush(s, t) ==
    [entries |-> Append(s.entries, [name |-> NameOf(t), attributes |-> request[t].attributes,
                                    location |-> t]),
     index   |-> [s.index EXCEPT ![NameOf(t)] = Len(s.entries) + 2]]

\* The copy with one entry more; emplace keeps a key that is already there.
Appended(s, t) ==
    LET n == NameOf(t)
        e == [name |-> n, attributes |-> request[t].attributes, location |-> t]
    IN  [entries |-> Append(s.entries, e),
         index   |-> [s.index EXCEPT ![n] = IF @ # 0 THEN @ ELSE Len(s.entries) + 1]]

\* A call that returns a Symbol leaves its thread holding the handle.
Deliver(t, result) ==
    handles' = IF result.kind = "symbol"
               THEN [handles EXCEPT ![t] = @ \cup {[id |-> result.id, pair |-> request[t].pair]}]
               ELSE handles

\* Mutant: loads that nothing orders after what their thread has seen.
AnyStore(t) == 1 .. Len(snapshots)

\* The stores of snapshot_ a load by t may return.
Loadable(t) == view[t] .. Len(snapshots)

\* The view after synchronising with a thread whose view was w.
Joined(v, w) == IF v < w THEN w ELSE v

-----------------------------------------------------------------------------
TypeOK ==
    /\ snapshots \in Seq(Snapshot) /\ snapshots # <<>>
    /\ view \in [Threads -> 1 .. Len(snapshots)]
    /\ owner \in Threads \cup {NoThread}
    /\ mutexView \in 1 .. Len(snapshots)
    /\ pc \in [Threads -> {"idle", "fast", "lock", "check", "publish", "unlock"}]
    /\ request \in [Threads -> Requests]
    /\ next \in [Threads -> Snapshot]
    /\ outcome \in [Threads -> Outcome]
    /\ handles \in [Threads -> SUBSET [id : Nat, pair : Pairs]]
    /\ failures \in 0 .. MaxFailures

Init ==
    /\ snapshots = <<EmptySnapshot>>
    /\ view = [t \in Threads |-> 1]
    /\ owner = NoThread
    /\ mutexView = 1
    /\ pc = [t \in Threads |-> "idle"]
    /\ request = [t \in Threads |-> CHOOSE r \in Requests : TRUE]
    /\ next = [t \in Threads |-> EmptySnapshot]
    /\ outcome = [t \in Threads |-> NoOutcome]
    /\ handles = [t \in Threads |-> {}]
    /\ failures = 0

\* A thread calls get_symbol(namespace, name, attributes).
get_symbol(t) ==
    /\ pc[t] = "idle"
    /\ \E r \in Requests : request' = [request EXCEPT ![t] = r]
    /\ pc' = [pc EXCEPT ![t] = "fast"]
    /\ outcome' = [outcome EXCEPT ![t] = NoOutcome]
    /\ UNCHANGED <<snapshots, view, owner, mutexView, next, handles, failures>>

\* The lock-free lookup: one acquire load, then reads of an immutable object.
FastHit(t) ==
    /\ pc[t] = "fast"
    /\ \E v \in Loadable(t) :
         /\ Finds(snapshots[v], NameOf(t))
         /\ view' = [view EXCEPT ![t] = v]
         /\ outcome' = [outcome EXCEPT ![t] = Validate(snapshots[v], t)]
         /\ Deliver(t, Validate(snapshots[v], t))
    /\ pc' = [pc EXCEPT ![t] = "idle"]
    /\ UNCHANGED <<snapshots, owner, mutexView, request, next, failures>>

FastMiss(t) ==
    /\ pc[t] = "fast"
    /\ \E v \in Loadable(t) :
         /\ ~Finds(snapshots[v], NameOf(t))
         /\ view' = [view EXCEPT ![t] = v]
    /\ pc' = [pc EXCEPT ![t] = "lock"]
    /\ UNCHANGED <<snapshots, owner, mutexView, request, next, outcome, handles, failures>>

\* lock_guard's constructor: sees everything before the previous unlock.
Lock(t) ==
    /\ pc[t] = "lock"
    /\ owner = NoThread
    /\ owner' = t
    /\ view' = [view EXCEPT ![t] = Joined(@, mutexView)]
    /\ pc' = [pc EXCEPT ![t] = "check"]
    /\ UNCHANGED <<snapshots, mutexView, request, next, outcome, handles, failures>>

\* The re-check under the lock, through a relaxed load.
RecheckHit(t) ==
    /\ pc[t] = "check"
    /\ \E v \in Loadable(t) :
         /\ Finds(snapshots[v], NameOf(t))
         /\ view' = [view EXCEPT ![t] = v]
         /\ outcome' = [outcome EXCEPT ![t] = Validate(snapshots[v], t)]
    /\ pc' = [pc EXCEPT ![t] = "unlock"]
    /\ UNCHANGED <<snapshots, owner, mutexView, request, next, handles, failures>>

\* ... which misses: the thread builds the snapshot it is going to publish.
RecheckMiss(t) ==
    /\ pc[t] = "check"
    /\ \E v \in Loadable(t) :
         /\ ~Finds(snapshots[v], NameOf(t))
         /\ view' = [view EXCEPT ![t] = v]
         /\ next' = [next EXCEPT ![t] = Appended(snapshots[v], t)]
    /\ pc' = [pc EXCEPT ![t] = "publish"]
    /\ UNCHANGED <<snapshots, owner, mutexView, request, outcome, handles, failures>>

\* An allocation throws bad_alloc and t goes on at label.
RunsOut(t, label) ==
    /\ failures < MaxFailures
    /\ failures' = failures + 1
    /\ outcome' = [outcome EXCEPT ![t] = BadAlloc]
    /\ pc' = [pc EXCEPT ![t] = label]
    /\ UNCHANGED <<snapshots, owner, mutexView, request, handles>>

\* qualify() cannot build the string, before anything is looked up.
QualifyFails(t) ==
    /\ pc[t] = "fast"
    /\ RunsOut(t, "idle")
    /\ UNCHANGED <<view, next>>

\* A lookup by t in s finds the name, and answering takes memory: the copies
\* same_attributes() sorts, unless both are empty, or throw_conflict()'s message.
AnswerAllocates(s, t) ==
    /\ Finds(s, NameOf(t))
    /\ \/ request[t].attributes # <<>>
       \/ EntryOf(s, IdOf(s, NameOf(t))).attributes # <<>>

\* ... which it does not get, without the lock ...
FastHitFails(t) ==
    /\ pc[t] = "fast"
    /\ \E v \in Loadable(t) :
         /\ AnswerAllocates(snapshots[v], t)
         /\ view' = [view EXCEPT ![t] = v]
    /\ RunsOut(t, "idle")
    /\ UNCHANGED next

\* ... or under it, where lock_guard's destructor is still to run.
RecheckHitFails(t) ==
    /\ pc[t] = "check"
    /\ \E v \in Loadable(t) :
         /\ AnswerAllocates(snapshots[v], t)
         /\ view' = [view EXCEPT ![t] = v]
    /\ RunsOut(t, "unlock")
    /\ UNCHANGED next

\* make_unique, push_back or emplace throws while the copy is being built:
\* unique_ptr frees the copy and nothing was published.
CopyFails(t) ==
    /\ pc[t] = "publish"
    /\ next' = [next EXCEPT ![t] = EmptySnapshot]
    /\ RunsOut(t, "unlock")
    /\ UNCHANGED view

\* The release store: the copy becomes the newest snapshot.
Publish(t) ==
    /\ pc[t] = "publish"
    /\ snapshots' = Append(snapshots, next[t])
    /\ view' = [view EXCEPT ![t] = Len(snapshots) + 1]
    /\ next' = [next EXCEPT ![t] = EmptySnapshot]
    /\ outcome' = [outcome EXCEPT ![t] = Returned(Len(next[t].entries) - 1)]
    /\ pc' = [pc EXCEPT ![t] = "unlock"]
    /\ UNCHANGED <<owner, mutexView, request, handles, failures>>

\* Mutant: a manual unlock, skipped when an exception leaves the function.
UnlockUnlessThrown(t) ==
    /\ pc[t] = "unlock"
    /\ owner' = IF outcome[t].kind = "symbol" THEN NoThread ELSE owner
    /\ mutexView' = view[t]
    /\ Deliver(t, outcome[t])
    /\ pc' = [pc EXCEPT ![t] = "idle"]
    /\ UNCHANGED <<snapshots, view, request, next, outcome, failures>>

\* lock_guard's destructor, on every way out of insert_or_validate; then
\* get_symbol returns or the exception leaves it.
Unlock(t) ==
    /\ pc[t] = "unlock"
    /\ owner' = NoThread
    /\ mutexView' = view[t]
    /\ Deliver(t, outcome[t])
    /\ pc' = [pc EXCEPT ![t] = "idle"]
    /\ UNCHANGED <<snapshots, view, request, next, outcome, failures>>

\* symbol_name() and symbol_attributes(): entries.at(id) of a loaded snapshot.
symbol_name(t) ==
    /\ pc[t] = "idle"
    /\ \E h \in handles[t], v \in Loadable(t) :
         /\ view' = [view EXCEPT ![t] = v]
         /\ outcome' = [outcome EXCEPT ![t] =
                          IF IsValidId(snapshots[v], h.id)
                          THEN Read(h.id, EntryOf(snapshots[v], h.id).name)
                          ELSE OutOfRange]
    /\ UNCHANGED <<snapshots, owner, mutexView, pc, request, next, handles, failures>>

\* ... whose string or vector cannot be copied for the caller.
ReadFails(t) ==
    /\ pc[t] = "idle"
    /\ handles[t] # {}
    /\ \E v \in Loadable(t) : view' = [view EXCEPT ![t] = v]
    /\ RunsOut(t, "idle")
    /\ UNCHANGED next

\* The program hands a Symbol to another thread through something that
\* synchronises (a join, a queue): u then sees all that t had seen.
HandOver(t, u) ==
    /\ pc[t] = "idle" /\ pc[u] = "idle"
    /\ \E h \in handles[t] \ handles[u] : handles' = [handles EXCEPT ![u] = @ \cup {h}]
    /\ view' = [view EXCEPT ![u] = Joined(@, view[t])]
    /\ UNCHANGED <<snapshots, owner, mutexView, pc, request, next, outcome, failures>>

\* One step of a call that is already running.
Step(t) == \/ FastHit(t) \/ FastMiss(t) \/ Lock(t) \/ RecheckHit(t) \/ RecheckMiss(t)
           \/ QualifyFails(t) \/ FastHitFails(t) \/ RecheckHitFails(t) \/ CopyFails(t)
           \/ Publish(t) \/ Unlock(t)

Next == \/ \E t \in Threads : get_symbol(t) \/ Step(t) \/ symbol_name(t) \/ ReadFails(t)
        \/ \E t, u \in Threads : HandOver(t, u)

Spec == Init /\ [][Next]_vars

\* A runnable thread is scheduled, and a free mutex is given to some waiter
\* that stays in line; std::mutex promises no order among waiters.
FairSpec == Spec /\ \A t \in Threads : WF_vars(Step(t))

-----------------------------------------------------------------------------
(* Properties *)

\* Two handles are equal exactly when the qualified names they were obtained
\* for are: Symbol::operator== compares ids, whatever threads raced for them.
OneHandlePerName ==
    \A t, u \in Threads : \A h \in handles[t], g \in handles[u] :
        h.id = g.id <=> qualify(h.pair) = qualify(g.pair)

\* No registration is lost: the copy a writer is about to publish is the
\* newest snapshot plus its own entry, although it was read by a relaxed load.
NoLostRegistration ==
    \A t \in Threads : pc[t] = "publish" =>
        /\ owner = t
        /\ next[t].entries = Append(Latest.entries, EntryOf(next[t], Len(Latest.entries)))
        /\ ~Finds(Latest, NameOf(t))

\* The attribute set of a list: "order does not matter".
AttributeSet(list) == {list[i] : i \in DOMAIN list}

SameSet(a, b) == AttributeSet(a) = AttributeSet(b)

RepeatsAttribute(list) == \E i, j \in DOMAIN list : i # j /\ list[i] = list[j]

Whole(s) ==
    /\ \A n \in Names : Finds(s, n) =>
          IsValidId(s, IdOf(s, n)) /\ EntryOf(s, IdOf(s, n)).name = n
    /\ \A i \in DOMAIN s.entries : s.index[s.entries[i].name] = i

\* Every published snapshot is self-contained: its index maps each of its
\* names, and nothing else, to the one entry that carries it.
SnapshotsAreWhole == \A v \in DOMAIN snapshots : Whole(snapshots[v])

Keeps(s, u) ==
    \A i \in DOMAIN s.entries : i \in DOMAIN u.entries /\ u.entries[i] = s.entries[i]

\* First definition wins: no step of any thread changes or drops an entry, and
\* an id never comes to mean another symbol ("never reused").
FirstDefinitionWins == [][Keeps(Latest, Latest')]_vars

\* A call returns, though readers never wait for it and the mutex is unfair:
\* a thread asks for the lock only while a name is still undefined.
EveryCallReturns == \A t \in Threads : pc[t] # "idle" ~> pc[t] = "idle"

-----------------------------------------------------------------------------
(* The inductive invariant behind the safety properties. *)

\* Exactly the thread between lock_guard's constructor and destructor owns the
\* mutex, and it has seen every snapshot there is; so has the last unlock.
HolderSeesLatest ==
    /\ \A t \in Threads : pc[t] \in {"check", "publish", "unlock"} <=> owner = t
    /\ \A t \in Threads : owner = t => view[t] = Len(snapshots)
    /\ owner = NoThread => mutexView = Len(snapshots)

\* A later snapshot keeps every entry of an earlier one in its place.
SnapshotsGrow ==
    \A v, w \in DOMAIN snapshots : v <= w => Keeps(snapshots[v], snapshots[w])

BuiltOnLatest ==
    \A t \in Threads : pc[t] = "publish" =>
        ~Finds(Latest, NameOf(t)) /\ next[t] = Appended(Latest, t)

Knows(s, id, n) == IsValidId(s, id) /\ EntryOf(s, id).name = n

\* A thread that holds a handle, or is about to, has seen its entry.
HandlesAreKnown ==
    \A t \in Threads :
        /\ \A h \in handles[t] : Knows(snapshots[view[t]], h.id, qualify(h.pair))
        /\ pc[t] = "unlock" /\ outcome[t].kind = "symbol" =>
             Knows(snapshots[view[t]], outcome[t].id, NameOf(t))

IInv ==
    /\ TypeOK
    /\ SnapshotsAreWhole
    /\ HolderSeesLatest
    /\ SnapshotsGrow
    /\ BuiltOnLatest
    /\ HandlesAreKnown

-----------------------------------------------------------------------------
(* The abstract specification it implements. *)

\* The dictionary the newest snapshot stands for.
DefinedNow ==
    [n \in {m \in Names : Finds(Latest, m)} |->
        LET e == EntryOf(Latest, IdOf(Latest, n)) IN
        [id |-> IdOf(Latest, n), attributes |-> e.attributes, location |-> e.location]]

Registry == INSTANCE SymbolRegistry WITH
    Ids <- 0 .. Cardinality(Names) - 1,
    Name <- LAMBDA r : qualify(r.pair),
    Same <- SameSet,
    Repeats <- RepeatsAttribute,
    defined <- DefinedNow,
    asking <- {t \in Threads : pc[t] \in {"fast", "lock", "check", "publish"}}

\* Stale reads, the race for the lock and the two-step registration cannot be
\* told from a dictionary whose operations are atomic.
ImplementsRegistry == Registry!Spec

=============================================================================
