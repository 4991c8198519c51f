---------------------------- MODULE HookRegistry ----------------------------
(***************************************************************************)
(* The registry of derivative hooks (src/src/calculus_core/derivative.cc): *)
(* derivative() and register_derivative_hook() called from several threads *)
(* and from inside hooks.                                                  *)
(*                                                                         *)
(* Of an expression only the heads of its function calls matter here, in   *)
(* the order derivative_impl meets them.  A thread's calls form a stack of *)
(* frames: a hook may itself differentiate or register.                    *)
(***************************************************************************)
EXTENDS Naturals, Sequences, FiniteSets

CONSTANTS Threads, Heads, UserHooks,
          Builtins,     \* <<sin, cos, exp, ln>>, in order of registration
          MayConflict,  \* builtin symbols the program may have registered with attributes
          Expressions,  \* arguments of derivative(), as sequences of heads
          Registrations, \* <<head, hook>> arguments of register_derivative_hook()
          Body,         \* Body[h]: the call user hook h makes before it returns
          WrongCount,   \* user hooks that return the wrong number of partials
          MaxCalls,     \* bound: calls made from outside hooks
          NoHook, NoThread

\* The builtin hook of a head is named by the head.
HookValues == UserHooks \cup {Builtins[i] : i \in DOMAIN Builtins}

\* What a hook does: nothing of interest, differentiate, or register.
Nothing              == [call |-> "nothing"]
Differentiate(heads) == [call |-> "derivative", heads |-> heads]
Register(head, hook) == [call |-> "register", head |-> head, hook |-> hook]

ASSUME BuiltinsAreHeads ==
    /\ Builtins \in Seq(Heads)
    /\ MayConflict \subseteq {Builtins[i] : i \in DOMAIN Builtins}
ASSUME ArgumentsAreHeads ==
    /\ Expressions \subseteq Seq(Heads)
    /\ Registrations \subseteq Heads \X UserHooks
ASSUME BodiesAreCalls ==
    \A h \in UserHooks :
        \/ Body[h].call = "nothing"
        \/ Body[h].call = "derivative" /\ Body[h].heads \in Seq(Heads)
        \/ Body[h].call = "register" /\ Body[h].head \in Heads /\ Body[h].hook \in UserHooks
ASSUME AbsentIsNoValue == NoHook \notin HookValues /\ NoThread \notin Threads

VARIABLES hooks,    \* hooks[head]: the map, NoHook where there is none
          writer,   \* the thread that holds mutex_ exclusively
          readers,  \* the threads that hold it shared
          guard,    \* the static of ensure_builtin_hooks_registered
          stack,    \* stack[t]: frames of t's calls, innermost last
          outcome,  \* outcome[t]: how t's last outermost call ended
          intended, \* intended[head]: the hook the program registered last
          calls,    \* calls made so far (bounded)
          conflicting \* the builtin symbols registered with attributes before

vars == <<hooks, writer, readers, guard, stack, outcome, intended, calls, conflicting>>

-----------------------------------------------------------------------------
Frame == [at : {"ensure", "init", "visit", "read", "hook", "returning", "set", "write"},
          heads : Seq(Heads), hook : HookValues \cup {NoHook}]

\* The guard of a function-local static: its initialisation has not started
\* (or has thrown), is run by one thread, or is done.
Guard == [state : {"fresh", "running", "done"}, by : Threads \cup {NoThread},
          next : 1 .. Len(Builtins) + 1]

Unstarted == [state |-> "fresh", by |-> NoThread, next |-> 1]

TypeOK ==
    /\ hooks \in [Heads -> HookValues \cup {NoHook}]
    /\ writer \in Threads \cup {NoThread}
    /\ readers \in SUBSET Threads
    /\ guard \in Guard
    /\ stack \in [Threads -> Seq(Frame)]
    /\ outcome \in [Threads -> {"none", "returned", "no hook", "wrong count", "conflict"}]
    /\ intended \in [Heads -> UserHooks \cup {NoHook}]
    /\ calls \in 0 .. MaxCalls
    /\ conflicting \subseteq MayConflict

Init ==
    /\ hooks = [f \in Heads |-> NoHook]
    /\ writer = NoThread
    /\ readers = {}
    /\ guard = Unstarted
    /\ stack = [t \in Threads |-> <<>>]
    /\ outcome = [t \in Threads |-> "none"]
    /\ intended = [f \in Heads |-> NoHook]
    /\ calls = 0
    /\ conflicting \in SUBSET MayConflict

At(t, where) == stack[t] # <<>> /\ stack[t][Len(stack[t])].at = where

Top(t) == stack[t][Len(stack[t])]

Head1(t) == Head(Top(t).heads)

DerivativeFrame(heads)    == [at |-> "ensure", heads |-> heads, hook |-> NoHook]
RegisterFrame(head, hook) == [at |-> "set", heads |-> <<head>>, hook |-> hook]

\* t's stack with its innermost frame replaced, and with one frame more or less.
Retop(t, frame)       == [stack EXCEPT ![t][Len(stack[t])] = frame]
Push(t, frame, inner) == [stack EXCEPT ![t] = [@ EXCEPT ![Len(@)] = frame] \o <<inner>>]
Pop(t)                == [stack EXCEPT ![t] = SubSeq(@, 1, Len(@) - 1)]

Goto(t, where) == [Top(t) EXCEPT !.at = where]

\* An exception leaves every frame of the thread.
Throw(t, what) ==
    /\ stack' = [stack EXCEPT ![t] = <<>>]
    /\ outcome' = [outcome EXCEPT ![t] = what]

Return(t) ==
    /\ stack' = Pop(t)
    /\ outcome' = IF Len(stack[t]) = 1 THEN [outcome EXCEPT ![t] = "returned"] ELSE outcome

-----------------------------------------------------------------------------
\* The program calls one of the two functions.
Call(t) ==
    /\ stack[t] = <<>>
    /\ calls < MaxCalls
    /\ calls' = calls + 1
    /\ outcome' = [outcome EXCEPT ![t] = "none"]
    /\ UNCHANGED <<hooks, writer, readers, guard, intended, conflicting>>

derivative(t) ==
    /\ Call(t)
    /\ \E heads \in Expressions : stack' = [stack EXCEPT ![t] = <<DerivativeFrame(heads)>>]

register_derivative_hook(t) ==
    /\ Call(t)
    /\ \E r \in Registrations : stack' = [stack EXCEPT ![t] = <<RegisterFrame(r[1], r[2])>>]

\* Mutant: a plain flag, which callers that come second do not wait for.
EnsureWithoutWaiting(t) ==
    /\ At(t, "ensure")
    /\ IF guard.state = "fresh"
       THEN /\ guard' = [state |-> "running", by |-> t, next |-> 1]
            /\ stack' = Retop(t, Goto(t, "init"))
       ELSE stack' = Retop(t, Goto(t, "visit")) /\ UNCHANGED guard
    /\ UNCHANGED <<hooks, writer, readers, outcome, intended, calls, conflicting>>

\* ensure_builtin_hooks_registered(): one thread runs the initialiser, those
\* that come while it does wait.
Ensure(t) ==
    /\ At(t, "ensure")
    /\ guard.state # "running"
    /\ IF guard.state = "fresh"
       THEN /\ guard' = [state |-> "running", by |-> t, next |-> 1]
            /\ stack' = Retop(t, Goto(t, "init"))
       ELSE stack' = Retop(t, Goto(t, "visit")) /\ UNCHANGED guard
    /\ UNCHANGED <<hooks, writer, readers, outcome, intended, calls, conflicting>>

\* Mutant: an exception in the initialiser leaves it marked as done.
RegisterBuiltinSwallows(t) ==
    /\ At(t, "init") /\ guard.next <= Len(Builtins)
    /\ LET f == Builtins[guard.next] IN
       IF f \in conflicting
       THEN guard' = [guard EXCEPT !.state = "done"] /\ Throw(t, "conflict")
       ELSE /\ guard' = [guard EXCEPT !.next = @ + 1]
            /\ stack' = Push(t, Top(t), RegisterFrame(f, f))
            /\ UNCHANGED outcome
    /\ UNCHANGED <<hooks, writer, readers, intended, calls, conflicting>>

\* register_builtin_hooks(): the next builtin's symbol, then its hook.
RegisterBuiltin(t) ==
    /\ At(t, "init") /\ guard.next <= Len(Builtins)
    /\ LET f == Builtins[guard.next] IN
       IF f \in conflicting
       THEN guard' = Unstarted /\ Throw(t, "conflict")
       ELSE /\ guard' = [guard EXCEPT !.next = @ + 1]
            /\ stack' = Push(t, Top(t), RegisterFrame(f, f))
            /\ UNCHANGED outcome
    /\ UNCHANGED <<hooks, writer, readers, intended, calls, conflicting>>

BuiltinsRegistered(t) ==
    /\ At(t, "init") /\ guard.next > Len(Builtins)
    /\ guard' = [guard EXCEPT !.state = "done", !.by = NoThread]
    /\ stack' = Retop(t, Goto(t, "visit"))
    /\ UNCHANGED <<hooks, writer, readers, outcome, intended, calls, conflicting>>

\* Mutant: a writer waits for writers only.
LockIgnoringReaders(t) ==
    /\ At(t, "set")
    /\ writer = NoThread
    /\ writer' = t
    /\ stack' = Retop(t, Goto(t, "write"))
    /\ UNCHANGED <<hooks, readers, guard, outcome, intended, calls, conflicting>>

\* HookRegistry::set takes the lock exclusively ...
LockExclusive(t) ==
    /\ At(t, "set")
    /\ writer = NoThread /\ readers = {}
    /\ writer' = t
    /\ stack' = Retop(t, Goto(t, "write"))
    /\ UNCHANGED <<hooks, readers, guard, outcome, intended, calls, conflicting>>

\* ... and assigns.  intended follows the program's own registrations.
set(t) ==
    /\ At(t, "write")
    /\ hooks' = [hooks EXCEPT ![Head1(t)] = Top(t).hook]
    /\ intended' = IF Top(t).hook \in UserHooks
                   THEN [intended EXCEPT ![Head1(t)] = Top(t).hook]
                   ELSE intended
    /\ writer' = NoThread
    /\ Return(t)
    /\ UNCHANGED <<readers, guard, calls, conflicting>>

\* derivative_impl at the next function call: HookRegistry::get locks shared.
LockShared(t) ==
    /\ At(t, "visit") /\ Top(t).heads # <<>>
    /\ writer = NoThread
    /\ readers' = readers \cup {t}
    /\ stack' = Retop(t, Goto(t, "read"))
    /\ UNCHANGED <<hooks, writer, guard, outcome, intended, calls, conflicting>>

\* Mutant: get() hands out a reference and the lock with it.
get_keeps_lock(t) ==
    /\ At(t, "read")
    /\ IF hooks[Head1(t)] = NoHook
       THEN Throw(t, "no hook") /\ readers' = readers \ {t}
       ELSE /\ stack' = Retop(t, [Goto(t, "hook") EXCEPT !.hook = hooks[Head1(t)]])
            /\ UNCHANGED <<outcome, readers>>
    /\ UNCHANGED <<hooks, writer, guard, intended, calls, conflicting>>

\* ... copies the hook and unlocks; there may be none.
get(t) ==
    /\ At(t, "read")
    /\ readers' = readers \ {t}
    /\ IF hooks[Head1(t)] = NoHook
       THEN Throw(t, "no hook")
       ELSE /\ stack' = Retop(t, [Goto(t, "hook") EXCEPT !.hook = hooks[Head1(t)]])
            /\ UNCHANGED outcome
    /\ UNCHANGED <<hooks, writer, guard, intended, calls, conflicting>>

BodyOf(hook) == IF hook \in UserHooks THEN Body[hook] ELSE Nothing

\* The hook runs, and may call back into the registry.
RunHook(t) ==
    /\ At(t, "hook")
    /\ LET body == BodyOf(Top(t).hook) IN
       stack' = CASE body.call = "nothing"    -> Retop(t, Goto(t, "returning"))
                  [] body.call = "derivative" ->
                       Push(t, Goto(t, "returning"), DerivativeFrame(body.heads))
                  [] body.call = "register"   ->
                       Push(t, Goto(t, "returning"), RegisterFrame(body.head, body.hook))
    /\ UNCHANGED <<hooks, writer, readers, guard, outcome, intended, calls, conflicting>>

\* It returns its partials; the chain rule goes on with the next call.
HookReturns(t) ==
    /\ At(t, "returning")
    /\ IF Top(t).hook \in WrongCount
       THEN Throw(t, "wrong count")
       ELSE /\ stack' = Retop(t, [at |-> "visit", heads |-> Tail(Top(t).heads), hook |-> NoHook])
            /\ UNCHANGED outcome
    /\ UNCHANGED <<hooks, writer, readers, guard, intended, calls, conflicting>>

DerivativeReturns(t) ==
    /\ At(t, "visit") /\ Top(t).heads = <<>>
    /\ Return(t)
    /\ UNCHANGED <<hooks, writer, readers, guard, intended, calls, conflicting>>

Step(t) == \/ Ensure(t) \/ RegisterBuiltin(t) \/ BuiltinsRegistered(t)
           \/ LockExclusive(t) \/ set(t) \/ LockShared(t) \/ get(t)
           \/ RunHook(t) \/ HookReturns(t) \/ DerivativeReturns(t)

Next == \E t \in Threads : derivative(t) \/ register_derivative_hook(t) \/ Step(t)

Spec == Init /\ [][Next]_vars

\* Threads are scheduled; the locks promise no order among waiters.
FairSpec == Spec /\ \A t \in Threads : WF_vars(Step(t))

-----------------------------------------------------------------------------
(* Properties *)

\* derivative() never reports a builtin as having no hook, however many
\* threads make the first call, unless the builtins cannot be registered.
BuiltinsAreFound ==
    \A t \in Threads, i \in DOMAIN Builtins :
        At(t, "read") /\ Head1(t) = Builtins[i] => hooks[Builtins[i]] # NoHook

\* A reader and a writer, or two writers, are never in the map together, and
\* user code is never run by a thread that holds the lock.
LockDiscipline ==
    /\ \A t \in Threads : At(t, "write") => writer = t /\ readers = {}
    /\ \A t \in Threads : At(t, "read") => t \in readers /\ writer = NoThread
    /\ \A t \in Threads : At(t, "hook") => t \notin readers /\ writer # t

\* When a builtin symbol cannot be registered, every derivative() throws: the
\* half-done initialisation is never taken for done.
FailedInitIsNeverDone ==
    conflicting # {} => \A t \in Threads : \A i \in DOMAIN stack[t] :
        stack[t][i].at \notin {"visit", "read", "hook", "returning"}

\* Every call ends, also when hooks differentiate or register hooks in turn:
\* with finitely many calls nothing waits for ever.
CallsEnd == \A t \in Threads : stack[t] # <<>> ~> stack[t] = <<>>

\* derivative.hh:75: "Registers (or overwrites) the derivative hook": what the
\* program registered last is what the registry holds.
UserHookSticks == \A f \in Heads : intended[f] # NoHook => hooks[f] = intended[f]

=============================================================================
