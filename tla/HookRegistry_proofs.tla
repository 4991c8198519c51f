------------------------ MODULE HookRegistry_proofs ------------------------
(* Theorems about HookRegistry, for any threads, heads, hooks and calls     *)
(* that hooks make.                                                         *)
EXTENDS HookRegistry, SequenceTheorems, TLAPS

-----------------------------------------------------------------------------
(* The inductive invariant. *)

\* A frame has a call to differentiate or a hook to set where it needs one.
GoodFrame ==
    {f \in Frame : /\ f.at \in {"set", "write"} => f.heads # <<>> /\ f.hook \in HookValues
                   /\ f.at \in {"read", "hook", "returning"} => f.heads # <<>>}

StackOK ==
    /\ stack \in [Threads -> Seq(GoodFrame)]
    /\ hooks \in [Heads -> HookValues \cup {NoHook}]
    /\ guard \in Guard
    /\ conflicting \subseteq MayConflict

\* Frames under the innermost one wait for it.
Waiting(t) == \A i \in 1 .. Len(stack[t]) - 1 : stack[t][i].at \in {"init", "returning"}

\* The lock is held by the frames between taking and releasing it.
Locking ==
    /\ writer \in Threads \cup {NoThread}
    /\ readers \subseteq Threads
    /\ \A t \in Threads : /\ writer = t <=> At(t, "write")
                          /\ t \in readers <=> At(t, "read")
    /\ writer # NoThread => readers = {}

\* The initialiser in t is setting the hook of the builtin it counted last.
Registering(t) ==
    /\ Len(stack[t]) >= 2
    /\ stack[t][Len(stack[t]) - 1].at = "init"
    /\ Top(t).at \in {"set", "write"}
    /\ guard.next > 1
    /\ Head1(t) = Builtins[guard.next - 1]

\* Only the thread the guard names runs the initialiser, once.
Initialising(t) ==
    \A i \in 1 .. Len(stack[t]) : stack[t][i].at = "init" =>
        /\ guard.state = "running" /\ guard.by = t
        /\ i = Len(stack[t]) \/ (i = Len(stack[t]) - 1 /\ Registering(t))

\* Nobody goes on before the initialiser is done.
GoneOn(t) ==
    \A i \in 1 .. Len(stack[t]) :
        stack[t][i].at \in {"visit", "read", "hook", "returning"} => guard.state = "done"

\* The builtins counted have a hook, but for one that is just being set.
Counted ==
    /\ guard.state = "done" => guard.next = Len(Builtins) + 1
    /\ guard.state = "running" => guard.by \in Threads
    /\ guard.state # "fresh" =>
         \A j \in 1 .. guard.next - 1 :
            /\ Builtins[j] \notin conflicting
            /\ \/ hooks[Builtins[j]] # NoHook
               \/ guard.state = "running" /\ j = guard.next - 1 /\ Registering(guard.by)

Orderly(t) == Waiting(t) /\ Initialising(t) /\ GoneOn(t)

IInv == StackOK /\ Locking /\ Counted /\ \A t \in Threads : Orderly(t)

-----------------------------------------------------------------------------
(* Stacks. *)

LEMMA StackType ==
    ASSUME StackOK, NEW t \in Threads
    PROVE  /\ stack[t] \in Seq(GoodFrame) /\ Len(stack[t]) \in Nat
           /\ DOMAIN stack[t] = 1 .. Len(stack[t])
           /\ stack[t] # <<>> <=> Len(stack[t]) >= 1
           /\ \A i \in 1 .. Len(stack[t]) : stack[t][i] \in GoodFrame
<1>1. stack[t] \in Seq(GoodFrame)
  BY DEF StackOK
<1>2. Len(stack[t]) \in Nat /\ DOMAIN stack[t] = 1 .. Len(stack[t])
  BY <1>1, LenProperties
<1>3. stack[t] # <<>> <=> Len(stack[t]) >= 1
  BY <1>1, <1>2, EmptySeq
<1>4. \A i \in 1 .. Len(stack[t]) : stack[t][i] \in GoodFrame
  BY <1>1, ElementOfSeq
<1> QED
  BY <1>1, <1>2, <1>3, <1>4

LEMMA TopType ==
    ASSUME StackOK, NEW t \in Threads, stack[t] # <<>>
    PROVE  Top(t) \in GoodFrame /\ Len(stack[t]) \in Nat /\ Len(stack[t]) >= 1
BY StackType DEF Top

\* The innermost frame is replaced.
LEMMA RetopStack ==
    ASSUME StackOK, NEW t \in Threads, stack[t] # <<>>, NEW f \in GoodFrame, stack' = Retop(t, f)
    PROVE  /\ stack' \in [Threads -> Seq(GoodFrame)]
           /\ \A u \in Threads \ {t} : stack'[u] = stack[u]
           /\ Len(stack'[t]) = Len(stack[t])
           /\ stack'[t][Len(stack[t])] = f
           /\ \A i \in 1 .. Len(stack[t]) - 1 : stack'[t][i] = stack[t][i]
<1> DEFINE s == stack[t]
           n == Len(s)
           r == [s EXCEPT ![n] = f]
<1>1. s \in Seq(GoodFrame) /\ n \in Nat /\ n >= 1
  BY StackType
<1>2. r \in Seq(GoodFrame) /\ Len(r) = n /\ \A j \in 1 .. n : r[j] = IF j = n THEN f ELSE s[j]
  BY <1>1, ExceptSeq
<1>3. stack' = [stack EXCEPT ![t] = r]
  BY DEF Retop
<1>4. stack'[t] = r /\ stack' \in [Threads -> Seq(GoodFrame)]
      /\ \A u \in Threads \ {t} : stack'[u] = stack[u]
  BY <1>2, <1>3 DEF StackOK
<1> QED
  BY <1>1, <1>2, <1>4

\* A frame is added on top.
LEMMA PushStack ==
    ASSUME StackOK, NEW t \in Threads, stack[t] # <<>>, NEW f \in GoodFrame, NEW g \in GoodFrame,
           stack' = Push(t, f, g)
    PROVE  /\ stack' \in [Threads -> Seq(GoodFrame)]
           /\ \A u \in Threads \ {t} : stack'[u] = stack[u]
           /\ Len(stack'[t]) = Len(stack[t]) + 1
           /\ stack'[t][Len(stack[t]) + 1] = g
           /\ stack'[t][Len(stack[t])] = f
           /\ \A i \in 1 .. Len(stack[t]) - 1 : stack'[t][i] = stack[t][i]
<1> DEFINE s == stack[t]
           n == Len(s)
           r == [s EXCEPT ![n] = f]
           q == r \o <<g>>
<1>1. s \in Seq(GoodFrame) /\ n \in Nat /\ n >= 1
  BY StackType
<1>2. r \in Seq(GoodFrame) /\ Len(r) = n /\ \A j \in 1 .. n : r[j] = IF j = n THEN f ELSE s[j]
  BY <1>1, ExceptSeq
<1>3. <<g>> \in Seq(GoodFrame) /\ Len(<<g>>) = 1 /\ <<g>>[1] = g
  OBVIOUS
<1>4. /\ q \in Seq(GoodFrame) /\ Len(q) = n + 1
      /\ \A j \in 1 .. n + 1 : q[j] = IF j <= n THEN r[j] ELSE <<g>>[j - n]
  BY <1>2, <1>3, ConcatProperties
<1>5. stack' = [stack EXCEPT ![t] = q]
  BY DEF Push
<1>6. stack'[t] = q /\ stack' \in [Threads -> Seq(GoodFrame)]
      /\ \A u \in Threads \ {t} : stack'[u] = stack[u]
  BY <1>4, <1>5 DEF StackOK
<1> HIDE DEF r, q
<1>7. q[n + 1] = g /\ q[n] = f /\ \A i \in 1 .. n - 1 : q[i] = s[i]
  <2>1. (n + 1) - n = 1 /\ ~(n + 1 <= n) /\ n + 1 \in 1 .. n + 1
    BY <1>1
  <2>2. q[n + 1] = <<g>>[(n + 1) - n]
    BY <1>4, <2>1, Zenon
  <2>3. \A i \in 1 .. n : q[i] = r[i]
    <3>1. \A i \in 1 .. n : i \in 1 .. n + 1 /\ i <= n
      BY <1>1
    <3> QED
      BY <1>4, <3>1, Zenon
  <2>4. r[n] = f /\ \A i \in 1 .. n - 1 : r[i] = s[i]
    BY <1>1, <1>2
  <2> QED
    BY <1>3, <2>1, <2>2, <2>3, <2>4
<1> QED
  BY <1>1, <1>4, <1>6, <1>7

\* The innermost frame is left.
LEMMA PopStack ==
    ASSUME StackOK, NEW t \in Threads, stack[t] # <<>>, stack' = Pop(t)
    PROVE  /\ stack' \in [Threads -> Seq(GoodFrame)]
           /\ \A u \in Threads \ {t} : stack'[u] = stack[u]
           /\ Len(stack'[t]) = Len(stack[t]) - 1
           /\ \A i \in 1 .. Len(stack[t]) - 1 : stack'[t][i] = stack[t][i]
<1> DEFINE s == stack[t]
           n == Len(s)
           r == SubSeq(s, 1, n - 1)
<1>1. s \in Seq(GoodFrame) /\ n \in Nat /\ n >= 1 /\ \A i \in 1 .. n - 1 : s[i] \in GoodFrame
  BY StackType
<1>2. /\ r \in Seq(GoodFrame) /\ Len(r) = IF 1 <= n - 1 THEN (n - 1) - 1 + 1 ELSE 0
      /\ \A i \in 1 .. (n - 1) - 1 + 1 : r[i] = s[1 + i - 1]
  BY <1>1, SubSeqProperties
<1>3. stack' = [stack EXCEPT ![t] = r]
  BY DEF Pop
<1>4. stack'[t] = r /\ stack' \in [Threads -> Seq(GoodFrame)]
      /\ \A u \in Threads \ {t} : stack'[u] = stack[u]
  BY <1>2, <1>3 DEF StackOK
<1> HIDE DEF r
<1>5. Len(r) = n - 1 /\ \A i \in 1 .. n - 1 : r[i] = s[i]
  BY <1>1, <1>2
<1> QED
  BY <1>4, <1>5

\* The stack becomes q.
LEMMA NewStack ==
    ASSUME StackOK, NEW t \in Threads, NEW q \in Seq(GoodFrame), stack' = [stack EXCEPT ![t] = q]
    PROVE  /\ stack' \in [Threads -> Seq(GoodFrame)]
           /\ \A u \in Threads \ {t} : stack'[u] = stack[u]
           /\ stack'[t] = q
BY DEF StackOK

\* Where a thread is after each.
LEMMA AtRetop ==
    ASSUME StackOK, NEW t \in Threads, stack[t] # <<>>, NEW f \in GoodFrame, stack' = Retop(t, f)
    PROVE  \A w : At(t, w)' <=> f.at = w
<1>1. Len(stack'[t]) = Len(stack[t]) /\ stack'[t][Len(stack[t])] = f
  BY RetopStack
<1>2. stack'[t] # <<>>
  BY <1>1, StackType
<1> QED
  BY <1>1, <1>2 DEF At

LEMMA AtPush ==
    ASSUME StackOK, NEW t \in Threads, stack[t] # <<>>, NEW f \in GoodFrame, NEW g \in GoodFrame,
           stack' = Push(t, f, g)
    PROVE  \A w : At(t, w)' <=> g.at = w
<1>1. /\ Len(stack'[t]) = Len(stack[t]) + 1 /\ stack'[t][Len(stack[t]) + 1] = g
      /\ stack'[t] \in Seq(GoodFrame)
  BY PushStack
<1>2. stack'[t] # <<>>
  BY <1>1, StackType
<1> QED
  BY <1>1, <1>2 DEF At

LEMMA AtPop ==
    ASSUME StackOK, NEW t \in Threads, stack[t] # <<>>, Waiting(t), stack' = Pop(t)
    PROVE  \A w : At(t, w)' => w \in {"init", "returning"}
<1>1. /\ Len(stack'[t]) = Len(stack[t]) - 1
      /\ \A i \in 1 .. Len(stack[t]) - 1 : stack'[t][i] = stack[t][i]
      /\ stack'[t] \in Seq(GoodFrame)
  BY PopStack
<1>2. Len(stack[t]) \in Nat /\ Len(stack[t]) >= 1
  BY StackType
<1>3. SUFFICES ASSUME NEW w, At(t, w)' PROVE w \in {"init", "returning"}
  OBVIOUS
<1>4. stack'[t] # <<>> /\ stack'[t][Len(stack'[t])].at = w
  BY <1>3 DEF At
<1>5. Len(stack[t]) - 1 >= 1
  BY <1>1, <1>2, <1>4, EmptySeq
<1>6. Len(stack[t]) - 1 \in 1 .. Len(stack[t]) - 1
  BY <1>2, <1>5
<1>7. stack[t][Len(stack[t]) - 1].at = w
  BY <1>1, <1>4, <1>6
<1> QED
  BY <1>6, <1>7 DEF Waiting

LEMMA AtSame ==
    ASSUME NEW u \in Threads, stack'[u] = stack[u]
    PROVE  \A w : At(u, w)' <=> At(u, w)
BY DEF At

-----------------------------------------------------------------------------
(* What steps of one thread leave of the invariant. *)

\* Of the threads that do not step.
LEMMA OthersOrderly ==
    ASSUME NEW u \in Threads, stack'[u] = stack[u], Orderly(u),
           guard' = guard \/ \A i \in 1 .. Len(stack[u]) : stack[u][i].at # "init",
           guard.state = "done" => guard'.state = "done"
    PROVE  Orderly(u)'
<1>1. Waiting(u)'
  BY DEF Waiting, Orderly
<1>2. Initialising(u)'
  BY DEF Initialising, Orderly, Registering, Top, Head1
<1>3. GoneOn(u)'
  BY DEF GoneOn, Orderly
<1> QED
  BY <1>1, <1>2, <1>3 DEF Orderly

\* Of a thread that replaces its innermost frame.
LEMMA RetopOrderly ==
    ASSUME StackOK, NEW t \in Threads, stack[t] # <<>>, NEW f \in GoodFrame, stack' = Retop(t, f),
           Orderly(t), guard' = guard,
           f.at # "init",
           f.at \in {"visit", "read", "hook", "returning"} => guard.state = "done",
           Registering(t) => f.at \in {"set", "write"} /\ f.heads = Top(t).heads
    PROVE  Orderly(t)' /\ (Registering(t) => Registering(t)')
<1> DEFINE n == Len(stack[t])
<1>1. /\ Len(stack'[t]) = n /\ stack'[t][n] = f
      /\ \A i \in 1 .. n - 1 : stack'[t][i] = stack[t][i]
      /\ n \in Nat /\ n >= 1
  BY RetopStack, StackType
<1>2. Registering(t) => Registering(t)'
  BY <1>1 DEF Registering, Top, Head1
<1>3. Waiting(t)'
  BY <1>1 DEF Waiting, Orderly
<1>4. Initialising(t)'
  <2> SUFFICES ASSUME NEW i \in 1 .. n, stack'[t][i].at = "init"
               PROVE  /\ guard.state = "running" /\ guard.by = t
                      /\ i = n - 1 /\ Registering(t)'
    BY <1>1 DEF Initialising
  <2>1. i \in 1 .. n - 1
    BY <1>1
  <2>2. stack[t][i].at = "init"
    BY <1>1, <2>1
  <2>3. /\ guard.state = "running" /\ guard.by = t
        /\ i = n \/ (i = n - 1 /\ Registering(t))
    BY <2>2 DEF Orderly, Initialising
  <2> QED
    BY <1>1, <1>2, <2>1, <2>3
<1>5. GoneOn(t)'
  <2> SUFFICES ASSUME NEW i \in 1 .. n, stack'[t][i].at \in {"visit", "read", "hook", "returning"}
               PROVE  guard.state = "done"
    BY <1>1 DEF GoneOn
  <2>1. CASE i = n
    BY <1>1, <2>1
  <2>2. CASE i # n
    <3>1. i \in 1 .. n - 1 /\ stack[t][i].at = stack'[t][i].at
      BY <1>1, <2>2
    <3> QED
      BY <3>1 DEF Orderly, GoneOn
  <2> QED
    BY <2>1, <2>2
<1> QED
  BY <1>2, <1>3, <1>4, <1>5 DEF Orderly

\* Of a thread that calls from inside a hook.
LEMMA PushOrderly ==
    ASSUME StackOK, NEW t \in Threads, stack[t] # <<>>, NEW f \in GoodFrame, NEW g \in GoodFrame,
           stack' = Push(t, f, g), Orderly(t), guard' = guard, ~Registering(t),
           f.at = "returning", guard.state = "done", g.at \in {"ensure", "set"}
    PROVE  Orderly(t)'
<1> DEFINE n == Len(stack[t])
<1>1. /\ Len(stack'[t]) = n + 1 /\ stack'[t][n + 1] = g /\ stack'[t][n] = f
      /\ \A i \in 1 .. n - 1 : stack'[t][i] = stack[t][i]
      /\ n \in Nat /\ n >= 1
  BY PushStack, StackType
<1>2. Waiting(t)'
  <2> SUFFICES ASSUME NEW i \in 1 .. n PROVE stack'[t][i].at \in {"init", "returning"}
    BY <1>1 DEF Waiting
  <2>1. i = n \/ i \in 1 .. n - 1
    BY <1>1
  <2> QED
    BY <1>1, <2>1 DEF Waiting, Orderly
<1>3. Initialising(t)'
  <2> SUFFICES ASSUME NEW i \in 1 .. n + 1, stack'[t][i].at = "init"
               PROVE  FALSE
    BY <1>1 DEF Initialising
  <2>1. i \in 1 .. n - 1
    BY <1>1
  <2>2. stack[t][i].at = "init"
    BY <1>1, <2>1
  <2> QED
    BY <1>1, <2>1, <2>2 DEF Orderly, Initialising
<1>4. GoneOn(t)'
  BY DEF GoneOn
<1> QED
  BY <1>2, <1>3, <1>4 DEF Orderly

\* Of a thread that leaves its innermost frame.
LEMMA PopOrderly ==
    ASSUME StackOK, NEW t \in Threads, stack[t] # <<>>, stack' = Pop(t), Orderly(t), guard' = guard
    PROVE  Orderly(t)'
<1> DEFINE n == Len(stack[t])
<1>1. /\ Len(stack'[t]) = n - 1
      /\ \A i \in 1 .. n - 1 : stack'[t][i] = stack[t][i]
      /\ n \in Nat /\ n >= 1
  BY PopStack, StackType
<1>2. Waiting(t)'
  BY <1>1 DEF Waiting, Orderly
<1>3. Initialising(t)'
  <2> SUFFICES ASSUME NEW i \in 1 .. n - 1, stack'[t][i].at = "init"
               PROVE  guard.state = "running" /\ guard.by = t /\ i = n - 1
    BY <1>1 DEF Initialising
  <2>1. stack[t][i].at = "init" /\ i \in 1 .. n
    BY <1>1
  <2> QED
    BY <1>1, <2>1 DEF Orderly, Initialising
<1>4. GoneOn(t)'
  <2> SUFFICES ASSUME NEW i \in 1 .. n - 1,
                      stack'[t][i].at \in {"visit", "read", "hook", "returning"}
               PROVE  guard.state = "done"
    BY <1>1 DEF GoneOn
  <2>1. stack[t][i].at = stack'[t][i].at /\ i \in 1 .. n
    BY <1>1
  <2> QED
    BY <2>1 DEF Orderly, GoneOn
<1> QED
  BY <1>2, <1>3, <1>4 DEF Orderly

\* Of a thread that an exception takes out of all its frames.
LEMMA EmptyOrderly ==
    ASSUME NEW t \in Threads, stack'[t] = <<>>
    PROVE  Orderly(t)' /\ ~Registering(t)' /\ \A w : ~At(t, w)'
<1>1. Len(stack'[t]) = 0
  BY EmptySeq
<1> QED
  BY <1>1 DEF Orderly, Waiting, Initialising, GoneOn, Registering, At

\* Of the builtins counted, while the guard stays as it is.
LEMMA CountedKept ==
    ASSUME StackOK, Counted, NEW t \in Threads,
           guard' = guard, conflicting' = conflicting,
           \A f \in Heads : hooks[f] # NoHook => hooks'[f] # NoHook,
           \A u \in Threads \ {t} : stack'[u] = stack[u],
           Registering(t) => Registering(t)' \/ hooks'[Builtins[guard.next - 1]] # NoHook
    PROVE  Counted'
<1>1. guard.next \in 1 .. Len(Builtins) + 1
  BY DEF StackOK, Guard
<1>2. \A j \in 1 .. Len(Builtins) : Builtins[j] \in Heads
  BY BuiltinsAreHeads
<1>3. \A u \in Threads \ {t} : Registering(u)' <=> Registering(u)
  BY DEF Registering, Top, Head1
<1>4. ASSUME guard.state # "fresh", NEW j \in 1 .. guard.next - 1
      PROVE  /\ Builtins[j] \notin conflicting
             /\ \/ hooks'[Builtins[j]] # NoHook
                \/ guard.state = "running" /\ j = guard.next - 1 /\ Registering(guard.by)'
  <2>1. j \in 1 .. Len(Builtins)
    BY <1>1, BuiltinsAreHeads
  <2>2. Builtins[j] \in Heads
    BY <1>2, <2>1
  <2>3. CASE hooks[Builtins[j]] # NoHook
    BY <1>4, <2>2, <2>3 DEF Counted
  <2>4. CASE hooks[Builtins[j]] = NoHook
    <3>1. guard.state = "running" /\ j = guard.next - 1 /\ Registering(guard.by)
          /\ guard.by \in Threads /\ Builtins[j] \notin conflicting
      BY <1>4, <2>4 DEF Counted
    <3>2. CASE guard.by = t
      BY <3>1, <3>2
    <3>3. CASE guard.by # t
      BY <1>3, <3>1, <3>3
    <3> QED
      BY <3>2, <3>3
  <2> QED
    BY <2>3, <2>4
<1> QED
  BY <1>4 DEF Counted

\* Of the lock, by a step that neither takes nor releases it.
LEMMA LockingKept ==
    ASSUME Locking, NEW t \in Threads, writer' = writer, readers' = readers,
           \A u \in Threads \ {t} : stack'[u] = stack[u],
           ~At(t, "write"), ~At(t, "read"), ~At(t, "write")', ~At(t, "read")'
    PROVE  Locking'
<1>1. \A u \in Threads \ {t} : \A w : At(u, w)' <=> At(u, w)
  BY AtSame
<1> QED
  BY <1>1 DEF Locking

-----------------------------------------------------------------------------
(* One lemma per action. *)

\* The innermost frame, gone to another place.
LEMMA GotoType ==
    ASSUME StackOK, NEW t \in Threads, stack[t] # <<>>,
           NEW w \in {"ensure", "init", "visit", "read", "hook", "returning", "set", "write"},
           w \in {"set", "write"} => Top(t).heads # <<>> /\ Top(t).hook \in HookValues,
           w \in {"read", "hook", "returning"} => Top(t).heads # <<>>
    PROVE  /\ Goto(t, w) \in GoodFrame /\ Goto(t, w).at = w
           /\ Goto(t, w).heads = Top(t).heads /\ Goto(t, w).hook = Top(t).hook
<1>1. Top(t) \in GoodFrame
  BY TopType
<1> QED
  BY <1>1 DEF GoodFrame, Frame, Goto

LEMMA FrameTypes ==
    /\ \A h \in Seq(Heads) : DerivativeFrame(h) \in GoodFrame
    /\ \A h \in Heads, k \in HookValues :
          /\ RegisterFrame(h, k) \in GoodFrame
          /\ Head(RegisterFrame(h, k).heads) = h
<1>1. \A h \in Seq(Heads) : DerivativeFrame(h) \in GoodFrame
  BY DEF DerivativeFrame, GoodFrame, Frame
<1>2. ASSUME NEW h \in Heads, NEW k \in HookValues
      PROVE  RegisterFrame(h, k) \in GoodFrame /\ Head(RegisterFrame(h, k).heads) = h
  <2>1. <<h>> \in Seq(Heads) /\ <<h>> # <<>> /\ Head(<<h>>) = h
    OBVIOUS
  <2> QED
    BY <2>1 DEF RegisterFrame, GoodFrame, Frame
<1> QED
  BY <1>1, <1>2

\* A program calls one of the two functions.
LEMMA CallKeeps ==
    ASSUME IInv, NEW t \in Threads, Call(t), NEW f \in GoodFrame, f.at \in {"ensure", "set"},
           stack' = [stack EXCEPT ![t] = <<f>>]
    PROVE  IInv'
<1>1. <<f>> \in Seq(GoodFrame) /\ Len(<<f>>) = 1 /\ <<f>>[1] = f
  OBVIOUS
<1>2. /\ stack' \in [Threads -> Seq(GoodFrame)] /\ stack'[t] = <<f>>
      /\ \A u \in Threads \ {t} : stack'[u] = stack[u]
  BY <1>1, NewStack DEF IInv
<1>3. stack[t] = <<>> /\ UNCHANGED <<hooks, writer, readers, guard, conflicting>>
  BY DEF Call
<1>4. StackOK'
  BY <1>2, <1>3 DEF IInv, StackOK
<1>5. \A w : At(t, w)' <=> f.at = w
  BY <1>1, <1>2 DEF At
<1>6. Locking'
  BY <1>2, <1>3, <1>5, LockingKept DEF IInv, At
<1>7. ~Registering(t)
  BY <1>3, EmptySeq DEF Registering
<1>8. Counted'
  BY <1>2, <1>3, <1>7, CountedKept DEF IInv
<1>9. Orderly(t)'
  BY <1>1, <1>2 DEF Orderly, Waiting, Initialising, GoneOn
<1>10. \A u \in Threads \ {t} : Orderly(u)'
  BY <1>2, <1>3, OthersOrderly DEF IInv
<1> QED
  BY <1>4, <1>6, <1>8, <1>9, <1>10 DEF IInv

\* A step of t that replaces its innermost frame and leaves lock and guard alone.
LEMMA QuietRetop ==
    ASSUME IInv, NEW t \in Threads, stack[t] # <<>>, NEW f \in GoodFrame, stack' = Retop(t, f),
           UNCHANGED <<hooks, writer, readers, guard, conflicting>>,
           ~At(t, "write"), ~At(t, "read"), ~At(t, "set"),
           f.at \notin {"init", "read", "write", "set"},
           f.at \in {"visit", "hook", "returning"} => guard.state = "done"
    PROVE  IInv'
<1>1. /\ stack' \in [Threads -> Seq(GoodFrame)]
      /\ \A u \in Threads \ {t} : stack'[u] = stack[u]
  BY RetopStack DEF IInv
<1>2. StackOK'
  BY <1>1 DEF IInv, StackOK
<1>3. \A w : At(t, w)' <=> f.at = w
  BY AtRetop DEF IInv
<1>4. Locking'
  BY <1>1, <1>3, LockingKept DEF IInv
<1>5. ~Registering(t)
  BY DEF Registering, At, Top
<1>6. Counted'
  BY <1>1, <1>5, CountedKept DEF IInv
<1>7. Orderly(t)'
  BY <1>5, RetopOrderly DEF IInv
<1>8. \A u \in Threads \ {t} : Orderly(u)'
  BY <1>1, OthersOrderly DEF IInv
<1> QED
  BY <1>2, <1>4, <1>6, <1>7, <1>8 DEF IInv

\* A step of t that throws, while it does not hold the lock.
LEMMA QuietThrow ==
    ASSUME IInv, NEW t \in Threads, NEW what, Throw(t, what), stack[t] # <<>>,
           UNCHANGED <<hooks, writer, readers, guard, conflicting>>,
           ~At(t, "write"), ~At(t, "read"), ~At(t, "set")
    PROVE  IInv'
<1>1. /\ stack' \in [Threads -> Seq(GoodFrame)] /\ stack'[t] = <<>>
      /\ \A u \in Threads \ {t} : stack'[u] = stack[u]
  BY NewStack, EmptySeq DEF IInv, Throw
<1>2. StackOK'
  BY <1>1 DEF IInv, StackOK
<1>3. Orderly(t)' /\ ~Registering(t)' /\ \A w : ~At(t, w)'
  BY <1>1, EmptyOrderly
<1>4. Locking'
  BY <1>1, <1>3, LockingKept DEF IInv
<1>5. ~Registering(t)
  BY DEF Registering, At, Top
<1>6. Counted'
  BY <1>1, <1>5, CountedKept DEF IInv
<1>7. \A u \in Threads \ {t} : Orderly(u)'
  BY <1>1, OthersOrderly DEF IInv
<1> QED
  BY <1>2, <1>3, <1>4, <1>6, <1>7 DEF IInv

\* The thread at a place past the initialiser knows that it is done.
LEMMA PlaceOfTop ==
    ASSUME IInv, NEW t \in Threads, NEW w, At(t, w)
    PROVE  /\ stack[t] # <<>> /\ Top(t).at = w /\ Top(t) \in GoodFrame
           /\ w \in {"visit", "read", "hook", "returning"} => guard.state = "done"
           /\ w = "init" => guard.state = "running" /\ guard.by = t
           /\ \A v : At(t, v) => v = w
<1>1. stack[t] # <<>> /\ Top(t).at = w
  BY DEF At, Top
<1>2. Top(t) \in GoodFrame /\ Len(stack[t]) \in 1 .. Len(stack[t])
  BY <1>1, TopType DEF IInv
<1>3. \A v : At(t, v) => v = w
  BY DEF At
<1> QED
  BY <1>1, <1>2, <1>3 DEF IInv, Orderly, GoneOn, Initialising, Top

LEMMA EnsureKeeps == ASSUME IInv, NEW t \in Threads, Ensure(t) PROVE IInv'
<1>1. At(t, "ensure") /\ UNCHANGED <<hooks, writer, readers, conflicting>>
  BY DEF Ensure
<1>2. /\ stack[t] # <<>> /\ Top(t).at = "ensure" /\ Top(t) \in GoodFrame
      /\ ~At(t, "write") /\ ~At(t, "read") /\ ~At(t, "set")
  BY <1>1, PlaceOfTop
<1>3. CASE guard.state # "fresh"
  <2>1. stack' = Retop(t, Goto(t, "visit")) /\ guard' = guard /\ guard.state # "running"
    BY <1>3 DEF Ensure
  <2>2. guard.state = "done"
    BY <1>3, <2>1 DEF IInv, StackOK, Guard
  <2>3. Goto(t, "visit") \in GoodFrame /\ Goto(t, "visit").at = "visit"
    BY <1>2, GotoType DEF IInv
  <2> QED
    BY <1>1, <1>2, <2>1, <2>2, <2>3, QuietRetop
<1>4. CASE guard.state = "fresh"
  <2>1. /\ stack' = Retop(t, Goto(t, "init"))
        /\ guard' = [state |-> "running", by |-> t, next |-> 1]
    BY <1>4 DEF Ensure
  <2>2. Goto(t, "init") \in GoodFrame /\ Goto(t, "init").at = "init"
    BY <1>2, GotoType DEF IInv
  <2>3. /\ stack' \in [Threads -> Seq(GoodFrame)]
        /\ \A u \in Threads \ {t} : stack'[u] = stack[u]
        /\ Len(stack'[t]) = Len(stack[t])
        /\ stack'[t][Len(stack[t])] = Goto(t, "init")
        /\ \A i \in 1 .. Len(stack[t]) - 1 : stack'[t][i] = stack[t][i]
        /\ Len(stack[t]) \in Nat /\ Len(stack[t]) >= 1
    BY <1>2, <2>1, <2>2, RetopStack, StackType DEF IInv
  <2>4. guard' \in Guard
    BY <2>1, BuiltinsAreHeads DEF Guard
  <2>5. StackOK'
    BY <1>1, <2>3, <2>4 DEF IInv, StackOK
  <2>6. \A w : At(t, w)' <=> w = "init"
    BY <1>2, <2>1, <2>2, AtRetop DEF IInv
  <2>7. Locking'
    BY <1>1, <1>2, <2>3, <2>6, LockingKept DEF IInv
  <2>8. Counted'
    BY <2>1 DEF Counted
  <2>9. \A u \in Threads : \A i \in 1 .. Len(stack[u]) : stack[u][i].at # "init"
    BY <1>4 DEF IInv, Orderly, Initialising
  <2>10. \A u \in Threads \ {t} : Orderly(u)'
    BY <1>4, <2>3, <2>9, OthersOrderly DEF IInv
  <2>11. Waiting(t)'
    BY <2>3 DEF IInv, Orderly, Waiting
  <2>12. Initialising(t)'
    <3>1. ASSUME NEW i \in 1 .. Len(stack[t]), stack'[t][i].at = "init"
          PROVE  i = Len(stack[t])
      <4>1. CASE i \in 1 .. Len(stack[t]) - 1
        <5>1. stack[t][i].at = "init"
          BY <2>3, <3>1, <4>1
        <5> QED
          BY <2>9, <5>1
      <4> QED
        BY <2>3, <4>1
    <3> QED
      BY <2>1, <2>3, <3>1 DEF Initialising
  <2>13. GoneOn(t)'
    <3>1. ASSUME NEW i \in 1 .. Len(stack[t]),
                 stack'[t][i].at \in {"visit", "read", "hook", "returning"}
          PROVE  FALSE
      <4>1. CASE i \in 1 .. Len(stack[t]) - 1
        <5>1. stack[t][i].at = stack'[t][i].at
          BY <2>3, <4>1
        <5> QED
          BY <1>4, <3>1, <5>1 DEF IInv, Orderly, GoneOn
      <4>2. CASE i = Len(stack[t])
        BY <2>2, <2>3, <3>1, <4>2
      <4> QED
        BY <2>3, <4>1, <4>2
    <3> QED
      BY <2>3, <3>1 DEF GoneOn
  <2> QED
    BY <2>5, <2>7, <2>8, <2>10, <2>11, <2>12, <2>13 DEF IInv, Orderly
<1> QED
  BY <1>3, <1>4

\* Threads other than the one that runs the initialiser are not in it.
LEMMA OneInitialiser ==
    ASSUME IInv, NEW t \in Threads, At(t, "init")
    PROVE  /\ guard.state = "running" /\ guard.by = t
           /\ \A u \in Threads \ {t} : \A i \in 1 .. Len(stack[u]) : stack[u][i].at # "init"
           /\ \A i \in 1 .. Len(stack[t]) - 1 : stack[t][i].at # "init"
           /\ ~Registering(t)
<1>1. guard.state = "running" /\ guard.by = t /\ stack[t] # <<>> /\ Top(t).at = "init"
  BY PlaceOfTop
<1>2. ~Registering(t)
  BY <1>1 DEF Registering
<1>3. Len(stack[t]) \in Nat
  BY StackType DEF IInv
<1> QED
  BY <1>1, <1>2, <1>3 DEF IInv, Orderly, Initialising

LEMMA RegisterBuiltinKeeps == ASSUME IInv, NEW t \in Threads, RegisterBuiltin(t) PROVE IInv'
<1> DEFINE n == Len(stack[t])
           f == Builtins[guard.next]
<1>1. /\ At(t, "init") /\ guard.next <= Len(Builtins)
      /\ UNCHANGED <<hooks, writer, readers, conflicting>>
  BY DEF RegisterBuiltin
<1>2. /\ stack[t] # <<>> /\ Top(t).at = "init" /\ Top(t) \in GoodFrame
      /\ ~At(t, "write") /\ ~At(t, "read") /\ ~At(t, "set")
  BY <1>1, PlaceOfTop
<1>3. /\ guard.state = "running" /\ guard.by = t
      /\ \A u \in Threads \ {t} : \A i \in 1 .. Len(stack[u]) : stack[u][i].at # "init"
      /\ \A i \in 1 .. n - 1 : stack[t][i].at # "init"
      /\ ~Registering(t)
  BY <1>1, OneInitialiser
<1>4. guard \in Guard /\ guard.next \in 1 .. Len(Builtins) /\ f \in Heads
      /\ n \in Nat /\ n >= 1 /\ Len(Builtins) \in Nat
  BY <1>1, <1>2, BuiltinsAreHeads, StackType DEF IInv, StackOK, Guard
<1>5. CASE f \in conflicting
  <2>1. guard' = Unstarted /\ Throw(t, "conflict")
    BY <1>5 DEF RegisterBuiltin
  <2>2. /\ stack' \in [Threads -> Seq(GoodFrame)] /\ stack'[t] = <<>>
        /\ \A u \in Threads \ {t} : stack'[u] = stack[u]
    BY <2>1, NewStack, EmptySeq DEF IInv, Throw
  <2>3. guard' \in Guard /\ guard'.state = "fresh"
    BY <1>4, <2>1 DEF Guard, Unstarted
  <2>4. StackOK'
    BY <1>1, <2>2, <2>3 DEF IInv, StackOK
  <2>5. Orderly(t)' /\ \A w : ~At(t, w)'
    BY <2>2, EmptyOrderly
  <2>6. Locking'
    BY <1>1, <1>2, <2>2, <2>5, LockingKept DEF IInv
  <2>7. Counted'
    BY <2>3 DEF Counted
  <2>8. \A u \in Threads \ {t} : Orderly(u)'
    BY <1>3, <2>2, OthersOrderly DEF IInv
  <2> QED
    BY <2>4, <2>5, <2>6, <2>7, <2>8 DEF IInv
<1>6. CASE f \notin conflicting
  <2>1. /\ guard' = [guard EXCEPT !.next = @ + 1]
        /\ stack' = Push(t, Top(t), RegisterFrame(f, f))
    BY <1>6 DEF RegisterBuiltin
  <2>2. f \in HookValues /\ RegisterFrame(f, f) \in GoodFrame
        /\ RegisterFrame(f, f).at = "set" /\ Head(RegisterFrame(f, f).heads) = f
    <3>1. f \in HookValues
      BY <1>4, BuiltinsAreHeads DEF HookValues
    <3> QED
      BY <1>4, <3>1, FrameTypes DEF RegisterFrame
  <2>3. /\ stack' \in [Threads -> Seq(GoodFrame)]
        /\ \A u \in Threads \ {t} : stack'[u] = stack[u]
        /\ Len(stack'[t]) = n + 1
        /\ stack'[t][n + 1] = RegisterFrame(f, f)
        /\ stack'[t][n] = Top(t)
        /\ \A i \in 1 .. n - 1 : stack'[t][i] = stack[t][i]
    BY <1>2, <2>1, <2>2, PushStack DEF IInv
  <2>4. /\ guard' \in Guard /\ guard'.state = "running" /\ guard'.by = t
        /\ guard'.next = guard.next + 1
    BY <1>3, <1>4, <2>1 DEF Guard
  <2>5. StackOK'
    BY <1>1, <2>3, <2>4 DEF IInv, StackOK
  <2>6. \A w : At(t, w)' <=> w = "set"
    BY <1>2, <2>1, <2>2, AtPush DEF IInv
  <2>7. Locking'
    BY <1>1, <1>2, <2>3, <2>6, LockingKept DEF IInv
  <2>8. Registering(t)'
    BY <1>2, <1>4, <2>2, <2>3, <2>4 DEF Registering, Top, Head1
  <2>9. Counted'
    <3>1. ASSUME NEW j \in 1 .. guard.next
          PROVE  Builtins[j] \notin conflicting /\ (hooks[Builtins[j]] # NoHook \/ j = guard.next)
      BY <1>3, <1>4, <1>6, <3>1 DEF IInv, Counted
    <3> QED
      BY <1>1, <1>4, <2>4, <2>8, <3>1 DEF Counted
  <2>10. \A u \in Threads \ {t} : Orderly(u)'
    BY <1>3, <2>3, OthersOrderly DEF IInv
  <2>11. Waiting(t)'
    <3>1. \A i \in 1 .. n : i = n \/ i \in 1 .. n - 1
      BY <1>4
    <3> QED
      BY <1>2, <1>4, <2>3, <3>1 DEF IInv, Orderly, Waiting
  <2>12. Initialising(t)'
    <3>1. ASSUME NEW i \in 1 .. n + 1, stack'[t][i].at = "init"
          PROVE  i = n
      <4>1. i = n \/ i = n + 1 \/ i \in 1 .. n - 1
        BY <1>4
      <4> QED
        BY <1>3, <2>2, <2>3, <3>1, <4>1
    <3> QED
      BY <1>4, <2>3, <2>4, <2>8, <3>1 DEF Initialising
  <2>13. GoneOn(t)'
    <3>1. ASSUME NEW i \in 1 .. n + 1,
                 stack'[t][i].at \in {"visit", "read", "hook", "returning"}
          PROVE  FALSE
      <4>1. i = n \/ i = n + 1 \/ i \in 1 .. n - 1
        BY <1>4
      <4>2. i \in 1 .. n - 1 /\ stack[t][i].at \in {"visit", "read", "hook", "returning"}
        BY <1>2, <2>2, <2>3, <3>1, <4>1
      <4>3. i \in 1 .. Len(stack[t])
        BY <1>4, <4>2
      <4> QED
        BY <1>3, <4>2, <4>3 DEF IInv, Orderly, GoneOn
    <3> QED
      BY <2>3, <3>1 DEF GoneOn
  <2> QED
    BY <2>5, <2>7, <2>9, <2>10, <2>11, <2>12, <2>13 DEF IInv, Orderly
<1> QED
  BY <1>5, <1>6

LEMMA BuiltinsRegisteredKeeps ==
    ASSUME IInv, NEW t \in Threads, BuiltinsRegistered(t) PROVE IInv'
<1> DEFINE n == Len(stack[t])
<1>1. /\ At(t, "init") /\ guard.next > Len(Builtins)
      /\ UNCHANGED <<hooks, writer, readers, conflicting>>
      /\ guard' = [guard EXCEPT !.state = "done", !.by = NoThread]
      /\ stack' = Retop(t, Goto(t, "visit"))
  BY DEF BuiltinsRegistered
<1>2. /\ stack[t] # <<>> /\ Top(t).at = "init" /\ Top(t) \in GoodFrame
      /\ ~At(t, "write") /\ ~At(t, "read")
  BY <1>1, PlaceOfTop
<1>3. /\ guard.state = "running" /\ guard.by = t
      /\ \A u \in Threads \ {t} : \A i \in 1 .. Len(stack[u]) : stack[u][i].at # "init"
      /\ \A i \in 1 .. n - 1 : stack[t][i].at # "init"
      /\ ~Registering(t)
  BY <1>1, OneInitialiser
<1>4. /\ guard \in Guard /\ guard.next = Len(Builtins) + 1 /\ n \in Nat /\ n >= 1
      /\ Len(Builtins) \in Nat
  BY <1>1, <1>2, BuiltinsAreHeads, StackType DEF IInv, StackOK, Guard
<1>5. Goto(t, "visit") \in GoodFrame /\ Goto(t, "visit").at = "visit"
  BY <1>2, GotoType DEF IInv
<1>6. /\ stack' \in [Threads -> Seq(GoodFrame)]
      /\ \A u \in Threads \ {t} : stack'[u] = stack[u]
      /\ Len(stack'[t]) = n
      /\ stack'[t][n] = Goto(t, "visit")
      /\ \A i \in 1 .. n - 1 : stack'[t][i] = stack[t][i]
  BY <1>1, <1>2, <1>5, RetopStack DEF IInv
<1>7. guard' \in Guard /\ guard'.state = "done" /\ guard'.next = Len(Builtins) + 1
  BY <1>1, <1>4 DEF Guard
<1>8. StackOK'
  BY <1>1, <1>6, <1>7 DEF IInv, StackOK
<1>9. \A w : At(t, w)' <=> w = "visit"
  BY <1>1, <1>2, <1>5, AtRetop DEF IInv
<1>10. Locking'
  BY <1>1, <1>2, <1>6, <1>9, LockingKept DEF IInv
<1>11. Counted'
  BY <1>1, <1>3, <1>4, <1>7 DEF IInv, Counted
<1>12. \A u \in Threads \ {t} : Orderly(u)'
  BY <1>3, <1>6, <1>7, OthersOrderly DEF IInv
<1>13. Waiting(t)'
  BY <1>4, <1>6 DEF IInv, Orderly, Waiting
<1>14. Initialising(t)'
  <2>1. ASSUME NEW i \in 1 .. n, stack'[t][i].at = "init" PROVE FALSE
    <3>1. i = n \/ i \in 1 .. n - 1
      BY <1>4
    <3> QED
      BY <1>3, <1>5, <1>6, <2>1, <3>1
  <2> QED
    BY <1>6, <2>1 DEF Initialising
<1>15. GoneOn(t)'
  BY <1>7 DEF GoneOn
<1> QED
  BY <1>8, <1>10, <1>11, <1>12, <1>13, <1>14, <1>15 DEF IInv, Orderly

LEMMA LockExclusiveKeeps == ASSUME IInv, NEW t \in Threads, LockExclusive(t) PROVE IInv'
<1>1. /\ At(t, "set") /\ writer = NoThread /\ readers = {} /\ writer' = t
      /\ stack' = Retop(t, Goto(t, "write"))
      /\ UNCHANGED <<hooks, readers, guard, conflicting>>
  BY DEF LockExclusive
<1>2. stack[t] # <<>> /\ Top(t).at = "set" /\ Top(t) \in GoodFrame
  BY <1>1, PlaceOfTop
<1>3. Top(t).heads # <<>> /\ Top(t).hook \in HookValues
  BY <1>2 DEF GoodFrame
<1>4. /\ Goto(t, "write") \in GoodFrame /\ Goto(t, "write").at = "write"
      /\ Goto(t, "write").heads = Top(t).heads
  BY <1>2, <1>3, GotoType DEF IInv
<1>5. /\ stack' \in [Threads -> Seq(GoodFrame)]
      /\ \A u \in Threads \ {t} : stack'[u] = stack[u]
  BY <1>1, <1>2, <1>4, RetopStack DEF IInv
<1>6. StackOK'
  BY <1>1, <1>5 DEF IInv, StackOK
<1>7. \A w : At(t, w)' <=> w = "write"
  BY <1>1, <1>2, <1>4, AtRetop DEF IInv
<1>8. \A u \in Threads \ {t} : \A w : At(u, w)' <=> At(u, w)
  BY <1>5, AtSame
<1>9. Locking'
  BY <1>1, <1>7, <1>8, AbsentIsNoValue DEF IInv, Locking
<1>10. Orderly(t)' /\ (Registering(t) => Registering(t)')
  BY <1>1, <1>2, <1>4, RetopOrderly DEF IInv
<1>11. Counted'
  BY <1>1, <1>5, <1>10, CountedKept DEF IInv
<1>12. \A u \in Threads \ {t} : Orderly(u)'
  BY <1>1, <1>5, OthersOrderly DEF IInv
<1> QED
  BY <1>6, <1>9, <1>10, <1>11, <1>12 DEF IInv

LEMMA setKeeps == ASSUME IInv, NEW t \in Threads, set(t) PROVE IInv'
<1>1. /\ At(t, "write") /\ writer' = NoThread
      /\ hooks' = [hooks EXCEPT ![Head1(t)] = Top(t).hook]
      /\ stack' = Pop(t)
      /\ UNCHANGED <<readers, guard, conflicting>>
  BY DEF set, Return
<1>2. stack[t] # <<>> /\ Top(t).at = "write" /\ Top(t) \in GoodFrame
  BY <1>1, PlaceOfTop
<1>3. Top(t).heads # <<>> /\ Top(t).hook \in HookValues /\ Top(t).heads \in Seq(Heads)
  BY <1>2 DEF GoodFrame, Frame
<1>4. Head1(t) \in Heads /\ Top(t).hook # NoHook
  BY <1>3, HeadTailProperties, AbsentIsNoValue DEF Head1
<1>5. hooks \in [Heads -> HookValues \cup {NoHook}]
  BY DEF IInv, StackOK
<1>6. /\ hooks' \in [Heads -> HookValues \cup {NoHook}]
      /\ \A f \in Heads : hooks[f] # NoHook => hooks'[f] # NoHook
      /\ hooks'[Head1(t)] # NoHook
  BY <1>1, <1>3, <1>4, <1>5
<1>7. /\ stack' \in [Threads -> Seq(GoodFrame)]
      /\ \A u \in Threads \ {t} : stack'[u] = stack[u]
  BY <1>1, <1>2, PopStack DEF IInv
<1>8. StackOK'
  BY <1>1, <1>6, <1>7 DEF IInv, StackOK
<1>9. ~At(t, "write")' /\ ~At(t, "read")'
  BY <1>1, <1>2, AtPop DEF IInv, Orderly
<1>10. \A u \in Threads \ {t} : \A w : At(u, w)' <=> At(u, w)
  BY <1>7, AtSame
<1>11. writer = t /\ ~At(t, "read")
  BY <1>1, PlaceOfTop DEF IInv, Locking
<1>12. Locking'
  BY <1>1, <1>9, <1>10, <1>11, AbsentIsNoValue DEF IInv, Locking
<1>13. Registering(t) => hooks'[Builtins[guard.next - 1]] # NoHook
  BY <1>6 DEF Registering
<1>14. Counted'
  BY <1>1, <1>6, <1>7, <1>13, CountedKept DEF IInv
<1>15. Orderly(t)'
  BY <1>1, <1>2, PopOrderly DEF IInv
<1>16. \A u \in Threads \ {t} : Orderly(u)'
  BY <1>1, <1>7, OthersOrderly DEF IInv
<1> QED
  BY <1>8, <1>12, <1>14, <1>15, <1>16 DEF IInv

LEMMA LockSharedKeeps == ASSUME IInv, NEW t \in Threads, LockShared(t) PROVE IInv'
<1>1. /\ At(t, "visit") /\ Top(t).heads # <<>> /\ writer = NoThread
      /\ readers' = readers \cup {t}
      /\ stack' = Retop(t, Goto(t, "read"))
      /\ UNCHANGED <<hooks, writer, guard, conflicting>>
  BY DEF LockShared
<1>2. stack[t] # <<>> /\ Top(t).at = "visit" /\ Top(t) \in GoodFrame /\ guard.state = "done"
  BY <1>1, PlaceOfTop
<1>3. Goto(t, "read") \in GoodFrame /\ Goto(t, "read").at = "read"
  BY <1>1, <1>2, GotoType DEF IInv
<1>4. /\ stack' \in [Threads -> Seq(GoodFrame)]
      /\ \A u \in Threads \ {t} : stack'[u] = stack[u]
  BY <1>1, <1>2, <1>3, RetopStack DEF IInv
<1>5. StackOK'
  BY <1>1, <1>4 DEF IInv, StackOK
<1>6. \A w : At(t, w)' <=> w = "read"
  BY <1>1, <1>2, <1>3, AtRetop DEF IInv
<1>7. \A u \in Threads \ {t} : \A w : At(u, w)' <=> At(u, w)
  BY <1>4, AtSame
<1>8. Locking'
  BY <1>1, <1>6, <1>7, AbsentIsNoValue DEF IInv, Locking
<1>9. ~Registering(t)
  BY <1>2 DEF Registering
<1>10. Orderly(t)'
  BY <1>1, <1>2, <1>3, <1>9, RetopOrderly DEF IInv
<1>11. Counted'
  BY <1>1, <1>4, <1>9, CountedKept DEF IInv
<1>12. \A u \in Threads \ {t} : Orderly(u)'
  BY <1>1, <1>4, OthersOrderly DEF IInv
<1> QED
  BY <1>5, <1>8, <1>10, <1>11, <1>12 DEF IInv

LEMMA getKeeps == ASSUME IInv, NEW t \in Threads, get(t) PROVE IInv'
<1>1. At(t, "read") /\ readers' = readers \ {t} /\ UNCHANGED <<hooks, writer, guard, conflicting>>
  BY DEF get
<1>2. /\ stack[t] # <<>> /\ Top(t).at = "read" /\ Top(t) \in GoodFrame /\ guard.state = "done"
      /\ ~At(t, "write")
  BY <1>1, PlaceOfTop
<1>3. ~Registering(t)
  BY <1>2 DEF Registering
<1>4. CASE hooks[Head1(t)] = NoHook
  <2>1. /\ stack' \in [Threads -> Seq(GoodFrame)] /\ stack'[t] = <<>>
        /\ \A u \in Threads \ {t} : stack'[u] = stack[u]
    BY <1>4, NewStack, EmptySeq DEF IInv, get, Throw
  <2>2. Orderly(t)' /\ \A w : ~At(t, w)'
    BY <2>1, EmptyOrderly
  <2>3. \A u \in Threads \ {t} : (\A w : At(u, w)' <=> At(u, w)) /\ Orderly(u)'
    BY <1>1, <2>1, AtSame, OthersOrderly DEF IInv
  <2>4. StackOK' /\ Counted'
    BY <1>1, <1>3, <2>1, CountedKept DEF IInv, StackOK
  <2>5. Locking'
    BY <1>1, <1>2, <2>2, <2>3 DEF IInv, Locking
  <2> QED
    BY <2>2, <2>3, <2>4, <2>5 DEF IInv
<1>5. CASE hooks[Head1(t)] # NoHook
  <2> DEFINE f == [Goto(t, "hook") EXCEPT !.hook = hooks[Head1(t)]]
  <2>1. stack' = Retop(t, f)
    BY <1>5 DEF get
  <2>2. Top(t).heads # <<>> /\ Top(t).heads \in Seq(Heads)
    BY <1>2 DEF GoodFrame, Frame
  <2>3. hooks[Head1(t)] \in HookValues \cup {NoHook}
    BY <2>2, HeadTailProperties DEF Head1, IInv, StackOK
  <2>4. Goto(t, "hook") \in GoodFrame /\ Goto(t, "hook").at = "hook"
    BY <1>2, <2>2, GotoType DEF IInv
  <2>5. f \in GoodFrame /\ f.at = "hook"
    BY <2>3, <2>4 DEF GoodFrame, Frame
  <2> HIDE DEF f
  <2>6. /\ stack' \in [Threads -> Seq(GoodFrame)]
        /\ \A u \in Threads \ {t} : stack'[u] = stack[u]
    BY <1>2, <2>1, <2>5, RetopStack DEF IInv
  <2>7. \A w : At(t, w)' <=> w = "hook"
    BY <1>2, <2>1, <2>5, AtRetop DEF IInv
  <2>8. \A u \in Threads \ {t} : (\A w : At(u, w)' <=> At(u, w)) /\ Orderly(u)'
    BY <1>1, <2>6, AtSame, OthersOrderly DEF IInv
  <2>9. StackOK' /\ Counted'
    BY <1>1, <1>3, <2>6, CountedKept DEF IInv, StackOK
  <2>10. Locking'
    BY <1>1, <1>2, <2>7, <2>8 DEF IInv, Locking
  <2>11. Orderly(t)'
    BY <1>1, <1>2, <1>3, <2>1, <2>5, RetopOrderly DEF IInv
  <2> QED
    BY <2>8, <2>9, <2>10, <2>11 DEF IInv
<1> QED
  BY <1>4, <1>5

LEMMA RunHookKeeps == ASSUME IInv, NEW t \in Threads, RunHook(t) PROVE IInv'
<1> DEFINE body == BodyOf(Top(t).hook)
<1>1. At(t, "hook") /\ UNCHANGED <<hooks, writer, readers, guard, conflicting>>
  BY DEF RunHook
<1>2. /\ stack[t] # <<>> /\ Top(t).at = "hook" /\ Top(t) \in GoodFrame /\ guard.state = "done"
      /\ ~At(t, "write") /\ ~At(t, "read") /\ ~At(t, "set")
  BY <1>1, PlaceOfTop
<1>3. Top(t).heads # <<>>
  BY <1>2 DEF GoodFrame
<1>4. Goto(t, "returning") \in GoodFrame /\ Goto(t, "returning").at = "returning"
  BY <1>2, <1>3, GotoType DEF IInv
<1>5. \/ body.call = "nothing"
      \/ body.call = "derivative" /\ body.heads \in Seq(Heads)
      \/ body.call = "register" /\ body.head \in Heads /\ body.hook \in UserHooks
  BY BodiesAreCalls DEF BodyOf, Nothing
<1>6. CASE body.call = "nothing"
  <2>1. stack' = Retop(t, Goto(t, "returning"))
    BY <1>6 DEF RunHook
  <2> QED
    BY <1>1, <1>2, <1>4, <2>1, QuietRetop
<1>7. ASSUME NEW g \in GoodFrame, g.at \in {"ensure", "set"}, stack' = Push(t, Goto(t, "returning"), g)
      PROVE  IInv'
  <2>1. /\ stack' \in [Threads -> Seq(GoodFrame)]
        /\ \A u \in Threads \ {t} : stack'[u] = stack[u]
    BY <1>2, <1>4, <1>7, PushStack DEF IInv
  <2>2. \A w : At(t, w)' <=> g.at = w
    BY <1>2, <1>4, <1>7, AtPush DEF IInv
  <2>3. ~Registering(t)
    BY <1>2 DEF Registering
  <2>4. StackOK' /\ Counted'
    BY <1>1, <2>1, <2>3, CountedKept DEF IInv, StackOK
  <2>5. Locking'
    BY <1>1, <1>2, <1>7, <2>1, <2>2, LockingKept DEF IInv
  <2>6. Orderly(t)'
    BY <1>1, <1>2, <1>4, <1>7, <2>3, PushOrderly DEF IInv
  <2>7. \A u \in Threads \ {t} : Orderly(u)'
    BY <1>1, <2>1, OthersOrderly DEF IInv
  <2> QED
    BY <2>4, <2>5, <2>6, <2>7 DEF IInv
<1>8. CASE body.call = "derivative" /\ body.heads \in Seq(Heads)
  <2>1. stack' = Push(t, Goto(t, "returning"), DerivativeFrame(body.heads))
    BY <1>8 DEF RunHook
  <2>2. DerivativeFrame(body.heads) \in GoodFrame /\ DerivativeFrame(body.heads).at = "ensure"
    BY <1>8, FrameTypes DEF DerivativeFrame
  <2> QED
    BY <1>7, <2>1, <2>2
<1>9. CASE body.call = "register" /\ body.head \in Heads /\ body.hook \in UserHooks
  <2>1. stack' = Push(t, Goto(t, "returning"), RegisterFrame(body.head, body.hook))
    BY <1>9 DEF RunHook
  <2>2. /\ RegisterFrame(body.head, body.hook) \in GoodFrame
        /\ RegisterFrame(body.head, body.hook).at = "set"
    BY <1>9, FrameTypes DEF RegisterFrame, HookValues
  <2> QED
    BY <1>7, <2>1, <2>2
<1> QED
  BY <1>5, <1>6, <1>8, <1>9

LEMMA HookReturnsKeeps == ASSUME IInv, NEW t \in Threads, HookReturns(t) PROVE IInv'
<1>1. At(t, "returning") /\ UNCHANGED <<hooks, writer, readers, guard, conflicting>>
  BY DEF HookReturns
<1>2. /\ stack[t] # <<>> /\ Top(t).at = "returning" /\ Top(t) \in GoodFrame /\ guard.state = "done"
      /\ ~At(t, "write") /\ ~At(t, "read") /\ ~At(t, "set")
  BY <1>1, PlaceOfTop
<1>3. CASE Top(t).hook \in WrongCount
  BY <1>1, <1>2, <1>3, QuietThrow DEF HookReturns
<1>4. CASE Top(t).hook \notin WrongCount
  <2> DEFINE f == [at |-> "visit", heads |-> Tail(Top(t).heads), hook |-> NoHook]
  <2>1. stack' = Retop(t, f)
    BY <1>4 DEF HookReturns
  <2>2. Tail(Top(t).heads) \in Seq(Heads)
    BY <1>2, HeadTailProperties DEF GoodFrame, Frame
  <2>3. f \in GoodFrame /\ f.at = "visit"
    BY <2>2 DEF GoodFrame, Frame
  <2> QED
    BY <1>1, <1>2, <2>1, <2>3, QuietRetop
<1> QED
  BY <1>3, <1>4

LEMMA DerivativeReturnsKeeps ==
    ASSUME IInv, NEW t \in Threads, DerivativeReturns(t) PROVE IInv'
<1>1. /\ At(t, "visit") /\ stack' = Pop(t)
      /\ UNCHANGED <<hooks, writer, readers, guard, conflicting>>
  BY DEF DerivativeReturns, Return
<1>2. /\ stack[t] # <<>> /\ Top(t).at = "visit"
      /\ ~At(t, "write") /\ ~At(t, "read")
  BY <1>1, PlaceOfTop
<1>3. /\ stack' \in [Threads -> Seq(GoodFrame)]
      /\ \A u \in Threads \ {t} : stack'[u] = stack[u]
  BY <1>1, <1>2, PopStack DEF IInv
<1>4. ~At(t, "write")' /\ ~At(t, "read")'
  BY <1>1, <1>2, AtPop DEF IInv, Orderly
<1>5. ~Registering(t)
  BY <1>2 DEF Registering
<1>6. StackOK' /\ Counted'
  BY <1>1, <1>3, <1>5, CountedKept DEF IInv, StackOK
<1>7. Locking'
  BY <1>1, <1>2, <1>3, <1>4, LockingKept DEF IInv
<1>8. Orderly(t)'
  BY <1>1, <1>2, PopOrderly DEF IInv
<1>9. \A u \in Threads \ {t} : Orderly(u)'
  BY <1>1, <1>3, OthersOrderly DEF IInv
<1> QED
  BY <1>6, <1>7, <1>8, <1>9 DEF IInv

-----------------------------------------------------------------------------
(* Theorems. *)

LEMMA InitIInv == Init => IInv
<1> SUFFICES ASSUME Init PROVE IInv
  OBVIOUS
<1>1. \A t \in Threads : stack[t] = <<>> /\ Len(stack[t]) = 0
  BY EmptySeq DEF Init
<1>2. <<>> \in Seq(GoodFrame)
  BY EmptySeq
<1>3. Unstarted \in Guard
  BY BuiltinsAreHeads DEF Unstarted, Guard
<1>4. StackOK
  BY <1>2, <1>3 DEF Init, StackOK
<1>5. Locking
  BY <1>1, AbsentIsNoValue DEF Init, Locking, At
<1>6. Counted
  BY DEF Init, Counted, Unstarted
<1>7. \A t \in Threads : Orderly(t)
  BY <1>1 DEF Orderly, Waiting, Initialising, GoneOn
<1> QED
  BY <1>4, <1>5, <1>6, <1>7 DEF IInv

LEMMA StepIInv == IInv /\ [Next]_vars => IInv'
<1> SUFFICES ASSUME IInv, [Next]_vars PROVE IInv'
  OBVIOUS
<1>1. ASSUME NEW t \in Threads, derivative(t) PROVE IInv'
  <2>1. PICK h \in Expressions : stack' = [stack EXCEPT ![t] = <<DerivativeFrame(h)>>]
    BY <1>1 DEF derivative
  <2>2. DerivativeFrame(h) \in GoodFrame /\ DerivativeFrame(h).at = "ensure"
    BY FrameTypes, ArgumentsAreHeads DEF DerivativeFrame
  <2> QED
    BY <1>1, <2>1, <2>2, CallKeeps DEF derivative
<1>2. ASSUME NEW t \in Threads, register_derivative_hook(t) PROVE IInv'
  <2>1. PICK r \in Registrations : stack' = [stack EXCEPT ![t] = <<RegisterFrame(r[1], r[2])>>]
    BY <1>2 DEF register_derivative_hook
  <2>2. r[1] \in Heads /\ r[2] \in HookValues
    BY ArgumentsAreHeads DEF HookValues
  <2>3. RegisterFrame(r[1], r[2]) \in GoodFrame /\ RegisterFrame(r[1], r[2]).at = "set"
    BY <2>2, FrameTypes DEF RegisterFrame
  <2> QED
    BY <1>2, <2>1, <2>3, CallKeeps DEF register_derivative_hook
<1>3. ASSUME NEW t \in Threads, Step(t) PROVE IInv'
  BY <1>3, EnsureKeeps, RegisterBuiltinKeeps, BuiltinsRegisteredKeeps, LockExclusiveKeeps,
     setKeeps, LockSharedKeeps, getKeeps, RunHookKeeps, HookReturnsKeeps,
     DerivativeReturnsKeeps DEF Step
<1>4. CASE UNCHANGED vars
  <2>1. /\ stack' = stack /\ hooks' = hooks /\ guard' = guard /\ conflicting' = conflicting
        /\ writer' = writer /\ readers' = readers
    BY <1>4 DEF vars
  <2>2. StackOK' /\ Locking'
    BY <2>1 DEF IInv, StackOK, Locking, At
  <2>3. Counted'
    BY <2>1 DEF IInv, Counted, Registering, Top, Head1
  <2>4. \A u \in Threads : Orderly(u)'
    BY <2>1, OthersOrderly DEF IInv
  <2> QED
    BY <2>2, <2>3, <2>4 DEF IInv
<1> QED
  BY <1>1, <1>2, <1>3, <1>4 DEF Next

\* What every thread, the lock and the guard of the lazy initialisation know of
\* each other, at every moment.
THEOREM Invariance == Spec => []IInv
<1>1. Init => IInv
  BY InitIInv
<1>2. IInv /\ [Next]_vars => IInv'
  BY StepIInv
<1> QED
  BY <1>1, <1>2, PTL DEF Spec

\* Readers and a writer are never in the map together, and no hook runs while
\* its thread holds the lock, whatever hooks call.
THEOREM LockIsDisciplined == Spec => []LockDiscipline
<1>1. IInv => LockDiscipline
  <2> SUFFICES ASSUME IInv, NEW t \in Threads
               PROVE  /\ At(t, "write") => writer = t /\ readers = {}
                      /\ At(t, "read") => t \in readers /\ writer = NoThread
                      /\ At(t, "hook") => t \notin readers /\ writer # t
    BY DEF LockDiscipline
  <2>1. At(t, "write") => writer = t /\ readers = {}
    BY AbsentIsNoValue DEF IInv, Locking
  <2>2. At(t, "read") => t \in readers /\ writer = NoThread
    BY DEF IInv, Locking
  <2>3. At(t, "hook") => t \notin readers /\ writer # t
    BY PlaceOfTop DEF IInv, Locking
  <2> QED
    BY <2>1, <2>2, <2>3
<1> QED
  BY <1>1, Invariance, PTL

LEMMA DoneIsDone ==
    IInv /\ guard.state = "done" =>
        \A i \in DOMAIN Builtins : Builtins[i] \notin conflicting /\ hooks[Builtins[i]] # NoHook
<1> SUFFICES ASSUME IInv, guard.state = "done", NEW i \in DOMAIN Builtins
             PROVE  Builtins[i] \notin conflicting /\ hooks[Builtins[i]] # NoHook
  OBVIOUS
<1>1. guard.next = Len(Builtins) + 1 /\ Len(Builtins) \in Nat /\ i \in 1 .. Len(Builtins)
  BY BuiltinsAreHeads DEF IInv, Counted
<1>2. i \in 1 .. guard.next - 1
  BY <1>1
<1> QED
  BY <1>2 DEF IInv, Counted

\* No thread that searches the registry misses a builtin, however many make the
\* first call of derivative() at once.
THEOREM BuiltinsAreNeverMissed == Spec => []BuiltinsAreFound
<1>1. IInv => BuiltinsAreFound
  <2> SUFFICES ASSUME IInv, NEW t \in Threads, NEW i \in DOMAIN Builtins, At(t, "read")
               PROVE  hooks[Builtins[i]] # NoHook
    BY DEF BuiltinsAreFound
  <2>1. guard.state = "done"
    BY PlaceOfTop
  <2> QED
    BY <2>1, DoneIsDone
<1> QED
  BY <1>1, Invariance, PTL

\* An initialisation that failed is never taken for done, however often it is
\* tried again and by whom.
THEOREM FailuresAreNotDone == Spec => []FailedInitIsNeverDone
<1>1. IInv => FailedInitIsNeverDone
  <2> SUFFICES ASSUME IInv, conflicting # {}, NEW t \in Threads, NEW i \in DOMAIN stack[t],
                      stack[t][i].at \in {"visit", "read", "hook", "returning"}
               PROVE  FALSE
    BY DEF FailedInitIsNeverDone
  <2>1. i \in 1 .. Len(stack[t])
    BY StackType DEF IInv
  <2>2. guard.state = "done"
    BY <2>1 DEF IInv, Orderly, GoneOn
  <2>3. PICK f \in conflicting : TRUE
    OBVIOUS
  <2>4. PICK j \in DOMAIN Builtins : f = Builtins[j]
    BY BuiltinsAreHeads DEF IInv, StackOK
  <2> QED
    BY <2>2, <2>4, DoneIsDone
<1> QED
  BY <1>1, Invariance, PTL
=============================================================================
