------------------------ MODULE ParallelRewrite_proofs ------------------------
(***************************************************************************)
(* Proofs about ParallelRewrite, for every number of terms and threads:    *)
(* the chunks partition the terms, and from that every term is rewritten,  *)
(* by one thread, before the call returns.                                 *)
(***************************************************************************)
EXTENDS ParallelRewrite, TLAPS

-----------------------------------------------------------------------------
(* The chunks.                                                             *)

\* Division rounded up: k chunks of c terms hold n terms, and no smaller c does.
LEMMA RoundedUp ==
    ASSUME NEW n \in Nat, NEW k \in Nat, k >= 1
    PROVE  /\ (n + k - 1) \div k \in Nat
           /\ k * ((n + k - 1) \div k) >= n
           /\ n >= 1 => (n + k - 1) \div k >= 1
<1> DEFINE c == (n + k - 1) \div k
<1>1. c \in Int /\ k * c <= n + k - 1 /\ n + k - 1 < k * c + k
  BY SMT
<1>2. c \in Nat
  BY <1>1, SMT
<1>3. n >= 1 => c >= 1
  BY <1>1, <1>2, SMT
<1> QED BY <1>1, <1>2, <1>3, SMT

LEMMA Products ==
    ASSUME NEW v \in Nat, NEW w \in Nat, NEW c \in Nat, v < w
    PROVE  v * c + c <= w * c
<1>1. PICK d \in Nat : w = v + 1 + d
  <2>1. w - v - 1 \in Nat /\ w = v + 1 + (w - v - 1)
    BY SMT
  <2> QED BY <2>1
<1>2. w * c = v * c + c + d * c /\ d * c \in Nat
  BY <1>1, SMT
<1> QED BY <1>2, SMT

LEMMA WorkerCount ==
    ASSUME NEW n \in Nat, NEW threads \in Nat
    PROVE  worker_count(n, threads) \in Nat /\ worker_count(n, threads) >= 1
BY DEF worker_count, Greatest, Least

LEMMA ChunkSize ==
    ASSUME NEW n \in Nat, NEW threads \in Nat
    PROVE  /\ chunk_size(n, threads) \in Nat
           /\ worker_count(n, threads) * chunk_size(n, threads) >= n
           /\ n >= 1 => chunk_size(n, threads) >= 1
BY WorkerCount, RoundedUp DEF chunk_size

LEMMA ChunkBounds ==
    ASSUME NEW n \in Nat, NEW threads \in Nat, NEW w \in Nat
    PROVE  /\ first_of(w, n, threads) \in Nat
           /\ end_of(w, n, threads) \in Nat
           /\ end_of(w, n, threads) <= n
<1> DEFINE c == chunk_size(n, threads)
<1>1. c \in Nat
  BY ChunkSize
<1>2. w * c \in Nat
  BY <1>1, SMT
<1> QED BY <1>1, <1>2 DEF first_of, end_of, Least

\* No term is in two chunks.
THEOREM ChunksAreApart ==
    ASSUME NEW n \in Nat, NEW threads \in Nat, NEW v \in Nat, NEW w \in Nat, v < w
    PROVE  end_of(v, n, threads) <= first_of(w, n, threads)
<1> DEFINE c == chunk_size(n, threads)
<1>1. c \in Nat
  BY ChunkSize
<1>2. v * c \in Nat /\ w * c \in Nat
  BY <1>1, SMT
<1>3. v * c + c <= w * c
  BY <1>1, Products
<1> HIDE DEF c
<1>4. \A x, y \in Nat : Least(n, x + c) <= x + c
  BY <1>1 DEF Least
<1> QED BY <1>1, <1>2, <1>3, <1>4 DEF first_of, end_of, c, Least

\* Every term is in some chunk of the call's threads, and that chunk is not
\* empty, so a thread is started for it.
THEOREM ChunksCover ==
    ASSUME NEW n \in Nat, NEW threads \in Nat, NEW i \in 0 .. n - 1
    PROVE  \E w \in 0 .. worker_count(n, threads) - 1 :
             first_of(w, n, threads) <= i /\ i < end_of(w, n, threads)
<1> DEFINE c == chunk_size(n, threads)
           k == worker_count(n, threads)
           w == i \div c
<1>1. n >= 1 /\ i \in Nat /\ i < n
  BY SMT
<1>2. c \in Nat /\ c >= 1 /\ k \in Nat /\ k * c >= n
  BY <1>1, ChunkSize, WorkerCount
<1> HIDE DEF c, k
<1>3. w \in Nat /\ w * c <= i /\ i < w * c + c
  BY <1>1, <1>2, SMT
<1> HIDE DEF w
<1>4. w < k
  <2>1. SUFFICES ASSUME k <= w PROVE FALSE
    BY <1>2, <1>3, SMT
  <2>2. k * c <= w * c
    <3>1. CASE k = w
      BY <3>1, <1>2, <1>3, SMT
    <3>2. CASE k < w
      <4>1. k * c + c <= w * c
        BY <3>2, <1>2, <1>3, Products
      <4>2. k * c \in Nat /\ w * c \in Nat
        BY <1>2, <1>3, SMT
      <4> QED BY <4>1, <4>2, <1>2, SMT
    <3> QED BY <2>1, <3>1, <3>2, <1>2, <1>3, SMT
  <2>3. k * c \in Nat /\ w * c \in Nat
    BY <1>2, <1>3, SMT
  <2> QED BY <2>2, <2>3, <1>1, <1>2, <1>3, SMT
<1>5. w * c \in Nat
  BY <1>2, <1>3, SMT
<1>6. first_of(w, n, threads) <= i /\ i < end_of(w, n, threads)
  BY <1>1, <1>2, <1>3, <1>5 DEF first_of, end_of, Least, c
<1>7. w \in 0 .. k - 1
  BY <1>2, <1>3, <1>4, SMT
<1> QED BY <1>6, <1>7 DEF k

-----------------------------------------------------------------------------
(* The inductive invariant.                                                *)

States == {"none", "ready", "rewriting", "guard", "matched", "ended"}

\* A thread's record as TypeOK has it.
LEMMA ThreadType ==
    ASSUME TypeOK, NEW w \in Workers
    PROVE  /\ worker[w] \in [pc : States, i : 0 .. size, end : 0 .. size]
           /\ size \in Nat /\ num_threads \in Nat /\ w \in Nat
           /\ worker_count(size, num_threads) \in Nat
<1>1. size \in Nat /\ num_threads \in Nat
  BY TermsAreCounts, ThreadsAreCounts DEF TypeOK
<1>2. worker_count(size, num_threads) \in Nat
  BY <1>1, WorkerCount
<1>3. w \in Nat
  BY <1>2 DEF Workers
<1>4. worker[w] \in [pc : States, i : 0 .. size, end : 0 .. size]
  BY DEF TypeOK, States
<1> QED BY <1>1, <1>2, <1>3, <1>4

LEMMA InitIInv == Init => IInv
<1> SUFFICES ASSUME Init PROVE IInv
  OBVIOUS
<1>1. size \in Nat /\ num_threads \in Nat
  BY TermsAreCounts, ThreadsAreCounts DEF Init
<1>2. TypeOK
  BY <1>1, WorkerCount DEF Init, TypeOK, NotStarted
<1>3. \A w \in Workers : worker[w].pc = "none"
  BY DEF Init, NotStarted
<1> QED BY <1>2, <1>3 DEF IInv, MainInv, Init, ThreadInv, CallerInv, Workers

\* The caller's steps other than starting a thread.
LEMMA CallerSteps ==
    ASSUME IInv,
           \/ Prepare \/ AllStarted \/ Return
           \/ \E w \in Workers : SkipWorker(w) \/ StartFails(w) \/ Join(w)
    PROVE  IInv'
<1> USE DEF IInv, MainInv
<1>0. size \in Nat /\ num_threads \in Nat /\ worker_count(size, num_threads) \in Nat
  BY TermsAreCounts, ThreadsAreCounts, WorkerCount DEF TypeOK
<1>a. UNCHANGED <<size, num_threads, worker, results>>
  BY DEF Prepare, AllStarted, Return, SkipWorker, StartFails, Join
<1>b. /\ Workers' = Workers
      /\ \A w \in Workers : ThreadInv(w)'
  BY <1>a DEF Workers, ThreadInv
<1>1. CASE Prepare
  <2>1. TypeOK' /\ MainInv'
    BY <1>1, <1>0 DEF Prepare, TypeOK, Workers
  <2>2. \A w \in Workers : CallerInv(w)'
    <3> TAKE w \in Workers
    <3>1. w \in Nat /\ next_worker \in Nat /\ worker[w].pc = "none"
      BY <1>1, <1>0 DEF Prepare, CallerInv, TypeOK, Workers
    <3>2. CASE main' = "spawning"
      <4>1. next_worker = 0
        BY <1>1 DEF Prepare
      <4> QED BY <4>1, <3>1, <3>2, <1>1 DEF Prepare, CallerInv
    <3>3. CASE main' = "threw"
      BY <3>1, <3>3, <1>1 DEF Prepare, CallerInv
    <3>4. CASE main' = "returned" /\ size = 0
      <4>1. first_of(w, 0, num_threads) \in Nat /\ end_of(w, 0, num_threads) \in Nat
            /\ end_of(w, 0, num_threads) <= 0
        BY <3>1, <1>0, ChunkBounds
      <4>2. first_of(w, 0, num_threads) >= end_of(w, 0, num_threads)
        BY <4>1
      <4> QED BY <4>2, <3>1, <3>4, <1>1 DEF Prepare, CallerInv
    <3> QED BY <3>2, <3>3, <3>4, <1>1 DEF Prepare
  <2> QED BY <2>1, <2>2, <1>b
<1>2. CASE AllStarted
  <2>1. TypeOK' /\ MainInv'
    BY <1>2, <1>0 DEF AllStarted, TypeOK, Workers
  <2>2. \A w \in Workers : CallerInv(w)'
    BY <1>2, <1>0 DEF AllStarted, CallerInv, TypeOK, Workers
  <2> QED BY <2>1, <2>2, <1>b
<1>3. CASE Return
  <2>1. TypeOK' /\ MainInv'
    BY <1>3, <1>0 DEF Return, TypeOK, Workers
  <2>2. \A w \in Workers : CallerInv(w)'
    BY <1>3, <1>0 DEF Return, CallerInv, TypeOK, Workers
  <2> QED BY <2>1, <2>2, <1>b
<1>4. ASSUME NEW v \in Workers, SkipWorker(v)
      PROVE  IInv'
  <2>1. TypeOK' /\ MainInv'
    BY <1>4, <1>0 DEF SkipWorker, Spawning, TypeOK, Workers
  <2>2. \A w \in Workers : CallerInv(w)'
    BY <1>4, <1>0 DEF SkipWorker, Spawning, CallerInv, TypeOK, Workers
  <2> QED BY <2>1, <2>2, <1>b
<1>5. ASSUME NEW v \in Workers, StartFails(v)
      PROVE  IInv'
  <2>1. TypeOK' /\ MainInv'
    BY <1>5, <1>0 DEF StartFails, Spawning, TypeOK, Workers
  <2>2. \A w \in Workers : CallerInv(w)'
    BY <1>5, <1>0 DEF StartFails, Spawning, Joinable, CallerInv
  <2> QED BY <2>1, <2>2, <1>b
<1>6. ASSUME NEW v \in Workers, Join(v)
      PROVE  IInv'
  <2>1. TypeOK' /\ MainInv'
    BY <1>6, <1>0 DEF Join, TypeOK, Workers
  <2>2. \A w \in Workers : CallerInv(w)'
    BY <1>6, <1>0 DEF Join, Running, CallerInv, TypeOK, Workers
  <2> QED BY <2>1, <2>2, <1>b
<1> QED BY <1>1, <1>2, <1>3, <1>4, <1>5, <1>6

LEMMA StartWorkerStep ==
    ASSUME IInv, NEW v \in Workers, StartWorker(v)
    PROVE  IInv'
<1> USE DEF IInv, MainInv
<1> DEFINE first == first_of(v, size, num_threads)
           end   == end_of(v, size, num_threads)
<1>0. /\ size \in Nat /\ num_threads \in Nat /\ v \in Nat
      /\ worker_count(size, num_threads) \in Nat
  BY ThreadType
<1>1. first \in 0 .. size /\ end \in 0 .. size /\ first < end
  BY <1>0, ChunkBounds DEF StartWorker
<1>2. /\ UNCHANGED <<size, num_threads, main, results>>
      /\ Workers' = Workers
      /\ main = "spawning" /\ next_worker = v /\ next_worker' = v + 1
      /\ worker' = [worker EXCEPT ![v] = [pc |-> "ready", i |-> first, end |-> end]]
  BY DEF StartWorker, Spawning, Workers
<1>3. TypeOK' /\ MainInv'
  BY <1>0, <1>1, <1>2 DEF TypeOK, Workers
<1>4. worker'[v] = [pc |-> "ready", i |-> first, end |-> end]
      /\ \A w \in Workers \ {v} : worker'[w] = worker[w]
  BY <1>2 DEF TypeOK
<1>5. \A w \in Workers : ThreadInv(w)'
  BY <1>0, <1>1, <1>2, <1>4 DEF ThreadInv, Workers
<1>6. \A w \in Workers : CallerInv(w)'
  BY <1>0, <1>1, <1>2, <1>4 DEF CallerInv, Workers
<1> QED BY <1>2, <1>3, <1>5, <1>6

\* A thread's step within its chunk, or to its end, keeps the invariant.
LEMMA WorkerSteps ==
    ASSUME IInv, NEW v \in Workers, WorkerStep(v)
    PROVE  IInv'
<1> USE DEF IInv, MainInv
<1>0. /\ worker[v] \in [pc : States, i : 0 .. size, end : 0 .. size]
      /\ size \in Nat /\ num_threads \in Nat /\ v \in Nat
      /\ worker_count(size, num_threads) \in Nat
  BY ThreadType
<1>1. CASE Throw(v)
  <2>1. UNCHANGED <<size, num_threads, next_worker, worker, results>> /\ main' = "terminated"
    BY <1>1 DEF Throw
  <2>2. Workers' = Workers
    BY <2>1 DEF Workers
  <2>3. TypeOK' /\ \A w \in Workers : ThreadInv(w)' /\ CallerInv(w)'
    BY <2>1, <2>2 DEF TypeOK, ThreadInv, CallerInv, Workers
  <2> QED BY <2>1, <2>2, <2>3
<1>2. CASE TakeTerm(v) \/ EnterGuard(v) \/ LeaveGuard(v)
  <2>1. PICK pc \in {"rewriting", "guard", "matched", "ended"} : 
          /\ worker' = [worker EXCEPT ![v].pc = pc]
          /\ pc = "ended" => worker[v].i >= worker[v].end
          /\ pc # "ended" => worker[v].i < worker[v].end
          /\ worker[v].pc \notin {"none", "ended"}
    BY <1>0, <1>2 DEF TakeTerm, EnterGuard, LeaveGuard, At, Goto, ThreadInv
  <2>2. UNCHANGED <<size, num_threads, main, next_worker, results>> /\ Workers' = Workers
    BY <1>2 DEF TakeTerm, EnterGuard, LeaveGuard, Workers
  <2>3. TypeOK'
    BY <1>0, <2>1, <2>2 DEF TypeOK, States, Workers
  <2>4. /\ worker'[v] = [worker[v] EXCEPT !.pc = pc]
        /\ \A w \in Workers \ {v} : worker'[w] = worker[w]
    BY <2>1 DEF TypeOK
  <2>5. /\ worker'[v].pc = pc /\ worker'[v].i = worker[v].i
        /\ worker'[v].end = worker[v].end
    BY <2>4, <1>0
  <2>6. \A w \in Workers : ThreadInv(w)'
    BY <1>0, <2>1, <2>2, <2>4, <2>5 DEF ThreadInv, Workers
  <2>7. \A w \in Workers : CallerInv(w)'
    BY <1>0, <2>1, <2>2, <2>4, <2>5 DEF CallerInv, Workers
  <2> QED BY <2>2, <2>3, <2>6, <2>7
<1>3. CASE StoreResult(v)
  <2> DEFINE i == worker[v].i
  <2>1. /\ UNCHANGED <<size, num_threads, main, next_worker>> /\ Workers' = Workers
        /\ results' = [results EXCEPT ![i] = "rewritten"]
        /\ worker' = [worker EXCEPT ![v].pc = "ready", ![v].i = i + 1]
        /\ worker[v].pc \in {"rewriting", "matched"}
    BY <1>3 DEF StoreResult, Rewritten, At, Workers
  <2>2. i < worker[v].end /\ i \in 0 .. size - 1
    BY <2>1, <1>0 DEF ThreadInv
  <2>3. /\ worker'[v].pc = "ready" /\ worker'[v].i = i + 1
        /\ worker'[v].end = worker[v].end
        /\ worker'[v] \in [pc : States, i : 0 .. size, end : 0 .. size]
        /\ \A w \in Workers \ {v} : worker'[w] = worker[w]
    <3>1. i + 1 \in 0 .. size /\ "ready" \in States
      BY <2>2, <1>0 DEF States
    <3>2. worker'[v] = [worker[v] EXCEPT !.pc = "ready", !.i = i + 1]
          /\ \A w \in Workers \ {v} : worker'[w] = worker[w]
      BY <2>1 DEF TypeOK
    <3> QED
      BY <1>0, <3>1, <3>2
  <2>4. TypeOK'
    BY <1>0, <2>1, <2>2, <2>3 DEF TypeOK, Workers, States
  <2>5. /\ results'[i] = "rewritten"
        /\ \A j \in 0 .. size - 1 : results[j] = "rewritten" => results'[j] = "rewritten"
    BY <2>1, <2>2 DEF TypeOK
  <2>6. ThreadInv(v)'
    <3> DEFINE first == first_of(v, size, num_threads)
               end   == end_of(v, size, num_threads)
    <3>1. first \in Nat /\ end \in Nat /\ i \in Nat
      BY <1>0, <2>2, ChunkBounds
    <3>2. /\ first < end /\ worker[v].end = end /\ first <= i
          /\ \A j \in first .. i - 1 : results[j] = "rewritten"
      BY <2>1 DEF ThreadInv
    <3> HIDE DEF first, end
    <3>3. \A j \in first .. i : results'[j] = "rewritten"
      <4> TAKE j \in first .. i
      <4>1. CASE j = i
        BY <4>1, <2>5
      <4>2. CASE j \in first .. i - 1 /\ j \in 0 .. size - 1
        BY <4>2, <3>2, <2>5
      <4> QED BY <4>1, <4>2, <3>1, <2>2, <1>0
    <3>4. i + 1 <= end /\ first <= i + 1 /\ (i + 1) - 1 = i
      BY <3>1, <3>2, <2>2
    <3>5. first' = first /\ end' = end
      BY <2>1 DEF first, end
    <3> QED BY <2>1, <2>3, <3>2, <3>3, <3>4, <3>5 DEF ThreadInv, first, end
  <2>7. \A w \in Workers \ {v} : ThreadInv(w)'
    <3> TAKE w \in Workers \ {v}
    <3> DEFINE first == first_of(w, size, num_threads)
               end   == end_of(w, size, num_threads)
    <3>1. ThreadInv(w) /\ worker'[w] = worker[w]
      BY <2>3
    <3>2. worker[w] \in [pc : States, i : 0 .. size, end : 0 .. size] /\ w \in Nat
      BY ThreadType
    <3>3. worker[w].i \in 0 .. size
      BY <3>2
    <3>4. first \in Nat
      BY <3>2, <1>0, ChunkBounds
    <3>5. first' = first /\ end' = end
      BY <2>1, <3>1 DEF first, end
    <3> HIDE DEF first, end
    <3>6. \A j \in first .. worker[w].i - 1 : j \in 0 .. size - 1
      BY <3>3, <3>4, <1>0
    <3> QED BY <2>5, <3>1, <3>5, <3>6 DEF ThreadInv, first, end
  <2>8. \A w \in Workers : CallerInv(w)'
    BY <1>0, <2>1, <2>3 DEF CallerInv, Workers
  <2> QED BY <2>1, <2>4, <2>6, <2>7, <2>8
<1> QED BY <1>1, <1>2, <1>3 DEF WorkerStep

LEMMA NextIInv == IInv /\ [Next]_vars => IInv'
<1> SUFFICES ASSUME IInv, [Next]_vars PROVE IInv'
  OBVIOUS
<1>1. CASE MainStep
  BY <1>1, CallerSteps, StartWorkerStep DEF MainStep
<1>2. CASE \E w \in Workers : WorkerStep(w)
  BY <1>2, WorkerSteps
<1>3. CASE UNCHANGED vars
  BY <1>3 DEF vars, IInv, MainInv, TypeOK, ThreadInv, CallerInv, Workers
<1> QED BY <1>1, <1>2, <1>3 DEF Next

-----------------------------------------------------------------------------
(* The theorems.                                                           *)

\* The inductive invariant holds throughout a call of parallel_replace_all.
THEOREM Invariance == Spec => []IInv
BY InitIInv, NextIInv, PTL DEF Spec

\* The state of a call keeps its type: no thread ever runs past the terms.
THEOREM TypeCorrect == Spec => []TypeOK
<1>1. IInv => TypeOK
  BY DEF IInv
<1> QED BY <1>1, Invariance, PTL

\* Whatever the number of terms and of threads asked for, a call that returns
\* has rewritten every term.
THEOREM EveryTermRewritten == Spec => []ResultsComplete
<1>1. IInv => ResultsComplete
  <2> SUFFICES ASSUME IInv, main = "returned", NEW i \in 0 .. size - 1
               PROVE  results[i] = "rewritten"
    BY DEF ResultsComplete
  <2>1. size \in Nat /\ num_threads \in Nat
    BY TermsAreCounts, ThreadsAreCounts DEF IInv, TypeOK
  <2>2. PICK w \in Workers : /\ first_of(w, size, num_threads) <= i
                             /\ i < end_of(w, size, num_threads)
    BY <2>1, ChunksCover DEF Workers
  <2>3. w \in Nat /\ worker[w] \in [pc : States, i : 0 .. size, end : 0 .. size]
    BY ThreadType DEF IInv
  <2>4. first_of(w, size, num_threads) \in Nat /\ end_of(w, size, num_threads) \in Nat
    <3>1. w \in Nat
      BY <2>3
    <3> QED BY <2>1, <3>1, ChunkBounds
  <2>5. worker[w].pc = "ended"
    BY <2>1, <2>2, <2>4 DEF IInv, CallerInv
  <2> QED BY <2>1, <2>2, <2>3, <2>4, <2>5 DEF IInv, ThreadInv
<1> QED BY <1>1, Invariance, PTL

\* Two running threads are never at the same term or result.
THEOREM NoTermIsShared == Spec => []TermsAreApart
<1>1. ASSUME IInv, NEW v \in Workers, NEW w \in Workers, v < w, Running(v), Running(w)
      PROVE  worker[v].end <= worker[w].i
  <2>1. /\ size \in Nat /\ num_threads \in Nat /\ v \in Nat /\ w \in Nat
        /\ worker[w] \in [pc : States, i : 0 .. size, end : 0 .. size]
    BY <1>1, ThreadType DEF IInv
  <2>2. end_of(v, size, num_threads) <= first_of(w, size, num_threads)
    BY <1>1, <2>1, ChunksAreApart
  <2>3. /\ worker[v].end = end_of(v, size, num_threads)
        /\ first_of(w, size, num_threads) <= worker[w].i
    BY <1>1 DEF IInv, ThreadInv, Running
  <2>4. end_of(v, size, num_threads) \in Nat /\ first_of(w, size, num_threads) \in Nat
    <3>1. size \in Nat /\ num_threads \in Nat /\ v \in Nat /\ w \in Nat
      BY <2>1
    <3> QED BY <3>1, ChunkBounds
  <2>5. worker[w].i \in 0 .. size
    BY <2>1
  <2> QED BY <2>2, <2>3, <2>4, <2>5
<1>2. IInv => TermsAreApart
  <2> SUFFICES ASSUME IInv, NEW v \in Workers, NEW w \in Workers, v # w,
                      Running(v), Running(w)
               PROVE  worker[v].end <= worker[w].i \/ worker[w].end <= worker[v].i
    BY DEF TermsAreApart
  <2>1. v < w \/ w < v
    <3>1. v \in Nat /\ w \in Nat
      BY ThreadType DEF IInv
    <3> QED BY <3>1
  <2> QED BY <2>1, <1>1
<1> QED BY <1>2, Invariance, PTL

\* However a call ends, none of its threads runs on with references to its
\* locals.
THEOREM EveryThreadJoined == Spec => []NoThreadOutlivesTheCall
<1>1. IInv => NoThreadOutlivesTheCall
  BY DEF IInv, CallerInv, NoThreadOutlivesTheCall, Running
<1> QED BY <1>1, Invariance, PTL
===============================================================================
