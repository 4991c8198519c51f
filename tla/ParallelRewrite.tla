--------------------------- MODULE ParallelRewrite ---------------------------
(***************************************************************************)
(* parallel_replace_all (src/src/pattern_core/parallel_rewrite.cc): a call *)
(* splits its terms into chunks, a thread rewrites each chunk, and the     *)
(* caller joins them all.  Terms, threads and chunks count from 0.         *)
(*                                                                         *)
(* What rewriting a term yields is not modelled here; that it may throw,   *)
(* that it may call the rule's guard, and that a thread may fail to start  *)
(* are.  An exception that leaves a thread's function, or the destruction  *)
(* of a thread that was not joined, ends the program (std::terminate).     *)
(***************************************************************************)
EXTENDS Integers, FiniteSets

CONSTANTS Terms,       \* numbers of terms a call may be given
          Threads,     \* values of num_threads
          Throwing,    \* indices of terms whose rewriting throws
          Guarded,     \* indices of terms whose rewriting calls the guard
          MayFail      \* TRUE if the system may run out of memory or threads

ASSUME TermsAreCounts == Terms \subseteq Nat
ASSUME ThreadsAreCounts == Threads \subseteq Nat
ASSUME IndicesAreNaturals == Throwing \subseteq Nat /\ Guarded \subseteq Nat
ASSUME MayFailIsBoolean == MayFail \in BOOLEAN

VARIABLES size,         \* terms.size()
          num_threads,
          main,         \* what the calling thread does
          next_worker,  \* w: the thread it starts or joins next
          worker,       \* worker[w]: [pc, i, end]
          results       \* results[i]: "empty" or "rewritten"

vars == <<size, num_threads, main, next_worker, worker, results>>

-----------------------------------------------------------------------------
(* Chunks.                                                                 *)

Least(a, b)    == IF a <= b THEN a ELSE b
Greatest(a, b) == IF a >= b THEN a ELSE b

worker_count(n, threads) == Greatest(1, Least(threads, n))

\* Mutant: rounds down.
chunk_size_down(n, threads) == Greatest(1, n \div worker_count(n, threads))

\* Rounded up, so that the chunks reach the last term.
chunk_size(n, threads) ==
    (n + worker_count(n, threads) - 1) \div worker_count(n, threads)

\* Chunk w is first_of(w) .. end_of(w) - 1.
first_of(w, n, threads) == w * chunk_size(n, threads)

\* Mutant: every chunk reaches one term into the next.
end_overlapping(w, n, threads) ==
    Least(n, first_of(w, n, threads) + chunk_size(n, threads) + 1)

end_of(w, n, threads) == Least(n, first_of(w, n, threads) + chunk_size(n, threads))

Workers == 0 .. worker_count(size, num_threads) - 1

-----------------------------------------------------------------------------
(* The calling thread.                                                     *)

NotStarted == [pc |-> "none", i |-> 0, end |-> 0]

Init ==
    /\ size \in Terms
    /\ num_threads \in Threads
    /\ main = "called"
    /\ next_worker = 0
    /\ worker = [w \in Workers |-> NotStarted]
    /\ results = [i \in 0 .. size - 1 |-> "empty"]

Running(w) == worker[w].pc \notin {"none", "ended"}

\* A std::thread object that is neither joined nor empty.
Joinable(w) ==
    \/ main = "spawning" /\ worker[w].pc # "none"
    \/ main = "joining" /\ worker[w].pc # "none" /\ w >= next_worker

\* Making the vectors of results and workers.
Prepare ==
    /\ main = "called"
    /\ \/ main' = IF size = 0 THEN "returned" ELSE "spawning"
       \/ MayFail /\ main' = "threw"
    /\ UNCHANGED <<size, num_threads, next_worker, worker, results>>

Spawning(w) == main = "spawning" /\ next_worker = w /\ w \in Workers

\* The chunk of thread w is empty: no thread is made.
SkipWorker(w) ==
    /\ Spawning(w)
    /\ first_of(w, size, num_threads) >= end_of(w, size, num_threads)
    /\ next_worker' = w + 1
    /\ UNCHANGED <<size, num_threads, main, worker, results>>

StartWorker(w) ==
    /\ Spawning(w)
    /\ first_of(w, size, num_threads) < end_of(w, size, num_threads)
    /\ worker' = [worker EXCEPT ![w] =
                    [pc |-> "ready", i |-> first_of(w, size, num_threads),
                     end |-> end_of(w, size, num_threads)]]
    /\ next_worker' = w + 1
    /\ UNCHANGED <<size, num_threads, main, results>>

\* Mutant: catches the failure and lets the exception out with threads running.
StartFailsLeavingThreads(w) ==
    /\ MayFail /\ Spawning(w)
    /\ first_of(w, size, num_threads) < end_of(w, size, num_threads)
    /\ main' = "threw"
    /\ UNCHANGED <<size, num_threads, next_worker, worker, results>>

\* std::thread's constructor throws; unwinding destroys the threads there are.
StartFails(w) ==
    /\ MayFail /\ Spawning(w)
    /\ first_of(w, size, num_threads) < end_of(w, size, num_threads)
    /\ main' = IF \E v \in Workers : Joinable(v) THEN "terminated" ELSE "threw"
    /\ UNCHANGED <<size, num_threads, next_worker, worker, results>>

AllStarted ==
    /\ main = "spawning"
    /\ next_worker \notin Workers
    /\ main' = "joining"
    /\ next_worker' = 0
    /\ UNCHANGED <<size, num_threads, worker, results>>

\* Mutant: waits for threads that were never made, too.
JoinSkippedToo(w) ==
    /\ main = "joining" /\ next_worker = w /\ w \in Workers
    /\ worker[w].pc = "ended"
    /\ next_worker' = w + 1
    /\ UNCHANGED <<size, num_threads, main, worker, results>>

\* Waits for thread w, if there is one.
Join(w) ==
    /\ main = "joining" /\ next_worker = w /\ w \in Workers
    /\ ~Running(w)
    /\ next_worker' = w + 1
    /\ UNCHANGED <<size, num_threads, main, worker, results>>

Return ==
    /\ main = "joining"
    /\ next_worker \notin Workers
    /\ main' = "returned"
    /\ UNCHANGED <<size, num_threads, next_worker, worker, results>>

-----------------------------------------------------------------------------
(* A worker thread.                                                        *)

At(w, pc) == main # "terminated" /\ worker[w].pc = pc

Goto(w, pc) == worker' = [worker EXCEPT ![w].pc = pc]

\* rewrite_one is called for the next term, or the thread ends.
TakeTerm(w) ==
    /\ At(w, "ready")
    /\ Goto(w, IF worker[w].i < worker[w].end THEN "rewriting" ELSE "ended")
    /\ UNCHANGED <<size, num_threads, main, next_worker, results>>

EnterGuard(w) ==
    /\ At(w, "rewriting") /\ worker[w].i \in Guarded
    /\ Goto(w, "guard")
    /\ UNCHANGED <<size, num_threads, main, next_worker, results>>

LeaveGuard(w) ==
    /\ At(w, "guard")
    /\ Goto(w, "matched")
    /\ UNCHANGED <<size, num_threads, main, next_worker, results>>

\* The rewriting of the term is over, with or without the guard's help.
Rewritten(w) ==
    \/ At(w, "rewriting") /\ worker[w].i \notin Guarded
    \/ At(w, "matched")

\* replace_all throws (an unbound wildcard, out of memory): nothing catches it.
Throw(w) ==
    /\ Rewritten(w)
    /\ worker[w].i \in Throwing \/ MayFail
    /\ main' = "terminated"
    /\ UNCHANGED <<size, num_threads, next_worker, worker, results>>

\* results[i] = rewrite_one(rule, terms[i])
StoreResult(w) ==
    /\ Rewritten(w)
    /\ worker[w].i \notin Throwing
    /\ results' = [results EXCEPT ![worker[w].i] = "rewritten"]
    /\ worker' = [worker EXCEPT ![w].pc = "ready", ![w].i = worker[w].i + 1]
    /\ UNCHANGED <<size, num_threads, main, next_worker>>

WorkerStep(w) ==
    \/ TakeTerm(w) \/ EnterGuard(w) \/ LeaveGuard(w) \/ Throw(w) \/ StoreResult(w)

MainStep ==
    \/ Prepare \/ AllStarted \/ Return
    \/ \E w \in Workers : SkipWorker(w) \/ StartWorker(w) \/ StartFails(w) \/ Join(w)

Next == MainStep \/ \E w \in Workers : WorkerStep(w)

Spec == Init /\ [][Next]_vars

\* The system schedules every thread that can run; guards and rewritings end.
FairSpec == Spec /\ WF_vars(MainStep) /\ WF_vars(\E w \in Workers : WorkerStep(w))

-----------------------------------------------------------------------------
(* Properties.                                                             *)

TypeOK ==
    /\ size \in Terms /\ num_threads \in Threads
    /\ main \in {"called", "spawning", "joining", "returned", "threw", "terminated"}
    /\ next_worker \in 0 .. worker_count(size, num_threads)
    /\ worker \in [Workers -> [pc : {"none", "ready", "rewriting", "guard", "matched", "ended"},
                               i : 0 .. size, end : 0 .. size]]
    /\ results \in [0 .. size - 1 -> {"empty", "rewritten"}]

\* A call that returns has rewritten every term (parallel_rewrite.hh: "every
\* element returned has result populated"), also when threads outnumber terms.
ResultsComplete == main = "returned" => \A i \in 0 .. size - 1 : results[i] = "rewritten"

\* Threads refer to the call's rule, terms and results: none is left running
\* when the call is over, however it ended.
NoThreadOutlivesTheCall ==
    main \in {"returned", "threw"} => \A w \in Workers : ~Running(w)

\* Two threads never have the same term or result in hand.
TermsAreApart ==
    \A v, w \in Workers : v # w /\ Running(v) /\ Running(w)
        => worker[v].end <= worker[w].i \/ worker[w].end <= worker[v].i
           \/ worker[v].i = worker[v].end \/ worker[w].i = worker[w].end

\* What is true of a thread w at all times.
ThreadInv(w) ==
    LET first == first_of(w, size, num_threads)
        end   == end_of(w, size, num_threads)
        own   == worker[w] IN
    own.pc # "none" =>
        /\ first < end /\ own.end = end /\ first <= own.i /\ own.i <= end
        /\ own.pc \in {"rewriting", "guard", "matched"} => own.i < end
        /\ own.pc = "ended" => own.i = end
        /\ \A j \in first .. own.i - 1 : results[j] = "rewritten"

\* What the caller has done with thread w: started it or skipped it before
\* next_worker while spawning, all of them when joining; seen it end before
\* next_worker when joining, all of them when returned.
CallerInv(w) ==
    LET empty == first_of(w, size, num_threads) >= end_of(w, size, num_threads) IN
    /\ main \in {"called", "threw"} => worker[w].pc = "none"
    /\ main = "spawning" =>
         IF w < next_worker THEN empty \/ worker[w].pc # "none" ELSE worker[w].pc = "none"
    /\ main \in {"joining", "returned"} => empty \/ worker[w].pc # "none"
    /\ (main = "joining" /\ w < next_worker) \/ main = "returned"
         => worker[w].pc \in {"none", "ended"}

MainInv == /\ main = "called" => next_worker = 0
           /\ main \in {"spawning", "joining"} => size # 0

\* The inductive invariant of the proofs.
IInv == /\ TypeOK
        /\ MainInv
        /\ \A w \in Workers : ThreadInv(w) /\ CallerInv(w)

\* Every call comes to an end.
CallEnds == <>(main \in {"returned", "threw", "terminated"})

=============================================================================
