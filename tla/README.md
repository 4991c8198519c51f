# STOCAS in TLA+

STOCAS is a computer algebra library in C++20. This directory is its verification project: TLA+ modules translated
from the source, TLC configurations that check them on small instances, and theorems that TLAPS proves for every
instance. `PROJECT.json` is the index: components and their sources, runs, the source lines behind every definition,
hazards, findings, theorems, and for every property a change to the code that breaks it.

## 1. The system

STOCAS is a stack of static libraries; each layer calls only the ones below it.

| Component | State it keeps | Operations | Correct means |
|---|---|---|---|
| `symbol_table` symbols | process-wide table: an immutable snapshot (entries, name index) behind an atomic pointer, a writers' mutex | `get_symbol`, `symbol_name`, `symbol_attributes`, `symbol_source_location` | one handle per name, a handle always resolves, the first definition wins, no registration is lost |
| `symbol_table` `Workspace` | chunks, active chunk, offset, sanitizer poisoning | `allocate`, `reset` | slices are inside a chunk, aligned, apart, and poisoned exactly when dead |
| `numerica_core` | none (value types; GMP and MPFR outside) | integers, rationals, finite fields, floats, dual and hyper-dual numbers | agrees with the mathematics across every representation boundary |
| `algebra_core` | none | rings, `gcd`, `extended_gcd`, `row_reduce` | the ring laws; loop invariants of the algorithms |
| `atom_core` `AtomStore` | node arena, child pool, hash buckets | `num`, `var`, `add`, `mul`, `pow`, `fun`, view accessors, comparison, hash | one slot per expression, sums flat and sorted, views never change |
| `atom_core` rest | none | `normalize`, `parse`, `print` | meaning kept, idempotent, round trip |
| `pattern_core` | none of its own; adds nodes to a store | `match`, `substitute`, `replace_all`, `replace_all_multiple`, `parallel_replace_all` | a match is right, found if there is one; a rewriting ends or says it did not |
| `calculus_core` | process-wide hook registry: map, shared mutex, once-flag | `derivative`, `register_derivative_hook`, Taylor series | builtins are always found, user hooks stay, no deadlock through callbacks |
| `poly_core` | none | polynomials, division, gcd, factorization, rational functions, conversion | canonical form, division identity, gcd divides, factors multiply back |
| `hello_core` | none | a greeting, its C and Python bindings | toolchain sample |

How they interact. Everything above `symbol_table` holds symbols by handle and resolves them through the shared
table. Expressions are slots of an `AtomStore`; a view is a pointer to the store and a slot. `pattern_core` and
`calculus_core` read views and build new nodes in the same store while they hold them. `parallel_replace_all` gives
each thread a store of its own and clones terms in and results out; what remains shared is the rule and the symbol
table. `derivative` calls hooks, user code that may call `derivative` or `register_derivative_hook` again.

What is hard here:

* *Concurrency*: lock-free readers of the symbol table against writers that copy and publish; the once-flag and the
  shared mutex of the hook registry, with callbacks that come back; worker threads that must all be joined.
* *Failure in the middle*: allocation failures between two steps of an operation, an initialiser that throws and is
  retried, a thread that does not start, a hook, guard or rewriting that throws.
* *Limits*: 32-bit indices into a pool that grows on every call, chunk boundaries, a request larger than a chunk,
  chunks when threads outnumber terms, the matcher's probe budget, the rewriting's iteration cap.
* *Numbers at their limits*: words that promote to GMP integers and shrink back, residues in the upper half of a word,
  exponents that wrap around, evaluation points and primes that turn out unlucky.
* *Order*: operand order that depends on slots, lazy registration that runs after the user's, commutative matching
  that commits to a first choice.

Nothing is persisted and nothing is sent over a network: crash recovery and message loss do not arise.

## 2. The modules

### `SymbolTable` (with `SymbolRegistry`, `SymbolTable_proofs`, `MCSymbolTable`)

Models `symbol_table.cc`. `snapshots` is the sequence of every snapshot ever published; the atomic pointer is its
last element. `view[t]` is the newest snapshot thread `t` has loaded or been made to see; a relaxed or acquire load
returns any snapshot from there on, so weak memory is a choice in `Loadable`. The mutex carries the releasing
thread's view to the next owner (`mutexView`, `Joined`). A `get_symbol` call is a fast lookup (`FastHit`,
`FastMiss`), `Lock`, a second lookup (`RecheckHit`, `RecheckMiss`), `Publish` and `Unlock`. Memory may run out
wherever the code allocates: for the qualified name (`QualifyFails`), for the copies that `same_attributes` sorts or the
message of a conflict, without the lock or under it (`FastHitFails`, `RecheckHitFails`), for the new snapshot (`CopyFails`)
and for what `symbol_name` returns (`ReadFails`).
`HandOver` is the program passing a handle to another thread with synchronisation. Names are sequences of parts,
so `qualify` is concatenation as in the code.

`SymbolRegistry` is the promise: a dictionary from names to definitions, with an atomic registration, whose definitions
are compared by their attribute *sets*, as `symbol.hh` says.
`ImplementsRegistry` checks that `SymbolTable` implements it: the registration happens at the store that publishes.

### `Workspace` (with `Workspace_proofs`, `MCWorkspace`)

Models `workspace.cc` in bytes: `chunks` with base address, capacity and offset used, `active_chunk`, the live slices
(what the program may still use) and `shadow`, the sanitizer's poisoned bytes at its granularity. `allocate` is split
by what `current_chunk_for` does: the active chunk, a chunk left by `reset`, a new chunk, or a failed allocation,
which leaves `active_chunk` past the end exactly as the code does.

### `HookRegistry` (with `HookRegistry_proofs`, `MCHookRegistry`)

Models the registry of `derivative.cc`: the map, the shared mutex (`writer`, `readers`), the once-flag (`guard`,
which a throwing initialiser leaves fresh again) and for each thread a stack of frames, because `derivative` calls
hooks and hooks call back. The rules of differentiation are in `Derivative`; here an expression is the list of function
heads that a derivative visits.

### `AtomStore` (with `TermBank`, `AtomStores`, `AtomStore_proofs`, `AtomStores_proofs`, `MCAtomStore`, `MCAtomStores`)

`AtomStore` models `atom.cc`: `nodes`, `child_pool`, `hash_buckets`, the builders with their flattening, sorting and
interning, `operator<=>` (`Compare`), the child indices cut to their width (`IndexRange`), and a failure between any
two of the appends of a builder. `TermBank` is the promise: a set of expressions, where a sum is a bag of
operands. `Term` reads the expression off a slot, and `ImplementsTermBank` says that the store implements the bank.
`StoreInv` collects what the store keeps: its inductive core `IInv`, the order of operands (`OperandsSorted`) and leaves
without children (`LeavesAreBare`).
`AtomStores` composes two stores and `clone_into` of `parallel_rewrite.cc`.

### `ParallelRewrite` (with `ParallelRewrite_proofs`)

Models `parallel_replace_all`: the number of threads, the chunk arithmetic, starting and joining, a worker's loop
(clone in, rewrite with the shared guard, store the result), a rewriting that throws, a thread that does not start,
and the clone back. Terms are indices; what happens to the expression itself is `AtomStores`.

### `Symbolic`: expressions as values (with `MCSymbolic`)

`Terms` has expressions as values: tag, number, symbol and operands, built by operators named as the builders of `atom.hh`
with their flattening and sorting, and numbers as fractions. That a store keeps one slot for each is `AtomStore`'s subject.
On it stand two programs, which `Symbolic` puts side by side.

* **`Expressions`** reads a text, normalizes, differentiates, prints, in any order. `Text` is `parser.cc` as the
  recursive descent it is (an outcome carries the tokens left or an error) and `printer.cc`, both over tokens. Beside
  the parser stands the grammar of `parser.hh` as a relation (`Sums`), which does not look ahead and has both
  readings of a name with a parenthesis behind it, the call and the product. `Normalize` is
  `normalize.cc`: collection through maps of coefficients and exponents, bottom-up. `Derivative` is the rules of
  `derivative.cc`; `Series` is `taylor_series` on truncated series (`hyper_dual.hh`, `series.hh`) over exact
  fractions. Series are also the meaning the properties compare: two terms mean the same function near a point if they
  have the same series there.
* **`Rewriting`** is `rewrite.cc`: `substitute` with its splices and exceptions, `replace_all` bottom-up, and
  `replace_all_multiple` as a state machine, one pass per step. `Matcher` is `matcher.cc` as the search it is:
  bindings threaded through the pattern, `assign_normals` with its places taken, its retries and the probes left,
  and what is thrown for a misplaced wildcard. Beside it stands `Reads`, which says without a search what a match is.

### `Algebra`: numbers, rings and polynomials (with `MCAlgebra`)

Five programs side by side in `Algebra`; `part` says which one a behaviour runs.

* **`Calculator`** - a client with two registers over one ring (`Rings`: integers, rationals, residues), every
  operation of `rings.cc` on what they hold. `BigInt` models both representations: words from `-MaxWord - 1` to `MaxWord`, the overflow checks with and without `__int128`, the promotion through GMP's `long` (`MaxLong`,
  which may be narrower than the word) and the shrinking of results. `Rational` is lowest terms and the
  reconstruction of a fraction from its residue; `FiniteField` is arithmetic in an unsigned word that may wrap
  around. `ExactCalculator` is the promise: numbers and no widths.
* **`Euclid`** - one iteration of `gcd` and `extended_gcd` (`generic_algorithms.hh`) per step, with quotients rounded
  toward zero. **`RowReduce`** - one column of `row_reduce` per step.
* **`Polynomials`** - a client with two registers, every operation of `polynomial.hh` and both divisions
  (`Polynomial`), results used again as operands. `ExactPolynomials` is the promise: functions from exponents to
  residues, no terms, no order. `PolynomialGcd` is `multivariate_gcd.hh`: contents, evaluation at consecutive points,
  interpolation, the check point, both levels of retries, the verification by division, and over the rationals the
  reduction modulo a prime and the lifting back. Exceptions are outcomes (`Ok`, `Throw`). What it promises
  (`GcdIsGreatest`) is stated in `Algebra`.
* **`Factorization`** - `factorization.hh` as a state machine: Yun's loop, distinct degrees, and splitting, where the
  random polynomial of each try is any polynomial and giving up is one of the outcomes.

The external GMP functions are constants (`mpz_gcd`, `mpz_gcdext`), given by their definition for TLC and by
the assumptions `GmpGcd`, `GmpGcdext` and `GmpBezout` in the proofs.

## 3. What the runs check

| Run | Instance | What it shows |
|---|---|---|
| `symbol_table` | 2 threads, 2 names, 4 attribute lists of 2 sets, 1 failed allocation | one handle per name, first definition wins, calls return, implements the registry |
| `workspace` | chunks of 8 bytes, up to 3 chunks, 4 live slices, 1 failure | bounds, disjointness, poisoning, no growth while there is room |
| `workspace_large` | a request larger than a chunk | *violated*: a slice that ends outside its chunk |
| `hooks` | 3 threads, 4 calls, hooks that call back, a builtin symbol that may be in conflict | builtins found, lock discipline, a failed initialisation is never taken for done, calls end |
| `hooks_user_sticks` | 2 threads, 3 calls | *violated*: a user's hook for a builtin is overwritten |
| `atom_store` | all six tags, 3 nodes, 5 pool entries, colliding hashes, 1 failure | `StoreInv`, equality is slot identity, total order, views never change, implements the bank of terms |
| `atom_clone` | two stores of 3 nodes and 4 pool entries, variables, products, powers, calls, 1 failure | a copy is the same term |
| `parallel` | 0 to 6 terms, 0 to 4 threads asked for, a rewriting that throws, threads and memory that run out | a call that returns has all results, no term in two hands, no thread left, every call ends |
| `symbolic` | 11822 texts of up to 6 tokens and more, 717 rules on 102 terms, 2 passes | the parser follows the grammar, printing parses back, normal forms and derivatives keep their meaning; a match is right and is found where there is one, sums keep two operands, shrinking rules end with no redex |
| `match_repeats` | the same | *violated*: a match that accepts arguments in another order |
| `algebra` | words of 3 bits, residues in words of 4 and modulo 2 and 13; matrices over 2 and 3 elements and the rationals; polynomials in 1 to 3 variables modulo 2 to 13; factorization over 2, 3, 5 elements | one representation per number, exact arithmetic and order, loop invariants, canonical terms, greatest common divisors, irreducible factors, loops that end |
| `rational_gcd` | the primes 11 and 13 in place of the code's two | *violated*: a gcd that is not the greatest |

**Why the bounds are enough.** Each bound lets the case in question happen with one to spare. Two threads meet every
pairwise race on the table: both write, or one reads a stale snapshot while the other publishes; more threads and
names are covered by the proof. One name is asked for with a set in two orders and with another set in two lists, so that
each pair of calls agrees, conflicts, or repeats an attribute. An 8-byte chunk with requests of 1 to 4 bytes and alignments 1, 2 and 4 meets every
boundary (exact fit, one over, padding), and three chunks give one before and one after the active one. Three threads
at the registry cover one that initialises, one that waits and one that registers. Three nodes and empty argument lists
give sums of products, sums of sums that must be flattened, and all six tags in one bucket or another; five pool entries
hold a sum of two, flattened into a sum of three. The runs `atom_store` and `atom_clone` tell states apart by the store alone
(`VIEW Store`, `VIEW Stores`): what a builder does next depends on the store and not on the last request and its answer
(`call`), so each store needs to be continued only once; TLC still checks the action properties on every step,
`call` included. In `parallel`, six terms and four threads include chunks that are uneven,
empty and of size one.

The texts of `symbolic` are every sequence of up to three tokens, of four and five over the tokens that decide
precedence, of up to six over those of calls, and operands around one and two operators; the grammar is compared up to
six tokens (`MaxRead`), derivatives are taken of terms up to eight nodes (`MaxSize`), once (`MaxTaken`). Series to order
two at three points tell a wrong rule from a right one. The patterns are every pair of leaves and wildcards under
every kind of node, lists with both kinds of sequence wildcard in either place, and nested lists that share wildcards
with their surroundings; terms have up to three operands and four levels. The search budget of 40 probes
(`MaxAttempts`) is above what such operand lists can use, as 200000 is in practice.

In `algebra`, a word of three bits reaches its limits in one or two operations; `IntegerRing(9)` and
`RationalField(4)` go a little beyond them on both sides (`bound`), and 13 is a modulus above half of a word of four
bits. Four exponents (`ExponentRange`) wrap around in one product of the degrees computed with (`MaxDegree`). The inputs of
gcd are products of planted factors that collide at small points: over seven elements points run out, so the retries
and the exceptions happen; candidates for a divisor that the gcd misses are the
factors (`Divisors`). Fractions are reconstructed for every modulus up to 16, with residues and bounds from -1 to the modulus, and for
moduli that are not positive. The
factorization inputs are all monic polynomials of degree up to four over three elements and three others, and two tries
(`kMaxSplitAttempts`) are enough for a failure and a success, or two failures; five is a prime that does not fit the word.

All other counters (`MaxFailures`, `MaxCloneFailures`, `MaxCalls`, `MaxNodes`, `MaxPool`, `MaxChunks`, `MaxLive`,
`MaxArgs`) are named constants and guard the environment's choices, save for the growth bounds, which stop the run
at the bound; `MaxIterations` is the code's own `max_iterations`, and the retries of the gcd are the code's 8 and 5.
Deadlock checking is off in runs where the program may stop: a finished call, a printed expression.

**Fairness.** `SymbolTable` and `HookRegistry`: weak fairness of each thread's steps inside a call, which is the
operating system's scheduler; none for starting a call. A mutex that is free is given to *some* waiter; that
suffices because the work under it ends and names run out. `ParallelRewrite`: weak fairness of the caller and of the
workers taken together, so that one worker may be starved as long as another one runs. The sequential loops of
`Algebra` need no fairness: `LoopsEnd` states that every iteration lowers a measure, a lexicographic one in `Factorization`.
`ShrinkingRulesFinish` likewise bounds the passes a rule takes.

## 4. What is proved

TLAPS checks these for every value of the constants, from the assumptions the modules state on them.

* **`SymbolTable_proofs`** - `Invariance` proves `IInv`. `OneHandlePerName` alone is not inductive: two
  handles agree because both come from a snapshot in which the name's position never moves again. `IInv` therefore says
  that every snapshot's index and entries are inverse to each other (`SnapshotsAreWhole`), that a snapshot extends its
  predecessors (`SnapshotsGrow`), that the mutex holder sees the latest one (`HolderSeesLatest`) and that what a writer
  is about to publish extends it (`BuiltOnLatest`), and that each handle is known in its holder's view
  (`HandlesAreKnown`). From it: `RegistrationsSurvive`, `HandlesIdentifyNames`, the action property
  `DefinitionsAreKept`, and `ThreadsImplementRegistry`, the refinement. A fast lookup that reads a stale snapshot is an
  answer of the registry at the moment it returns, because definitions only accrue; a fast miss is a stutter; `Publish`
  is the registration. The registry compares attribute sets; that the counts which the code compares decide the same for lists
  without repetitions is `CountingComparesSets`, from the assumption that attributes come in lists (`AttributesAreListed`). Ids are handed out up to the number of names, which is finite (`FinitelyManyPairs`).
* **`Workspace_proofs`** - under `SmallRequests` (size plus alignment fits a standard chunk; `workspace_large`
  shows that it is needed) slices stay in bounds and apart. The invariant adds that chunks are filled from the front
  (`FilledFromFront`) and that chunks after the active one are empty (`LaterChunksAreEmpty`). `ReusesBeforeGrowing`
  adds that the chunks up to the active one hold live slices (`ChunksInUse`). `PoisonIsExact` has an invariant of its own
  (`PoisonInv`), under the same assumption: what a slice takes behind the end of its chunk stays addressable after `reset`
  (section 5).
* **`AtomStore_proofs`** - under `IndicesFit` (the pool has not outgrown its index type, see section 5), for any hash
  function, any placement of failures and any order that `std::sort` may leave equal operands in. The inductive core
  `IInv` gives `HashConsing`, `SumsStayFlat` and `ViewsAreStable`: runs of children lie in the pool, hash entries point to
  nodes with that hash, children are interned before parents. Children are older than parents, so that what is said of
  slots by recursion (`Compare`, `Term`) is proved by induction over slots (`SlotInduction`, the least slot that
  fails). In this way `Compare` is a total order (`CompareOrders`) that tells slots apart
  (`SameSlotIffEqual`), and neither `Compare` nor `Term` of a slot ever changes, so operands stay sorted
  (`StoreInvariance`). The refinement `StoreImplementsBank` then rests on two facts. A term has one slot
  (`TermInjective`): a list that is sorted by an order is determined by how often each slot occurs in it
  (`SortedUnique`), so the bag of a sum's terms, whose terms have one slot each by induction, determines its children and
  hash-consing its slot. And what a builder makes of its arguments is the meaning of its request (`MeaningIsTerm`): one
  level of flattening gives the operand bag of `TermBank` (`OperandBagIsFlat`), and sorting leaves it alone (`ArrangedBag`).
* **`AtomStores_proofs`** - `ClonesAreFaithful`: a copy means the term it was copied from. Both stores keep
  `StoreInv`, the other one by the theorems of `AtomStore_proofs` instantiated for it (`Target`). The invariant
  `CopiesInv` adds that each copy is a slot of the other store with the term of its original; as the original is flat,
  the other store has nothing to flatten (`CloneRequestMeans`).
* **`ParallelRewrite_proofs`** - the chunks are disjoint (`ChunksAreApart`) and cover every term
  (`ChunksCover`), for any number of terms and threads; then every call that returns has every result
  (`EveryTermRewritten`), no term or result is in two threads' hands (`NoTermIsShared`), and no thread outlives the
  call (`EveryThreadJoined`).
* **`HookRegistry_proofs`** - for any number of threads and any hooks: `LockIsDisciplined`, `BuiltinsAreNeverMissed`,
  `FailuresAreNotDone`. A search that succeeds depends on what the thread's callers have passed through, so the
  invariant reaches into every thread's stack: its frames are well formed (`StackOK`), the mutex is held by exactly the
  frames that say so (`Locking`, `Counted`), and each frame below a call knows how far the initialisation is
  (`Orderly`: waiting for it, running it with the builtins registered so far, or past it). The assumptions say that
  builtins and what is registered are heads (`BuiltinsAreHeads`, `ArgumentsAreHeads`), that a hook's body is a list of calls
  (`BodiesAreCalls`) and that an absent hook is none (`AbsentIsNoValue`).
* **`Algebra_proofs`** - Euclid's loop, for all integers: the cofactors combine to the remainders
  (`CofactorsAlwaysCombine`), common divisors are neither lost nor gained (`DivisorsAreKept`), remainders shrink
  (`LoopShrinks`). `Bezout` is inductive once the variables are integers; the inputs are assumed to be
  (`InputsAreIntegers`). `RowReduceIsRight`: for a matrix of any size over any field, `row_reduce` keeps the solutions
  of the system in every step and ends in reduced row echelon form. The invariant says that the columns left of
  `col` are in echelon form, with leading ones in the rows above `pivot_row` and zeros elsewhere in their columns. The
  assumption `MatricesAreOverFields` says that the entries obey the laws of a field (`FieldLaws` of `Rings`); TLC
  checks it for the finite fields of the run (`FiniteFieldsObeyTheLaws`), `Calculator_proofs` proves it for the
  rationals and for the residues of every prime, and `RowReduceIsRightModuloPrimes` is the theorem with only the prime
  assumed.
  *Polynomials*: `TermsStayCanonical`, for every prime that fits the word, any variables, any range of the exponents
  and any sequence of calls. `TermsAreCanonical` needs two more facts to be inductive (`PolynomialsInv`): the field
  has a prime modulus, and the bound on degrees is an exponent. One lemma per operation shows that its result is canonical,
  each from an invariant of the operation's loop: of the merge of two sorted lists (`Merging`), of the insertion sort
  (`SortedTerms`), of adding up neighbours (`JoinedTerm`), of the choice of terms (`ChosenTerms`). Recursive functions are defined by
  `CHOOSE`; that they exist is an induction with sets (`Recurrence` over a range, `LoopIsDefined` where a size
  shrinks). For the divisions that size is a number of the leading monomial that grows with the lexicographic order, its
  exponents read as digits (`RankedMonomials`). Here the laws of the field are needed: the leading term of the divisor
  times the factor is the leading term of the dividend, without wrapping around, so the difference starts lower
  (`CancelledIsPoly`) and both divisions end with canonical results (`DivisionIsPoly`). A product sorts and adds up, so it stays
  canonical where exponents wrap around and leave the order. `StartsAssumption` and `ExponentAssumption` are what is
  assumed of the constants; TLC evaluates both.
* **`Calculator_proofs`** - for every width of the word.
  *Integers*, provided GMP's `long` is as wide (`LongIsWord`) and GMP computes gcds and cofactors (`GmpGcd`,
  `GmpGcdext`, `GmpBezout`): every operation of `BigInt` is exact with its result in normal form
  (`ArithmeticIsExact`), comparisons do not depend on the representation (`ComparisonIsExact`), any sequence of calls
  keeps `TypeOK` and `OrderIsExact` (`IntegersAreCanonical`, `IntegersAreOrdered`) and is one of exact numbers
  (`IntegersImplementArithmetic`; `OverIntegers`: the ring is the integers). `PortableCheck`: the division check for
  compilers without overflow builtins misses no overflow, and promotes needlessly only where the product is the most
  negative word.
  *Rationals*: results are in lowest terms, exact and ordered (`RationalsAreExact`, `RationalOrderIsExact`). A number has
  one representation, so they are a field whose laws hold as equalities of representations (`RationalsAreAField`).
  *Residues*: sums are exact up to the top bit (`ResidueSumsAreExact`, `PortableSumIsExact`), and so are products where
  there is no wide type (`PortableProductIsExact`, `ResidueProductsAreExact`). The loop keeps `a * b + result` modulo
  the modulus while `b` is halved; that a recursive function computes what its loop keeps is `LoopComputes`, an
  induction on the size of the state with sets in place of predicates (`SetInduction`). The inverse is the power
  `modulus - 2` (`InverseIsPower`), which inverts by `FermatsLittleTheorem`: the terms of the expansion of
  `(a + 1)^p` but the first and the last are multiples of `p` (`PowersOfSums`). So the residues of a prime are a field
  (`ResiduesAreAField`) and every sequence of calls is one of exact numbers (`ResiduesImplementArithmetic`;
  `OverPrimeFields`: the moduli are primes that fit the word).

Only model-checked: liveness (`EveryCallReturns`, `CallsEnd`, `CallEnds`), which the provers do not reach;
`ImplementsArithmetic` over the rationals, for the reconstruction of a fraction from its residue; and all of `Symbolic`
and what is said of the multivariate gcd and factorization, whose definitions are recursive operators, which the provers do not take.
`ImplementsPolynomials` - that a canonical result is the right one - is only model-checked as well: it takes sums over
all products of terms.

## 5. What the code does and its documentation denies

| Run | Code | Says otherwise |
|---|---|---|
| `workspace_large` | a chunk left by `reset` is used without looking at its capacity | `workspace.hh:48` |
| `hooks_user_sticks` | lazy registration overwrites the user's hook | `derivative.hh:75` |
| `match_repeats` | a repeated sequence wildcard is compared as a multiset in ordinary functions too | `matcher.cc:23` |
| `rational_gcd` | a prime that divides both leading coefficients makes the gcd too small, and the check by division cannot see that | `multivariate_gcd.hh:595` |

Others were met while modelling. Each is a condition in a property, an assumption of a proof, or outside the models:

* Offsets into the child pool have 32 bits and operands of every repeated build stay in the pool (`atom.cc:232`); after
  2^32 of them a node's run wraps around. `IndicesFit` excludes it.
* Where `long` is narrower than 64 bits (LLP64), words are cut on their way to GMP (`big_int.cc:14`). `LongIsWord` excludes it.
* `normalize` combines less than `normalize.hh:17` says: a coefficient before two factors is not seen (`normalize.cc:24`), so
  `2*x*y + x*y` stays. `NormalizeKeepsSeries` is about meaning only.
* `-2^2` is read as `(-2)^2` (`parser.cc:170`), against the grammar of `parser.hh:14`; `FollowsGrammar` leaves these texts out.
* `x(y+1)` is a product in `parser.hh:15` and in the comment at `parser.cc:144`; the code reads every name with a
  parenthesis behind it as a call (`parser.cc:223`). The grammar allows both, and `FollowsGrammar` asks of such a text only that
  what the parser returns is one of its readings (`CallOrProduct`).
* `get_symbol` compares sorted lists (`symbol_table.cc:47`), `symbol.hh:64` speaks of attribute sets: a list that names an
  attribute twice conflicts with the list of the same set that names it once. `SymbolRegistry` allows either answer there (`Repeats`).
* `reset` poisons the capacity of a chunk (`workspace.cc:85`), so that what a slice larger than its chunk took behind
  the end (`workspace_large`) stays addressable. `PoisonTracksLiveness` and `PoisonIsExact` are about requests that fit.
* `Rational::reconstruct` with a bound of the caller's may return `std::nullopt` although a fraction within the bound exists
  (`rational.cc:150`): for residue 6, modulus 16 and bound 5 the loop stops at 4 / -2, while 2/3 fits. `rational.hh:66` says
  otherwise. `ImplementsArithmetic` asks for completeness for bounds `b` with `2 * b * b <= modulus`, the default among them.
* A prime above 2^63 becomes a negative exponent in `factorization.hh:158` and `:198`; `poly_powmod` then returns 1 and
  products are reported as irreducible, although `FiniteField` and `factorization.hh:277` allow such a prime. `FactorsAreRight` asks for
  irreducible factors where the prime fits the word (`PrimeFitsWord`).
* Products of monomials add exponents modulo the word, which `monomial.hh:48` does not mention; `ImplementsPolynomials` has
  them modulo the word too.
* Fractions, and sums or products of fewer than two operands, do not round-trip (`printer.hh:12`); `ParsesBack` leaves them out.
* `derivative.hh:22` says that what does not depend on the variable has a derivative that is structurally 0; that of `2*y` by
  `x` is a sum of products with 0 (`derivative.cc:145`), so the general rule is taken, with a logarithm of the base. `DerivativeMatchesSeries` allows the pole
  where the exponent is not a nonzero number.
* `squarefree_decomposition` loses factors when a multiplicity reaches the characteristic: `x^4` over three elements.
  The comment at `factorization.hh:125` asks for less. `FactorsAreRight` has the condition `SmallMultiplicities`.
* Two (namespace, name) pairs join to one qualified name when a namespace contains `::` (`symbol_table.cc:145`).
* A commutative list keeps the first assignment of operands it finds even where a later part of the pattern needs
  another one (`matcher.cc:166`), so `match` can miss a match well below its budget; `MatchIsFound` is stated for patterns in
  which no operand list shares a wildcard with the rest (`ChoicesArePrivate`).
* All workers call the one guard of a shared rule (`rewrite.cc:114`); `parallel_rewrite.hh:24` counts only the stores of its
  pattern and replacement as shared. `ParallelRewrite` has the calls, and asks nothing of what a guard does.
* `atom_conversion.cc:37` cuts an exponent to 32 bits, so that `x^4294967296` converts to 1.

`Workspace` aligns the offset in a chunk, not the address, so an alignment above what `operator new[]` gives is not met;
the alignments requested are below it. `structural_hash` mixes slot numbers, so equal atoms of different stores hash
differently; no code in the library compares hashes of two stores.

## 6. What is not modelled

Memory contents and C++ object lifetimes; the spelling of symbols, numbers, error messages and source locations; the
sanitizers' own behaviour except poisoning; GMP and MPFR. Floating-point numbers, their error estimates and the
derivatives computed in them (`float_types`, `error_propagating_float`, `dual`) have no useful image in TLA+; the
recurrences of `hyper_dual.hh` are modelled over fractions. `hello_core`, tests, benchmarks, examples and build files carry
no logic of the library. Rational functions (`rational_polynomial.cc`) and the conversion between atoms and
polynomials (`atom_conversion.cc`) are planned.

## 7. Plan

1. `RationalPolynomial` and `AtomConversion`: the reduced form as an invariant of a client, and the round trip from
   expressions, on `PolynomialGcd` and `Terms`.
2. A composition of the rewriting with the store: `substitute` and `replace_all` on slots, with memory that runs out.
3. Proofs: the reconstruction of fractions, for the refinement over the rationals; that the operations of `Polynomials` implement those of
   functions from exponents to coefficients.
