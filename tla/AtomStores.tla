----------------------------- MODULE AtomStores -----------------------------
(***************************************************************************)
(* Two arenas side by side: a program builds atoms in one, and clone_into  *)
(* (src/src/pattern_core/parallel_rewrite.cc) copies them, children first, *)
(* into the other, as every parallel rewrite does with its term.           *)
(***************************************************************************)
EXTENDS AtomStore

CONSTANT MaxCloneFailures \* bound: calls of the other store that run out of memory

ASSUME CloneBoundIsNatural == MaxCloneFailures \in Nat

VARIABLES other_nodes, other_child_pool, other_hash_buckets, other_call, other_failures,
          clones   \* clones[i]: the copy of slot i, for the slots copied so far

otherVars == <<other_nodes, other_child_pool, other_hash_buckets, other_call, other_failures>>

Other == INSTANCE AtomStore WITH
    nodes <- other_nodes, child_pool <- other_child_pool,
    hash_buckets <- other_hash_buckets, call <- other_call, failures <- other_failures,
    MaxFailures <- MaxCloneFailures

BothInit == Init /\ Other!Init /\ clones = [i \in {} |-> None]

\* Mutant: copies the first child again and again.
RequestFirstChild(i) ==
    LET key == KeyOf(i) IN
    Request(key.tag, key.payload, [k \in DOMAIN key.children |-> clones[key.children[1]]])

\* What clone_into asks of the other store for slot i.
CloneRequest(i) ==
    LET key == KeyOf(i) IN
    Request(key.tag, key.payload, [k \in DOMAIN key.children |-> clones[key.children[k]]])

\* One call of clone_into returns, or the other store runs out of memory.
clone_into(i) ==
    /\ \A k \in DOMAIN KeyOf(i).children : KeyOf(i).children[k] \in DOMAIN clones
    /\ Other!Build(CloneRequest(i))
    /\ clones' = IF other_call'.slot = None THEN clones
                 ELSE [j \in DOMAIN clones \cup {i} |->
                         IF j = i THEN other_call'.slot ELSE clones[j]]
    /\ UNCHANGED vars

BothNext == \/ Next /\ UNCHANGED <<otherVars, clones>>
            \/ \E i \in Interned : clone_into(i)

BothSpec == BothInit /\ [][BothNext]_<<vars, otherVars, clones>>

\* A copy is the term it was copied from: sorting and flattening again in the
\* other store, where slots are numbered otherwise, changes nothing
\* (parallel_rewrite.cc's clone_into).
ClonesMeanTheSame == \A i \in DOMAIN clones : Other!Term[clones[i]] = Term[i]

=============================================================================
