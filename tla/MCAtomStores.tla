---------------------------- MODULE MCAtomStores ----------------------------
(* Two stores for TLC. *)
EXTENDS AtomStores

\* Nodes of one tag collide.
HashByTag(key) == key.tag

\* The next call depends on the stores and the copies, not on the last calls and
\* their answers.
Stores == <<nodes, child_pool, hash_buckets, failures,
            other_nodes, other_child_pool, other_hash_buckets, other_failures, clones>>
=============================================================================
