---------------------------- MODULE MCAtomStore ----------------------------
(* Instances of AtomStore for TLC. *)
EXTENDS AtomStore

\* Nodes of one tag collide.
HashByTag(key) == key.tag

\* The next call depends on the store, not on the last call and its answer.
Store == <<nodes, child_pool, hash_buckets, failures>>
=============================================================================
