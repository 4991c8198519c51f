------------------------------ MODULE AtomStore ------------------------------
(***************************************************************************)
(* The arena of hash-consed expression nodes (src/src/atom_core/atom.cc).  *)
(* Slots count from 0, as in the code: slot i is nodes[i + 1], and a node's *)
(* children are child_pool[child_start + 1 .. child_start + child_count].  *)
(*                                                                         *)
(* A builder call is one action: an AtomStore belongs to one thread.  Its  *)
(* allocations may fail, each at its place, and leave what was done before *)
(* the failure.  Slots and pool offsets are 32-bit in the code; IndexRange *)
(* is the number of values they can take.                                  *)
(***************************************************************************)
EXTENDS Integers, Sequences, FiniteSets

CONSTANTS Numbers,     \* values of Num leaves (integers stand for rationals)
          Symbols,     \* ids of variables and function heads
          Tags,        \* the builders the program calls, by the tag they build
          Hash(_),     \* the hash of a node's [tag, payload, children]
          IndexRange,  \* 2^32 in the code
          None,        \* no slot: a builder that threw
          MaxArgs,     \* bound: operands of one call
          MaxNodes,    \* bound: nodes in the arena
          MaxPool,     \* bound: entries of the child pool
          MaxFailures  \* bound: calls that run out of memory

ASSUME NumbersAreIntegers == Numbers \subseteq Int
ASSUME SymbolsAreIds == Symbols \subseteq Nat
ASSUME TagsAreTags == Tags \subseteq {"Num", "Var", "Add", "Mul", "Pow", "Fun"}
ASSUME IndexRangeIsPositive == IndexRange \in Nat \ {0}
ASSUME BoundsAreNaturals == {MaxArgs, MaxNodes, MaxPool, MaxFailures} \subseteq Nat
ASSUME NoneIsNoSlot == None \notin Nat

VARIABLES nodes,        \* the arena
          child_pool,   \* children of all nodes, a run per node
          hash_buckets, \* {[hash, slot]}: the hash-consing table
          call,         \* the last builder call and its answer
          failures      \* calls that ran out of memory so far (bounded)

vars == <<nodes, child_pool, hash_buckets, call, failures>>

-----------------------------------------------------------------------------
(* Nodes.                                                                  *)

Variadic == {"Add", "Mul"}

\* std::uint32_t conversions of sizes.
Truncate(n) == n % IndexRange

Slots == {i \in 0 .. Len(nodes) - 1 : i < IndexRange}

Children(node, pool) ==
    [k \in 1 .. node.child_count |-> pool[Truncate(node.child_start + k - 1) + 1]]

\* What compute_hash and nodes_equal look at.
Key(node, pool) ==
    [tag |-> node.tag, payload |-> node.payload, children |-> Children(node, pool)]

KeyOf(i) == Key(nodes[i + 1], child_pool)

\* The slots a builder has returned: a program can hold no others.
Interned == {e.slot : e \in hash_buckets}

-----------------------------------------------------------------------------
(* AtomView::operator<=>, as -1, 0, 1.                                     *)

Sign(n) == IF n < 0 THEN -1 ELSE IF n > 0 THEN 1 ELSE 0

TagRank == [Num |-> 0, Var |-> 1, Add |-> 2, Mul |-> 3, Pow |-> 4, Fun |-> 5]

\* Mutant: stops at the common prefix of the children.
ComparePrefixes ==
    LET cmp[p \in Slots \X Slots] ==
        LET a == KeyOf(p[1])
            b == KeyOf(p[2])
            child(k) == cmp[a.children[k], b.children[k]]
            differ == {k \in DOMAIN a.children \cap DOMAIN b.children : child(k) # 0}
        IN IF a.tag # b.tag THEN Sign(TagRank[a.tag] - TagRank[b.tag])
           ELSE IF a.payload # b.payload THEN Sign(a.payload - b.payload)
           ELSE IF differ # {} THEN child(CHOOSE k \in differ : \A l \in differ : k <= l)
           ELSE 0
    IN cmp

\* Mutant: subtracts tags and payloads as unsigned numbers.
CompareUnsigned ==
    LET cmp[p \in Slots \X Slots] ==
        LET a == KeyOf(p[1])
            b == KeyOf(p[2])
            child(k) == cmp[a.children[k], b.children[k]]
            differ == {k \in DOMAIN a.children \cap DOMAIN b.children : child(k) # 0}
        IN IF a.tag # b.tag THEN Sign((TagRank[a.tag] - TagRank[b.tag]) % IndexRange)
           ELSE IF a.payload # b.payload THEN Sign((a.payload - b.payload) % IndexRange)
           ELSE IF differ # {} THEN child(CHOOSE k \in differ : \A l \in differ : k <= l)
           ELSE Sign(Len(a.children) - Len(b.children))
    IN cmp

Compare ==
    LET cmp[p \in Slots \X Slots] ==
        LET a == KeyOf(p[1])
            b == KeyOf(p[2])
            child(k) == cmp[a.children[k], b.children[k]]
            differ == {k \in DOMAIN a.children \cap DOMAIN b.children : child(k) # 0}
        IN IF a.tag # b.tag THEN Sign(TagRank[a.tag] - TagRank[b.tag])
           ELSE IF a.payload # b.payload THEN Sign(a.payload - b.payload)
           ELSE IF differ # {} THEN child(CHOOSE k \in differ : \A l \in differ : k <= l)
           ELSE Sign(Len(a.children) - Len(b.children))
    IN cmp

-----------------------------------------------------------------------------
(* The terms that slots stand for, read through the accessors of AtomView.  *)

\* tag, as_num, as_var, function_head, child_count and child, all the way down.
Term ==
    LET term[i \in Slots] ==
        LET key == KeyOf(i)
            terms == {term[key.children[k]] : k \in DOMAIN key.children}
        IN <<key.tag, key.payload,
             IF key.tag \in Variadic
               THEN [t \in terms |->
                        Cardinality({k \in DOMAIN key.children : term[key.children[k]] = t})]
               ELSE [k \in DOMAIN key.children |-> term[key.children[k]]]>>
    IN term

-----------------------------------------------------------------------------
(* Operands of a sum or a product.                                         *)

\* flatten_operands, for one operand: all operands belong to this store.
Operands(arg, tag) ==
    LET node == nodes[arg + 1] IN
    IF node.tag = tag THEN Children(node, child_pool) ELSE <<arg>>

\* flatten_operands: the collected operands, indexed by their places: the l-th
\* operand that the k-th argument contributes.  Sorting forgets the places.
flatten_operands(args, tag) ==
    LET places == UNION {{k} \X DOMAIN Operands(args[k], tag) : k \in DOMAIN args} IN
    [p \in places |-> Operands(args[p[1]], tag)[p[2]]]

Count(x, s) == Cardinality({k \in DOMAIN s : s[k] = x})

\* The lists of the same members as the family s.
Arrangements(s) ==
    {r \in [1 .. Cardinality(DOMAIN s) -> {s[p] : p \in DOMAIN s}] :
        \A x \in {s[p] : p \in DOMAIN s} : Count(x, r) = Count(x, s)}

\* std::sort by operator<=>.
Sorted(s) ==
    {r \in Arrangements(s) : \A k \in DOMAIN r \ {1} : Compare[r[k - 1], r[k]] <= 0}

\* The child lists a request may lead to.
ChildLists(request) ==
    IF request.tag \in Variadic
      THEN Sorted(flatten_operands(request.args, request.tag))
      ELSE {request.args}

-----------------------------------------------------------------------------
(* Requests: the builders' arguments.                                      *)

Request(tag, payload, args) == [tag |-> tag, payload |-> payload, args |-> args]

ArgLists(slots) == UNION {[1 .. n -> slots] : n \in 0 .. MaxArgs}

Requests(slots) ==
    {Request("Num", n, <<>>) : n \in Numbers}
    \cup {Request("Var", s, <<>>) : s \in Symbols}
    \cup {Request(tag, 0, args) : tag \in Variadic, args \in ArgLists(slots)}
    \cup {Request("Pow", 0, args) : args \in [1 .. 2 -> slots]}
    \cup {Request("Fun", s, args) : s \in Symbols, args \in ArgLists(slots)}

-----------------------------------------------------------------------------
(* Behaviour.                                                              *)

Init ==
    /\ nodes = <<>>
    /\ child_pool = <<>>
    /\ hash_buckets = {}
    /\ call = [request |-> Request("none", 0, <<>>), slot |-> None]
    /\ failures = 0

\* The node of a request whose children are about to be appended to the pool.
Candidate(request, children) ==
    [tag |-> request.tag, payload |-> request.payload,
     child_start |-> IF request.tag \in {"Num", "Var"} THEN 0 ELSE Truncate(Len(child_pool)),
     child_count |-> Len(children)]

\* Mutant: takes any node in the bucket for the one it looks for.
MatchesByHash(key, pool) == {e.slot : e \in {x \in hash_buckets : x.hash = Hash(key)}}

\* The nodes of the bucket that nodes_equal accepts.
Matches(key, pool) ==
    {e.slot : e \in {x \in hash_buckets :
                        x.hash = Hash(key) /\ Key(nodes[x.slot + 1], pool) = key}}

Answer(request, slot) == call' = [request |-> request, slot |-> slot]

\* Mutant: writes the children over the end of the pool instead of behind it.
InternHitOverwrites(request, children) ==
    LET pool == child_pool \o children
        key  == Key(Candidate(request, children), pool) IN
    \E existing \in Matches(key, pool) :
        /\ Answer(request, existing)
        /\ child_pool' = SubSeq(child_pool, 1, Len(child_pool) - Len(children)) \o children
        /\ UNCHANGED <<nodes, hash_buckets, failures>>

\* intern() finds the node: the children just appended stay behind, unused.
InternHit(request, children) ==
    LET pool == child_pool \o children
        key  == Key(Candidate(request, children), pool) IN
    \E existing \in Matches(key, pool) :
        /\ Answer(request, existing)
        /\ child_pool' = pool
        /\ UNCHANGED <<nodes, hash_buckets, failures>>

\* intern() adds the node and enters it in its bucket.
InternMiss(request, children) ==
    LET pool == child_pool \o children
        node == Candidate(request, children)
        key  == Key(node, pool)
        new_index == Truncate(Len(nodes)) IN
    /\ Matches(key, pool) = {}
    /\ Len(nodes) < MaxNodes
    /\ nodes' = Append(nodes, node)
    /\ hash_buckets' = hash_buckets \cup {[hash |-> Hash(key), slot |-> new_index]}
    /\ child_pool' = pool
    /\ Answer(request, new_index)
    /\ UNCHANGED failures

\* Out of memory before intern() is reached: the vector insert of Add and Mul
\* takes all or nothing, the push_backs of Pow and Fun stop anywhere.
PoolFails(request, children) ==
    \E n \in 0 .. Len(children) - 1 :
        /\ request.tag \in Variadic => n = 0
        /\ child_pool' = child_pool \o SubSeq(children, 1, n)
        /\ UNCHANGED <<nodes, hash_buckets>>

\* Mutant: enters the slot in the bucket before the node is in the arena.
BucketFirst(request, children) ==
    LET pool == child_pool \o children
        key  == Key(Candidate(request, children), pool) IN
    /\ Matches(key, pool) = {}
    /\ child_pool' = pool
    /\ hash_buckets' = hash_buckets \cup {[hash |-> Hash(key), slot |-> Len(nodes)]}
    /\ UNCHANGED nodes

\* Out of memory in intern(), making the bucket, the node, or the entry of the
\* node in its bucket: the last leaves a node no builder will find.
InternFails(request, children) ==
    LET pool == child_pool \o children
        node == Candidate(request, children) IN
    /\ Matches(Key(node, pool), pool) = {}
    /\ Len(nodes) < MaxNodes
    /\ child_pool' = pool
    /\ nodes' \in {nodes, Append(nodes, node)}
    /\ UNCHANGED hash_buckets

Fails(request, children) ==
    /\ failures < MaxFailures
    /\ failures' = failures + 1
    /\ Answer(request, None)
    /\ PoolFails(request, children) \/ InternFails(request, children)

\* A builder call, with the child list that sorting or the caller produced.
Build(request) ==
    /\ request.tag \in Tags
    /\ \E children \in ChildLists(request) :
        /\ Len(child_pool) + Len(children) <= MaxPool
        /\ \/ InternHit(request, children)
           \/ InternMiss(request, children)
           \/ Fails(request, children)

num(value)      == Build(Request("Num", value, <<>>))
var(symbol)     == Build(Request("Var", symbol, <<>>))
add(terms)      == Build(Request("Add", 0, terms))
mul(factors)    == Build(Request("Mul", 0, factors))
pow(base, exponent) == Build(Request("Pow", 0, <<base, exponent>>))
fun(head, args) == Build(Request("Fun", head, args))

Next ==
    \/ \E value \in Numbers : num(value)
    \/ \E symbol \in Symbols : var(symbol)
    \/ \E terms \in ArgLists(Interned) : add(terms)
    \/ \E factors \in ArgLists(Interned) : mul(factors)
    \/ \E base, exponent \in Interned : pow(base, exponent)
    \/ \E head \in Symbols, args \in ArgLists(Interned) : fun(head, args)

Spec == Init /\ [][Next]_vars

-----------------------------------------------------------------------------
(* Properties.                                                             *)

Node == [tag : {"Num", "Var", "Add", "Mul", "Pow", "Fun"}, payload : Int,
         child_start : Nat, child_count : Nat]

\* The types of the variables; an answer is a slot of the table or None.
TypeOK ==
    /\ nodes \in Seq(Node) /\ Len(nodes) <= MaxNodes
    /\ child_pool \in Seq(Nat) /\ Len(child_pool) <= MaxPool
    /\ \A e \in hash_buckets : e = [hash |-> e.hash, slot |-> e.slot] /\ e.slot \in Nat
    /\ call.slot \in Interned \cup {None}
    /\ failures \in 0 .. MaxFailures

\* Sizes have not outgrown 32 bits.
IndicesFit == MaxPool <= IndexRange /\ MaxNodes <= IndexRange

\* Every node's run of children lies in the pool.
RunsInPool ==
    \A n \in DOMAIN nodes : nodes[n].child_start + nodes[n].child_count <= Len(child_pool)

\* Table entries point at nodes, under the hash those nodes have now.
EntriesValid ==
    \A e \in hash_buckets : e.slot < Len(nodes) /\ e.hash = Hash(KeyOf(e.slot))

\* Children are older than their parent, and slots some builder returned: a
\* node left behind by a failed call is never anybody's child.
ChildrenInterned ==
    \A n \in DOMAIN nodes : \A k \in 1 .. nodes[n].child_count :
        LET c == Children(nodes[n], child_pool)[k] IN c \in Interned /\ c < n - 1

\* Hash-consing, one level deep: slots with the same tag, payload and child
\* slots are one slot, in spite of nodes that failed calls leave behind.
OneSlotPerKey ==
    \A i, j \in Interned : KeyOf(i) = KeyOf(j) => i = j

\* No sum has a sum among its terms, no product a product among its factors,
\* although a builder flattens one level only.
NoNesting ==
    \A n \in DOMAIN nodes : nodes[n].tag \in Variadic =>
        \A k \in 1 .. nodes[n].child_count :
            nodes[Children(nodes[n], child_pool)[k] + 1].tag # nodes[n].tag

\* The inductive invariant of the proofs.
IInv == /\ TypeOK
        /\ RunsInPool
        /\ EntriesValid
        /\ ChildrenInterned
        /\ OneSlotPerKey
        /\ NoNesting

\* The operands of a stored sum or product are in ascending order, also after
\* later nodes have come into the arena.
OperandsSorted ==
    \A n \in DOMAIN nodes : nodes[n].tag \in Variadic =>
        \A k \in 2 .. nodes[n].child_count :
            LET run == Children(nodes[n], child_pool) IN Compare[run[k - 1], run[k]] <= 0

\* Numbers and variables have no children.
LeavesAreBare ==
    \A n \in DOMAIN nodes : nodes[n].tag \in {"Num", "Var"} => nodes[n].child_count = 0

\* What the store as a whole keeps: hash-consing, and a normal form that makes
\* equal sums and products meet in the table.
StoreInv == IInv /\ OperandsSorted /\ LeavesAreBare

\* Two views of a store are structurally equal exactly when they are the same
\* slot (AtomView::operator==, same_slot).
EqualIffSameSlot ==
    \A i, j \in Interned : Compare[i, j] = 0 <=> i = j

\* operator<=> is a total order, so that std::sort and std::map may use it.
TotalOrder ==
    \A i, j \in Interned :
        /\ Compare[i, j] = 0 - Compare[j, i]
        /\ \A k \in Interned :
              Compare[i, j] <= 0 /\ Compare[j, k] <= 0 => Compare[i, k] <= 0

\* What a view shows never changes, whatever is built, or fails, after it.
ViewsNeverChange ==
    [][\A i \in Interned : i \in Interned' /\ KeyOf(i)' = KeyOf(i)]_vars

-----------------------------------------------------------------------------
(* The abstract specification it implements.                               *)

Bank == INSTANCE TermBank WITH
    Handles  <- 0 .. MaxNodes - 1,
    NoHandle <- None,
    bank     <- [i \in Interned |-> Term[i]]

\* The store is a bank of terms: equal terms, flattened and up to the order of
\* operands of sums and products, get one handle, and a failure has no effect.
ImplementsTermBank == Bank!Spec
=============================================================================
