-------------------------- MODULE AtomStore_proofs --------------------------
(* Theorems about AtomStore: while sizes fit 32 bits, hash-consing holds,   *)
(* sums and products stay flat and sorted, operator<=> is a total order, no *)
(* view ever changes, and the store implements TermBank, whatever fails.    *)
EXTENDS AtomStore, FiniteSetTheorems, WellFoundedInduction, TLAPS

\* A function on an initial interval is a sequence.
LEMMA SequenceOf ==
    ASSUME NEW S, NEW n \in Nat, NEW f \in [1 .. n -> S]
    PROVE  f \in Seq(S) /\ Len(f) = n /\ DOMAIN f = 1 .. n
OBVIOUS

\* Products, in the forms the proofs need.
LEMMA SubProduct ==
    ASSUME NEW A, NEW B, NEW k \in A, NEW D \in SUBSET B
    PROVE  {k} \X D \subseteq A \X B
OBVIOUS

LEMMA FiniteProduct ==
    ASSUME NEW S, NEW T, IsFiniteSet(S), IsFiniteSet(T)
    PROVE  IsFiniteSet(S \X T)
BY FS_Product, Zenon

\* Appending leaves the members where they are.
LEMMA AppendKeeps ==
    ASSUME NEW S, NEW seq \in Seq(S), NEW x
    PROVE  \A n \in DOMAIN seq : Append(seq, x)[n] = seq[n]
<1>1. seq \in Seq(S \cup {x}) /\ x \in S \cup {x}
  OBVIOUS
<1> QED
  BY <1>1

\* Sizes below the index range survive the cast.
LEMMA TruncateSmall ==
    ASSUME NEW n \in Nat, n < IndexRange
    PROVE  Truncate(n) = n
BY IndexRangeIsPositive DEF Truncate

\* A node's children lie inside the pool, at their own offsets.
LEMMA ChildrenRead ==
    ASSUME IndicesFit, NEW pool \in Seq(Nat), Len(pool) <= MaxPool,
           NEW node \in Node, node.child_start + node.child_count <= Len(pool)
    PROVE  /\ Children(node, pool) \in Seq(Nat)
           /\ DOMAIN Children(node, pool) = 1 .. node.child_count
           /\ \A k \in 1 .. node.child_count :
                 /\ node.child_start + k \in DOMAIN pool
                 /\ Children(node, pool)[k] = pool[node.child_start + k]
<1>1. node.child_start \in Nat /\ node.child_count \in Nat
  BY DEF Node
<1>2. MaxPool \in Nat /\ IndexRange \in Nat
  BY BoundsAreNaturals, IndexRangeIsPositive
<1>3. ASSUME NEW k \in 1 .. node.child_count
      PROVE  /\ node.child_start + k \in DOMAIN pool
             /\ pool[Truncate(node.child_start + k - 1) + 1] = pool[node.child_start + k]
             /\ pool[node.child_start + k] \in Nat
  <2>1. node.child_start + k - 1 \in Nat /\ node.child_start + k - 1 < IndexRange
    BY <1>1, <1>2 DEF IndicesFit
  <2>2. Truncate(node.child_start + k - 1) + 1 = node.child_start + k
    BY <1>1, <2>1, TruncateSmall
  <2>3. node.child_start + k \in DOMAIN pool
    BY <1>1
  <2> QED
    BY <2>2, <2>3
<1> DEFINE run == Children(node, pool)
<1>4. /\ DOMAIN run = 1 .. node.child_count
      /\ \A k \in 1 .. node.child_count :
            run[k] = pool[Truncate(node.child_start + k - 1) + 1]
  BY DEF Children
<1>5. run = [k \in 1 .. node.child_count |-> run[k]]
  BY DEF Children
<1>6. \A k \in 1 .. node.child_count :
        run[k] = pool[node.child_start + k] /\ run[k] \in Nat
          /\ node.child_start + k \in DOMAIN pool
  BY <1>3, <1>4
<1> HIDE DEF run
<1>7. run \in [1 .. node.child_count -> Nat]
  BY <1>5, <1>6
<1>8. run \in Seq(Nat)
  BY <1>1, <1>7, SequenceOf
<1> QED
  BY <1>4, <1>6, <1>8 DEF run

\* Appending to the pool changes no node's key.
LEMMA KeysKept ==
    ASSUME IndicesFit, NEW pool \in Seq(Nat), NEW more \in Seq(Nat),
           Len(pool \o more) <= MaxPool,
           NEW node \in Node, node.child_start + node.child_count <= Len(pool)
    PROVE  /\ Children(node, pool \o more) = Children(node, pool)
           /\ Key(node, pool \o more) = Key(node, pool)
<1>1. node.child_start \in Nat /\ node.child_count \in Nat
  BY DEF Node
<1>2. /\ pool \o more \in Seq(Nat) /\ Len(pool) <= Len(pool \o more)
      /\ Len(pool) <= MaxPool
  BY BoundsAreNaturals
<1>3. node.child_start + node.child_count <= Len(pool \o more)
  BY <1>1, <1>2
<1>4. \A k \in 1 .. node.child_count :
        Children(node, pool \o more)[k] = Children(node, pool)[k]
  <2> TAKE k \in 1 .. node.child_count
  <2>1. Children(node, pool)[k] = pool[node.child_start + k] /\ node.child_start + k \in DOMAIN pool
    BY <1>2, ChildrenRead
  <2>2. Children(node, pool \o more)[k] = (pool \o more)[node.child_start + k]
    BY <1>2, <1>3, ChildrenRead
  <2>3. \A x \in DOMAIN pool : (pool \o more)[x] = pool[x]
    OBVIOUS
  <2> QED
    BY <2>1, <2>2, <2>3, Zenon
<1>5. Children(node, pool \o more) = Children(node, pool)
  BY <1>4 DEF Children
<1> QED
  BY <1>5 DEF Key

\* The candidate node of a request shows the children collected for it.
LEMMA CandidateFits ==
    ASSUME IndicesFit, TypeOK, NEW request,
           request.tag \in {"Num", "Var", "Add", "Mul", "Pow", "Fun"}, request.payload \in Int,
           NEW children \in Seq(Nat),
           request.tag \in {"Num", "Var"} => children = <<>>,
           Len(child_pool) + Len(children) <= MaxPool
    PROVE  LET pool == child_pool \o children
               node == Candidate(request, children) IN
           /\ pool \in Seq(Nat) /\ Len(pool) <= MaxPool
           /\ node \in Node /\ node.tag = request.tag
           /\ node.child_start + node.child_count <= Len(pool)
           /\ node.child_count = Len(children)
           /\ Children(node, pool) = children
<1> DEFINE pool == child_pool \o children
           node == Candidate(request, children)
<1>1. /\ child_pool \in Seq(Nat) /\ pool \in Seq(Nat)
      /\ Len(pool) = Len(child_pool) + Len(children)
      /\ MaxPool \in Nat /\ IndexRange \in Nat \ {0} /\ MaxPool <= IndexRange
  BY BoundsAreNaturals, IndexRangeIsPositive DEF TypeOK, IndicesFit
<1>2. /\ Truncate(Len(child_pool)) \in Nat
      /\ Truncate(Len(child_pool)) <= Len(child_pool)
      /\ children # <<>> => Truncate(Len(child_pool)) = Len(child_pool)
  <2>1. CASE Len(child_pool) < IndexRange
    BY <1>1, <2>1, TruncateSmall
  <2>2. CASE Len(child_pool) = IndexRange
    <3>1. Len(children) = 0
      BY <1>1, <2>2
    <3>2. Truncate(Len(child_pool)) = 0
      BY <1>1, <2>2 DEF Truncate
    <3> QED
      BY <1>1, <3>1, <3>2
  <2> QED
    BY <1>1, <2>1, <2>2
<1>3. /\ node.tag = request.tag /\ node.payload = request.payload
      /\ node.child_count = Len(children)
      /\ node.child_start \in Nat /\ node.child_start <= Len(child_pool)
      /\ children # <<>> => node.child_start = Len(child_pool)
  BY <1>1, <1>2 DEF Candidate
<1>4. node \in Node
  BY <1>3, <1>1 DEF Candidate, Node
<1>5. node.child_start + node.child_count <= Len(pool)
  BY <1>1, <1>3
<1>6. Children(node, pool) = children
  <2>1. \A k \in 1 .. Len(children) : Children(node, pool)[k] = children[k]
    <3> TAKE k \in 1 .. Len(children)
    <3>1. Children(node, pool)[k] = pool[node.child_start + k]
      BY <1>1, <1>3, <1>4, <1>5, ChildrenRead
    <3>2. node.child_start = Len(child_pool)
      BY <1>3
    <3> QED
      BY <1>1, <3>1, <3>2
  <2>2. Children(node, pool) \in Seq(Nat) /\ DOMAIN Children(node, pool) = 1 .. Len(children)
    BY <1>1, <1>3, <1>4, <1>5, ChildrenRead
  <2> QED
    BY <2>1, <2>2
<1> HIDE DEF pool, node
<1> QED
  BY <1>1, <1>3, <1>4, <1>5, <1>6 DEF pool, node

-----------------------------------------------------------------------------
\* Slots a program holds are slots of nodes.
LEMMA InternedAreNodes ==
    ASSUME TypeOK, EntriesValid
    PROVE  \A i \in Interned : i \in Nat /\ i < Len(nodes) /\ i + 1 \in DOMAIN nodes
<1>1. nodes \in Seq(Node)
  BY DEF TypeOK
<1> QED
  BY <1>1 DEF TypeOK, EntriesValid, Interned

\* An operand of a sum or product is a slot the program could hold, and not
\* itself of that tag: one level of flattening is enough.
LEMMA OperandsAreFlat ==
    ASSUME IInv, IndicesFit, NEW tag \in Variadic, NEW arg \in Interned
    PROVE  /\ Operands(arg, tag) \in Seq(Interned)
           /\ Len(Operands(arg, tag)) <= MaxPool + 1
           /\ \A k \in DOMAIN Operands(arg, tag) : nodes[Operands(arg, tag)[k] + 1].tag # tag
<1>1. arg \in Nat /\ arg + 1 \in DOMAIN nodes
  BY InternedAreNodes DEF IInv
<1>2. nodes[arg + 1] \in Node
  BY <1>1 DEF IInv, TypeOK
<1>3. child_pool \in Seq(Nat) /\ Len(child_pool) <= MaxPool /\ MaxPool \in Nat
  BY BoundsAreNaturals DEF IInv, TypeOK
<1>4. CASE nodes[arg + 1].tag # tag
  <2>1. Operands(arg, tag) = <<arg>>
    BY <1>4 DEF Operands
  <2> QED
    BY <2>1, <1>3, <1>4
<1>5. CASE nodes[arg + 1].tag = tag
  <2> DEFINE run == Children(nodes[arg + 1], child_pool)
  <2>1. Operands(arg, tag) = run
    BY <1>5 DEF Operands
  <2>2. nodes[arg + 1].child_start + nodes[arg + 1].child_count <= Len(child_pool)
    BY <1>1 DEF IInv, RunsInPool
  <2>3. run \in Seq(Nat) /\ DOMAIN run = 1 .. nodes[arg + 1].child_count
    BY <1>2, <1>3, <2>2, ChildrenRead
  <2>4. \A k \in DOMAIN run : run[k] \in Interned
    BY <1>1, <2>3 DEF IInv, ChildrenInterned
  <2>5. \A k \in DOMAIN run : nodes[run[k] + 1].tag # tag
    BY <1>1, <1>5, <2>3 DEF IInv, NoNesting
  <2>6. nodes[arg + 1].child_count \in Nat /\ nodes[arg + 1].child_start \in Nat
    BY <1>2 DEF Node
  <2> HIDE DEF run
  <2>7. Len(run) = nodes[arg + 1].child_count
    BY <2>3, <2>6
  <2>8. run \in [1 .. nodes[arg + 1].child_count -> Interned]
    BY <2>3, <2>4, <2>6
  <2>9. run \in Seq(Interned)
    BY <2>6, <2>8, SequenceOf
  <2>10. Len(run) <= MaxPool + 1
    BY <1>3, <2>2, <2>6, <2>7
  <2> QED
    BY <2>1, <2>5, <2>9, <2>10
<1> QED
  BY <1>4, <1>5

\* The shape of the requests a program can make.
LEMMA RequestsTyped ==
    ASSUME NEW slots, NEW request \in Requests(slots)
    PROVE  /\ request.tag \in {"Num", "Var", "Add", "Mul", "Pow", "Fun"}
           /\ request.payload \in Int
           /\ request.args \in Seq(slots)
           /\ request.tag \in {"Num", "Var"} => request.args = <<>>
<1>1. \A args \in ArgLists(slots) : args \in Seq(slots)
  <2> SUFFICES ASSUME NEW n \in 0 .. MaxArgs, NEW args \in [1 .. n -> slots]
               PROVE  args \in Seq(slots)
    BY DEF ArgLists
  <2> QED
    BY SequenceOf, BoundsAreNaturals
<1>2. \A args \in [1 .. 2 -> slots] : args \in Seq(slots)
  BY SequenceOf
<1>3. CASE \E n \in Numbers : request = Request("Num", n, <<>>)
  BY <1>3, NumbersAreIntegers DEF Request
<1>4. CASE \E s \in Symbols : request = Request("Var", s, <<>>)
  BY <1>4, SymbolsAreIds DEF Request
<1>5. CASE \E tag \in Variadic, args \in ArgLists(slots) : request = Request(tag, 0, args)
  BY <1>1, <1>5 DEF Request, Variadic
<1>6. CASE \E args \in [1 .. 2 -> slots] : request = Request("Pow", 0, args)
  BY <1>2, <1>6 DEF Request
<1>7. CASE \E s \in Symbols, args \in ArgLists(slots) : request = Request("Fun", s, args)
  BY <1>1, <1>7, SymbolsAreIds DEF Request
<1> QED
  BY <1>3, <1>4, <1>5, <1>6, <1>7 DEF Requests

\* A call over slots that the program holds, also one no Requests lists: the
\* copies of a clone may have more operands than MaxArgs.
Callable(request) ==
    /\ request.tag \in {"Num", "Var", "Add", "Mul", "Pow", "Fun"}
    /\ request.payload \in Int
    /\ request.args \in Seq(Interned)
    /\ request.tag \in {"Num", "Var"} => request.args = <<>>

Call == \E request : Callable(request) /\ Build(request)

\* Pairs of a member of a finite set and a number up to a bound.
LEMMA FinitePlaces ==
    ASSUME NEW I, IsFiniteSet(I), NEW n \in Nat, NEW places,
           \A p \in places : \E k \in I : \E D \in SUBSET (1 .. n) : p \in {k} \X D
    PROVE  IsFiniteSet(places)
<1>1. places \subseteq I \X (1 .. n)
  <2> SUFFICES ASSUME NEW p \in places
               PROVE  p \in I \X (1 .. n)
    OBVIOUS
  <2>1. PICK k \in I : \E D \in SUBSET (1 .. n) : p \in {k} \X D
    OBVIOUS
  <2>2. PICK D \in SUBSET (1 .. n) : p \in {k} \X D
    BY <2>1
  <2> QED
    BY <2>2, SubProduct
<1>2. IsFiniteSet(1 .. n)
  BY FS_Interval
<1>3. IsFiniteSet(I \X (1 .. n))
  BY <1>2, FiniteProduct
<1> QED
  BY <1>1, <1>3, FS_Subset

\* The operands collected for a sum or product are finitely many slots the
\* program could hold, none of them of the tag being built.
LEMMA FlattenedIsFlat ==
    ASSUME IInv, IndicesFit, NEW tag \in Variadic, NEW args \in Seq(Interned)
    PROVE  LET flat == flatten_operands(args, tag) IN
           /\ Cardinality(DOMAIN flat) \in Nat
           /\ \A p \in DOMAIN flat : flat[p] \in Interned /\ nodes[flat[p] + 1].tag # tag
<1> DEFINE flat == flatten_operands(args, tag)
<1>1. /\ DOMAIN flat = UNION {{k} \X DOMAIN Operands(args[k], tag) : k \in DOMAIN args}
      /\ \A p \in DOMAIN flat : flat[p] = Operands(args[p[1]], tag)[p[2]]
  BY DEF flatten_operands
<1>2. \A k \in DOMAIN args :
        /\ Operands(args[k], tag) \in Seq(Interned)
        /\ DOMAIN Operands(args[k], tag) \in SUBSET (1 .. MaxPool + 1)
        /\ \A l \in DOMAIN Operands(args[k], tag) :
              nodes[Operands(args[k], tag)[l] + 1].tag # tag
  <2> TAKE k \in DOMAIN args
  <2>1. args[k] \in Interned
    OBVIOUS
  <2> DEFINE operands == Operands(args[k], tag)
  <2>2. /\ operands \in Seq(Interned) /\ Len(operands) <= MaxPool + 1
        /\ \A l \in DOMAIN operands : nodes[operands[l] + 1].tag # tag
    BY <2>1, OperandsAreFlat
  <2> HIDE DEF operands
  <2>3. DOMAIN operands \in SUBSET (1 .. MaxPool + 1)
    BY <2>2, BoundsAreNaturals
  <2> QED
    BY <2>2, <2>3 DEF operands
<1> HIDE DEF flat
<1>3. IsFiniteSet(DOMAIN flat)
  <2>1. IsFiniteSet(DOMAIN args)
    <3>1. DOMAIN args = 1 .. Len(args) /\ Len(args) \in Nat
      OBVIOUS
    <3> QED
      BY <3>1, FS_Interval
  <2>2. \A p \in DOMAIN flat : \E k \in DOMAIN args : \E D \in SUBSET (1 .. MaxPool + 1) :
            p \in {k} \X D
    <3> TAKE p \in DOMAIN flat
    <3>1. PICK k \in DOMAIN args : p \in {k} \X DOMAIN Operands(args[k], tag)
      BY <1>1
    <3> QED
      BY <1>2, <3>1
  <2>3. MaxPool + 1 \in Nat
    BY BoundsAreNaturals
  <2> QED
    BY <2>1, <2>2, <2>3, FinitePlaces, Zenon
<1>4. ASSUME NEW p \in DOMAIN flat
      PROVE  flat[p] \in Interned /\ nodes[flat[p] + 1].tag # tag
  <2>1. PICK k \in DOMAIN args : p \in {k} \X DOMAIN Operands(args[k], tag)
    BY <1>1
  <2>2. p[1] = k /\ p[2] \in DOMAIN Operands(args[k], tag)
    BY <2>1
  <2>3. flat[p] = Operands(args[k], tag)[p[2]]
    BY <1>1, <2>2
  <2>4. Operands(args[k], tag)[p[2]] \in Interned
    BY <1>2, <2>2
  <2> QED
    BY <1>2, <2>2, <2>3, <2>4
<1> QED
  BY <1>3, <1>4, FS_CardinalityType DEF flat

\* The child lists of a request consist of slots the program could hold, and
\* those of sums and products are flat.
LEMMA ChildListsAreFlat ==
    ASSUME IInv, IndicesFit, NEW request, Callable(request),
           NEW children \in ChildLists(request)
    PROVE  /\ children \in Seq(Interned)
           /\ request.tag \in {"Num", "Var"} => children = <<>>
           /\ request.tag \in Variadic =>
                \A k \in DOMAIN children : nodes[children[k] + 1].tag # request.tag
<1>1. /\ request.args \in Seq(Interned)
      /\ request.tag \in {"Num", "Var"} => request.args = <<>>
  BY DEF Callable
<1>2. CASE request.tag \notin Variadic
  BY <1>1, <1>2 DEF ChildLists
<1>3. CASE request.tag \in Variadic
  <2> DEFINE flat == flatten_operands(request.args, request.tag)
             members == {flat[p] : p \in DOMAIN flat}
  <2>1. children \in [1 .. Cardinality(DOMAIN flat) -> members]
    BY <1>3 DEF ChildLists, Sorted, Arrangements
  <2>2. /\ Cardinality(DOMAIN flat) \in Nat
        /\ \A x \in members : x \in Interned /\ nodes[x + 1].tag # request.tag
    BY <1>1, <1>3, FlattenedIsFlat
  <2> HIDE DEF members, flat
  <2>3. children \in [1 .. Cardinality(DOMAIN flat) -> Interned]
    BY <2>1, <2>2
  <2>4. children \in Seq(Interned)
    BY <2>2, <2>3, SequenceOf
  <2>5. \A k \in DOMAIN children : nodes[children[k] + 1].tag # request.tag
    BY <2>1, <2>2
  <2> QED
    BY <1>3, <2>4, <2>5 DEF Variadic
<1> QED
  BY <1>2, <1>3

-----------------------------------------------------------------------------
\* What all steps have in common: the pool grows behind the runs in use, and
\* the nodes and table entries there stay as they are.
LEMMA PoolGrows ==
    ASSUME IInv, IndicesFit, NEW more \in Seq(Nat), child_pool' = child_pool \o more,
           Len(child_pool \o more) <= MaxPool
    PROVE  \A n \in DOMAIN nodes :
              /\ Children(nodes[n], child_pool') = Children(nodes[n], child_pool)
              /\ Key(nodes[n], child_pool') = Key(nodes[n], child_pool)
              /\ nodes[n].child_start + nodes[n].child_count <= Len(child_pool')
<1>1. child_pool \in Seq(Nat) /\ nodes \in Seq(Node)
  BY DEF IInv, TypeOK
<1> TAKE n \in DOMAIN nodes
<1>2. nodes[n] \in Node /\ nodes[n].child_start + nodes[n].child_count <= Len(child_pool)
  BY <1>1 DEF IInv, RunsInPool
<1>3. nodes[n].child_start \in Nat /\ nodes[n].child_count \in Nat
  BY <1>2 DEF Node
<1> QED
  BY <1>1, <1>2, <1>3, KeysKept

\* A step that adds no node.
LEMMA NoNodeKeeps ==
    ASSUME IInv, IndicesFit, NEW more \in Seq(Nat), child_pool' = child_pool \o more,
           Len(child_pool \o more) <= MaxPool, UNCHANGED <<nodes, hash_buckets>>,
           call'.slot \in Interned \cup {None}, failures' \in 0 .. MaxFailures
    PROVE  IInv'
<1>1. TypeOK'
  <2>1. child_pool \o more \in Seq(Nat)
    BY DEF IInv, TypeOK
  <2> QED
    BY <2>1 DEF IInv, TypeOK, Interned
<1>2. RunsInPool'
  BY PoolGrows DEF RunsInPool
<1>3. \A i \in Interned : KeyOf(i)' = KeyOf(i)
  BY PoolGrows, InternedAreNodes DEF KeyOf, IInv
<1>4. EntriesValid'
  <2> SUFFICES ASSUME NEW e \in hash_buckets
               PROVE  e.slot < Len(nodes) /\ e.hash = Hash(KeyOf(e.slot)')
    BY DEF EntriesValid
  <2>1. e.slot \in Interned
    BY DEF Interned
  <2> QED
    BY <1>3, <2>1 DEF IInv, EntriesValid
<1>5. ChildrenInterned'
  BY PoolGrows DEF IInv, ChildrenInterned, Interned
<1>6. OneSlotPerKey'
  BY <1>3 DEF IInv, OneSlotPerKey, Interned
<1>7. NoNesting'
  BY PoolGrows DEF IInv, NoNesting
<1> QED
  BY <1>1, <1>2, <1>4, <1>5, <1>6, <1>7 DEF IInv

\* A step that adds a node that no entry of the table matches; its entry may
\* be missing, when making it failed.
LEMMA NewNodeKeeps ==
    ASSUME IInv, IndicesFit, NEW request, Callable(request),
           NEW children \in ChildLists(request),
           Len(child_pool) + Len(children) <= MaxPool, Len(nodes) < MaxNodes,
           NEW node, node = Candidate(request, children),
           NEW key, key = Key(node, child_pool \o children),
           Matches(key, child_pool \o children) = {},
           child_pool' = child_pool \o children, nodes' = Append(nodes, node),
           \/ UNCHANGED hash_buckets
           \/ hash_buckets' = hash_buckets \cup {[hash |-> Hash(key), slot |-> Len(nodes)]},
           call'.slot \in Interned' \cup {None}, failures' \in 0 .. MaxFailures
    PROVE  IInv'
<1>1. /\ nodes \in Seq(Node) /\ child_pool \in Seq(Nat)
      /\ \A i \in Interned : i \in Nat /\ i < Len(nodes) /\ i + 1 \in DOMAIN nodes
  BY InternedAreNodes DEF IInv, TypeOK
<1>2. /\ children \in Seq(Interned) /\ children \in Seq(Nat)
      /\ request.tag \in {"Num", "Var"} => children = <<>>
      /\ request.tag \in Variadic =>
           \A k \in DOMAIN children : nodes[children[k] + 1].tag # request.tag
  <2>1. children \in Seq(Interned)
    BY ChildListsAreFlat
  <2>2. children \in Seq(Nat)
    BY <1>1, <2>1
  <2> QED
    BY <2>1, <2>2, ChildListsAreFlat
<1>3. /\ child_pool' \in Seq(Nat) /\ Len(child_pool') <= MaxPool
      /\ node \in Node /\ node.tag = request.tag
      /\ node.child_start + node.child_count <= Len(child_pool')
      /\ node.child_count = Len(children)
      /\ Children(node, child_pool') = children
  BY <1>2, CandidateFits DEF IInv, Callable
<1>4. /\ nodes' \in Seq(Node) /\ Len(nodes') = Len(nodes) + 1
      /\ DOMAIN nodes' = DOMAIN nodes \cup {Len(nodes) + 1}
      /\ \A n \in DOMAIN nodes : nodes'[n] = nodes[n] /\ n # Len(nodes) + 1
      /\ nodes'[Len(nodes) + 1] = node
      /\ Len(nodes) \in Nat
  BY <1>1, <1>3
<1>5. \A n \in DOMAIN nodes :
        /\ Children(nodes'[n], child_pool') = Children(nodes[n], child_pool)
        /\ Key(nodes'[n], child_pool') = Key(nodes[n], child_pool)
        /\ nodes'[n].child_start + nodes'[n].child_count <= Len(child_pool')
  BY <1>2, <1>3, <1>4, PoolGrows
<1>6. \A i \in Interned : KeyOf(i)' = KeyOf(i) /\ KeyOf(i) = Key(nodes[i + 1], child_pool')
  <2> TAKE i \in Interned
  <2>1. i + 1 \in DOMAIN nodes /\ nodes'[i + 1] = nodes[i + 1]
    BY <1>1, <1>4
  <2> QED
    BY <1>5, <2>1 DEF KeyOf
<1> PICK size \in Nat : size = Len(nodes)
  BY <1>4
<1>7. KeyOf(size)' = key
  BY <1>4 DEF KeyOf
<1>8. Interned \subseteq Interned' /\ Interned' \subseteq Interned \cup {size}
  BY DEF Interned
<1>9. TypeOK'
  <2>1. \A e \in hash_buckets' : e = [hash |-> e.hash, slot |-> e.slot] /\ e.slot \in Nat
    BY <1>4 DEF IInv, TypeOK
  <2>2. Len(nodes') <= MaxNodes
    BY <1>4, BoundsAreNaturals
  <2> QED
    BY <1>3, <1>4, <2>1, <2>2 DEF TypeOK
<1>10. RunsInPool'
  BY <1>3, <1>4, <1>5 DEF RunsInPool
<1>11. EntriesValid'
  <2> SUFFICES ASSUME NEW e \in hash_buckets'
               PROVE  e.slot < Len(nodes') /\ e.hash = Hash(KeyOf(e.slot)')
    BY DEF EntriesValid
  <2>1. CASE e \in hash_buckets
    <3>1. e.slot \in Interned /\ e.slot < Len(nodes) /\ e.hash = Hash(KeyOf(e.slot))
      BY <2>1 DEF Interned, IInv, EntriesValid
    <3> QED
      BY <1>1, <1>4, <1>6, <3>1
  <2>2. CASE e = [hash |-> Hash(key), slot |-> Len(nodes)]
    <3>1. e.slot = size /\ e.hash = Hash(key)
      BY <2>2
    <3> QED
      BY <1>4, <1>7, <3>1
  <2> QED
    BY <2>1, <2>2
<1>12. ChildrenInterned'
  <2> SUFFICES ASSUME NEW n \in DOMAIN nodes', NEW k \in 1 .. nodes'[n].child_count
               PROVE  /\ Children(nodes'[n], child_pool')[k] \in Interned'
                      /\ Children(nodes'[n], child_pool')[k] < n - 1
    BY DEF ChildrenInterned
  <2>1. CASE n \in DOMAIN nodes
    BY <1>4, <1>5, <1>8, <2>1 DEF IInv, ChildrenInterned
  <2>2. CASE n = Len(nodes) + 1
    <3>1. Children(nodes'[n], child_pool')[k] = children[k] /\ k \in DOMAIN children
      BY <1>2, <1>3, <1>4, <2>2
    <3>2. children[k] \in Interned
      BY <1>2, <3>1
    <3> QED
      BY <1>1, <1>4, <1>8, <2>2, <3>1, <3>2
  <2> QED
    BY <1>4, <2>1, <2>2
<1>13. OneSlotPerKey'
  <2>1. ASSUME hash_buckets' # hash_buckets, NEW j \in Interned, KeyOf(j) = key
        PROVE  FALSE
    <3>1. PICK e \in hash_buckets : e.slot = j
      BY DEF Interned
    <3>2. e.hash = Hash(key) /\ Key(nodes[e.slot + 1], child_pool \o children) = key
      BY <1>6, <2>1, <3>1 DEF IInv, EntriesValid
    <3> QED
      BY <3>1, <3>2 DEF Matches
  <2>2. ASSUME NEW i \in Interned', NEW j \in Interned', KeyOf(i)' = KeyOf(j)'
        PROVE  i = j
    <3>1. CASE i \in Interned /\ j \in Interned
      BY <1>6, <2>2, <3>1 DEF IInv, OneSlotPerKey
    <3>2. CASE i \notin Interned \/ j \notin Interned
      <4>1. hash_buckets' # hash_buckets
        BY <3>2 DEF Interned
      <4>2. (i \in Interned \/ i = size) /\ (j \in Interned \/ j = size)
        BY <1>8
      <4> QED
        BY <1>6, <1>7, <2>1, <2>2, <3>2, <4>1, <4>2
    <3> QED
      BY <3>1, <3>2
  <2> QED
    BY <2>2 DEF OneSlotPerKey
<1>14. NoNesting'
  <2> SUFFICES ASSUME NEW n \in DOMAIN nodes', nodes'[n].tag \in Variadic,
                      NEW k \in 1 .. nodes'[n].child_count
               PROVE  nodes'[Children(nodes'[n], child_pool')[k] + 1].tag # nodes'[n].tag
    BY DEF NoNesting
  <2>1. CASE n \in DOMAIN nodes
    <3>1. Children(nodes'[n], child_pool')[k] \in Interned
      BY <1>4, <1>5, <2>1 DEF IInv, ChildrenInterned
    <3>2. nodes[Children(nodes[n], child_pool)[k] + 1].tag # nodes[n].tag
      BY <1>4, <2>1 DEF IInv, NoNesting
    <3>3. /\ nodes'[n] = nodes[n]
          /\ Children(nodes'[n], child_pool') = Children(nodes[n], child_pool)
      BY <1>4, <1>5, <2>1
    <3> DEFINE c == Children(nodes[n], child_pool)[k] + 1
    <3>4. c \in DOMAIN nodes
      BY <1>1, <3>1, <3>3
    <3> HIDE DEF c
    <3>5. nodes'[c] = nodes[c]
      BY <1>4, <3>4
    <3>6. Children(nodes'[n], child_pool')[k] + 1 = c
      BY <3>3, Zenon DEF c
    <3>7. nodes[c].tag # nodes[n].tag
      BY <3>2, Zenon DEF c
    <3> QED
      BY <3>3, <3>5, <3>6, <3>7, Zenon
  <2>2. CASE n = Len(nodes) + 1
    <3>1. Children(nodes'[n], child_pool')[k] = children[k] /\ k \in DOMAIN children
      BY <1>2, <1>3, <1>4, <2>2
    <3>2. children[k] + 1 \in DOMAIN nodes
      BY <1>1, <1>2, <3>1
    <3> QED
      BY <1>2, <1>3, <1>4, <2>2, <3>1, <3>2
  <2> QED
    BY <1>4, <2>1, <2>2
<1> QED
  BY <1>9, <1>10, <1>11, <1>12, <1>13, <1>14 DEF IInv

-----------------------------------------------------------------------------
\* A hit of intern() keeps the invariant.
LEMMA InternHitKeeps ==
    ASSUME IInv, IndicesFit, NEW request, Callable(request),
           NEW children \in ChildLists(request),
           Len(child_pool) + Len(children) <= MaxPool,
           InternHit(request, children)
    PROVE  IInv'
<1>1. children \in Seq(Nat) /\ child_pool \in Seq(Nat)
  <2>1. children \in Seq(Interned) /\ Interned \subseteq Nat
    BY ChildListsAreFlat, InternedAreNodes DEF IInv
  <2> QED
    BY <2>1 DEF IInv, TypeOK
<1>2. /\ child_pool' = child_pool \o children
      /\ UNCHANGED <<nodes, hash_buckets, failures>>
      /\ call'.slot \in Interned
  BY DEF InternHit, Matches, Answer, Interned
<1>3. Len(child_pool \o children) <= MaxPool /\ failures' \in 0 .. MaxFailures
  BY <1>1, <1>2 DEF IInv, TypeOK
<1> QED
  BY <1>1, <1>2, <1>3, NoNodeKeeps

\* A new node keeps the invariant.
LEMMA InternMissKeeps ==
    ASSUME IInv, IndicesFit, NEW request, Callable(request),
           NEW children \in ChildLists(request),
           Len(child_pool) + Len(children) <= MaxPool,
           InternMiss(request, children)
    PROVE  IInv'
<1> DEFINE node == Candidate(request, children)
           key  == Key(node, child_pool \o children)
<1>1. Truncate(Len(nodes)) = Len(nodes)
  <2>1. Len(nodes) \in Nat /\ Len(nodes) < MaxNodes /\ MaxNodes \in Nat
    BY BoundsAreNaturals DEF IInv, TypeOK, InternMiss
  <2> QED
    BY <2>1, TruncateSmall, IndexRangeIsPositive DEF IndicesFit
<1>2. /\ Len(nodes) < MaxNodes
      /\ Matches(key, child_pool \o children) = {}
      /\ child_pool' = child_pool \o children /\ nodes' = Append(nodes, node)
      /\ hash_buckets' = hash_buckets \cup {[hash |-> Hash(key), slot |-> Len(nodes)]}
      /\ call'.slot = Len(nodes)
      /\ failures' = failures
  BY <1>1 DEF InternMiss, Answer
<1>3. call'.slot \in Interned'
  <2>1. \A e \in hash_buckets' : e.slot \in Interned'
    BY DEF Interned
  <2>2. [hash |-> Hash(key), slot |-> Len(nodes)] \in hash_buckets'
    BY <1>2
  <2>3. [hash |-> Hash(key), slot |-> Len(nodes)].slot = call'.slot
    BY <1>2
  <2> QED
    BY <2>1, <2>2, <2>3
<1>4. failures' \in 0 .. MaxFailures
  BY <1>2 DEF IInv, TypeOK
<1> HIDE DEF node
<1> QED
  BY <1>2, <1>3, <1>4, NewNodeKeeps DEF node

\* Running out of memory keeps the invariant, wherever it happens.
LEMMA FailsKeeps ==
    ASSUME IInv, IndicesFit, NEW request, Callable(request),
           NEW children \in ChildLists(request),
           Len(child_pool) + Len(children) <= MaxPool,
           Fails(request, children)
    PROVE  IInv'
<1>1. /\ children \in Seq(Nat) /\ child_pool \in Seq(Nat) /\ MaxPool \in Nat
      /\ Len(child_pool \o children) <= MaxPool
  <2>1. children \in Seq(Interned) /\ Interned \subseteq Nat
    BY ChildListsAreFlat, InternedAreNodes DEF IInv
  <2> QED
    BY <2>1, BoundsAreNaturals DEF IInv, TypeOK
<1>2. failures' \in 0 .. MaxFailures /\ call'.slot = None
  BY BoundsAreNaturals DEF Fails, Answer, IInv, TypeOK
<1>3. CASE PoolFails(request, children)
  <2>1. PICK n \in 0 .. Len(children) - 1 :
          /\ child_pool' = child_pool \o SubSeq(children, 1, n)
          /\ UNCHANGED <<nodes, hash_buckets>>
    BY <1>3 DEF PoolFails
  <2> DEFINE more == SubSeq(children, 1, n)
  <2>2. more \in Seq(Nat) /\ Len(more) = n
    BY <1>1
  <2> HIDE DEF more
  <2>3. Len(child_pool \o more) <= MaxPool
    BY <1>1, <2>2
  <2> QED
    BY <1>2, <2>1, <2>2, <2>3, NoNodeKeeps DEF more
<1>4. CASE InternFails(request, children)
  <2> DEFINE node == Candidate(request, children)
             key  == Key(node, child_pool \o children)
  <2>1. /\ Len(nodes) < MaxNodes
        /\ Matches(key, child_pool \o children) = {}
        /\ child_pool' = child_pool \o children
        /\ UNCHANGED hash_buckets
        /\ nodes' = nodes \/ nodes' = Append(nodes, node)
    BY <1>4 DEF InternFails
  <2> HIDE DEF node
  <2>2. CASE nodes' = nodes
    BY <1>1, <1>2, <2>1, <2>2, NoNodeKeeps
  <2>3. CASE nodes' = Append(nodes, node)
    BY <1>2, <2>1, <2>3, NewNodeKeeps DEF node
  <2> QED
    BY <2>1, <2>2, <2>3
<1> QED
  BY <1>3, <1>4 DEF Fails

\* Every builder is a Build of some request over slots the program holds.
LEMMA StepsBuild ==
    ASSUME Next
    PROVE  \E request \in Requests(Interned) : Build(request)
<1>1. CASE \E value \in Numbers : num(value)
  BY <1>1 DEF num, Requests
<1>2. CASE \E symbol \in Symbols : var(symbol)
  BY <1>2 DEF var, Requests
<1>3. CASE \E terms \in ArgLists(Interned) : add(terms)
  BY <1>3 DEF add, Requests, Variadic
<1>4. CASE \E factors \in ArgLists(Interned) : mul(factors)
  BY <1>4 DEF mul, Requests, Variadic
<1>5. CASE \E base, exponent \in Interned : pow(base, exponent)
  <2>1. PICK base \in Interned, exponent \in Interned : pow(base, exponent)
    BY <1>5
  <2>2. <<base, exponent>> \in [1 .. 2 -> Interned]
    OBVIOUS
  <2> QED
    BY <2>1, <2>2 DEF pow, Requests
<1>6. CASE \E head \in Symbols, args \in ArgLists(Interned) : fun(head, args)
  BY <1>6 DEF fun, Requests
<1> QED
  BY <1>1, <1>2, <1>3, <1>4, <1>5, <1>6 DEF Next

LEMMA NextIsCall ==
    ASSUME Next
    PROVE  Call
<1>1. PICK request \in Requests(Interned) : Build(request)
  BY StepsBuild
<1>2. Callable(request)
  BY RequestsTyped DEF Callable
<1> QED
  BY <1>1, <1>2 DEF Call

LEMMA InitHolds ==
    ASSUME Init
    PROVE  IInv
<1>1. TypeOK
  BY BoundsAreNaturals DEF Init, TypeOK, Interned
<1> QED
  BY <1>1 DEF Init, IInv, RunsInPool, EntriesValid, ChildrenInterned, OneSlotPerKey, NoNesting,
     Interned

LEMMA StutterKeeps ==
    ASSUME IInv, UNCHANGED vars
    PROVE  IInv'
BY DEF vars, IInv, TypeOK, RunsInPool, EntriesValid, ChildrenInterned, OneSlotPerKey, NoNesting,
   Interned, KeyOf

\* Every call keeps it.
LEMMA StepKeeps ==
    ASSUME IInv, IndicesFit, [Call]_vars
    PROVE  IInv'
<1>1. CASE Call
  <2>1. PICK request : Callable(request) /\ Build(request)
    BY <1>1 DEF Call
  <2>2. PICK children \in ChildLists(request) :
          /\ Len(child_pool) + Len(children) <= MaxPool
          /\ \/ InternHit(request, children)
             \/ InternMiss(request, children)
             \/ Fails(request, children)
    BY <2>1 DEF Build
  <2>3. CASE InternHit(request, children)
    BY <2>1, <2>2, <2>3, InternHitKeeps
  <2>4. CASE InternMiss(request, children)
    BY <2>1, <2>2, <2>4, InternMissKeeps
  <2>5. CASE Fails(request, children)
    BY <2>1, <2>2, <2>5, FailsKeeps
  <2> QED
    BY <2>2, <2>3, <2>4, <2>5
<1>2. CASE UNCHANGED vars
  BY <1>2, StutterKeeps
<1> QED
  BY <1>1, <1>2

\* The inductive invariant holds, for all numbers, symbols, hash functions and
\* failures, as long as sizes fit the 32-bit indices (atom.cc, the store).
THEOREM Invariance == IndicesFit => (Spec => []IInv)
<1> SUFFICES ASSUME IndicesFit
             PROVE  Spec => []IInv
  OBVIOUS
<1>1. Init => IInv
  BY InitHolds
<1>2. IInv /\ [Next]_vars => IInv'
  BY StepKeeps, NextIsCall
<1> QED
  BY <1>1, <1>2, PTL DEF Spec

\* Every reachable state of the store has its type.
THEOREM TypeCorrect == IndicesFit => (Spec => []TypeOK)
<1>1. IInv => TypeOK
  BY DEF IInv
<1> QED
  BY <1>1, Invariance, PTL

\* Slots with the same content are the same slot (AtomStore's hash-consing).
THEOREM HashConsing == IndicesFit => (Spec => []OneSlotPerKey)
<1>1. IInv => OneSlotPerKey
  BY DEF IInv
<1> QED
  BY <1>1, Invariance, PTL

\* One level of flattening keeps all sums and products flat.
THEOREM SumsStayFlat == IndicesFit => (Spec => []NoNesting)
<1>1. IInv => NoNesting
  BY DEF IInv
<1> QED
  BY <1>1, Invariance, PTL

\* A step keeps every node, its children and every slot that was returned.
LEMMA NodesKept ==
    ASSUME IInv, IndicesFit, Call
    PROVE  /\ \A n \in DOMAIN nodes : n \in DOMAIN nodes' /\ nodes'[n] = nodes[n]
                                      /\ Key(nodes[n], child_pool') = Key(nodes[n], child_pool)
           /\ Interned \subseteq Interned'
<1>1. PICK request : Callable(request) /\ Build(request)
  BY DEF Call
<1>2. PICK children \in ChildLists(request) :
        /\ Len(child_pool) + Len(children) <= MaxPool
        /\ \/ InternHit(request, children)
           \/ InternMiss(request, children)
           \/ Fails(request, children)
  BY <1>1 DEF Build
<1>3. /\ children \in Seq(Nat) /\ child_pool \in Seq(Nat) /\ nodes \in Seq(Node)
      /\ MaxPool \in Nat
  <2>1. children \in Seq(Interned) /\ Interned \subseteq Nat
    BY <1>1, ChildListsAreFlat, InternedAreNodes DEF IInv
  <2> QED
    BY <2>1, BoundsAreNaturals DEF IInv, TypeOK
<1>4. \E more \in Seq(Nat) :
        child_pool' = child_pool \o more /\ Len(more) <= Len(children)
  <2>1. CASE InternHit(request, children) \/ InternMiss(request, children)
               \/ InternFails(request, children)
    BY <1>3, <2>1 DEF InternHit, InternMiss, InternFails
  <2>2. CASE PoolFails(request, children)
    <3>1. PICK n \in 0 .. Len(children) - 1 : child_pool' = child_pool \o SubSeq(children, 1, n)
      BY <2>2 DEF PoolFails
    <3>2. SubSeq(children, 1, n) \in Seq(Nat) /\ Len(SubSeq(children, 1, n)) = n
      BY <1>3
    <3>3. n <= Len(children)
      BY <1>3
    <3> QED
      BY <3>1, <3>2, <3>3
  <2> QED
    BY <1>2, <2>1, <2>2 DEF Fails
<1>5. /\ nodes' = nodes \/ nodes' = Append(nodes, Candidate(request, children))
      /\ hash_buckets \subseteq hash_buckets'
  <2>1. CASE InternHit(request, children)
    BY <2>1 DEF InternHit
  <2>2. CASE InternMiss(request, children)
    BY <2>2 DEF InternMiss
  <2>3. CASE PoolFails(request, children)
    BY <2>3 DEF PoolFails
  <2>4. CASE InternFails(request, children)
    BY <2>4 DEF InternFails
  <2> QED
    BY <1>2, <2>1, <2>2, <2>3, <2>4 DEF Fails
<1>6. \A n \in DOMAIN nodes : nodes'[n] = nodes[n]
  BY <1>3, <1>5, AppendKeeps
<1>7. PICK more \in Seq(Nat) :
        child_pool' = child_pool \o more /\ Len(more) <= Len(children)
  BY <1>4
<1>8. Len(child_pool \o more) <= MaxPool
  BY <1>2, <1>3, <1>7
<1>9. \A n \in DOMAIN nodes : Key(nodes[n], child_pool') = Key(nodes[n], child_pool)
  BY <1>7, <1>8, PoolGrows
<1>10. \A n \in DOMAIN nodes : n \in DOMAIN nodes'
  BY <1>3, <1>5
<1>11. Interned \subseteq Interned'
  BY <1>5 DEF Interned
<1> QED
  BY <1>6, <1>9, <1>10, <1>11

\* No builder call, and no failure in one, changes what a view shows.
THEOREM ViewsAreStable == IndicesFit => (Spec => ViewsNeverChange)
<1> SUFFICES ASSUME IndicesFit
             PROVE  Spec => ViewsNeverChange
  OBVIOUS
<1> DEFINE Stable == \A i \in Interned : i \in Interned' /\ KeyOf(i)' = KeyOf(i)
<1>1. IInv /\ [Next]_vars => [Stable]_vars
  <2> SUFFICES ASSUME IInv, Next
               PROVE  Stable
    OBVIOUS
  <2> TAKE i \in Interned
  <2>1. i + 1 \in DOMAIN nodes
    BY InternedAreNodes DEF IInv
  <2> QED
    BY <2>1, NodesKept, NextIsCall DEF KeyOf
<1> HIDE DEF Stable
<1>2. Spec => [][Stable]_vars
  BY <1>1, Invariance, PTL DEF Spec
<1> QED
  BY <1>2 DEF Stable, ViewsNeverChange

-----------------------------------------------------------------------------
(* Induction over the slots: a node's children are older than the node.     *)

\* Every non-empty set of naturals has a least element.
LEMMA LeastElement ==
    ASSUME NEW T \in SUBSET Nat, T # {}
    PROVE  \E n \in T : \A m \in T : n <= m
<1> DEFINE R == OpToRel(<, Nat)
<1>1. IsWellFoundedOn(R, Nat)
  BY NatLessThanWellFounded, Zenon
<1>2. \A m, n \in Nat : <<m, n>> \in R <=> m < n
  BY Zenon DEF OpToRel
<1> HIDE DEF R
<1>3. PICK n \in T : \A m \in T : ~(<<m, n>> \in R)
  BY <1>1, WFMin, Zenon
<1>4. ASSUME NEW m \in T PROVE n <= m
  <2>1. m \in Nat /\ n \in Nat /\ ~(m < n)
    BY <1>2, <1>3
  <2> QED
    BY <2>1
<1> QED
  BY <1>4

\* A set of naturals closed under successor holds them all.
LEMMA SetInduction ==
    ASSUME NEW S, 0 \in S, \A n \in Nat : n \in S => n + 1 \in S
    PROVE  \A n \in Nat : n \in S
<1> SUFFICES ASSUME {n \in Nat : n \notin S} # {} PROVE FALSE
  OBVIOUS
<1>1. PICK n \in {n \in Nat : n \notin S} : \A m \in {m \in Nat : m \notin S} : n <= m
  BY LeastElement
<1>2. n # 0 /\ n - 1 \in Nat /\ n - 1 \in S
  BY <1>1
<1> QED
  BY <1>1, <1>2

\* The first place where two child lists differ.
DifferAt(cmp, s, t) == {k \in DOMAIN s \cap DOMAIN t : cmp[<<s[k], t[k]>>] # 0}
FirstOf(D) == CHOOSE k \in D : \A l \in D : k <= l

LEMMA FirstIsFirst ==
    ASSUME NEW D \in SUBSET Nat, D # {}
    PROVE  FirstOf(D) \in D /\ \A l \in D : FirstOf(D) <= l
BY LeastElement DEF FirstOf

\* operator<=> on two keys, given its answers for the children.
CompareKeys(cmp, a, b) ==
    IF a.tag # b.tag THEN Sign(TagRank[a.tag] - TagRank[b.tag])
    ELSE IF a.payload # b.payload THEN Sign(a.payload - b.payload)
    ELSE IF DifferAt(cmp, a.children, b.children) # {}
      THEN LET k == FirstOf(DifferAt(cmp, a.children, b.children)) IN cmp[<<a.children[k], b.children[k]>>]
    ELSE Sign(Len(a.children) - Len(b.children))

LEMMA CompareIsChosen ==
    Compare = CHOOSE cmp : cmp = [p \in Slots \X Slots |-> CompareKeys(cmp, KeyOf(p[1]), KeyOf(p[2]))]
BY Zenon DEF Compare, CompareKeys, DifferAt, FirstOf


-----------------------------------------------------------------------------
(* operator<=> is a total order.                                            *)

\* What a comparison may answer.
Signs == {-1, 0, 1}

\* What the induction needs to know of a slot.
LEMMA SlotFacts ==
    ASSUME IInv, IndicesFit
    PROVE  /\ Interned \subseteq Slots
           /\ \A i \in Slots :
                /\ i \in Nat /\ i < Len(nodes)
                /\ KeyOf(i).tag \in {"Num", "Var", "Add", "Mul", "Pow", "Fun"}
                /\ KeyOf(i).payload \in Int /\ KeyOf(i).children \in Seq(Interned)
                /\ KeyOf(i) = [tag |-> KeyOf(i).tag, payload |-> KeyOf(i).payload,
                               children |-> KeyOf(i).children]
                /\ \A k \in DOMAIN KeyOf(i).children :
                     KeyOf(i).children[k] \in Interned /\ KeyOf(i).children[k] < i
<1>1. nodes \in Seq(Node) /\ Len(nodes) \in Nat /\ child_pool \in Seq(Nat) /\ Len(nodes) <= IndexRange
  BY IndexRangeIsPositive, BoundsAreNaturals DEF IInv, TypeOK, IndicesFit
<1>2. Interned \subseteq Slots
  <2>1. \A i \in Interned : i \in Nat /\ i < Len(nodes)
    BY InternedAreNodes DEF IInv
  <2>2. IndexRange \in Nat
    BY IndexRangeIsPositive
  <2> QED
    BY <1>1, <2>1, <2>2 DEF Slots
<1>3. ASSUME NEW i \in Slots
      PROVE  /\ i \in Nat /\ i < Len(nodes)
             /\ KeyOf(i).tag \in {"Num", "Var", "Add", "Mul", "Pow", "Fun"}
             /\ KeyOf(i).payload \in Int /\ KeyOf(i).children \in Seq(Interned)
             /\ KeyOf(i) = [tag |-> KeyOf(i).tag, payload |-> KeyOf(i).payload,
                            children |-> KeyOf(i).children]
             /\ \A k \in DOMAIN KeyOf(i).children :
                  KeyOf(i).children[k] \in Interned /\ KeyOf(i).children[k] < i
  <2>1. i \in Nat /\ i < Len(nodes) /\ i + 1 \in DOMAIN nodes
    BY <1>1 DEF Slots
  <2> DEFINE node == nodes[i + 1]
             run  == Children(node, child_pool)
  <2>2. node \in Node /\ node.child_start + node.child_count <= Len(child_pool)
        /\ Len(child_pool) <= MaxPool
    BY <1>1, <2>1 DEF IInv, RunsInPool, TypeOK
  <2>3. KeyOf(i).children = run /\ KeyOf(i).tag = node.tag /\ KeyOf(i).payload = node.payload
    BY DEF KeyOf, Key
  <2>4. run \in Seq(Nat) /\ DOMAIN run = 1 .. node.child_count
    BY <1>1, <2>2, ChildrenRead
  <2>5. \A k \in 1 .. node.child_count : run[k] \in Interned /\ run[k] < i
    <3>1. i + 1 - 1 = i
      BY <2>1
    <3> QED
      BY <2>1, <3>1 DEF IInv, ChildrenInterned
  <2>6. run \in Seq(Interned)
    <3>1. run = [k \in 1 .. node.child_count |-> run[k]]
      BY DEF Children
    <3>2. node.child_count \in Nat
      BY <2>2 DEF Node
    <3> HIDE DEF run
    <3>3. run \in [1 .. node.child_count -> Interned]
      BY <2>5, <3>1
    <3> QED
      BY <3>2, <3>3, SequenceOf
  <2>7. node.tag \in {"Num", "Var", "Add", "Mul", "Pow", "Fun"} /\ node.payload \in Int
    BY <2>2 DEF Node
  <2>8. KeyOf(i) = [tag |-> KeyOf(i).tag, payload |-> KeyOf(i).payload, children |-> KeyOf(i).children]
    BY DEF KeyOf, Key
  <2> QED
    BY <2>1, <2>3, <2>4, <2>5, <2>6, <2>7, <2>8
<1> QED
  BY <1>2, <1>3

\* Comparing two keys asks for pairs of their children only.
LEMMA CompareKeysLocal ==
    ASSUME NEW f, NEW g, NEW a, NEW b,
           \A k \in DOMAIN a.children \cap DOMAIN b.children :
              f[<<a.children[k], b.children[k]>>] = g[<<a.children[k], b.children[k]>>]
    PROVE  /\ DifferAt(f, a.children, b.children) = DifferAt(g, a.children, b.children)
           /\ a.children \in Seq(Interned) => CompareKeys(f, a, b) = CompareKeys(g, a, b)
<1>1. DifferAt(f, a.children, b.children) = DifferAt(g, a.children, b.children)
  BY DEF DifferAt
<1>2. ASSUME a.children \in Seq(Interned) PROVE CompareKeys(f, a, b) = CompareKeys(g, a, b)
  <2> DEFINE D == DifferAt(f, a.children, b.children)
  <2>1. D \in SUBSET Nat /\ D \subseteq DOMAIN a.children \cap DOMAIN b.children
    BY <1>2 DEF DifferAt
  <2>2. D # {} => FirstOf(D) \in D
    BY <2>1, FirstIsFirst
  <2> QED
    BY <1>1, <2>1, <2>2 DEF CompareKeys
<1> QED
  BY <1>1, <1>2

\* The answer is a sign when the answers for the children are.
LEMMA CompareKeysSign ==
    ASSUME NEW cmp, NEW i \in Slots, NEW j \in Slots, IInv, IndicesFit,
           \A k \in DOMAIN KeyOf(i).children \cap DOMAIN KeyOf(j).children :
              cmp[<<KeyOf(i).children[k], KeyOf(j).children[k]>>] \in Signs
    PROVE  CompareKeys(cmp, KeyOf(i), KeyOf(j)) \in Signs
<1> DEFINE a == KeyOf(i)
           b == KeyOf(j)
           D == DifferAt(cmp, a.children, b.children)
<1>1. \A n \in Int : Sign(n) \in Signs
  BY DEF Sign, Signs
<1>2. TagRank[a.tag] - TagRank[b.tag] \in Int /\ a.payload - b.payload \in Int
      /\ Len(a.children) - Len(b.children) \in Int
  <2>1. \A t \in {"Num", "Var", "Add", "Mul", "Pow", "Fun"} : TagRank[t] \in Int
    <3>1. /\ TagRank["Num"] = 0 /\ TagRank["Var"] = 1 /\ TagRank["Add"] = 2
          /\ TagRank["Mul"] = 3 /\ TagRank["Pow"] = 4 /\ TagRank["Fun"] = 5
      BY DEF TagRank
    <3> QED
      BY <3>1
  <2>2. a.tag \in {"Num", "Var", "Add", "Mul", "Pow", "Fun"} /\ a.payload \in Int
        /\ a.children \in Seq(Interned)
    BY SlotFacts
  <2>3. b.tag \in {"Num", "Var", "Add", "Mul", "Pow", "Fun"} /\ b.payload \in Int
        /\ b.children \in Seq(Interned)
    BY SlotFacts
  <2> HIDE DEF a, b
  <2>4. TagRank[a.tag] \in Int /\ TagRank[b.tag] \in Int
    BY <2>1, <2>2, <2>3
  <2>5. Len(a.children) \in Nat /\ Len(b.children) \in Nat
    BY <2>2, <2>3
  <2> QED
    BY <2>2, <2>3, <2>4, <2>5
<1>3. D # {} => FirstOf(D) \in DOMAIN a.children \cap DOMAIN b.children
  <2>1. D \in SUBSET Nat /\ D \subseteq DOMAIN a.children \cap DOMAIN b.children
    <3>1. a.children \in Seq(Interned)
      BY SlotFacts
    <3> HIDE DEF a, b
    <3> QED
      BY <3>1 DEF DifferAt
  <2> QED
    BY <2>1, FirstIsFirst
<1> HIDE DEF a, b
<1> QED
  BY <1>1, <1>2, <1>3 DEF CompareKeys, a, b

\* The recursion is well founded, so that operator<=> is a function.
LEMMA CompareExists ==
    ASSUME IInv, IndicesFit
    PROVE  \E cmp \in [Slots \X Slots -> Signs] :
              \A p \in Slots \X Slots : cmp[p] = CompareKeys(cmp, KeyOf(p[1]), KeyOf(p[2]))
<1> DEFINE Right(g, n) == \A p \in Slots \X Slots :
                             p[1] < n => g[p] = CompareKeys(g, KeyOf(p[1]), KeyOf(p[2]))
           S == {n \in Nat : \E g \in [Slots \X Slots -> Signs] : Right(g, n)}
<1>1. 0 \in S
  <2> DEFINE g == [p \in Slots \X Slots |-> 0]
  <2>1. g \in [Slots \X Slots -> Signs]
    BY DEF Signs
  <2>2. Right(g, 0)
    <3>1. \A p \in Slots \X Slots : ~(p[1] < 0)
      BY SlotFacts
    <3> QED
      BY <3>1
  <2> HIDE DEF g, Right
  <2> QED
    BY <2>1, <2>2
<1>2. ASSUME NEW n \in Nat, n \in S PROVE n + 1 \in S
  <2>1. PICK g \in [Slots \X Slots -> Signs] : Right(g, n)
    BY <1>2
  <2> DEFINE h == [p \in Slots \X Slots |-> CompareKeys(g, KeyOf(p[1]), KeyOf(p[2]))]
  <2>2. ASSUME NEW i \in Slots, NEW j \in Slots,
               NEW k \in DOMAIN KeyOf(i).children \cap DOMAIN KeyOf(j).children
        PROVE  <<KeyOf(i).children[k], KeyOf(j).children[k]>> \in Slots \X Slots
               /\ KeyOf(i).children[k] < i /\ KeyOf(i).children[k] \in Nat
    BY SlotFacts
  <2>3. h \in [Slots \X Slots -> Signs]
    <3>1. ASSUME NEW i \in Slots, NEW j \in Slots PROVE CompareKeys(g, KeyOf(i), KeyOf(j)) \in Signs
      <4>1. \A k \in DOMAIN KeyOf(i).children \cap DOMAIN KeyOf(j).children :
              g[<<KeyOf(i).children[k], KeyOf(j).children[k]>>] \in Signs
        BY <2>2
      <4> QED
        BY <4>1, CompareKeysSign
    <3> QED
      BY <3>1
  <2>4. ASSUME NEW i \in Slots, NEW j \in Slots, i < n + 1
        PROVE  h[<<i, j>>] = CompareKeys(h, KeyOf(i), KeyOf(j))
    <3>1. ASSUME NEW k \in DOMAIN KeyOf(i).children \cap DOMAIN KeyOf(j).children
          PROVE  g[<<KeyOf(i).children[k], KeyOf(j).children[k]>>] = h[<<KeyOf(i).children[k], KeyOf(j).children[k]>>]
      <4> DEFINE c == KeyOf(i).children[k]
                 d == KeyOf(j).children[k]
      <4>1. c \in Slots /\ d \in Slots /\ c < i /\ c \in Nat /\ i \in Nat
        BY <2>2, SlotFacts
      <4> HIDE DEF c, d
      <4>2. c < n
        BY <2>4, <4>1
      <4>3. g[<<c, d>>] = CompareKeys(g, KeyOf(c), KeyOf(d))
        BY <2>1, <4>1, <4>2
      <4>4. h[<<c, d>>] = CompareKeys(g, KeyOf(c), KeyOf(d))
        BY <4>1
      <4> QED
        BY <4>3, <4>4 DEF c, d
    <3>2. KeyOf(i).children \in Seq(Interned)
      BY SlotFacts
    <3>3. CompareKeys(g, KeyOf(i), KeyOf(j)) = CompareKeys(h, KeyOf(i), KeyOf(j))
      <4> HIDE DEF h
      <4> QED
        BY <3>1, <3>2, CompareKeysLocal
    <3> QED
      BY <3>3
  <2>5. Right(h, n + 1)
    <3> HIDE DEF h
    <3> QED
      BY <2>4
  <2> HIDE DEF h, Right
  <2> QED
    BY <2>3, <2>5
<1>3. Len(nodes) \in Nat /\ \A i \in Slots : i < Len(nodes)
  BY SlotFacts DEF IInv, TypeOK
<1>4. Len(nodes) \in S
  <2> HIDE DEF S
  <2> QED
    BY <1>1, <1>2, <1>3, SetInduction
<1>5. PICK g \in [Slots \X Slots -> Signs] : Right(g, Len(nodes))
  BY <1>4
<1> QED
  BY <1>3, <1>5

\* operator<=> calls itself on the children.
LEMMA CompareCalls ==
    ASSUME IInv, IndicesFit
    PROVE  /\ Compare = [p \in Slots \X Slots |-> CompareKeys(Compare, KeyOf(p[1]), KeyOf(p[2]))]
           /\ \A i, j \in Slots : Compare[<<i, j>>] = CompareKeys(Compare, KeyOf(i), KeyOf(j))
<1> DEFINE Recursion(cmp) == cmp = [p \in Slots \X Slots |-> CompareKeys(cmp, KeyOf(p[1]), KeyOf(p[2]))]
<1>1. \E cmp : Recursion(cmp)
  <2>1. PICK g \in [Slots \X Slots -> Signs] :
           \A p \in Slots \X Slots : g[p] = CompareKeys(g, KeyOf(p[1]), KeyOf(p[2]))
    BY CompareExists
  <2>2. g = [p \in Slots \X Slots |-> CompareKeys(g, KeyOf(p[1]), KeyOf(p[2]))]
    BY <2>1
  <2> QED
    BY <2>2
<1>2. Recursion(CHOOSE cmp : Recursion(cmp))
  <2> HIDE DEF Recursion
  <2> QED
    BY <1>1
<1>3. Recursion(Compare)
  <2>1. Compare = CHOOSE cmp : Recursion(cmp)
    BY CompareIsChosen, Zenon
  <2> HIDE DEF Recursion
  <2> QED
    BY <1>2, <2>1, Zenon
<1>4. Compare = [p \in Slots \X Slots |-> CompareKeys(Compare, KeyOf(p[1]), KeyOf(p[2]))]
  BY <1>3, Zenon
<1>5. ASSUME NEW i \in Slots, NEW j \in Slots
      PROVE  Compare[<<i, j>>] = CompareKeys(Compare, KeyOf(i), KeyOf(j))
  <2>1. <<i, j>> \in Slots \X Slots /\ <<i, j>>[1] = i /\ <<i, j>>[2] = j
    OBVIOUS
  <2> QED
    BY <1>4, <2>1
<1> QED
  BY <1>4, <1>5

\* What holds of a slot when it holds of all older slots, holds of all slots.
LEMMA SlotInduction ==
    ASSUME IInv, IndicesFit, NEW P,
           \A i \in Slots : (\A c \in Slots : c < i => c \in P) => i \in P
    PROVE  \A i \in Slots : i \in P
<1> SUFFICES ASSUME Slots \ P # {} PROVE FALSE
  OBVIOUS
<1>1. Slots \ P \in SUBSET Nat
  BY SlotFacts
<1>2. PICK i \in Slots \ P : \A c \in Slots \ P : i <= c
  BY <1>1, LeastElement
<1>3. ASSUME NEW c \in Slots, c < i PROVE c \in P
  BY <1>1, <1>2, <1>3, SlotFacts
<1> QED
  BY <1>2, <1>3

LEMMA SignFacts ==
    \A n \in Int : /\ Sign(n) \in Signs /\ Sign(0 - n) = 0 - Sign(n)
                   /\ Sign(n) = 0 <=> n = 0
                   /\ Sign(n) <= 0 <=> n <= 0
BY DEF Sign, Signs

LEMMA RankFacts ==
    \A s, t \in {"Num", "Var", "Add", "Mul", "Pow", "Fun"} :
        TagRank[s] \in Int /\ (TagRank[s] = TagRank[t] => s = t)
<1>1. /\ TagRank["Num"] = 0 /\ TagRank["Var"] = 1 /\ TagRank["Add"] = 2
      /\ TagRank["Mul"] = 3 /\ TagRank["Pow"] = 4 /\ TagRank["Fun"] = 5
  BY DEF TagRank
<1> QED
  BY <1>1

\* Every comparison answers less, equal or greater.
LEMMA CompareIsSign ==
    ASSUME IInv, IndicesFit
    PROVE  \A i, j \in Slots : Compare[<<i, j>>] \in Signs
<1> DEFINE P == {i \in Slots : \A j \in Slots : Compare[<<i, j>>] \in Signs}
<1>1. ASSUME NEW i \in Slots, \A c \in Slots : c < i => c \in P PROVE i \in P
  <2>1. ASSUME NEW j \in Slots PROVE Compare[<<i, j>>] \in Signs
    <3>1. ASSUME NEW k \in DOMAIN KeyOf(i).children \cap DOMAIN KeyOf(j).children
          PROVE  Compare[<<KeyOf(i).children[k], KeyOf(j).children[k]>>] \in Signs
      BY <1>1, SlotFacts
    <3>2. CompareKeys(Compare, KeyOf(i), KeyOf(j)) \in Signs
      BY <3>1, CompareKeysSign
    <3> QED
      BY <3>2, CompareCalls
  <2> QED
    BY <2>1
<1> HIDE DEF P
<1>2. \A i \in Slots : i \in P
  BY <1>1, SlotInduction
<1> QED
  BY <1>2 DEF P

\* The four ways in which a comparison ends.
LEMMA CompareCases ==
    ASSUME IInv, IndicesFit, NEW i \in Slots, NEW j \in Slots
    PROVE  LET a == KeyOf(i)
               b == KeyOf(j)
               D == DifferAt(Compare, a.children, b.children) IN
           /\ a.tag # b.tag => Compare[<<i, j>>] = Sign(TagRank[a.tag] - TagRank[b.tag])
           /\ a.tag = b.tag /\ a.payload # b.payload => Compare[<<i, j>>] = Sign(a.payload - b.payload)
           /\ a.tag = b.tag /\ a.payload = b.payload /\ D # {} =>
                /\ FirstOf(D) \in D /\ \A l \in D : FirstOf(D) <= l
                /\ Compare[<<i, j>>] = Compare[<<a.children[FirstOf(D)], b.children[FirstOf(D)]>>]
           /\ a.tag = b.tag /\ a.payload = b.payload /\ D = {} =>
                Compare[<<i, j>>] = Sign(Len(a.children) - Len(b.children))
<1> DEFINE a == KeyOf(i)
           b == KeyOf(j)
           D == DifferAt(Compare, a.children, b.children)
<1>1. Compare[<<i, j>>] = CompareKeys(Compare, a, b)
  BY CompareCalls
<1>2. D \in SUBSET Nat
  <2>1. a.children \in Seq(Interned)
    BY SlotFacts
  <2> HIDE DEF a, b
  <2> QED
    BY <2>1 DEF DifferAt
<1>3. D # {} => FirstOf(D) \in D /\ \A l \in D : FirstOf(D) <= l
  BY <1>2, FirstIsFirst
<1> QED
  BY <1>1, <1>3 DEF CompareKeys

\* Swapping the operands swaps the answer.
LEMMA CompareFlips ==
    ASSUME IInv, IndicesFit
    PROVE  \A i, j \in Slots : Compare[<<i, j>>] = 0 - Compare[<<j, i>>]
<1> DEFINE P == {i \in Slots : \A j \in Slots : Compare[<<i, j>>] = 0 - Compare[<<j, i>>]}
<1>1. ASSUME NEW i \in Slots, \A c \in Slots : c < i => c \in P PROVE i \in P
  <2>1. ASSUME NEW j \in Slots PROVE Compare[<<i, j>>] = 0 - Compare[<<j, i>>]
    <3> DEFINE a == KeyOf(i)
               b == KeyOf(j)
               D == DifferAt(Compare, a.children, b.children)
               E == DifferAt(Compare, b.children, a.children)
    <3>1. ASSUME NEW k \in DOMAIN a.children \cap DOMAIN b.children
          PROVE  /\ Compare[<<a.children[k], b.children[k]>>] = 0 - Compare[<<b.children[k], a.children[k]>>]
                 /\ Compare[<<a.children[k], b.children[k]>>] \in Int
                 /\ Compare[<<b.children[k], a.children[k]>>] \in Int
      <4>1. a.children[k] \in Slots /\ b.children[k] \in Slots /\ a.children[k] < i
        BY SlotFacts
      <4>2. \A c, d \in Slots : Compare[<<c, d>>] \in Int
        <5>1. \A s \in Signs : s \in Int
          BY DEF Signs
        <5> QED
          BY <5>1, CompareIsSign
      <4> QED
        BY <1>1, <4>1, <4>2
    <3>2. D = E /\ D \subseteq DOMAIN a.children \cap DOMAIN b.children
      <4> HIDE DEF a, b
      <4> QED
        BY <3>1 DEF DifferAt
    <3>3. CASE a.tag # b.tag
      <4>1. TagRank[a.tag] \in Int /\ TagRank[b.tag] \in Int
        BY RankFacts, SlotFacts
      <4>2. TagRank[a.tag] - TagRank[b.tag] = 0 - (TagRank[b.tag] - TagRank[a.tag])
            /\ TagRank[b.tag] - TagRank[a.tag] \in Int
        BY <4>1
      <4>3. Compare[<<i, j>>] = Sign(TagRank[a.tag] - TagRank[b.tag])
            /\ Compare[<<j, i>>] = Sign(TagRank[b.tag] - TagRank[a.tag])
        BY <3>3, CompareCases
      <4> QED
        BY <4>2, <4>3, SignFacts
    <3>4. CASE a.tag = b.tag /\ a.payload # b.payload
      <4>1. a.payload \in Int /\ b.payload \in Int
        BY SlotFacts
      <4>2. a.payload - b.payload = 0 - (b.payload - a.payload) /\ b.payload - a.payload \in Int
        BY <4>1
      <4>3. Compare[<<i, j>>] = Sign(a.payload - b.payload)
            /\ Compare[<<j, i>>] = Sign(b.payload - a.payload)
        BY <3>4, CompareCases
      <4> QED
        BY <4>2, <4>3, SignFacts
    <3>5. CASE a.tag = b.tag /\ a.payload = b.payload /\ D # {}
      <4>1. /\ Compare[<<i, j>>] = Compare[<<a.children[FirstOf(D)], b.children[FirstOf(D)]>>]
            /\ FirstOf(D) \in D
        BY <3>5, CompareCases
      <4>2. Compare[<<j, i>>] = Compare[<<b.children[FirstOf(E)], a.children[FirstOf(E)]>>]
        BY <3>2, <3>5, CompareCases
      <4> HIDE DEF D, E, a, b
      <4> QED
        BY <3>1, <3>2, <4>1, <4>2
    <3>6. CASE a.tag = b.tag /\ a.payload = b.payload /\ D = {}
      <4>1. Compare[<<i, j>>] = Sign(Len(a.children) - Len(b.children))
        BY <3>6, CompareCases
      <4>2. Compare[<<j, i>>] = Sign(Len(b.children) - Len(a.children))
        BY <3>2, <3>6, CompareCases
      <4>3. Len(a.children) \in Nat /\ Len(b.children) \in Nat
        BY SlotFacts
      <4>4. Len(a.children) - Len(b.children) = 0 - (Len(b.children) - Len(a.children))
            /\ Len(b.children) - Len(a.children) \in Int
        <5>1. \A m, n \in Nat : m - n = 0 - (n - m) /\ n - m \in Int
          OBVIOUS
        <5> QED
          BY <4>3, <5>1, Zenon
      <4> QED
        BY <4>1, <4>2, <4>4, SignFacts
    <3> QED
      BY <3>3, <3>4, <3>5, <3>6
  <2> QED
    BY <2>1
<1> HIDE DEF P
<1>2. \A i \in Slots : i \in P
  BY <1>1, SlotInduction
<1> QED
  BY <1>2 DEF P

\* Slots that compare equal show the same content ...
LEMMA EqualHaveOneKey ==
    ASSUME IInv, IndicesFit
    PROVE  \A i, j \in Slots : Compare[<<i, j>>] = 0 => KeyOf(i) = KeyOf(j)
<1> DEFINE P == {i \in Slots : \A j \in Slots : Compare[<<i, j>>] = 0 => KeyOf(i) = KeyOf(j)}
<1>1. ASSUME NEW i \in Slots, \A c \in Slots : c < i => c \in P PROVE i \in P
  <2>1. ASSUME NEW j \in Slots, Compare[<<i, j>>] = 0 PROVE KeyOf(i) = KeyOf(j)
    <3> DEFINE a == KeyOf(i)
               b == KeyOf(j)
               D == DifferAt(Compare, a.children, b.children)
    <3>1. a.tag = b.tag
      <4>1. TagRank[a.tag] \in Int /\ TagRank[b.tag] \in Int /\ (TagRank[a.tag] = TagRank[b.tag] => a.tag = b.tag)
        BY RankFacts, SlotFacts
      <4>2. a.tag # b.tag => Sign(TagRank[a.tag] - TagRank[b.tag]) = 0
        BY <2>1, CompareCases
      <4>3. TagRank[a.tag] - TagRank[b.tag] \in Int
        BY <4>1
      <4>4. a.tag # b.tag => TagRank[a.tag] - TagRank[b.tag] = 0
        BY <4>2, <4>3, SignFacts
      <4> QED
        BY <4>1, <4>4
    <3>2. a.payload = b.payload
      <4>1. a.payload \in Int /\ b.payload \in Int
        BY SlotFacts
      <4>2. a.payload # b.payload => Sign(a.payload - b.payload) = 0
        BY <2>1, <3>1, CompareCases
      <4>3. a.payload # b.payload => a.payload - b.payload = 0
        BY <4>1, <4>2, SignFacts
      <4> QED
        BY <4>1, <4>3
    <3>3. D = {}
      <4> SUFFICES ASSUME D # {} PROVE FALSE
        OBVIOUS
      <4>1. FirstOf(D) \in D /\ Compare[<<a.children[FirstOf(D)], b.children[FirstOf(D)]>>] = 0
        BY <2>1, <3>1, <3>2, CompareCases
      <4> QED
        BY <4>1 DEF DifferAt
    <3>4. Len(a.children) = Len(b.children)
      <4>1. Len(a.children) \in Nat /\ Len(b.children) \in Nat
        BY SlotFacts
      <4>2. Sign(Len(a.children) - Len(b.children)) = 0
        BY <2>1, <3>1, <3>2, <3>3, CompareCases
      <4>3. Len(a.children) - Len(b.children) = 0
        <5> HIDE DEF a, b
        <5>1. Len(a.children) - Len(b.children) \in Int
          BY <4>1
        <5> QED
          BY <4>2, <5>1, SignFacts
      <4> HIDE DEF a, b
      <4> QED
        BY <4>1, <4>3
    <3>5. a.children \in Seq(Interned) /\ b.children \in Seq(Interned)
      BY SlotFacts
    <3>6. ASSUME NEW k \in DOMAIN a.children PROVE a.children[k] = b.children[k]
      <4>1. k \in DOMAIN b.children
        <5> HIDE DEF a, b
        <5> QED
          BY <3>4, <3>5
      <4>2. Compare[<<a.children[k], b.children[k]>>] = 0
        <5> HIDE DEF a, b
        <5> QED
          BY <3>3, <4>1 DEF DifferAt
      <4>3. /\ a.children[k] \in Interned /\ a.children[k] \in Slots /\ a.children[k] < i
            /\ b.children[k] \in Interned /\ b.children[k] \in Slots
        BY <4>1, SlotFacts
      <4>4. KeyOf(a.children[k]) = KeyOf(b.children[k])
        BY <1>1, <4>2, <4>3
      <4> QED
        BY <4>3, <4>4 DEF IInv, OneSlotPerKey
    <3>7. a.children = b.children
      <4> HIDE DEF a, b
      <4> QED
        BY <3>4, <3>5, <3>6
    <3>8. /\ a = [tag |-> a.tag, payload |-> a.payload, children |-> a.children]
          /\ b = [tag |-> b.tag, payload |-> b.payload, children |-> b.children]
      BY SlotFacts
    <3> HIDE DEF a, b
    <3> QED
      BY <3>1, <3>2, <3>7, <3>8 DEF a, b
  <2> QED
    BY <2>1
<1> HIDE DEF P
<1>2. \A i \in Slots : i \in P
  BY <1>1, SlotInduction
<1> QED
  BY <1>2 DEF P

\* ... so that slots a program holds compare equal only to themselves.
LEMMA EqualAreSame ==
    ASSUME IInv, IndicesFit
    PROVE  \A i, j \in Interned : Compare[<<i, j>>] = 0 <=> i = j
<1> SUFFICES ASSUME NEW i \in Interned, NEW j \in Interned
             PROVE  Compare[<<i, j>>] = 0 <=> i = j
  OBVIOUS
<1>1. i \in Slots /\ j \in Slots
  BY SlotFacts
<1>2. Compare[<<i, j>>] = 0 => i = j
  BY <1>1, EqualHaveOneKey DEF IInv, OneSlotPerKey
<1>3. Compare[<<i, i>>] = 0
  <2>1. Compare[<<i, i>>] \in Int
    BY <1>1, CompareIsSign DEF Signs
  <2>2. Compare[<<i, i>>] = 0 - Compare[<<i, i>>]
    BY <1>1, CompareFlips
  <2> QED
    BY <2>1, <2>2
<1> QED
  BY <1>2, <1>3

\* The children of one node come before those of another, first place first,
\* or run out first.
Before(s, t) ==
    \/ \E m \in DOMAIN s \cap DOMAIN t : /\ Compare[<<s[m], t[m]>>] < 0
                                         /\ \A l \in 1 .. m - 1 : s[l] = t[l]
    \/ Len(s) <= Len(t) /\ \A l \in DOMAIN s : s[l] = t[l]

\* Between nodes of one tag and payload, the comparison is lexicographic.
LEMMA CompareIsLexicographic ==
    ASSUME IInv, IndicesFit, NEW i \in Slots, NEW j \in Slots,
           KeyOf(i).tag = KeyOf(j).tag, KeyOf(i).payload = KeyOf(j).payload
    PROVE  Compare[<<i, j>>] <= 0 <=> Before(KeyOf(i).children, KeyOf(j).children)
<1> DEFINE s == KeyOf(i).children
           t == KeyOf(j).children
           D == DifferAt(Compare, s, t)
<1>1. s \in Seq(Interned) /\ t \in Seq(Interned) /\ Len(s) \in Nat /\ Len(t) \in Nat
  BY SlotFacts
<1>2. D # {} => /\ FirstOf(D) \in D /\ \A l \in D : FirstOf(D) <= l
                /\ Compare[<<i, j>>] = Compare[<<s[FirstOf(D)], t[FirstOf(D)]>>]
  BY CompareCases
<1>3. D = {} => Compare[<<i, j>>] = Sign(Len(s) - Len(t))
  BY CompareCases
<1> HIDE DEF s, t
<1>4. ASSUME NEW k \in DOMAIN s \cap DOMAIN t
      PROVE  /\ Compare[<<s[k], t[k]>>] \in Int
             /\ Compare[<<s[k], t[k]>>] = 0 <=> s[k] = t[k]
             /\ k \in D <=> s[k] # t[k]
             /\ k \in Nat /\ k >= 1
  <2>1. s[k] \in Interned /\ t[k] \in Interned
    BY <1>1
  <2>2. \A n \in Signs : n \in Int
    BY DEF Signs
  <2>3. Compare[<<s[k], t[k]>>] \in Int
    BY <2>1, <2>2, SlotFacts, CompareIsSign
  <2>4. Compare[<<s[k], t[k]>>] = 0 <=> s[k] = t[k]
    BY <2>1, EqualAreSame
  <2> QED
    BY <1>1, <2>3, <2>4 DEF DifferAt
<1>5. D \subseteq DOMAIN s \cap DOMAIN t
  BY DEF DifferAt
<1> HIDE DEF D
<1>6. CASE D # {}
  <2> DEFINE f == FirstOf(D)
  <2>1. /\ f \in DOMAIN s \cap DOMAIN t /\ s[f] # t[f] /\ \A l \in D : f <= l
        /\ Compare[<<i, j>>] = Compare[<<s[f], t[f]>>] /\ f \in Nat
    BY <1>2, <1>4, <1>5, <1>6
  <2> HIDE DEF f
  <2>2. ASSUME NEW l \in 1 .. f - 1 PROVE l \in DOMAIN s \cap DOMAIN t /\ s[l] = t[l]
    <3>1. l \in DOMAIN s \cap DOMAIN t
      BY <1>1, <2>1
    <3>2. l \notin D
      BY <2>1
    <3> QED
      BY <1>4, <3>1, <3>2
  <2>3. ASSUME Compare[<<i, j>>] <= 0 PROVE Before(s, t)
    <3>1. Compare[<<s[f], t[f]>>] < 0
      BY <1>4, <2>1, <2>3
    <3> QED
      BY <2>1, <2>2, <3>1 DEF Before
  <2>4. ASSUME Before(s, t) PROVE Compare[<<i, j>>] <= 0
    <3>1. PICK m \in DOMAIN s \cap DOMAIN t : /\ Compare[<<s[m], t[m]>>] < 0
                                              /\ \A l \in 1 .. m - 1 : s[l] = t[l]
      BY <2>1, <2>4 DEF Before
    <3>2. m \in D /\ f <= m /\ m \in Nat
      BY <1>4, <2>1, <3>1
    <3>3. ~(f < m)
      <4> SUFFICES ASSUME f < m PROVE FALSE
        OBVIOUS
      <4>1. f \in 1 .. m - 1
        BY <1>4, <2>1, <3>2
      <4> QED
        BY <2>1, <3>1, <4>1
    <3>4. f = m
      BY <2>1, <3>2, <3>3
    <3> QED
      BY <1>4, <2>1, <3>1, <3>4
  <2> QED
    BY <2>3, <2>4 DEF s, t
<1>7. CASE D = {}
  <2>1. Len(s) - Len(t) \in Int /\ Compare[<<i, j>>] = Sign(Len(s) - Len(t))
    BY <1>1, <1>3, <1>7
  <2>2. Compare[<<i, j>>] <= 0 <=> Len(s) - Len(t) <= 0
    BY <2>1, SignFacts
  <2>3. Compare[<<i, j>>] <= 0 <=> Len(s) <= Len(t)
    BY <1>1, <2>2
  <2>4. \A k \in DOMAIN s \cap DOMAIN t : s[k] = t[k] /\ Compare[<<s[k], t[k]>>] = 0
    BY <1>4, <1>7
  <2>5. Len(s) <= Len(t) => Before(s, t)
    BY <1>1, <2>4 DEF Before
  <2>6. Before(s, t) => Len(s) <= Len(t)
    <3>1. ASSUME NEW m \in DOMAIN s \cap DOMAIN t, Compare[<<s[m], t[m]>>] < 0 PROVE FALSE
      <4>1. Compare[<<s[m], t[m]>>] = 0
        BY <2>4
      <4> QED
        BY <3>1, <4>1
    <3> QED
      BY <3>1 DEF Before
  <2> QED
    BY <2>3, <2>5, <2>6 DEF s, t
<1> QED
  BY <1>6, <1>7

\* The lexicographic order is transitive when the order of the children is.
LEMMA BeforeIsTransitive ==
    ASSUME IInv, IndicesFit, NEW s \in Seq(Interned), NEW t \in Seq(Interned), NEW u \in Seq(Interned),
           \A k \in DOMAIN s : \A d, e \in Interned :
              Compare[<<s[k], d>>] <= 0 /\ Compare[<<d, e>>] <= 0 => Compare[<<s[k], e>>] <= 0,
           Before(s, t), Before(t, u)
    PROVE  Before(s, u)
<1>1. /\ Len(s) \in Nat /\ DOMAIN s = 1 .. Len(s) /\ \A k \in DOMAIN s : s[k] \in Interned
      /\ Len(t) \in Nat /\ DOMAIN t = 1 .. Len(t) /\ \A k \in DOMAIN t : t[k] \in Interned
      /\ Len(u) \in Nat /\ DOMAIN u = 1 .. Len(u) /\ \A k \in DOMAIN u : u[k] \in Interned
  OBVIOUS
<1>2. \A c, d \in Interned : Compare[<<c, d>>] \in Int /\ Compare[<<c, d>>] = 0 - Compare[<<d, c>>]
  <2>1. \A n \in Signs : n \in Int
    BY DEF Signs
  <2> QED
    BY <2>1, CompareIsSign, CompareFlips, SlotFacts
<1>3. ASSUME NEW k \in DOMAIN s, NEW d \in Interned, NEW e \in Interned,
             Compare[<<s[k], d>>] < 0, Compare[<<d, e>>] < 0
      PROVE  Compare[<<s[k], e>>] < 0
  <2>1. s[k] \in Interned
    BY <1>1
  <2>2. Compare[<<s[k], e>>] <= 0
    <3>1. Compare[<<s[k], d>>] \in Int /\ Compare[<<d, e>>] \in Int
      BY <1>2, <2>1
    <3>2. Compare[<<s[k], d>>] <= 0 /\ Compare[<<d, e>>] <= 0
      BY <1>3, <3>1
    <3> QED
      BY <3>2, Zenon
  <2>3. Compare[<<s[k], e>>] # 0
    <3> SUFFICES ASSUME Compare[<<s[k], e>>] = 0 PROVE FALSE
      OBVIOUS
    <3>1. s[k] = e
      BY <2>1, EqualAreSame
    <3>2. Compare[<<s[k], d>>] = 0 - Compare[<<d, e>>]
      BY <1>2, <2>1, <3>1
    <3>3. Compare[<<s[k], d>>] \in Int /\ Compare[<<d, e>>] \in Int
      BY <1>2, <2>1
    <3> QED
      BY <1>3, <3>2, <3>3
  <2>4. Compare[<<s[k], e>>] \in Int
    BY <1>2, <2>1
  <2> QED
    BY <2>2, <2>3, <2>4
<1> DEFINE Less(a, b, m) == /\ Compare[<<a[m], b[m]>>] < 0 /\ \A l \in 1 .. m - 1 : a[l] = b[l]
           Prefix(a, b) == Len(a) <= Len(b) /\ \A l \in DOMAIN a : a[l] = b[l]
<1>4. ASSUME NEW m \in DOMAIN s \cap DOMAIN u, Less(s, u, m) PROVE Before(s, u)
  BY <1>4 DEF Before
<1>5. ASSUME NEW m \in DOMAIN s \cap DOMAIN t, Less(s, t, m), NEW n \in DOMAIN t \cap DOMAIN u, Less(t, u, n)
      PROVE  Before(s, u)
  <2>1. CASE m < n
    <3>1. m \in DOMAIN u /\ t[m] = u[m] /\ \A l \in 1 .. m - 1 : t[l] = u[l]
      BY <1>1, <1>5, <2>1
    <3>2. Less(s, u, m)
      BY <1>5, <3>1
    <3> QED
      BY <1>4, <3>1, <3>2
  <2>2. CASE m = n
    <3>1. Compare[<<s[m], u[m]>>] < 0
      BY <1>1, <1>3, <1>5, <2>2
    <3> QED
      BY <1>4, <1>5, <2>2, <3>1
  <2>3. CASE n < m
    <3>1. n \in DOMAIN s /\ s[n] = t[n] /\ \A l \in 1 .. n - 1 : s[l] = t[l]
      BY <1>1, <1>5, <2>3
    <3>2. Less(s, u, n)
      BY <1>5, <3>1
    <3> QED
      BY <1>4, <3>1, <3>2
  <2>4. m \in Nat /\ n \in Nat
    BY <1>1
  <2> QED
    BY <2>1, <2>2, <2>3, <2>4
<1>6. ASSUME NEW m \in DOMAIN s \cap DOMAIN t, Less(s, t, m), Prefix(t, u) PROVE Before(s, u)
  <2>1. m \in DOMAIN u /\ t[m] = u[m] /\ \A l \in 1 .. m - 1 : t[l] = u[l]
    BY <1>1, <1>6
  <2>2. Less(s, u, m)
    BY <1>6, <2>1
  <2> QED
    BY <1>4, <2>1, <2>2
<1>7. ASSUME Prefix(s, t), NEW n \in DOMAIN t \cap DOMAIN u, Less(t, u, n) PROVE Before(s, u)
  <2>1. CASE n \in DOMAIN s
    <3>1. s[n] = t[n] /\ \A l \in 1 .. n - 1 : s[l] = t[l]
      BY <1>1, <1>7, <2>1
    <3>2. Less(s, u, n)
      BY <1>7, <3>1
    <3> QED
      BY <1>4, <2>1, <3>2
  <2>2. CASE n \notin DOMAIN s
    <3>1. Len(s) < n /\ n <= Len(u) /\ n \in Nat
      BY <1>1, <2>2
    <3>2. Len(s) <= Len(u) /\ \A l \in DOMAIN s : s[l] = u[l]
      BY <1>1, <1>7, <3>1
    <3> QED
      BY <3>2 DEF Before
  <2> QED
    BY <2>1, <2>2
<1>8. ASSUME Prefix(s, t), Prefix(t, u) PROVE Before(s, u)
  <2>1. Len(s) <= Len(u) /\ \A l \in DOMAIN s : s[l] = u[l]
    BY <1>1, <1>8
  <2> QED
    BY <2>1 DEF Before
<1> QED
  BY <1>5, <1>6, <1>7, <1>8 DEF Before

\* operator<=> is transitive.
LEMMA CompareIsTransitive ==
    ASSUME IInv, IndicesFit
    PROVE  \A i, j, k \in Slots :
              Compare[<<i, j>>] <= 0 /\ Compare[<<j, k>>] <= 0 => Compare[<<i, k>>] <= 0
<1> DEFINE P == {i \in Slots : \A j, k \in Slots :
                    Compare[<<i, j>>] <= 0 /\ Compare[<<j, k>>] <= 0 => Compare[<<i, k>>] <= 0}
           rank(i) == TagRank[KeyOf(i).tag]
           val(i) == KeyOf(i).payload
<1>1. ASSUME NEW i \in Slots, NEW j \in Slots
      PROVE  /\ rank(i) \in Int /\ rank(j) \in Int /\ val(i) \in Int /\ val(j) \in Int
             /\ rank(i) = rank(j) <=> KeyOf(i).tag = KeyOf(j).tag
             /\ rank(i) # rank(j) => (Compare[<<i, j>>] <= 0 <=> rank(i) <= rank(j))
             /\ rank(i) = rank(j) /\ val(i) # val(j) => (Compare[<<i, j>>] <= 0 <=> val(i) <= val(j))
  <2>1. rank(i) \in Int /\ rank(j) \in Int /\ (rank(i) = rank(j) => KeyOf(i).tag = KeyOf(j).tag)
    BY RankFacts, SlotFacts
  <2>2. val(i) \in Int /\ val(j) \in Int
    BY SlotFacts
  <2>3. KeyOf(i).tag # KeyOf(j).tag => Compare[<<i, j>>] = Sign(rank(i) - rank(j))
    BY CompareCases
  <2>4. KeyOf(i).tag = KeyOf(j).tag /\ val(i) # val(j) => Compare[<<i, j>>] = Sign(val(i) - val(j))
    BY CompareCases
  <2>5. rank(i) = rank(j) <=> KeyOf(i).tag = KeyOf(j).tag
    BY <2>1
  <2> HIDE DEF rank, val
  <2>6. Sign(rank(i) - rank(j)) <= 0 <=> rank(i) - rank(j) <= 0
    BY <2>1, SignFacts
  <2>7. Sign(val(i) - val(j)) <= 0 <=> val(i) - val(j) <= 0
    BY <2>2, SignFacts
  <2> QED
    BY <2>1, <2>2, <2>3, <2>4, <2>5, <2>6, <2>7
<1>2. ASSUME NEW i \in Slots, \A c \in Slots : c < i => c \in P PROVE i \in P
  <2> SUFFICES ASSUME NEW j \in Slots, NEW k \in Slots, Compare[<<i, j>>] <= 0, Compare[<<j, k>>] <= 0
               PROVE  Compare[<<i, k>>] <= 0
    OBVIOUS
  <2>1. CASE rank(i) = rank(j) /\ rank(j) = rank(k) /\ val(i) = val(j) /\ val(j) = val(k)
    <3>1. KeyOf(i).children \in Seq(Interned) /\ KeyOf(j).children \in Seq(Interned)
          /\ KeyOf(k).children \in Seq(Interned)
      BY SlotFacts
    <3>2. ASSUME NEW l \in DOMAIN KeyOf(i).children, NEW d \in Interned, NEW e \in Interned,
                 Compare[<<KeyOf(i).children[l], d>>] <= 0, Compare[<<d, e>>] <= 0
          PROVE  Compare[<<KeyOf(i).children[l], e>>] <= 0
      <4>1. KeyOf(i).children[l] \in Slots /\ KeyOf(i).children[l] < i /\ d \in Slots /\ e \in Slots
        BY SlotFacts
      <4>2. KeyOf(i).children[l] \in P
        BY <1>2, <4>1
      <4> QED
        BY <3>2, <4>1, <4>2
    <3>3. KeyOf(i).tag = KeyOf(j).tag /\ KeyOf(j).tag = KeyOf(k).tag
      BY <1>1, <2>1
    <3>4. Before(KeyOf(i).children, KeyOf(j).children) /\ Before(KeyOf(j).children, KeyOf(k).children)
      BY <2>1, <3>3, CompareIsLexicographic
    <3>5. Before(KeyOf(i).children, KeyOf(k).children)
      BY <3>1, <3>2, <3>4, BeforeIsTransitive
    <3> QED
      BY <2>1, <3>3, <3>5, CompareIsLexicographic
  <2>2. CASE ~(rank(i) = rank(j) /\ rank(j) = rank(k) /\ val(i) = val(j) /\ val(j) = val(k))
    <3> HIDE DEF rank, val
    <3> QED
      BY <1>1, <2>2
  <2> QED
    BY <2>1, <2>2
<1> HIDE DEF P
<1>3. \A i \in Slots : i \in P
  BY <1>2, SlotInduction
<1> QED
  BY <1>3 DEF P

\* Two views of a store are structurally equal exactly when they are one slot.
THEOREM SameSlotIffEqual == IndicesFit => (Spec => []EqualIffSameSlot)
<1> SUFFICES ASSUME IndicesFit
             PROVE  Spec => []EqualIffSameSlot
  OBVIOUS
<1>1. IInv => EqualIffSameSlot
  BY EqualAreSame, Zenon DEF EqualIffSameSlot
<1> QED
  BY <1>1, Invariance, PTL

\* operator<=> is a total order on the slots a program holds.
THEOREM CompareOrders == IndicesFit => (Spec => []TotalOrder)
<1> SUFFICES ASSUME IndicesFit
             PROVE  Spec => []TotalOrder
  OBVIOUS
<1>1. IInv => TotalOrder
  <2> SUFFICES ASSUME IInv PROVE TotalOrder
    OBVIOUS
  <2>1. \A i \in Interned : i \in Slots
    BY SlotFacts
  <2> QED
    BY <2>1, CompareFlips, CompareIsTransitive, Zenon DEF TotalOrder
<1> QED
  BY <1>1, Invariance, PTL

-----------------------------------------------------------------------------
(* Comparisons are not disturbed by what is built later. *)

\* What a comparison is, as a state predicate.
ComparisonHolds == \A i, j \in Slots : Compare[<<i, j>>] = CompareKeys(Compare, KeyOf(i), KeyOf(j))

LEMMA ComparesNext ==
    ASSUME IndicesFit
    PROVE  IInv' => ComparisonHolds'
<1>1. IInv => ComparisonHolds
  BY CompareCalls DEF ComparisonHolds
<1> QED
  BY <1>1, PTL

\* The slots in use stay, with what they show.
SlotsKept == \A i \in Slots : i \in Slots' /\ KeyOf(i)' = KeyOf(i)

LEMMA StepKeepsSlots ==
    ASSUME IInv, IndicesFit, [Call]_vars
    PROVE  SlotsKept /\ Interned \subseteq Interned'
<1>1. nodes \in Seq(Node) /\ Len(nodes) \in Nat
  BY DEF IInv, TypeOK
<1>2. CASE Call
  <2>1. /\ \A n \in DOMAIN nodes : n \in DOMAIN nodes' /\ nodes'[n] = nodes[n]
                                   /\ Key(nodes[n], child_pool') = Key(nodes[n], child_pool)
        /\ Interned \subseteq Interned'
    BY <1>2, NodesKept
  <2>2. Len(nodes') \in Nat /\ DOMAIN nodes' = 1 .. Len(nodes')
    <3>1. IInv'
      BY StepKeeps
    <3> QED
      BY <3>1 DEF IInv, TypeOK
  <2>3. ASSUME NEW i \in Slots PROVE i \in Slots' /\ KeyOf(i)' = KeyOf(i)
    <3>1. i \in Nat /\ i < IndexRange /\ i + 1 \in DOMAIN nodes
      BY <1>1, SlotFacts DEF Slots
    <3>2. i + 1 \in 1 .. Len(nodes')
      BY <2>1, <2>2, <3>1
    <3>3. i \in Slots'
      BY <2>2, <3>1, <3>2 DEF Slots
    <3> QED
      BY <2>1, <3>1, <3>3 DEF KeyOf
  <2> QED
    BY <2>1, <2>3 DEF SlotsKept
<1>3. CASE UNCHANGED vars
  BY <1>3 DEF vars, SlotsKept, Slots, KeyOf, Interned
<1> QED
  BY <1>2, <1>3

LEMMA CompareStable ==
    ASSUME IInv, IInv', IndicesFit, SlotsKept
    PROVE  \A i, j \in Slots : Compare'[<<i, j>>] = Compare[<<i, j>>]
<1> DEFINE P == {i \in Slots : \A j \in Slots : Compare'[<<i, j>>] = Compare[<<i, j>>]}
<1>1. ASSUME NEW i \in Slots, \A c \in Slots : c < i => c \in P PROVE i \in P
  <2>1. ASSUME NEW j \in Slots PROVE Compare'[<<i, j>>] = Compare[<<i, j>>]
    <3> DEFINE a == KeyOf(i)
               b == KeyOf(j)
    <3>1. ASSUME NEW k \in DOMAIN a.children \cap DOMAIN b.children
          PROVE  Compare'[<<a.children[k], b.children[k]>>] = Compare[<<a.children[k], b.children[k]>>]
      BY <1>1, SlotFacts
    <3>2. a.children \in Seq(Interned)
      BY SlotFacts
    <3>3. CompareKeys(Compare', a, b) = CompareKeys(Compare, a, b)
      <4> HIDE DEF a, b
      <4> QED
        BY <3>1, <3>2, CompareKeysLocal
    <3>4. Compare'[<<i, j>>] = CompareKeys(Compare', a, b)
      <4>1. \A k, l \in Slots' : Compare'[<<k, l>>] = CompareKeys(Compare', KeyOf(k)', KeyOf(l)')
        BY ComparesNext DEF ComparisonHolds
      <4>2. i \in Slots' /\ j \in Slots' /\ KeyOf(i)' = a /\ KeyOf(j)' = b
        BY DEF SlotsKept
      <4> QED
        BY <4>1, <4>2
    <3>5. Compare[<<i, j>>] = CompareKeys(Compare, a, b)
      BY CompareCalls
    <3> QED
      BY <3>3, <3>4, <3>5
  <2> QED
    BY <2>1
<1> HIDE DEF P
<1>2. \A i \in Slots : i \in P
  BY <1>1, SlotInduction
<1> QED
  BY <1>2 DEF P

-----------------------------------------------------------------------------
(* The operands of stored sums and products stay sorted. *)

\* A list of slots in ascending order.
Ascending(s) == \A k \in 2 .. Len(s) : Compare[<<s[k - 1], s[k]>>] <= 0

\* The same with pairs as the arguments of Compare, for the provers.
LEMMA SortedNodes ==
    OperandsSorted <=>
      \A n \in DOMAIN nodes : nodes[n].tag \in Variadic =>
        \A k \in 2 .. nodes[n].child_count :
          Compare[<<Children(nodes[n], child_pool)[k - 1], Children(nodes[n], child_pool)[k]>>] <= 0
BY Zenon DEF OperandsSorted

LEMMA SortedNodesNext ==
    OperandsSorted' <=>
      \A n \in DOMAIN nodes' : nodes'[n].tag \in Variadic =>
        \A k \in 2 .. nodes'[n].child_count :
          Compare'[<<Children(nodes'[n], child_pool')[k - 1],
                     Children(nodes'[n], child_pool')[k]>>] <= 0
BY Zenon DEF OperandsSorted

\* The child list of a sum or a product is an ascending arrangement.
LEMMA ChildListsAscend ==
    ASSUME IInv, IndicesFit, NEW request, Callable(request), request.tag \in Variadic,
           NEW children \in ChildLists(request)
    PROVE  /\ children \in Arrangements(flatten_operands(request.args, request.tag))
           /\ Ascending(children)
<1>1. children \in Sorted(flatten_operands(request.args, request.tag))
  BY DEF ChildLists
<1>2. /\ children \in Arrangements(flatten_operands(request.args, request.tag))
      /\ \A k \in DOMAIN children \ {1} : Compare[<<children[k - 1], children[k]>>] <= 0
  BY <1>1, Zenon DEF Sorted
<1>3. children \in Seq(Interned)
  BY ChildListsAreFlat
<1>4. \A k \in 2 .. Len(children) : k \in DOMAIN children \ {1}
  BY <1>3
<1> QED
  BY <1>2, <1>4 DEF Ascending

\* The only node a step may add is one for the request it serves.
LEMMA NewNode ==
    ASSUME IInv, IndicesFit, Call
    PROVE  \/ nodes' = nodes
           \/ \E request : Callable(request) /\ \E children \in ChildLists(request) :
                /\ nodes' = Append(nodes, Candidate(request, children))
                /\ child_pool' = child_pool \o children
                /\ Len(child_pool) + Len(children) <= MaxPool
<1>1. PICK request : Callable(request) /\ Build(request)
  BY DEF Call
<1>2. PICK children \in ChildLists(request) :
        /\ Len(child_pool) + Len(children) <= MaxPool
        /\ \/ InternHit(request, children)
           \/ InternMiss(request, children)
           \/ Fails(request, children)
  BY <1>1 DEF Build
<1>3. CASE InternHit(request, children)
  BY <1>3 DEF InternHit
<1>4. CASE InternMiss(request, children)
  BY <1>1, <1>2, <1>4 DEF InternMiss
<1>5. CASE PoolFails(request, children)
  BY <1>5 DEF PoolFails
<1>6. CASE InternFails(request, children)
  BY <1>1, <1>2, <1>6 DEF InternFails
<1> QED
  BY <1>2, <1>3, <1>4, <1>5, <1>6 DEF Fails

LEMMA SeqOfMore ==
    ASSUME NEW S, NEW T, S \subseteq T, NEW s \in Seq(S)
    PROVE  s \in Seq(T)
OBVIOUS

LEMMA OperandsStay ==
    ASSUME IInv, IndicesFit, OperandsSorted, [Call]_vars
    PROVE  OperandsSorted'
<1>1. IInv' /\ SlotsKept
  BY StepKeeps, StepKeepsSlots
<1>2. \A i, j \in Interned : Compare'[<<i, j>>] = Compare[<<i, j>>]
  BY <1>1, CompareStable, SlotFacts
<1>3. nodes \in Seq(Node) /\ child_pool \in Seq(Nat)
  BY DEF IInv, TypeOK
<1> DEFINE InOrder(n) == nodes'[n].tag \in Variadic =>
             \A k \in 2 .. nodes'[n].child_count :
               Compare'[<<Children(nodes'[n], child_pool')[k - 1],
                          Children(nodes'[n], child_pool')[k]>>] <= 0
<1>4. ASSUME NEW n \in DOMAIN nodes, nodes'[n] = nodes[n],
             Children(nodes[n], child_pool') = Children(nodes[n], child_pool)
      PROVE  InOrder(n)
  <2> DEFINE run == Children(nodes[n], child_pool)
  <2>1. nodes[n].child_count \in Nat
    <3>1. nodes[n] \in Node
      BY <1>3
    <3> QED
      BY <3>1 DEF Node
  <2>2. \A k \in 1 .. nodes[n].child_count : run[k] \in Interned
    BY DEF IInv, ChildrenInterned
  <2>3. nodes[n].tag \in Variadic =>
          \A k \in 2 .. nodes[n].child_count : Compare[<<run[k - 1], run[k]>>] <= 0
    BY SortedNodes
  <2> HIDE DEF run
  <2>4. nodes[n].tag \in Variadic =>
          \A k \in 2 .. nodes[n].child_count : Compare'[<<run[k - 1], run[k]>>] <= 0
    <3> SUFFICES ASSUME nodes[n].tag \in Variadic, NEW k \in 2 .. nodes[n].child_count
                 PROVE  Compare'[<<run[k - 1], run[k]>>] <= 0
      OBVIOUS
    <3>1. k - 1 \in 1 .. nodes[n].child_count /\ k \in 1 .. nodes[n].child_count
      BY <2>1
    <3>2. Compare'[<<run[k - 1], run[k]>>] = Compare[<<run[k - 1], run[k]>>]
      BY <1>2, <2>2, <3>1
    <3> QED
      BY <2>3, <3>2
  <2> QED
    BY <1>4, <2>4 DEF run
<1>5. CASE UNCHANGED vars
  <2>1. nodes' = nodes /\ child_pool' = child_pool
    BY <1>5 DEF vars
  <2>2. \A n \in DOMAIN nodes' : InOrder(n)
    <3> HIDE DEF InOrder
    <3> QED
      BY <1>4, <2>1
  <2> QED
    BY <2>2, SortedNodesNext
<1>6. CASE Call
  <2>1. \A n \in DOMAIN nodes : /\ nodes'[n] = nodes[n]
                                /\ Children(nodes[n], child_pool') = Children(nodes[n], child_pool)
    BY <1>6, NodesKept DEF Key
  <2>2. \A n \in DOMAIN nodes : InOrder(n)
    <3> HIDE DEF InOrder
    <3> QED
      BY <1>4, <2>1
  <2>3. CASE nodes' = nodes
    BY <2>2, <2>3, SortedNodesNext
  <2>4. CASE nodes' # nodes
    <3>0. PICK request : Callable(request) /\ \E children \in ChildLists(request) :
            /\ nodes' = Append(nodes, Candidate(request, children))
            /\ child_pool' = child_pool \o children
            /\ Len(child_pool) + Len(children) <= MaxPool
      BY <1>6, <2>4, NewNode
    <3>1. PICK children \in ChildLists(request) :
            /\ nodes' = Append(nodes, Candidate(request, children))
            /\ child_pool' = child_pool \o children
            /\ Len(child_pool) + Len(children) <= MaxPool
      BY <3>0
    <3> DEFINE node == Candidate(request, children)
               n == Len(nodes) + 1
    <3>2. children \in Seq(Interned) /\ children \in Seq(Nat)
          /\ (request.tag \in {"Num", "Var"} => children = <<>>)
      <4>1. Interned \subseteq Nat
        BY InternedAreNodes DEF IInv
      <4>2. children \in Seq(Interned) /\ (request.tag \in {"Num", "Var"} => children = <<>>)
        BY <3>0, ChildListsAreFlat
      <4>3. children \in Seq(Nat)
        BY <4>1, <4>2, SeqOfMore
      <4> QED
        BY <4>2, <4>3
    <3>3. /\ node.tag = request.tag /\ node.child_count = Len(children) /\ node \in Node
          /\ Children(node, child_pool') = children
      BY <3>0, <3>1, <3>2, CandidateFits DEF IInv, Callable
    <3> HIDE DEF node
    <3>4. nodes'[n] = node /\ DOMAIN nodes' = DOMAIN nodes \cup {n}
      BY <1>3, <3>1, <3>3 DEF node
    <3>5. InOrder(n)
      <4> SUFFICES ASSUME request.tag \in Variadic, NEW k \in 2 .. Len(children)
                   PROVE  Compare'[<<children[k - 1], children[k]>>] <= 0
        BY <3>3, <3>4
      <4>1. Compare[<<children[k - 1], children[k]>>] <= 0
        BY <3>0, ChildListsAscend DEF Ascending
      <4>2. children[k - 1] \in Interned /\ children[k] \in Interned
        BY <3>2
      <4> QED
        BY <1>2, <4>1, <4>2
    <3>6. \A m \in DOMAIN nodes' : InOrder(m)
      <4> HIDE DEF InOrder, n
      <4> QED
        BY <2>2, <3>4, <3>5
    <3> QED
      BY <3>6, SortedNodesNext
  <2> QED
    BY <2>3, <2>4
<1> QED
  BY <1>5, <1>6

LEMMA LeavesStay ==
    ASSUME IInv, IndicesFit, LeavesAreBare, [Call]_vars
    PROVE  LeavesAreBare'
<1>1. CASE UNCHANGED vars
  BY <1>1 DEF vars, LeavesAreBare
<1>2. CASE Call
  <2>1. \A n \in DOMAIN nodes : n \in DOMAIN nodes' /\ nodes'[n] = nodes[n]
    BY <1>2, NodesKept
  <2>2. CASE nodes' = nodes
    BY <2>2 DEF LeavesAreBare
  <2>3. CASE nodes' # nodes
    <3>1. PICK request : Callable(request) /\ \E children \in ChildLists(request) :
                            nodes' = Append(nodes, Candidate(request, children))
      BY <1>2, <2>3, NewNode
    <3>2. PICK children \in ChildLists(request) : nodes' = Append(nodes, Candidate(request, children))
      BY <3>1
    <3> DEFINE node == Candidate(request, children)
    <3>3. node.tag \in {"Num", "Var"} => node.child_count = 0
      <4>1. request.tag \in {"Num", "Var"} => children = <<>>
        BY <3>1, ChildListsAreFlat
      <4> QED
        BY <4>1 DEF Candidate
    <3> HIDE DEF node
    <3>4. nodes \in Seq(Node \cup {node}) /\ nodes' = Append(nodes, node)
      BY <3>2 DEF node, IInv, TypeOK
    <3>5. ASSUME NEW n \in DOMAIN nodes' PROVE n \in DOMAIN nodes \/ nodes'[n] = node
      BY <3>4
    <3> QED
      BY <2>1, <3>3, <3>5 DEF LeavesAreBare
  <2> QED
    BY <2>2, <2>3
<1> QED
  BY <1>1, <1>2

\* Every call keeps the store's invariant.
LEMMA CallKeepsStore ==
    ASSUME StoreInv, IndicesFit, [Call]_vars
    PROVE  StoreInv'
BY StepKeeps, OperandsStay, LeavesStay DEF StoreInv

LEMMA InitHasStoreInv ==
    ASSUME Init
    PROVE  StoreInv
<1>1. OperandsSorted /\ LeavesAreBare
  BY SortedNodes DEF Init, LeavesAreBare
<1> QED
  BY <1>1, InitHolds DEF StoreInv

\* The store keeps its hash-consing and its sorted normal form.
THEOREM StoreInvariance == IndicesFit => (Spec => []StoreInv)
<1> SUFFICES ASSUME IndicesFit PROVE Spec => []StoreInv
  OBVIOUS
<1>1. Init => StoreInv
  BY InitHasStoreInv
<1>2. StoreInv /\ [Next]_vars => StoreInv'
  BY CallKeepsStore, NextIsCall
<1> QED
  BY <1>1, <1>2, PTL DEF Spec

-----------------------------------------------------------------------------
(* A sorted list is determined by what occurs in it how often. *)

\* In a sorted list no place compares less than an earlier one.
LEMMA AscendingReaches ==
    ASSUME IInv, IndicesFit, NEW s \in Seq(Interned), Ascending(s)
    PROVE  \A k, l \in DOMAIN s : k <= l => Compare[<<s[k], s[l]>>] <= 0
<1> DEFINE S == {d \in Nat : \A k \in DOMAIN s : k + d \in DOMAIN s => Compare[<<s[k], s[k + d]>>] <= 0}
<1>1. DOMAIN s = 1 .. Len(s) /\ Len(s) \in Nat /\ \A k \in DOMAIN s : s[k] \in Interned /\ s[k] \in Slots
  BY SlotFacts
<1>2. 0 \in S
  <2>1. ASSUME NEW k \in DOMAIN s PROVE Compare[<<s[k], s[k + 0]>>] <= 0
    <3>1. k + 0 = k
      BY <1>1
    <3>2. Compare[<<s[k], s[k]>>] = 0
      BY <1>1, EqualAreSame
    <3> QED
      BY <3>1, <3>2
  <2> QED
    BY <2>1
<1>3. ASSUME NEW d \in Nat, d \in S PROVE d + 1 \in S
  <2>1. ASSUME NEW k \in DOMAIN s, k + (d + 1) \in DOMAIN s PROVE Compare[<<s[k], s[k + (d + 1)]>>] <= 0
    <3> DEFINE l == k + d
    <3>1. l \in DOMAIN s /\ l + 1 \in 2 .. Len(s) /\ l + 1 = k + (d + 1) /\ (l + 1) - 1 = l /\ l + 1 \in DOMAIN s
      BY <1>1, <2>1
    <3>2. Compare[<<s[k], s[l]>>] <= 0
      BY <1>3, <3>1
    <3> HIDE DEF l
    <3>3. Compare[<<s[l], s[l + 1]>>] <= 0
      BY <3>1 DEF Ascending
    <3>4. Compare[<<s[k], s[l + 1]>>] <= 0
      BY <1>1, <3>1, <3>2, <3>3, CompareIsTransitive
    <3> QED
      BY <3>1, <3>4
  <2> QED
    BY <2>1
<1> HIDE DEF S
<1>4. \A d \in Nat : d \in S
  BY <1>2, <1>3, SetInduction
<1>5. ASSUME NEW k \in DOMAIN s, NEW l \in DOMAIN s, k <= l PROVE Compare[<<s[k], s[l]>>] <= 0
  <2>1. l - k \in Nat /\ k + (l - k) = l
    BY <1>1, <1>5
  <2>2. l - k \in S
    BY <1>4, <2>1
  <2> QED
    BY <2>1, <2>2 DEF S
<1> QED
  BY <1>5

\* A value that one list has at a place where the other is past it, or at an
\* end, occurs more often in the first.
LEMMA OccursMore ==
    ASSUME NEW X, NEW s \in Seq(X), NEW t \in Seq(X), NEW m \in DOMAIN s,
           \A l \in 1 .. m - 1 : l \in DOMAIN t /\ s[l] = t[l],
           \A l \in DOMAIN t : l >= m => t[l] # s[m]
    PROVE  Count(s[m], t) # Count(s[m], s)
<1> DEFINE A == {k \in DOMAIN t : t[k] = s[m]}
           B == {k \in DOMAIN s : s[k] = s[m]}
<1>1. DOMAIN s = 1 .. Len(s) /\ Len(s) \in Nat /\ DOMAIN t = 1 .. Len(t) /\ Len(t) \in Nat
  OBVIOUS
<1>2. IsFiniteSet(B)
  <2>1. IsFiniteSet(DOMAIN s) /\ B \in SUBSET DOMAIN s
    BY <1>1, FS_Interval
  <2> HIDE DEF B
  <2> QED
    BY <2>1, FS_Subset
<1>3. A \in SUBSET B
  <2>1. ASSUME NEW k \in A PROVE k \in B
    <3>1. k \in DOMAIN t /\ t[k] = s[m] /\ k < m /\ k \in 1 .. m - 1
      BY <1>1
    <3> QED
      BY <1>1, <3>1
  <2> QED
    BY <2>1
<1>4. m \in B /\ m \notin A
  BY <1>1
<1>5. Count(s[m], t) = Cardinality(A) /\ Count(s[m], s) = Cardinality(B)
  BY DEF Count
<1> HIDE DEF A, B
<1> QED
  BY <1>2, <1>3, <1>4, <1>5, FS_Subset

LEMMA FirstDifference ==
    ASSUME IInv, IndicesFit, NEW s \in Seq(Interned), NEW t \in Seq(Interned), Ascending(t),
           NEW m \in DOMAIN s \cap DOMAIN t, \A l \in 1 .. m - 1 : s[l] = t[l],
           Compare[<<s[m], t[m]>>] < 0
    PROVE  Count(s[m], t) # Count(s[m], s)
<1>1. \A c, d \in Interned : Compare[<<c, d>>] \in Int /\ Compare[<<c, d>>] = 0 - Compare[<<d, c>>]
  <2>1. \A n \in Signs : n \in Int
    BY DEF Signs
  <2> QED
    BY <2>1, CompareIsSign, CompareFlips, SlotFacts
<1>2. s[m] \in Interned /\ t[m] \in Interned
  OBVIOUS
<1>3. ASSUME NEW l \in DOMAIN t, l >= m PROVE t[l] # s[m]
  <2> SUFFICES ASSUME t[l] = s[m] PROVE FALSE
    OBVIOUS
  <2>1. Compare[<<t[m], t[l]>>] <= 0
    BY <1>3, AscendingReaches
  <2>2. Compare[<<t[m], s[m]>>] <= 0
    BY <2>1
  <2>3. /\ Compare[<<t[m], s[m]>>] = 0 - Compare[<<s[m], t[m]>>]
        /\ Compare[<<s[m], t[m]>>] \in Int
    BY <1>1, <1>2
  <2> QED
    BY <2>2, <2>3
<1>4. \A l \in 1 .. m - 1 : l \in DOMAIN t
  <2>1. DOMAIN t = 1 .. Len(t) /\ Len(t) \in Nat
    OBVIOUS
  <2> QED
    BY <2>1
<1> QED
  BY <1>3, <1>4, OccursMore

LEMMA SortedUnique ==
    ASSUME IInv, IndicesFit, NEW s \in Seq(Interned), NEW t \in Seq(Interned),
           Ascending(s), Ascending(t), \A x \in Interned : Count(x, s) = Count(x, t)
    PROVE  s = t
<1> DEFINE D == {k \in DOMAIN s \cap DOMAIN t : s[k] # t[k]}
<1>1. /\ DOMAIN s = 1 .. Len(s) /\ Len(s) \in Nat /\ DOMAIN t = 1 .. Len(t) /\ Len(t) \in Nat
      /\ \A k \in DOMAIN s : s[k] \in Interned
      /\ \A k \in DOMAIN t : t[k] \in Interned
  OBVIOUS
<1>2. D = {}
  <2> SUFFICES ASSUME D # {} PROVE FALSE
    OBVIOUS
  <2>1. D \in SUBSET Nat
    BY <1>1
  <2> DEFINE m == FirstOf(D)
  <2>2. m \in D /\ \A l \in D : m <= l
    BY <2>1, FirstIsFirst
  <2> HIDE DEF m
  <2>3. m \in DOMAIN s \cap DOMAIN t /\ s[m] # t[m] /\ m \in Nat
    BY <2>1, <2>2
  <2>4. \A l \in 1 .. m - 1 : s[l] = t[l]
    <3> SUFFICES ASSUME NEW l \in 1 .. m - 1, s[l] # t[l] PROVE FALSE
      OBVIOUS
    <3>1. l \in D
      BY <1>1, <2>3
    <3>2. m <= l
      BY <2>2, <3>1
    <3> QED
      BY <2>3, <3>2
  <2>5. s[m] \in Interned /\ t[m] \in Interned
    BY <1>1, <2>3
  <2>6. ~(Compare[<<s[m], t[m]>>] < 0)
    BY <2>3, <2>4, <2>5, FirstDifference
  <2>7. ~(Compare[<<t[m], s[m]>>] < 0)
    BY <2>3, <2>4, <2>5, FirstDifference
  <2>8. Compare[<<s[m], t[m]>>] # 0
    BY <2>3, <2>5, EqualAreSame
  <2>9. Compare[<<s[m], t[m]>>] \in Signs /\ Compare[<<s[m], t[m]>>] = 0 - Compare[<<t[m], s[m]>>]
        /\ Compare[<<t[m], s[m]>>] \in Signs
    BY <2>5, CompareIsSign, CompareFlips, SlotFacts
  <2>10. \A n \in Signs : n \in Int
    BY DEF Signs
  <2> QED
    BY <2>6, <2>7, <2>8, <2>9, <2>10
<1>3. Len(s) = Len(t)
  <2>1. ASSUME Len(s) < Len(t) PROVE FALSE
    <3> DEFINE m == Len(s) + 1
    <3>1. m \in DOMAIN t /\ \A l \in 1 .. m - 1 : l \in DOMAIN s /\ t[l] = s[l]
      BY <1>1, <1>2, <2>1
    <3>2. \A l \in DOMAIN s : l >= m => s[l] # t[m]
      BY <1>1
    <3> HIDE DEF m
    <3>3. Count(t[m], s) # Count(t[m], t)
      BY <3>1, <3>2, OccursMore
    <3> QED
      BY <1>1, <3>1, <3>3
  <2>2. ASSUME Len(t) < Len(s) PROVE FALSE
    <3> DEFINE m == Len(t) + 1
    <3>1. m \in DOMAIN s /\ \A l \in 1 .. m - 1 : l \in DOMAIN t /\ s[l] = t[l]
      BY <1>1, <1>2, <2>2
    <3>2. \A l \in DOMAIN t : l >= m => t[l] # s[m]
      BY <1>1
    <3> HIDE DEF m
    <3>3. Count(s[m], t) # Count(s[m], s)
      BY <3>1, <3>2, OccursMore
    <3> QED
      BY <1>1, <3>1, <3>3
  <2>3. \A a, b \in Nat : ~(a < b) /\ ~(b < a) => a = b
    OBVIOUS
  <2>4. ~(Len(s) < Len(t)) /\ ~(Len(t) < Len(s))
    BY <2>1, <2>2
  <2> QED
    BY <1>1, <2>3, <2>4
<1>4. \A k \in DOMAIN s : s[k] = t[k]
  BY <1>1, <1>2, <1>3
<1> QED
  BY <1>1, <1>3, <1>4

-----------------------------------------------------------------------------
(* The term of a slot, from the terms of its children. *)

\* How often the members of a list stand for each term.
BagOf(term, s) ==
    [t \in {term[s[k]] : k \in DOMAIN s} |-> Cardinality({k \in DOMAIN s : term[s[k]] = t})]

TermOf(term, key) ==
    <<key.tag, key.payload,
      IF key.tag \in Variadic THEN BagOf(term, key.children)
                              ELSE [k \in DOMAIN key.children |-> term[key.children[k]]]>>

LEMMA TermIsChosen == Term = CHOOSE term : term = [i \in Slots |-> TermOf(term, KeyOf(i))]
BY Zenon DEF Term, TermOf, BagOf

\* A term looks at the terms of the children only.
LEMMA TermOfLocal ==
    ASSUME NEW f, NEW g, NEW key,
           \A k \in DOMAIN key.children : f[key.children[k]] = g[key.children[k]]
    PROVE  TermOf(f, key) = TermOf(g, key)
<1>1. BagOf(f, key.children) = BagOf(g, key.children)
  <2>1. {f[key.children[k]] : k \in DOMAIN key.children} = {g[key.children[k]] : k \in DOMAIN key.children}
    OBVIOUS
  <2>2. \A t : {k \in DOMAIN key.children : f[key.children[k]] = t} = {k \in DOMAIN key.children : g[key.children[k]] = t}
    OBVIOUS
  <2> QED
    BY <2>1, <2>2, Zenon DEF BagOf
<1>2. [k \in DOMAIN key.children |-> f[key.children[k]]] = [k \in DOMAIN key.children |-> g[key.children[k]]]
  OBVIOUS
<1> QED
  BY <1>1, <1>2, Zenon DEF TermOf

\* The recursion of Term is well founded.
LEMMA TermExists ==
    ASSUME IInv, IndicesFit
    PROVE  \E term : term = [i \in Slots |-> TermOf(term, KeyOf(i))]
<1> DEFINE Right(g, n) == \A i \in Slots : i < n => g[i] = TermOf(g, KeyOf(i))
           S == {n \in Nat : \E g : Right(g, n)}
<1>1. 0 \in S
  <2>1. \A i \in Slots : ~(i < 0)
    BY SlotFacts
  <2> QED
    BY <2>1
<1>2. ASSUME NEW n \in Nat, n \in S PROVE n + 1 \in S
  <2>1. PICK g : Right(g, n)
    BY <1>2
  <2> DEFINE h == [i \in Slots |-> TermOf(g, KeyOf(i))]
  <2>2. ASSUME NEW i \in Slots, i < n + 1 PROVE h[i] = TermOf(h, KeyOf(i))
    <3>1. ASSUME NEW k \in DOMAIN KeyOf(i).children
          PROVE  g[KeyOf(i).children[k]] = h[KeyOf(i).children[k]]
      <4> DEFINE c == KeyOf(i).children[k]
      <4>1. c \in Slots /\ c < i /\ c \in Nat /\ i \in Nat
        BY SlotFacts
      <4> HIDE DEF c
      <4>2. c < n
        BY <2>2, <4>1
      <4>3. g[c] = TermOf(g, KeyOf(c))
        BY <2>1, <4>1, <4>2
      <4>4. h[c] = TermOf(g, KeyOf(c))
        BY <4>1
      <4> QED
        BY <4>3, <4>4 DEF c
    <3>2. TermOf(g, KeyOf(i)) = TermOf(h, KeyOf(i))
      <4> HIDE DEF h
      <4> QED
        BY <3>1, TermOfLocal
    <3>3. h[i] = TermOf(g, KeyOf(i))
      OBVIOUS
    <3> QED
      BY <3>2, <3>3
  <2>3. Right(h, n + 1)
    <3> HIDE DEF h
    <3> QED
      BY <2>2
  <2> HIDE DEF h, Right
  <2> QED
    BY <2>3
<1>3. Len(nodes) \in Nat /\ \A i \in Slots : i < Len(nodes)
  BY SlotFacts DEF IInv, TypeOK
<1>4. Len(nodes) \in S
  <2> HIDE DEF S
  <2> QED
    BY <1>1, <1>2, <1>3, SetInduction
<1>5. PICK g : Right(g, Len(nodes))
  BY <1>4
<1> DEFINE h == [i \in Slots |-> g[i]]
<1>6. ASSUME NEW i \in Slots PROVE h[i] = TermOf(h, KeyOf(i))
  <2>1. \A k \in DOMAIN KeyOf(i).children : KeyOf(i).children[k] \in Slots
    BY SlotFacts
  <2>2. \A c \in Slots : g[c] = h[c]
    OBVIOUS
  <2> HIDE DEF h
  <2>3. TermOf(g, KeyOf(i)) = TermOf(h, KeyOf(i))
    BY <2>1, <2>2, TermOfLocal
  <2>4. g[i] = TermOf(g, KeyOf(i))
    BY <1>3, <1>5
  <2> QED
    BY <2>2, <2>3, <2>4
<1>7. h = [i \in Slots |-> h[i]]
  OBVIOUS
<1> HIDE DEF h
<1>8. h = [i \in Slots |-> TermOf(h, KeyOf(i))]
  <2>1. [i \in Slots |-> h[i]] = [i \in Slots |-> TermOf(h, KeyOf(i))]
    BY <1>6
  <2> QED
    BY <1>7, <2>1, Zenon
<1> QED
  BY <1>8

\* The term of a slot is made of the terms of its children.
LEMMA TermCalls ==
    ASSUME IInv, IndicesFit
    PROVE  \A i \in Slots : Term[i] = TermOf(Term, KeyOf(i))
<1> DEFINE Recursion(term) == term = [i \in Slots |-> TermOf(term, KeyOf(i))]
<1>1. Recursion(CHOOSE term : Recursion(term))
  <2>1. \E term : Recursion(term)
    BY TermExists
  <2> HIDE DEF Recursion
  <2> QED
    BY <2>1
<1>2. Recursion(Term)
  <2>1. Term = CHOOSE term : Recursion(term)
    BY TermIsChosen, Zenon
  <2> HIDE DEF Recursion
  <2> QED
    BY <1>1, <2>1, Zenon
<1>3. Term = [i \in Slots |-> TermOf(Term, KeyOf(i))]
  BY <1>2, Zenon
<1> DEFINE T(i) == TermOf(Term, KeyOf(i))
<1>4. ASSUME NEW i \in Slots PROVE [j \in Slots |-> T(j)][i] = T(i)
  <2> HIDE DEF T
  <2> QED
    OBVIOUS
<1> QED
  BY <1>3, <1>4, Zenon

\* What a slot's term is, as a state predicate.
TermHolds == \A i \in Slots : Term[i] = TermOf(Term, KeyOf(i))

LEMMA TermCallsNext ==
    ASSUME IndicesFit
    PROVE  IInv' => TermHolds'
<1>1. IInv => TermHolds
  BY TermCalls DEF TermHolds
<1> QED
  BY <1>1, PTL

LEMMA TermStable ==
    ASSUME IInv, IInv', IndicesFit, SlotsKept
    PROVE  \A i \in Slots : Term'[i] = Term[i]
<1> DEFINE P == {i \in Slots : Term'[i] = Term[i]}
<1>1. ASSUME NEW i \in Slots, \A c \in Slots : c < i => c \in P PROVE i \in P
  <2>1. \A k \in DOMAIN KeyOf(i).children : Term'[KeyOf(i).children[k]] = Term[KeyOf(i).children[k]]
    BY <1>1, SlotFacts
  <2>2. TermOf(Term', KeyOf(i)) = TermOf(Term, KeyOf(i))
    BY <2>1, TermOfLocal
  <2>3. Term'[i] = TermOf(Term', KeyOf(i)')
    BY TermCallsNext DEF TermHolds, SlotsKept
  <2>4. KeyOf(i)' = KeyOf(i)
    BY DEF SlotsKept
  <2>5. Term[i] = TermOf(Term, KeyOf(i))
    BY TermCalls
  <2> QED
    BY <2>2, <2>3, <2>4, <2>5
<1> HIDE DEF P
<1>2. \A i \in Slots : i \in P
  BY <1>1, SlotInduction
<1> QED
  BY <1>2 DEF P

\* A term names its slot's tag, which no operand of a sum or a product shares.
LEMMA TermTag ==
    ASSUME IInv, IndicesFit, NEW i \in Interned
    PROVE  /\ Term[i][1] = KeyOf(i).tag
           /\ KeyOf(i).tag \in Variadic =>
                \A k \in DOMAIN KeyOf(i).children : KeyOf(KeyOf(i).children[k]).tag # KeyOf(i).tag
<1>1. Term[i] = TermOf(Term, KeyOf(i))
  BY SlotFacts, TermCalls
<1>2. TermOf(Term, KeyOf(i))[1] = KeyOf(i).tag
  BY DEF TermOf
<1>3. ASSUME NEW k \in DOMAIN KeyOf(i).children, KeyOf(i).tag \in Variadic
      PROVE  KeyOf(KeyOf(i).children[k]).tag # KeyOf(i).tag
  <2> DEFINE node == nodes[i + 1]
             run == Children(node, child_pool)
  <2>1. i + 1 \in DOMAIN nodes
    BY InternedAreNodes DEF IInv
  <2>2. KeyOf(i).tag = node.tag /\ KeyOf(i).children = run /\ DOMAIN run = 1 .. node.child_count
    BY DEF KeyOf, Key, Children
  <2>3. nodes[run[k] + 1].tag # node.tag
    BY <1>3, <2>1, <2>2 DEF IInv, NoNesting
  <2>4. KeyOf(run[k]).tag = nodes[run[k] + 1].tag
    BY DEF KeyOf, Key
  <2> HIDE DEF node, run
  <2> QED
    BY <2>2, <2>3, <2>4
<1> QED
  BY <1>1, <1>2, <1>3

\* Nor is any slot in use given another term by a call.
LEMMA CallKeepsTerms ==
    ASSUME StoreInv, IndicesFit, [Call]_vars
    PROVE  StoreInv' /\ \A i \in Interned : i \in Interned' /\ Term'[i] = Term[i]
<1>1. IInv /\ StoreInv'
  BY CallKeepsStore DEF StoreInv
<1>2. IInv' /\ SlotsKept
  BY <1>1, StepKeepsSlots DEF StoreInv
<1>3. \A i \in Interned : i \in Interned'
  BY <1>1, StepKeepsSlots
<1> QED
  BY <1>1, <1>2, <1>3, TermStable, SlotFacts

-----------------------------------------------------------------------------
(* A term has one slot. *)

\* Children that a term of their own tells apart from every slot in use.
ToldApart(s) == \A k \in DOMAIN s : \A d \in Interned : Term[s[k]] = Term[d] => s[k] = d

\* Equal bags of terms come from lists with equal counts.
LEMMA BagsCount ==
    ASSUME NEW s \in Seq(Interned), NEW t \in Seq(Interned), ToldApart(s),
           BagOf(Term, s) = BagOf(Term, t)
    PROVE  \A x \in Interned : Count(x, s) = Count(x, t)
<1> TAKE x \in Interned
<1>1. /\ \A k \in DOMAIN s : s[k] \in Interned
      /\ \A k \in DOMAIN t : t[k] \in Interned
  OBVIOUS
<1>2. {Term[s[k]] : k \in DOMAIN s} = {Term[t[k]] : k \in DOMAIN t}
  <2>1. DOMAIN BagOf(Term, s) = {Term[s[k]] : k \in DOMAIN s}
    BY DEF BagOf
  <2>2. DOMAIN BagOf(Term, t) = {Term[t[k]] : k \in DOMAIN t}
    BY DEF BagOf
  <2> QED
    BY <2>1, <2>2, Zenon
<1>3. CASE \E l \in DOMAIN s : s[l] = x
  <2>1. PICK l \in DOMAIN s : s[l] = x
    BY <1>3
  <2>2. \A d \in Interned : Term[d] = Term[x] => d = x
    BY <2>1 DEF ToldApart
  <2>3. {k \in DOMAIN s : Term[s[k]] = Term[x]} = {k \in DOMAIN s : s[k] = x}
    BY <1>1, <2>2
  <2>4. {k \in DOMAIN t : Term[t[k]] = Term[x]} = {k \in DOMAIN t : t[k] = x}
    BY <1>1, <2>2
  <2>5. BagOf(Term, s)[Term[x]] = Cardinality({k \in DOMAIN s : Term[s[k]] = Term[x]})
    BY <2>1 DEF BagOf
  <2>6. BagOf(Term, t)[Term[x]] = Cardinality({k \in DOMAIN t : Term[t[k]] = Term[x]})
    <3>1. Term[x] \in {Term[t[k]] : k \in DOMAIN t}
      BY <1>2, <2>1
    <3> QED
      BY <3>1 DEF BagOf
  <2> QED
    BY <2>3, <2>4, <2>5, <2>6, Zenon DEF Count
<1>4. CASE ~\E l \in DOMAIN s : s[l] = x
  <2>1. {k \in DOMAIN s : s[k] = x} = {}
    BY <1>4
  <2>2. {k \in DOMAIN t : t[k] = x} = {}
    <3> SUFFICES ASSUME NEW k \in DOMAIN t, t[k] = x PROVE FALSE
      OBVIOUS
    <3>1. Term[x] \in {Term[s[l]] : l \in DOMAIN s}
      BY <1>2
    <3>2. PICK l \in DOMAIN s : Term[s[l]] = Term[x]
      BY <3>1
    <3>3. s[l] = x
      BY <3>2 DEF ToldApart
    <3> QED
      BY <1>4, <3>3
  <2> QED
    BY <2>1, <2>2, Zenon DEF Count
<1> QED
  BY <1>3, <1>4

\* A tag, a payload and a list of operands, sorted if the tag is a sum's or product's.
Normal(key) ==
    /\ key = [tag |-> key.tag, payload |-> key.payload, children |-> key.children]
    /\ key.children \in Seq(Interned)
    /\ key.tag \in Variadic => Ascending(key.children)

\* A term has one normal key.
LEMMA KeyOfTerm ==
    ASSUME IInv, IndicesFit, NEW a, NEW b, Normal(a), Normal(b), ToldApart(a.children),
           TermOf(Term, a) = TermOf(Term, b)
    PROVE  a = b
<1>1. a.tag = b.tag /\ a.payload = b.payload
  BY DEF TermOf
<1>2. CASE a.tag \in Variadic
  <2>1. BagOf(Term, a.children) = BagOf(Term, b.children)
    BY <1>1, <1>2 DEF TermOf
  <2>2. \A x \in Interned : Count(x, a.children) = Count(x, b.children)
    BY <2>1, BagsCount DEF Normal
  <2>3. a.children = b.children
    BY <1>1, <1>2, <2>2, SortedUnique DEF Normal
  <2> QED
    BY <1>1, <2>3 DEF Normal
<1>3. CASE a.tag \notin Variadic
  <2> DEFINE f == [k \in DOMAIN a.children |-> Term[a.children[k]]]
             g == [k \in DOMAIN b.children |-> Term[b.children[k]]]
  <2>1. f = g
    BY <1>1, <1>3 DEF TermOf
  <2>2. DOMAIN f = DOMAIN a.children /\ DOMAIN g = DOMAIN b.children
    OBVIOUS
  <2>3. DOMAIN a.children = DOMAIN b.children
    <3> HIDE DEF f, g
    <3> QED
      BY <2>1, <2>2
  <2>4. ASSUME NEW k \in DOMAIN a.children PROVE a.children[k] = b.children[k]
    <3>1. f[k] = Term[a.children[k]] /\ g[k] = Term[b.children[k]]
      BY <2>3
    <3>2. b.children[k] \in Interned
      BY <2>3 DEF Normal
    <3> HIDE DEF f, g
    <3> QED
      BY <2>1, <3>1, <3>2 DEF ToldApart
  <2>5. a.children = b.children
    <3>1. a.children \in Seq(Interned) /\ b.children \in Seq(Interned)
      BY DEF Normal
    <3> QED
      BY <2>3, <2>4, <3>1
  <2> QED
    BY <1>1, <2>5 DEF Normal
<1> QED
  BY <1>2, <1>3

\* Nodes in the arena have normal keys.
LEMMA NodesAreNormal ==
    ASSUME StoreInv, IndicesFit
    PROVE  \A i \in Slots : Normal(KeyOf(i))
<1> TAKE i \in Slots
<1>1. IInv /\ OperandsSorted
  BY DEF StoreInv
<1>2. i \in Nat /\ i + 1 \in DOMAIN nodes /\ nodes[i + 1] \in Node
  BY <1>1 DEF Slots, IInv, TypeOK
<1>3. /\ KeyOf(i) = [tag |-> KeyOf(i).tag, payload |-> KeyOf(i).payload, children |-> KeyOf(i).children]
      /\ KeyOf(i).children \in Seq(Interned)
  BY <1>1, SlotFacts
<1> DEFINE run == Children(nodes[i + 1], child_pool)
<1>4. KeyOf(i).tag = nodes[i + 1].tag /\ KeyOf(i).children = run
  BY DEF KeyOf, Key
<1>5. Len(run) = nodes[i + 1].child_count
  <2>1. nodes[i + 1].child_count \in Nat
    BY <1>2 DEF Node
  <2>2. DOMAIN run = 1 .. nodes[i + 1].child_count
    BY DEF Children
  <2>3. run \in Seq(Interned)
    BY <1>3, <1>4
  <2> HIDE DEF run
  <2> QED
    BY <2>1, <2>2, <2>3
<1>6. nodes[i + 1].tag \in Variadic =>
        \A k \in 2 .. nodes[i + 1].child_count : Compare[<<run[k - 1], run[k]>>] <= 0
  BY <1>1, <1>2, SortedNodes
<1> HIDE DEF run
<1> QED
  BY <1>3, <1>4, <1>5, <1>6 DEF Normal, Ascending

\* Slots a program holds stand for different terms.
LEMMA TermInjective ==
    ASSUME StoreInv, IndicesFit
    PROVE  \A i, j \in Interned : Term[i] = Term[j] => i = j
<1>0. IInv
  BY DEF StoreInv
<1> DEFINE P == {i \in Slots : i \in Interned => \A j \in Interned : Term[i] = Term[j] => i = j}
<1>1. ASSUME NEW i \in Slots, \A c \in Slots : c < i => c \in P PROVE i \in P
  <2> SUFFICES ASSUME i \in Interned, NEW j \in Interned, Term[i] = Term[j] PROVE i = j
    OBVIOUS
  <2>1. j \in Slots
    BY <1>0, SlotFacts
  <2>2. TermOf(Term, KeyOf(i)) = TermOf(Term, KeyOf(j))
    BY <1>0, <2>1, TermCalls
  <2>3. ToldApart(KeyOf(i).children)
    <3>1. \A k \in DOMAIN KeyOf(i).children :
            KeyOf(i).children[k] \in Interned /\ KeyOf(i).children[k] < i /\ KeyOf(i).children[k] \in Slots
      BY <1>0, SlotFacts
    <3> QED
      BY <1>1, <3>1 DEF ToldApart
  <2>4. KeyOf(i) = KeyOf(j)
    BY <1>0, <2>1, <2>2, <2>3, KeyOfTerm, NodesAreNormal
  <2> QED
    BY <1>0, <2>4 DEF IInv, OneSlotPerKey
<1> HIDE DEF P
<1>2. \A i \in Slots : i \in P
  BY <1>0, <1>1, SlotInduction
<1> QED
  BY <1>0, <1>2, SlotFacts DEF P

-----------------------------------------------------------------------------
(* A request's meaning is the term of the children its builder stores.      *)

\* How often a family stands for a term.
Times(t, s) == Cardinality({k \in DOMAIN s : Term[s[k]] = t})

LEMMA BagIsTimes ==
    ASSUME NEW s
    PROVE  BagOf(Term, s) = [t \in {Term[s[k]] : k \in DOMAIN s} |-> Times(t, s)]
BY Zenon DEF BagOf, Times

\* Bags of one support and one count are one bag.
LEMMA SameBag ==
    ASSUME NEW s, NEW r,
           {Term[s[k]] : k \in DOMAIN s} = {Term[r[k]] : k \in DOMAIN r},
           \A t \in {Term[s[k]] : k \in DOMAIN s} : Times(t, s) = Times(t, r)
    PROVE  BagOf(Term, s) = BagOf(Term, r)
<1> DEFINE X == {Term[s[k]] : k \in DOMAIN s}
<1>1. BagOf(Term, s) = [t \in X |-> Times(t, s)]
  BY BagIsTimes
<1>2. BagOf(Term, r) = [t \in X |-> Times(t, r)]
  BY BagIsTimes
<1> HIDE DEF X
<1>3. \A t \in X : Times(t, s) = Times(t, r)
  BY DEF X
<1> QED
  BY <1>1, <1>2, <1>3


\* The bank that the store implements, and what an argument adds to a sum.
TermsGiven == [i \in Interned |-> Term[i]]

Contributes(h, tag) ==
    IF TermsGiven[h][1] = tag THEN TermsGiven[h][3] ELSE Bank!SetToBag({TermsGiven[h]})

LEMMA OperandBagIsChosen ==
    ASSUME NEW tag, NEW args
    PROVE  Bank!OperandBag(tag, args) =
             (CHOOSE sum : sum = [k \in 0 .. Len(args) |->
                IF k = 0 THEN Bank!EmptyBag
                         ELSE Bank!(+)(sum[k - 1], Contributes(args[k], tag))])[Len(args)]
BY Zenon DEF Bank!OperandBag, Contributes, TermsGiven

\* The bag of the operands that the first arguments contribute.
FirstPlaces(args, tag, n) == {p \in DOMAIN flatten_operands(args, tag) : p[1] <= n}

FirstOperands(args, tag, n) ==
    [p \in FirstPlaces(args, tag, n) |-> flatten_operands(args, tag)[p]]

\* An argument adds the terms of the operands that flattening takes from it.
LEMMA ContributesOperands ==
    ASSUME IInv, IndicesFit, NEW tag \in Variadic, NEW h \in Interned
    PROVE  Contributes(h, tag) = BagOf(Term, Operands(h, tag))
<1>1. h \in Slots /\ Term[h] = TermOf(Term, KeyOf(h)) /\ TermsGiven[h] = Term[h]
  BY SlotFacts, TermCalls DEF TermsGiven
<1>2. TermsGiven[h][1] = KeyOf(h).tag /\ KeyOf(h).tag = nodes[h + 1].tag
      /\ KeyOf(h).children = Children(nodes[h + 1], child_pool)
  BY <1>1 DEF TermOf, KeyOf, Key
<1>3. CASE nodes[h + 1].tag = tag
  <2>1. TermsGiven[h][3] = BagOf(Term, KeyOf(h).children)
    BY <1>1, <1>2, <1>3 DEF TermOf
  <2> QED
    BY <1>2, <1>3, <2>1 DEF Contributes, Operands
<1>4. CASE nodes[h + 1].tag # tag
  <2> DEFINE s == <<h>>
  <2>1. Operands(h, tag) = s /\ Contributes(h, tag) = Bank!SetToBag({Term[h]})
    BY <1>1, <1>2, <1>4 DEF Contributes, Operands
  <2>2. DOMAIN s = {1} /\ s[1] = h
    OBVIOUS
  <2> HIDE DEF s
  <2>3. {Term[s[k]] : k \in DOMAIN s} = {Term[h]}
    BY <2>2
  <2>4. \A t \in {Term[h]} : {k \in DOMAIN s : Term[s[k]] = t} = {1}
    BY <2>2
  <2>5. Cardinality({1}) = 1
    BY FS_Singleton
  <2>6. [t \in {Term[h]} |-> Cardinality({k \in DOMAIN s : Term[s[k]] = t})] = [t \in {Term[h]} |-> 1]
    BY <2>4, <2>5
  <2>7. BagOf(Term, s) = [t \in {Term[h]} |-> Cardinality({k \in DOMAIN s : Term[s[k]] = t})]
    BY <2>3, Zenon DEF BagOf
  <2> QED
    BY <2>1, <2>6, <2>7 DEF Bank!SetToBag
<1> QED
  BY <1>3, <1>4

\* Flattened operands, by the arguments they come from.
LEMMA PlacesAreFinite ==
    ASSUME IInv, IndicesFit, NEW tag \in Variadic, NEW args \in Seq(Interned)
    PROVE  /\ IsFiniteSet(DOMAIN flatten_operands(args, tag))
           /\ \A p \in DOMAIN flatten_operands(args, tag) :
                /\ p = <<p[1], p[2]>> /\ p[1] \in DOMAIN args
                /\ p[2] \in DOMAIN Operands(args[p[1]], tag)
                /\ flatten_operands(args, tag)[p] = Operands(args[p[1]], tag)[p[2]]
                /\ flatten_operands(args, tag)[p] \in Interned
           /\ \A k \in DOMAIN args : \A l \in DOMAIN Operands(args[k], tag) :
                /\ <<k, l>> \in DOMAIN flatten_operands(args, tag)
                /\ flatten_operands(args, tag)[<<k, l>>] = Operands(args[k], tag)[l]
<1> DEFINE flat == flatten_operands(args, tag)
<1>1. /\ DOMAIN flat = UNION {{k} \X DOMAIN Operands(args[k], tag) : k \in DOMAIN args}
      /\ \A p \in DOMAIN flat : flat[p] = Operands(args[p[1]], tag)[p[2]]
  BY DEF flatten_operands
<1> HIDE DEF flat
<1>2. ASSUME NEW p \in DOMAIN flat
      PROVE  p = <<p[1], p[2]>> /\ p[1] \in DOMAIN args /\ p[2] \in DOMAIN Operands(args[p[1]], tag)
  <2>1. PICK k \in DOMAIN args : p \in {k} \X DOMAIN Operands(args[k], tag)
    BY <1>1
  <2> QED
    BY <2>1
<1>3. ASSUME NEW k \in DOMAIN args, NEW l \in DOMAIN Operands(args[k], tag)
      PROVE  <<k, l>> \in DOMAIN flat /\ flat[<<k, l>>] = Operands(args[k], tag)[l]
  <2>1. <<k, l>> \in {k} \X DOMAIN Operands(args[k], tag)
    OBVIOUS
  <2>2. <<k, l>> \in DOMAIN flat
    BY <1>1, <2>1, Zenon
  <2>3. <<k, l>>[1] = k /\ <<k, l>>[2] = l
    OBVIOUS
  <2> QED
    BY <1>1, <2>2, <2>3
<1>4. IsFiniteSet(DOMAIN flat)
  <2>1. IsFiniteSet(DOMAIN args)
    <3>1. DOMAIN args = 1 .. Len(args) /\ Len(args) \in Nat
      OBVIOUS
    <3> QED
      BY <3>1, FS_Interval
  <2>2. \A k \in DOMAIN args : DOMAIN Operands(args[k], tag) \in SUBSET (1 .. MaxPool + 1)
    <3> TAKE k \in DOMAIN args
    <3> DEFINE operands == Operands(args[k], tag)
    <3>1. operands \in Seq(Interned) /\ Len(operands) <= MaxPool + 1
      BY OperandsAreFlat
    <3> HIDE DEF operands
    <3> QED
      BY <3>1, BoundsAreNaturals DEF operands
  <2>3. \A p \in DOMAIN flat : \E k \in DOMAIN args : \E D \in SUBSET (1 .. MaxPool + 1) : p \in {k} \X D
    BY <1>1, <2>2
  <2>4. MaxPool + 1 \in Nat
    BY BoundsAreNaturals
  <2> QED
    BY <2>1, <2>3, <2>4, FinitePlaces, Zenon
<1>5. \A p \in DOMAIN flat : flat[p] \in Interned
  BY FlattenedIsFlat DEF flat
<1> QED
  BY <1>1, <1>2, <1>3, <1>4, <1>5 DEF flat

\* Nothing is contributed by no argument, everything by all.
LEMMA EndsOfPlaces ==
    ASSUME IInv, IndicesFit, NEW tag \in Variadic, NEW args \in Seq(Interned)
    PROVE  /\ BagOf(Term, FirstOperands(args, tag, 0)) = Bank!EmptyBag
           /\ FirstOperands(args, tag, Len(args)) = flatten_operands(args, tag)
<1> DEFINE flat == flatten_operands(args, tag)
<1>1. \A p \in DOMAIN flat : p[1] \in 1 .. Len(args)
  <2>1. DOMAIN args = 1 .. Len(args)
    OBVIOUS
  <2> QED
    BY <2>1, PlacesAreFinite
<1>2. Len(args) \in Nat
  OBVIOUS
<1>3. flat = [p \in DOMAIN flat |-> flat[p]]
  BY DEF flatten_operands
<1> HIDE DEF flat
<1>4. {p \in DOMAIN flat : p[1] <= 0} = {} /\ {p \in DOMAIN flat : p[1] <= Len(args)} = DOMAIN flat
  <2>1. \A k \in 1 .. Len(args) : ~(k <= 0) /\ k <= Len(args)
    BY <1>2
  <2> QED
    BY <1>1, <2>1
<1>5. FirstOperands(args, tag, Len(args)) = flat
  BY <1>3, <1>4, Zenon DEF FirstOperands, FirstPlaces, flat
<1>6. DOMAIN FirstOperands(args, tag, 0) = {}
  BY <1>4, Zenon DEF FirstOperands, FirstPlaces, flat
<1>7. BagOf(Term, FirstOperands(args, tag, 0)) = Bank!EmptyBag
  <2> DEFINE s == FirstOperands(args, tag, 0)
  <2> HIDE DEF s
  <2>1. {Term[s[k]] : k \in DOMAIN s} = {}
    BY <1>6 DEF s
  <2>2. BagOf(Term, s) = [t \in {} |-> Times(t, s)]
    BY <2>1, BagIsTimes
  <2> QED
    BY <2>2 DEF s, Bank!EmptyBag, Bank!SetToBag
<1> QED
  BY <1>5, <1>7 DEF flat

\* The occurrences of a term among the operands of the first n arguments are
\* those among the first n - 1, and those among the operands of the n-th.
LEMMA TimesAdd ==
    ASSUME IInv, IndicesFit, NEW tag \in Variadic, NEW args \in Seq(Interned),
           NEW n \in DOMAIN args, NEW t
    PROVE  /\ Times(t, FirstOperands(args, tag, n))
                = Times(t, FirstOperands(args, tag, n - 1)) + Times(t, Operands(args[n], tag))
           /\ Times(t, FirstOperands(args, tag, n - 1)) \in Nat
           /\ Times(t, Operands(args[n], tag)) \in Nat
<1> DEFINE flat == flatten_operands(args, tag)
           own  == Operands(args[n], tag)
           A == {p \in DOMAIN flat : p[1] <= n - 1 /\ Term[flat[p]] = t}
           L == {l \in DOMAIN own : Term[own[l]] = t}
           B == {p \in DOMAIN flat : p[1] = n /\ Term[flat[p]] = t}
           C == {p \in DOMAIN flat : p[1] <= n /\ Term[flat[p]] = t}
<1>1. n \in Nat
  OBVIOUS
<1>2. /\ IsFiniteSet(DOMAIN flat)
      /\ \A p \in DOMAIN flat : /\ p = <<p[1], p[2]>> /\ p[1] \in Nat
                                /\ (p[1] = n => p[2] \in DOMAIN own /\ flat[p] = own[p[2]])
      /\ \A l \in DOMAIN own : <<n, l>> \in DOMAIN flat /\ flat[<<n, l>>] = own[l]
  <2>1. DOMAIN args \subseteq Nat
    OBVIOUS
  <2> QED
    BY <2>1, PlacesAreFinite
<1> HIDE DEF flat, own
<1>3. C = A \cup B /\ A \cap B = {}
  BY <1>1, <1>2
<1>4. IsFiniteSet(A) /\ IsFiniteSet(B) /\ Cardinality(A) \in Nat
  <2>1. A \in SUBSET DOMAIN flat /\ B \in SUBSET DOMAIN flat
    OBVIOUS
  <2> HIDE DEF A, B
  <2> QED
    BY <1>2, <2>1, FS_Subset, FS_CardinalityType
<1>5. Cardinality(L) = Cardinality(B)
  <2> DEFINE f == [p \in B |-> p[2]]
  <2>1. f \in Bijection(B, L)
    <3>1. \A p \in B : p[2] \in L
      BY <1>2
    <3>2. \A p, q \in B : p[2] = q[2] => p = q
      <4>1. \A p \in B : p = <<n, p[2]>>
        BY <1>2
      <4> HIDE DEF B
      <4> QED
        BY <4>1, Zenon
    <3>3. \A l \in L : \E p \in B : p[2] = l
      <4> TAKE l \in L
      <4>1. <<n, l>> \in B
        BY <1>2
      <4>2. <<n, l>>[2] = l
        OBVIOUS
      <4> HIDE DEF B
      <4> QED
        BY <4>1, <4>2, Zenon
    <3> HIDE DEF B, L
    <3> QED
      BY <3>1, <3>2, <3>3 DEF Bijection, Injection, Surjection, IsInjective
  <2>2. ExistsBijection(B, L)
    <3> HIDE DEF B, L, f
    <3> QED
      BY <2>1, Zenon DEF ExistsBijection
  <2> HIDE DEF B, L
  <2> QED
    BY <1>4, <2>2, FS_Bijection
<1>6. Cardinality(C) = Cardinality(A) + Cardinality(B) /\ Cardinality(B) \in Nat
  <2> HIDE DEF A, B, C
  <2>1. Cardinality({}) = 0
    BY FS_EmptySet
  <2>2. Cardinality(A \cup B) = Cardinality(A) + Cardinality(B) - Cardinality(A \cap B)
    BY <1>4, FS_Union
  <2>3. Cardinality(B) \in Nat
    BY <1>4, FS_CardinalityType
  <2>4. Cardinality(A \cap B) = 0
    BY <1>3, <2>1, Zenon
  <2>5. Cardinality(C) = Cardinality(A) + Cardinality(B) - 0
    BY <1>3, <2>2, <2>4, Zenon
  <2> QED
    BY <1>4, <2>3, <2>5
<1>7. \A m : Times(t, FirstOperands(args, tag, m)) = Cardinality({p \in DOMAIN flat : p[1] <= m /\ Term[flat[p]] = t})
  <2> TAKE m
  <2> DEFINE s == FirstOperands(args, tag, m)
  <2>1. DOMAIN s = {p \in DOMAIN flat : p[1] <= m} /\ \A p \in DOMAIN s : s[p] = flat[p]
    BY DEF FirstOperands, FirstPlaces, flat
  <2> HIDE DEF s
  <2>2. {p \in DOMAIN s : Term[s[p]] = t} = {p \in DOMAIN flat : p[1] <= m /\ Term[flat[p]] = t}
    BY <2>1
  <2> QED
    BY <2>2, Zenon DEF Times, s
<1>8. Times(t, own) = Cardinality(L)
  BY Zenon DEF Times
<1> HIDE DEF A, B, C, L
<1>9. Times(t, FirstOperands(args, tag, n)) = Cardinality(C) /\ Times(t, FirstOperands(args, tag, n - 1)) = Cardinality(A)
  BY <1>7, Zenon DEF A, C
<1> QED
  BY <1>4, <1>5, <1>6, <1>8, <1>9, Zenon DEF own

\* One more argument adds the terms of its operands.
LEMMA BagsAdd ==
    ASSUME IInv, IndicesFit, NEW tag \in Variadic, NEW args \in Seq(Interned), NEW n \in DOMAIN args
    PROVE  BagOf(Term, FirstOperands(args, tag, n)) =
             Bank!(+)(BagOf(Term, FirstOperands(args, tag, n - 1)), Contributes(args[n], tag))
<1> DEFINE old == FirstOperands(args, tag, n - 1)
           own == Operands(args[n], tag)
           new == FirstOperands(args, tag, n)
           flat == flatten_operands(args, tag)
           A == {Term[old[k]] : k \in DOMAIN old}
           B == {Term[own[k]] : k \in DOMAIN own}
           C == {Term[new[k]] : k \in DOMAIN new}
<1>1. Contributes(args[n], tag) = BagOf(Term, own)
  <2>1. args[n] \in Interned
    OBVIOUS
  <2> QED
    BY <2>1, ContributesOperands
<1>2. \A t : /\ Times(t, new) = Times(t, old) + Times(t, own)
             /\ Times(t, old) \in Nat /\ Times(t, own) \in Nat
  BY TimesAdd
<1>3. /\ DOMAIN old = {p \in DOMAIN flat : p[1] <= n - 1} /\ (\A p \in DOMAIN old : old[p] = flat[p])
      /\ DOMAIN new = {p \in DOMAIN flat : p[1] <= n} /\ (\A p \in DOMAIN new : new[p] = flat[p])
  BY DEF FirstOperands, FirstPlaces
<1>4. /\ \A p \in DOMAIN flat : /\ p[1] \in Nat
                                /\ (p[1] = n => p[2] \in DOMAIN own /\ flat[p] = own[p[2]])
      /\ \A l \in DOMAIN own : <<n, l>> \in DOMAIN flat /\ flat[<<n, l>>] = own[l]
      /\ n \in Nat
  <2>1. DOMAIN args \subseteq Nat
    OBVIOUS
  <2> QED
    BY <2>1, PlacesAreFinite
<1> HIDE DEF old, own, new, flat
<1>5. C = A \cup B
  <2>1. ASSUME NEW p \in DOMAIN new PROVE Term[new[p]] \in A \cup B
    <3>1. CASE p[1] = n
      BY <1>3, <1>4, <3>1
    <3>2. CASE p[1] # n
      <4>1. p \in DOMAIN old
        BY <1>3, <1>4, <3>2
      <4>2. Term[new[p]] = Term[old[p]]
        BY <1>3, <4>1
      <4> QED
        BY <4>1, <4>2
    <3> QED
      BY <3>1, <3>2
  <2>2. ASSUME NEW p \in DOMAIN old PROVE Term[old[p]] \in C
    <3>1. p \in DOMAIN new /\ Term[new[p]] = Term[old[p]]
      BY <1>3, <1>4
    <3> QED
      BY <3>1
  <2>3. ASSUME NEW l \in DOMAIN own PROVE Term[own[l]] \in C
    <3> DEFINE p == <<n, l>>
    <3>1. p \in DOMAIN flat /\ p[1] = n /\ flat[p] = own[l]
      BY <1>4
    <3> HIDE DEF p
    <3>2. p \in DOMAIN new /\ Term[new[p]] = Term[own[l]]
      BY <1>3, <1>4, <3>1
    <3> QED
      BY <3>2
  <2> QED
    BY <2>1, <2>2, <2>3
<1>6. /\ \A t : t \notin A => Times(t, old) = 0
      /\ \A t : t \notin B => Times(t, own) = 0
  <2>1. Cardinality({}) = 0
    BY FS_EmptySet
  <2>2. ASSUME NEW t, t \notin A PROVE Times(t, old) = 0
    <3>1. {k \in DOMAIN old : Term[old[k]] = t} = {}
      BY <2>2
    <3> QED
      BY <2>1, <3>1, Zenon DEF Times
  <2>3. ASSUME NEW t, t \notin B PROVE Times(t, own) = 0
    <3>1. {k \in DOMAIN own : Term[own[k]] = t} = {}
      BY <2>3
    <3> QED
      BY <2>1, <3>1, Zenon DEF Times
  <2> QED
    BY <2>2, <2>3
<1>7. /\ BagOf(Term, old) = [t \in A |-> Times(t, old)]
      /\ BagOf(Term, own) = [t \in B |-> Times(t, own)]
      /\ BagOf(Term, new) = [t \in C |-> Times(t, new)]
  BY BagIsTimes
<1> HIDE DEF A, B, C
<1>8. \A t : /\ (IF t \in A THEN Times(t, old) ELSE 0) = Times(t, old)
             /\ (IF t \in B THEN Times(t, own) ELSE 0) = Times(t, own)
  BY <1>6, Zenon
<1>9. Bank!(+)([t \in A |-> Times(t, old)], [t \in B |-> Times(t, own)])
        = [t \in A \cup B |-> Times(t, old) + Times(t, own)]
  <2> DEFINE f == [t \in A |-> Times(t, old)]
             g == [t \in B |-> Times(t, own)]
  <2>1. Bank!(+)(f, g) = [t \in DOMAIN f \cup DOMAIN g |->
                            (IF t \in DOMAIN f THEN f[t] ELSE 0) + (IF t \in DOMAIN g THEN g[t] ELSE 0)]
    BY Zenon DEF Bank!(+)
  <2>2. DOMAIN f = A /\ DOMAIN g = B
    OBVIOUS
  <2>3. \A t : /\ (IF t \in A THEN f[t] ELSE 0) = Times(t, old)
               /\ (IF t \in B THEN g[t] ELSE 0) = Times(t, own)
    BY <1>8
  <2> HIDE DEF f, g
  <2>4. \A t : (IF t \in A THEN f[t] ELSE 0) + (IF t \in B THEN g[t] ELSE 0) = Times(t, old) + Times(t, own)
    BY <2>3, Zenon
  <2>5. [t \in A \cup B |-> (IF t \in A THEN f[t] ELSE 0) + (IF t \in B THEN g[t] ELSE 0)]
          = [t \in A \cup B |-> Times(t, old) + Times(t, own)]
    BY <2>4, Zenon
  <2> QED
    BY <2>1, <2>2, <2>5, Zenon DEF f, g
<1>10. [t \in C |-> Times(t, new)] = [t \in A \cup B |-> Times(t, old) + Times(t, own)]
  BY <1>2, <1>5, Zenon
<1> QED
  BY <1>1, <1>7, <1>9, <1>10, Zenon DEF old, own, new

\* The operand bag of TermBank is the bag of the flattened operands.
LEMMA OperandBagIsFlat ==
    ASSUME IInv, IndicesFit, NEW tag \in Variadic, NEW args \in Seq(Interned)
    PROVE  Bank!OperandBag(tag, args) = BagOf(Term, flatten_operands(args, tag))
<1> DEFINE Recursion(sum) == sum = [k \in 0 .. Len(args) |->
                IF k = 0 THEN Bank!EmptyBag
                         ELSE Bank!(+)(sum[k - 1], Contributes(args[k], tag))]
           G(k) == BagOf(Term, FirstOperands(args, tag, k))
           g == [k \in 0 .. Len(args) |-> G(k)]
<1>1. Len(args) \in Nat /\ DOMAIN args = 1 .. Len(args)
  OBVIOUS
<1>2. /\ G(0) = Bank!EmptyBag
      /\ \A k \in DOMAIN args : G(k) = Bank!(+)(G(k - 1), Contributes(args[k], tag))
      /\ G(Len(args)) = BagOf(Term, flatten_operands(args, tag))
  BY EndsOfPlaces, BagsAdd
<1> HIDE DEF G
<1>3. ASSUME NEW k \in 0 .. Len(args)
      PROVE  G(k) = IF k = 0 THEN Bank!EmptyBag ELSE Bank!(+)(g[k - 1], Contributes(args[k], tag))
  <2>1. CASE k = 0
    BY <1>2, <2>1
  <2>2. CASE k # 0
    <3>1. k \in DOMAIN args /\ k - 1 \in 0 .. Len(args)
      BY <1>1, <2>2
    <3>2. g[k - 1] = G(k - 1)
      BY <3>1
    <3> HIDE DEF g
    <3> QED
      BY <1>2, <2>2, <3>1, <3>2
  <2> QED
    BY <2>1, <2>2
<1>4. Recursion(g)
  <2> HIDE DEF g
  <2>1. [k \in 0 .. Len(args) |-> G(k)] = [k \in 0 .. Len(args) |->
                IF k = 0 THEN Bank!EmptyBag ELSE Bank!(+)(g[k - 1], Contributes(args[k], tag))]
    BY <1>3, Zenon
  <2> QED
    BY <2>1, Zenon DEF g
<1> DEFINE sum == CHOOSE sum : Recursion(sum)
<1>5. Recursion(sum)
  <2> HIDE DEF Recursion, g
  <2> QED
    BY <1>4
<1> HIDE DEF g
<1>6. \A k \in 0 .. Len(args) :
         sum[k] = IF k = 0 THEN Bank!EmptyBag ELSE Bank!(+)(sum[k - 1], Contributes(args[k], tag))
  <2> HIDE DEF sum
  <2> DEFINE V(k) == IF k = 0 THEN Bank!EmptyBag ELSE Bank!(+)(sum[k - 1], Contributes(args[k], tag))
  <2>1. sum = [k \in 0 .. Len(args) |-> V(k)]
    BY <1>5, Zenon
  <2> HIDE DEF V
  <2>2. \A k \in 0 .. Len(args) : sum[k] = V(k)
    BY <2>1
  <2> QED
    BY <2>2, Zenon DEF V
<1>7. Bank!OperandBag(tag, args) = sum[Len(args)]
  BY OperandBagIsChosen, Zenon
<1> HIDE DEF sum
<1> DEFINE S == {k \in Nat : k \in 0 .. Len(args) => sum[k] = G(k)}
<1>8. 0 \in S
  BY <1>1, <1>2, <1>6
<1>9. ASSUME NEW k \in Nat, k \in S PROVE k + 1 \in S
  <2> SUFFICES ASSUME k + 1 \in 0 .. Len(args) PROVE sum[k + 1] = G(k + 1)
    OBVIOUS
  <2>1. k + 1 # 0 /\ k + 1 \in DOMAIN args /\ (k + 1) - 1 = k /\ k \in 0 .. Len(args)
    BY <1>1
  <2>2. sum[k + 1] = Bank!(+)(sum[k], Contributes(args[k + 1], tag))
    BY <1>6, <2>1
  <2>3. G(k + 1) = Bank!(+)(G(k), Contributes(args[k + 1], tag))
    BY <1>2, <2>1
  <2>4. sum[k] = G(k)
    BY <1>9, <2>1
  <2> QED
    BY <2>2, <2>3, <2>4
<1> HIDE DEF S
<1>10. \A k \in Nat : k \in S
  BY <1>8, <1>9, SetInduction
<1>11. sum[Len(args)] = G(Len(args))
  BY <1>1, <1>10 DEF S
<1> QED
  BY <1>2, <1>7, <1>11

\* Rearranging operands leaves their bag of terms alone.
LEMMA ArrangedBag ==
    ASSUME StoreInv, IndicesFit, NEW s, IsFiniteSet(DOMAIN s),
           \A p \in DOMAIN s : s[p] \in Interned,
           NEW r \in Arrangements(s)
    PROVE  BagOf(Term, r) = BagOf(Term, s)
<1> DEFINE X == {s[p] : p \in DOMAIN s}
<1>1. /\ r \in [1 .. Cardinality(DOMAIN s) -> X]
      /\ \A x \in X : Count(x, r) = Count(x, s)
  BY DEF Arrangements
<1>2. \A x, y \in Interned : Term[x] = Term[y] => x = y
  BY TermInjective
<1>3. /\ \A k \in DOMAIN r : r[k] \in Interned /\ \E p \in DOMAIN s : r[k] = s[p]
      /\ \A x \in X : x \in Interned
  BY <1>1
<1>4. ASSUME NEW p \in DOMAIN s PROVE \E k \in DOMAIN r : r[k] = s[p]
  <2> SUFFICES ASSUME \A k \in DOMAIN r : r[k] # s[p] PROVE FALSE
    OBVIOUS
  <2>1. {k \in DOMAIN r : r[k] = s[p]} = {}
    OBVIOUS
  <2>2. Count(s[p], r) = 0
    BY <2>1, FS_EmptySet, Zenon DEF Count
  <2> DEFINE Y == {k \in DOMAIN s : s[k] = s[p]}
  <2>3. Y \in SUBSET DOMAIN s /\ p \in Y
    OBVIOUS
  <2>4. Cardinality(Y) = 0
    BY <1>1, <2>2, Zenon DEF Count
  <2> HIDE DEF Y
  <2>5. IsFiniteSet(Y)
    BY <2>3, FS_Subset
  <2>6. Y = {}
    BY <2>4, <2>5, FS_EmptySet
  <2> QED
    BY <2>3, <2>6
<1>5. {Term[r[k]] : k \in DOMAIN r} = {Term[s[k]] : k \in DOMAIN s}
  <2>1. ASSUME NEW k \in DOMAIN r PROVE Term[r[k]] \in {Term[s[p]] : p \in DOMAIN s}
    <3>1. PICK p \in DOMAIN s : r[k] = s[p]
      BY <1>3
    <3> QED
      BY <3>1
  <2>2. ASSUME NEW p \in DOMAIN s PROVE Term[s[p]] \in {Term[r[k]] : k \in DOMAIN r}
    <3>1. PICK k \in DOMAIN r : r[k] = s[p]
      BY <1>4
    <3> QED
      BY <3>1
  <2> HIDE DEF X
  <2> QED
    BY <2>1, <2>2
<1>6. ASSUME NEW p \in DOMAIN s PROVE Times(Term[s[p]], r) = Times(Term[s[p]], s)
  <2>1. {k \in DOMAIN r : Term[r[k]] = Term[s[p]]} = {k \in DOMAIN r : r[k] = s[p]}
    BY <1>2, <1>3
  <2>2. {k \in DOMAIN s : Term[s[k]] = Term[s[p]]} = {k \in DOMAIN s : s[k] = s[p]}
    BY <1>2
  <2>3. Count(s[p], r) = Count(s[p], s)
    BY <1>1
  <2> QED
    BY <2>1, <2>2, <2>3, Zenon DEF Times, Count
<1>7. \A t \in {Term[r[k]] : k \in DOMAIN r} : Times(t, r) = Times(t, s)
  <2> TAKE t \in {Term[r[k]] : k \in DOMAIN r}
  <2>1. PICK p \in DOMAIN s : t = Term[s[p]]
    BY <1>5
  <2> QED
    BY <1>6, <2>1
<1> QED
  BY <1>5, <1>7, SameBag

\* What a builder looks for: tag, payload and children.
Wanted(request, children) ==
    [tag |-> request.tag, payload |-> request.payload, children |-> children]

LEMMA MeaningIsTerm ==
    ASSUME StoreInv, IndicesFit, NEW request, Callable(request),
           NEW children \in ChildLists(request)
    PROVE  Bank!Meaning(request) = TermOf(Term, Wanted(request, children))
<1>1. IInv
  BY DEF StoreInv
<1>2. request.args \in Seq(Interned)
  BY DEF Callable
<1>3. Bank!Variadic = Variadic
  BY DEF Bank!Variadic, Variadic
<1> DEFINE key == Wanted(request, children)
<1>4. key.tag = request.tag /\ key.payload = request.payload /\ key.children = children
  BY DEF Wanted
<1> HIDE DEF key
<1>5. CASE request.tag \in Variadic
  <2> DEFINE flat == flatten_operands(request.args, request.tag)
  <2>1. Bank!OperandBag(request.tag, request.args) = BagOf(Term, flat)
    BY <1>1, <1>2, <1>5, OperandBagIsFlat
  <2>2. IsFiniteSet(DOMAIN flat) /\ \A p \in DOMAIN flat : flat[p] \in Interned
    BY <1>1, <1>2, <1>5, PlacesAreFinite
  <2>3. children \in Arrangements(flat)
    BY <1>1, <1>5, ChildListsAscend
  <2> HIDE DEF flat
  <2>4. BagOf(Term, children) = BagOf(Term, flat)
    BY <2>2, <2>3, ArrangedBag
  <2> QED
    BY <1>3, <1>4, <1>5, <2>1, <2>4, Zenon DEF Bank!Meaning, TermOf, key
<1>6. CASE request.tag \notin Variadic
  <2>1. children = request.args
    BY <1>6 DEF ChildLists
  <2>2. \A k \in DOMAIN request.args : TermsGiven[request.args[k]] = Term[request.args[k]]
    BY <1>2 DEF TermsGiven
  <2>3. [k \in DOMAIN request.args |-> TermsGiven[request.args[k]]] = [k \in DOMAIN children |-> Term[children[k]]]
    BY <2>1, <2>2, Zenon
  <2> QED
    BY <1>3, <1>4, <1>6, <2>3, Zenon DEF Bank!Meaning, TermOf, key, TermsGiven
<1> QED
  BY <1>5, <1>6

\* Operands of another kind than the call's own are taken as they are.
LEMMA OperandBagOfOthers ==
    ASSUME IInv, IndicesFit, NEW tag \in Variadic, NEW args \in Seq(Interned),
           \A k \in DOMAIN args : KeyOf(args[k]).tag # tag
    PROVE  Bank!OperandBag(tag, args) = BagOf(Term, args)
<1> DEFINE flat == flatten_operands(args, tag)
           D == DOMAIN flat
           N == DOMAIN args
<1>1. \A k \in N : Operands(args[k], tag) = <<args[k]>>
  BY DEF Operands, KeyOf, Key
<1>2. /\ IsFiniteSet(D)
      /\ \A p \in D : p = <<p[1], p[2]>> /\ p[1] \in N /\ p[2] = 1 /\ flat[p] = args[p[1]]
      /\ \A k \in N : <<k, 1>> \in D /\ <<k, 1>>[1] = k /\ flat[<<k, 1>>] = args[k]
  <2>1. \A k \in N : DOMAIN Operands(args[k], tag) = {1} /\ Operands(args[k], tag)[1] = args[k]
    BY <1>1
  <2> QED
    BY <2>1, PlacesAreFinite
<1> HIDE DEF flat, D, N
<1>3. {Term[flat[p]] : p \in D} = {Term[args[k]] : k \in N}
  <2>1. ASSUME NEW p \in D PROVE Term[flat[p]] \in {Term[args[k]] : k \in N}
    BY <1>2
  <2>2. ASSUME NEW k \in N PROVE Term[args[k]] \in {Term[flat[p]] : p \in D}
    <3>1. <<k, 1>> \in D /\ flat[<<k, 1>>] = args[k]
      BY <1>2
    <3>2. Term[flat[<<k, 1>>]] \in {Term[flat[p]] : p \in D}
      BY <3>1, Zenon
    <3> QED
      BY <3>1, <3>2
  <2> QED
    BY <2>1, <2>2
<1>4. ASSUME NEW t PROVE Times(t, flat) = Times(t, args)
  <2> DEFINE A == {p \in D : Term[flat[p]] = t}
             B == {k \in N : Term[args[k]] = t}
             f == [p \in A |-> p[1]]
  <2>1. \A p \in A : p[1] \in B
    BY <1>2
  <2>2. \A p, q \in A : p[1] = q[1] => p = q
    <3>1. \A p \in A : p = <<p[1], 1>>
      BY <1>2
    <3> HIDE DEF A
    <3> QED
      BY <3>1, Zenon
  <2>3. \A k \in B : \E p \in A : p[1] = k
    <3> TAKE k \in B
    <3>1. <<k, 1>> \in A /\ <<k, 1>>[1] = k
      BY <1>2
    <3> HIDE DEF A
    <3> QED
      BY <3>1, Zenon
  <2>4. f \in Bijection(A, B)
    <3> HIDE DEF A, B
    <3> QED
      BY <2>1, <2>2, <2>3 DEF Bijection, Injection, Surjection, IsInjective
  <2>5. A \in SUBSET D
    OBVIOUS
  <2>6. Cardinality(A) = Cardinality(B)
    <3> HIDE DEF A, B, f
    <3>1. ExistsBijection(A, B)
      BY <2>4, Zenon DEF ExistsBijection
    <3>2. IsFiniteSet(A)
      BY <1>2, <2>5, FS_Subset
    <3> QED
      BY <3>1, <3>2, FS_Bijection
  <2> QED
    BY <2>6, Zenon DEF Times, D, N
<1>5. BagOf(Term, flat) = BagOf(Term, args)
  BY <1>3, <1>4, SameBag DEF D, N
<1> QED
  BY <1>5, OperandBagIsFlat, Zenon DEF flat

\* A call that has nothing to flatten asks for the term of its arguments.
LEMMA FlatMeaning ==
    ASSUME IInv, IndicesFit, NEW request, Callable(request),
           \A k \in DOMAIN request.args :
               request.tag \in Variadic => KeyOf(request.args[k]).tag # request.tag
    PROVE  Bank!Meaning(request) = TermOf(Term, Wanted(request, request.args))
<1>1. request.args \in Seq(Interned)
  BY DEF Callable
<1>2. Bank!Variadic = Variadic
  BY DEF Bank!Variadic, Variadic
<1> DEFINE key == Wanted(request, request.args)
<1>3. key.tag = request.tag /\ key.payload = request.payload /\ key.children = request.args
  BY DEF Wanted
<1> HIDE DEF key
<1>4. CASE request.tag \in Variadic
  <2>1. Bank!OperandBag(request.tag, request.args) = BagOf(Term, request.args)
    BY <1>1, <1>4, OperandBagOfOthers
  <2> QED
    BY <1>2, <1>3, <1>4, <2>1, Zenon DEF Bank!Meaning, TermOf, key
<1>5. CASE request.tag \notin Variadic
  <2>1. [k \in DOMAIN request.args |-> TermsGiven[request.args[k]]]
          = [k \in DOMAIN request.args |-> Term[request.args[k]]]
    <3>1. \A k \in DOMAIN request.args : TermsGiven[request.args[k]] = Term[request.args[k]]
      BY <1>1 DEF TermsGiven
    <3> QED
      BY <3>1, Zenon
  <2> QED
    BY <1>2, <1>3, <1>5, <2>1, Zenon DEF Bank!Meaning, TermOf, key, TermsGiven
<1> QED
  BY <1>4, <1>5

\* What a builder looks for is in normal form, and its parts told apart.
LEMMA WantedIsNormal ==
    ASSUME StoreInv, IndicesFit, NEW request, Callable(request),
           NEW children \in ChildLists(request),
           Len(child_pool) + Len(children) <= MaxPool
    PROVE  /\ Normal(Wanted(request, children)) /\ ToldApart(children)
           /\ children \in Seq(Interned) /\ children \in Seq(Nat)
           /\ Key(Candidate(request, children), child_pool \o children) = Wanted(request, children)
<1>1. IInv
  BY DEF StoreInv
<1>2. children \in Seq(Interned) /\ (request.tag \in {"Num", "Var"} => children = <<>>)
  BY <1>1, ChildListsAreFlat
<1>3. children \in Seq(Nat)
  <2>1. Interned \subseteq Nat
    BY <1>1, InternedAreNodes DEF IInv
  <2> QED
    BY <1>2, <2>1, SeqOfMore
<1>4. Normal(Wanted(request, children))
  <2>1. request.tag \in Variadic => Ascending(children)
    BY <1>1, ChildListsAscend
  <2> QED
    BY <1>2, <2>1 DEF Normal, Wanted
<1>5. ToldApart(children)
  BY <1>2, TermInjective DEF ToldApart
<1>6. Key(Candidate(request, children), child_pool \o children) = Wanted(request, children)
  <2> DEFINE node == Candidate(request, children)
  <2>1. node.tag = request.tag /\ node.payload = request.payload
    BY DEF Candidate
  <2>2. Children(node, child_pool \o children) = children
    BY <1>1, <1>2, <1>3, CandidateFits DEF IInv, Callable
  <2> HIDE DEF node
  <2> QED
    BY <2>1, <2>2 DEF Key, Wanted, node
<1> QED
  BY <1>2, <1>3, <1>4, <1>5, <1>6

-----------------------------------------------------------------------------
(* The steps of the store are steps of the bank.                            *)

LEMMA GivenKept ==
    ASSUME IInv, IInv', IndicesFit, SlotsKept, Interned' = Interned
    PROVE  TermsGiven' = TermsGiven
<1>1. \A i \in Interned : Term'[i] = Term[i]
  BY TermStable, SlotFacts
<1>2. [i \in Interned |-> Term'[i]] = [i \in Interned |-> Term[i]]
  BY <1>1, Zenon
<1> QED
  BY <1>2, Zenon DEF TermsGiven

\* intern() finds the handle of the request's term.
LEMMA HitBuilds ==
    ASSUME StoreInv, IInv', SlotsKept, IndicesFit, NEW request, Callable(request),
           NEW children \in ChildLists(request), Len(child_pool) + Len(children) <= MaxPool,
           InternHit(request, children)
    PROVE  Bank!Build(request)
<1>1. IInv
  BY DEF StoreInv
<1> DEFINE pool == child_pool \o children
           key == Wanted(request, children)
<1>2. /\ Normal(key) /\ children \in Seq(Nat)
      /\ Key(Candidate(request, children), pool) = key
  BY WantedIsNormal
<1>3. PICK existing \in Matches(key, pool) :
        /\ call' = [request |-> request, slot |-> existing]
        /\ child_pool' = pool /\ UNCHANGED <<nodes, hash_buckets, failures>>
  BY <1>2 DEF InternHit, Answer
<1>4. existing \in Interned /\ Key(nodes[existing + 1], pool) = key
  BY DEF Matches, Interned
<1>5. /\ existing \in Slots /\ existing \in 0 .. MaxNodes - 1
      /\ existing + 1 \in DOMAIN nodes
  <2>1. existing \in Nat /\ existing < Len(nodes) /\ existing + 1 \in DOMAIN nodes /\ existing \in Slots
    BY <1>1, <1>4, InternedAreNodes, SlotFacts DEF IInv
  <2>2. Len(nodes) \in Nat /\ Len(nodes) <= MaxNodes /\ MaxNodes \in Nat
    BY <1>1, BoundsAreNaturals DEF IInv, TypeOK
  <2> QED
    BY <2>1, <2>2
<1>6. KeyOf(existing) = key
  <2>1. KeyOf(existing)' = KeyOf(existing)
    BY <1>5 DEF SlotsKept
  <2>2. KeyOf(existing)' = Key(nodes[existing + 1], pool)
    BY <1>3 DEF KeyOf
  <2> QED
    BY <1>4, <2>1, <2>2
<1>7. Bank!Meaning(request) = TermOf(Term, key)
  BY MeaningIsTerm
<1> HIDE DEF key
<1>8. Term[existing] = TermOf(Term, key)
  BY <1>1, <1>5, <1>6, TermCalls
<1>9. existing \in DOMAIN TermsGiven /\ TermsGiven[existing] = Bank!Meaning(request)
  BY <1>4, <1>7, <1>8 DEF TermsGiven
<1>10. TermsGiven' = TermsGiven
  <2>1. Interned' = Interned
    BY <1>3 DEF Interned
  <2> QED
    BY <1>1, <2>1, GivenKept
<1> QED
  BY <1>3, <1>5, <1>9, <1>10, Zenon DEF Bank!Build, Bank!Issued, TermsGiven

InternedAreSlots == Interned \subseteq Slots

LEMMA SlotsNext ==
    ASSUME IndicesFit
    PROVE  IInv' => InternedAreSlots'
<1>1. IInv => InternedAreSlots
  BY SlotFacts DEF InternedAreSlots
<1> QED
  BY <1>1, PTL

\* intern() gives a term without a handle the next one.
LEMMA MissBuilds ==
    ASSUME StoreInv, IInv', SlotsKept, IndicesFit, NEW request, Callable(request),
           NEW children \in ChildLists(request), Len(child_pool) + Len(children) <= MaxPool,
           InternMiss(request, children)
    PROVE  Bank!Build(request)
<1>1. IInv
  BY DEF StoreInv
<1> DEFINE pool == child_pool \o children
           key == Wanted(request, children)
<1>0. PICK h : h = Len(nodes)
  OBVIOUS
<1>2. /\ Normal(key) /\ ToldApart(key.children) /\ children \in Seq(Interned)
      /\ Key(Candidate(request, children), pool) = key
  BY WantedIsNormal DEF Wanted
<1>3. nodes \in Seq(Node) /\ h \in Nat /\ MaxNodes \in Nat /\ h < MaxNodes /\ h < IndexRange
  <2>1. nodes \in Seq(Node) /\ h \in Nat /\ MaxNodes \in Nat /\ IndexRange \in Nat
    BY <1>0, <1>1, BoundsAreNaturals, IndexRangeIsPositive DEF IInv, TypeOK
  <2>2. h < MaxNodes
    BY <1>0 DEF InternMiss
  <2> QED
    BY <2>1, <2>2 DEF IndicesFit
<1>4. Truncate(h) = h
  BY <1>3, TruncateSmall
<1>5. /\ Matches(key, pool) = {}
      /\ nodes' = Append(nodes, Candidate(request, children))
      /\ hash_buckets' = hash_buckets \cup {[hash |-> Hash(key), slot |-> h]}
      /\ child_pool' = pool
      /\ call' = [request |-> request, slot |-> h]
  BY <1>0, <1>2, <1>4 DEF InternMiss, Answer
<1>6. Interned' = Interned \cup {h} /\ h \notin Interned
  <2> DEFINE e == [hash |-> Hash(key), slot |-> h]
  <2>0. e.slot = h /\ hash_buckets' = hash_buckets \cup {e}
    BY <1>5
  <2> HIDE DEF e
  <2>1. Interned' = Interned \cup {h}
    BY <2>0 DEF Interned
  <2>2. \A i \in Interned : i \in Nat /\ i < h
    BY <1>0, <1>1, InternedAreNodes DEF IInv
  <2> QED
    BY <1>3, <2>1, <2>2
<1>7. KeyOf(h)' = key
  <2>1. nodes'[h + 1] = Candidate(request, children)
    <3>1. nodes \in Seq(Node \cup {Candidate(request, children)})
      BY <1>3
    <3> QED
      BY <1>0, <1>3, <1>5, <3>1
  <2> QED
    BY <1>2, <1>5, <2>1 DEF KeyOf
<1>8. h \in Slots'
  <2>1. h \in Interned'
    BY <1>6
  <2> QED
    BY <2>1, SlotsNext DEF InternedAreSlots
<1>9. Bank!Meaning(request) = TermOf(Term, key)
  BY MeaningIsTerm
<1>10. \A i \in Interned : i \in Slots /\ Term[i] = TermOf(Term, KeyOf(i)) /\ Term'[i] = Term[i]
  BY <1>1, SlotFacts, TermCalls, TermStable
<1>11. Term'[h] = TermOf(Term, key)
  <2>1. Term'[h] = TermOf(Term', key)
    BY <1>7, <1>8, TermCallsNext DEF TermHolds
  <2>2. \A k \in DOMAIN key.children : Term'[key.children[k]] = Term[key.children[k]]
    BY <1>2, <1>10 DEF Wanted
  <2> HIDE DEF key
  <2> QED
    BY <2>1, <2>2, TermOfLocal
<1> HIDE DEF key, pool
<1>12. ASSUME NEW i \in Interned PROVE Term[i] # TermOf(Term, key)
  <2> SUFFICES ASSUME Term[i] = TermOf(Term, key) PROVE FALSE
    OBVIOUS
  <2>1. Normal(KeyOf(i)) /\ i \in Slots
    BY <1>10, NodesAreNormal
  <2>2. TermOf(Term, key) = TermOf(Term, KeyOf(i))
    BY <1>10
  <2>3. key = KeyOf(i)
    BY <1>1, <1>2, <2>1, <2>2, KeyOfTerm
  <2>4. PICK e \in hash_buckets : e.slot = i
    BY DEF Interned
  <2>5. e.hash = Hash(KeyOf(i))
    BY <1>1, <2>4 DEF IInv, EntriesValid
  <2>6. Key(nodes[i + 1], pool) = KeyOf(i)
    <3>1. KeyOf(i)' = KeyOf(i) /\ i + 1 \in DOMAIN nodes
      BY <1>1, <2>1, InternedAreNodes DEF SlotsKept, IInv
    <3>2. nodes'[i + 1] = nodes[i + 1]
      BY <1>3, <1>5, <3>1, AppendKeeps
    <3> QED
      BY <1>5, <3>1, <3>2 DEF KeyOf
  <2>7. i \in Matches(key, pool)
    BY <2>3, <2>4, <2>5, <2>6 DEF Matches
  <2> QED
    BY <1>5, <2>7
<1> DEFINE t == TermOf(Term, key)
<1>13. /\ DOMAIN TermsGiven = Interned /\ (\A i \in Interned : TermsGiven[i] = Term[i])
       /\ TermsGiven' = [i \in Interned \cup {h} |-> IF i = h THEN t ELSE TermsGiven[i]]
  <2>1. DOMAIN TermsGiven = Interned /\ \A i \in Interned : TermsGiven[i] = Term[i]
    BY DEF TermsGiven
  <2>2. \A i \in Interned \cup {h} : Term'[i] = IF i = h THEN t ELSE TermsGiven[i]
    BY <1>6, <1>10, <1>11, <2>1
  <2> HIDE DEF t
  <2>3. TermsGiven' = [i \in Interned \cup {h} |-> Term'[i]]
    BY <1>6, Zenon DEF TermsGiven
  <2>4. [i \in Interned \cup {h} |-> Term'[i]] = [i \in Interned \cup {h} |-> IF i = h THEN t ELSE TermsGiven[i]]
    BY <2>2, Zenon
  <2> QED
    BY <2>1, <2>3, <2>4, Zenon
<1>14. t \notin {TermsGiven[i] : i \in DOMAIN TermsGiven}
  BY <1>12, <1>13
<1>15. h \in 0 .. MaxNodes - 1
  BY <1>3
<1> HIDE DEF t
<1>16. /\ Bank!Meaning(request) = t /\ h \notin DOMAIN TermsGiven
       /\ TermsGiven' = [i \in DOMAIN TermsGiven \cup {h} |-> IF i = h THEN t ELSE TermsGiven[i]]
  BY <1>6, <1>9, <1>13, Zenon DEF t
<1> QED
  BY <1>5, <1>14, <1>15, <1>16, Zenon DEF Bank!Build, Bank!Issued, Bank!Terms, TermsGiven

\* A builder that runs out of memory changes no term.
LEMMA FailsFail ==
    ASSUME StoreInv, IInv', SlotsKept, IndicesFit, NEW request, NEW children,
           Fails(request, children)
    PROVE  Bank!Fail(request)
<1>1. IInv
  BY DEF StoreInv
<1>2. Interned' = Interned
  BY DEF Fails, PoolFails, InternFails, Interned
<1>3. TermsGiven' = TermsGiven
  BY <1>1, <1>2, GivenKept
<1> QED
  BY <1>3, Zenon DEF Bank!Fail, Fails, Answer, TermsGiven

\* A call of the store is a call of the bank, and its answer stands for what
\* was asked for.
LEMMA CallsAreBankCalls ==
    ASSUME StoreInv, IndicesFit, NEW request, Callable(request), Build(request)
    PROVE  /\ Bank!Build(request) \/ Bank!Fail(request)
           /\ call'.slot # None =>
                call'.slot \in Interned' /\ Term'[call'.slot] = Bank!Meaning(request)
<1>1. IInv
  BY DEF StoreInv
<1>2. IInv' /\ SlotsKept
  BY <1>1, StepKeeps, StepKeepsSlots DEF Call
<1>3. PICK children \in ChildLists(request) :
        /\ Len(child_pool) + Len(children) <= MaxPool
        /\ \/ InternHit(request, children)
           \/ InternMiss(request, children)
           \/ Fails(request, children)
  BY DEF Build
<1>4. Bank!Build(request) \/ Bank!Fail(request)
  BY <1>2, <1>3, HitBuilds, MissBuilds, FailsFail
<1>5. CASE Bank!Fail(request)
  BY <1>4, <1>5 DEF Bank!Fail
<1>6. CASE Bank!Build(request)
  <2> DEFINE t == Bank!Meaning(request)
  <2>1. PICK h : /\ call' = [request |-> request, slot |-> h]
                 /\ \/ h \in DOMAIN TermsGiven /\ t = TermsGiven[h] /\ TermsGiven' = TermsGiven
                    \/ TermsGiven' = [i \in DOMAIN TermsGiven \cup {h} |-> IF i = h THEN t ELSE TermsGiven[i]]
    BY <1>6, Zenon DEF Bank!Build, Bank!Issued, TermsGiven
  <2> HIDE DEF t
  <2>2. h \in DOMAIN TermsGiven' /\ TermsGiven'[h] = t
    BY <2>1
  <2>3. DOMAIN TermsGiven' = Interned' /\ \A i \in Interned' : TermsGiven'[i] = Term'[i]
    BY DEF TermsGiven
  <2>4. call'.slot = h
    BY <2>1
  <2> QED
    BY <1>4, <2>2, <2>3, <2>4 DEF t
<1> QED
  BY <1>4, <1>5, <1>6

LEMMA StepsAreBankSteps ==
    ASSUME StoreInv, IndicesFit, [Next]_vars
    PROVE  [Bank!Next]_(Bank!bankVars)
<1>1. IInv
  BY DEF StoreInv
<1>2. IInv' /\ SlotsKept
  BY <1>1, StepKeeps, StepKeepsSlots, NextIsCall
<1>3. CASE UNCHANGED vars
  <2>1. Interned' = Interned /\ call' = call
    BY <1>3 DEF vars, Interned
  <2>2. TermsGiven' = TermsGiven
    BY <1>1, <1>2, <2>1, GivenKept
  <2> QED
    BY <2>1, <2>2, Zenon DEF Bank!bankVars, TermsGiven
<1>4. CASE Next
  <2>1. PICK request \in Requests(Interned) : Build(request)
    BY <1>4, StepsBuild
  <2>2. Callable(request)
    BY RequestsTyped DEF Callable
  <2>3. Bank!Build(request) \/ Bank!Fail(request)
    BY <2>1, <2>2, CallsAreBankCalls
  <2>4. Bank!Issued = Interned
    BY DEF Bank!Issued
  <2> QED
    BY <2>3, <2>4, Zenon DEF Bank!Next
<1> QED
  BY <1>3, <1>4

LEMMA InitIsBankInit ==
    ASSUME Init
    PROVE  Bank!Init
<1>1. Interned = {}
  BY DEF Init, Interned
<1>2. [i \in Interned |-> Term[i]] = [i \in {} |-> None]
  BY <1>1
<1>3. call = [request |-> [tag |-> "none", payload |-> 0, args |-> <<>>], slot |-> None]
  BY DEF Init, Request
<1> QED
  BY <1>2, <1>3, Zenon DEF Bank!Init

\* The store implements the bank of terms: a handle stands for one term for
\* ever, a term has one handle, sums and products are bags of flat operands.
THEOREM StoreImplementsBank == IndicesFit => (Spec => ImplementsTermBank)
<1> SUFFICES ASSUME IndicesFit PROVE Spec => ImplementsTermBank
  OBVIOUS
<1>1. Init => Bank!Init
  BY InitIsBankInit
<1>2. StoreInv /\ [Next]_vars => [Bank!Next]_(Bank!bankVars)
  BY StepsAreBankSteps
<1> QED
  BY <1>1, <1>2, StoreInvariance, PTL DEF Spec, ImplementsTermBank, Bank!Spec
=============================================================================
