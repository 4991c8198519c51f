-------------------------- MODULE AtomStores_proofs --------------------------
(* Theorems about AtomStores: what clone_into copies keeps its meaning,      *)
(* whatever the two stores build in between.                                 *)
EXTENDS AtomStores, AtomStore_proofs

\* The theorems about a store, for the store that the copies go to.
Target == INSTANCE AtomStore_proofs WITH
    nodes <- other_nodes, child_pool <- other_child_pool,
    hash_buckets <- other_hash_buckets, call <- other_call, failures <- other_failures,
    MaxFailures <- MaxCloneFailures

\* The assumptions of that instance.
LEMMA TargetAssumptions ==
    /\ Numbers \subseteq Int /\ Symbols \subseteq Nat
    /\ Tags \subseteq {"Num", "Var", "Add", "Mul", "Pow", "Fun"}
    /\ IndexRange \in Nat \ {0}
    /\ {MaxArgs, MaxNodes, MaxPool, MaxCloneFailures} \subseteq Nat
    /\ None \notin Nat
BY NumbersAreIntegers, SymbolsAreIds, TagsAreTags, IndexRangeIsPositive, BoundsAreNaturals,
   NoneIsNoSlot, CloneBoundIsNatural

\* AtomStores and this module name the same store.
LEMMA OtherIsTarget ==
    ASSUME NEW request
    PROVE  /\ Other!Term = Target!Term
           /\ Other!Init = Target!Init
           /\ Other!Build(request) = Target!Build(request)
<1>1. /\ Other!Term = Target!Term
      /\ Other!Init = Target!Init
  BY DEF Other!Term, Target!Term, Other!Slots, Target!Slots, Other!KeyOf, Target!KeyOf,
     Other!Variadic, Target!Variadic, Other!Key, Target!Key, Other!Children, Target!Children,
     Other!Truncate, Target!Truncate, Other!Cardinality, Target!Cardinality,
     Other!Init, Target!Init, Other!Request, Target!Request
<1>2. \A node, pool : Other!Key(node, pool) = Target!Key(node, pool)
  BY DEF Other!Key, Target!Key, Other!Children, Target!Children, Other!Truncate, Target!Truncate
<1>3. Other!ChildLists(request) = Target!ChildLists(request)
  BY DEF Other!ChildLists, Target!ChildLists, Other!Sorted, Target!Sorted,
     Other!Arrangements, Target!Arrangements, Other!Count, Target!Count,
     Other!Compare, Target!Compare, Other!Slots, Target!Slots, Other!KeyOf, Target!KeyOf,
     Other!Key, Target!Key, Other!Children, Target!Children, Other!Truncate, Target!Truncate,
     Other!Sign, Target!Sign, Other!TagRank, Target!TagRank,
     Other!flatten_operands, Target!flatten_operands, Other!Operands, Target!Operands,
     Other!Variadic, Target!Variadic, Other!Cardinality, Target!Cardinality
<1>4. \A children : /\ Other!Candidate(request, children) = Target!Candidate(request, children)
                    /\ \A key, pool : Other!Matches(key, pool) = Target!Matches(key, pool)
  BY DEF Other!Candidate, Target!Candidate, Other!Matches, Target!Matches, Other!Truncate, Target!Truncate,
     Other!Key, Target!Key, Other!Children, Target!Children
<1> SUFFICES ASSUME NEW children
             PROVE  /\ Other!InternHit(request, children) = Target!InternHit(request, children)
                    /\ Other!InternMiss(request, children) = Target!InternMiss(request, children)
                    /\ Other!Fails(request, children) = Target!Fails(request, children)
  BY <1>1, <1>3, Zenon DEF Other!Build, Target!Build
<1> DEFINE pool == other_child_pool \o children
           node == Target!Candidate(request, children)
           key  == Target!Key(node, pool)
<1>5. Other!Candidate(request, children) = node /\ Other!Key(node, pool) = key
      /\ Other!Matches(key, pool) = Target!Matches(key, pool)
  BY <1>2, <1>4, Zenon
<1>6. Other!Truncate(Len(other_nodes)) = Target!Truncate(Len(other_nodes))
  BY DEF Other!Truncate, Target!Truncate
<1>7. Other!InternHit(request, children) = Target!InternHit(request, children)
  BY <1>5, Zenon DEF Other!InternHit, Target!InternHit, Other!Answer, Target!Answer
<1>8. Other!InternMiss(request, children) = Target!InternMiss(request, children)
  BY <1>5, <1>6, Zenon DEF Other!InternMiss, Target!InternMiss, Other!Answer, Target!Answer
<1>9. Other!PoolFails(request, children) = Target!PoolFails(request, children)
  BY DEF Other!PoolFails, Target!PoolFails, Other!Variadic, Target!Variadic
<1>10. Other!InternFails(request, children) = Target!InternFails(request, children)
  BY <1>5, Zenon DEF Other!InternFails, Target!InternFails
<1>11. Other!Fails(request, children) = Target!Fails(request, children)
  BY <1>9, <1>10, Zenon DEF Other!Fails, Target!Fails, Other!Answer, Target!Answer
<1> QED
  BY <1>7, <1>8, <1>11

-----------------------------------------------------------------------------
(* The invariant. *)

\* Both stores are in order, and a copy means what its original means.
Copied(i) == i \in Interned /\ clones[i] \in Target!Interned /\ Target!Term[clones[i]] = Term[i]

CopiesInv == /\ StoreInv
             /\ Target!StoreInv
             /\ \A i \in DOMAIN clones : Copied(i)

\* What the code's clone_into relies on: operands of copies need no flattening.
LEMMA CloneRequestMeans ==
    ASSUME CopiesInv, IndicesFit, NEW i \in Interned,
           \A k \in DOMAIN KeyOf(i).children : KeyOf(i).children[k] \in DOMAIN clones
    PROVE  /\ Target!Callable(CloneRequest(i))
           /\ Target!Bank!Meaning(CloneRequest(i)) = Term[i]
<1> DEFINE key == KeyOf(i)
           args == [k \in DOMAIN key.children |-> clones[key.children[k]]]
           request == CloneRequest(i)
<1>1. /\ i \in Slots /\ i + 1 \in DOMAIN nodes
      /\ key.tag \in {"Num", "Var", "Add", "Mul", "Pow", "Fun"} /\ key.payload \in Int
      /\ key.children \in Seq(Interned)
  BY SlotFacts, InternedAreNodes DEF CopiesInv, StoreInv, IInv
<1>2. request.tag = key.tag /\ request.payload = key.payload /\ request.args = args
  BY DEF CloneRequest, Request
<1>3. /\ DOMAIN args = DOMAIN key.children
      /\ \A k \in DOMAIN key.children :
           /\ args[k] = clones[key.children[k]]
           /\ args[k] \in Target!Interned /\ Target!Term[args[k]] = Term[key.children[k]]
           /\ key.children[k] \in Interned
  BY DEF CopiesInv, Copied
<1>4. args \in Seq(Target!Interned)
  <2>1. Len(key.children) \in Nat /\ DOMAIN key.children = 1 .. Len(key.children)
    BY <1>1
  <2>2. args = [k \in 1 .. Len(key.children) |-> args[k]]
    BY <2>1
  <2> HIDE DEF args, key
  <2>3. args \in [1 .. Len(key.children) -> Target!Interned]
    BY <1>3, <2>1, <2>2
  <2> QED
    BY <2>1, <2>3, SequenceOf
<1>5. key.tag \in {"Num", "Var"} => args = <<>>
  <2>1. nodes[i + 1].tag \in {"Num", "Var"} => nodes[i + 1].child_count = 0
    BY <1>1 DEF CopiesInv, StoreInv, LeavesAreBare
  <2>2. key.tag \in {"Num", "Var"} => DOMAIN key.children = {}
    BY <2>1 DEF KeyOf, Key, Children
  <2> QED
    BY <1>4, <1>3, <2>2
<1>6. Target!Callable(request)
  BY <1>1, <1>2, <1>4, <1>5 DEF Target!Callable
<1>7. ASSUME NEW k \in DOMAIN key.children, key.tag \in Variadic
      PROVE  Target!KeyOf(args[k]).tag # key.tag
  <2>1. IInv /\ Target!IInv /\ Target!IndicesFit
    BY DEF CopiesInv, StoreInv, Target!StoreInv, IndicesFit, Target!IndicesFit
  <2>2. KeyOf(key.children[k]).tag # key.tag
    BY <1>7, <2>1, TermTag
  <2>3. Term[key.children[k]][1] = KeyOf(key.children[k]).tag
    BY <1>3, <2>1, TermTag
  <2>4. args[k] \in Target!Interned /\ Target!Term[args[k]] = Term[key.children[k]]
    BY <1>3
  <2> HIDE DEF args, key
  <2>5. Target!Term[args[k]][1] = Target!KeyOf(args[k]).tag
    BY <2>1, <2>4, TargetAssumptions, Target!TermTag
  <2> QED
    BY <2>2, <2>3, <2>4, <2>5
<1>8. Target!Bank!Meaning(request) = Target!TermOf(Target!Term, Target!Wanted(request, args))
  <2>1. Target!IInv /\ Target!IndicesFit
    BY DEF CopiesInv, Target!StoreInv, IndicesFit, Target!IndicesFit
  <2>2. \A k \in DOMAIN request.args :
           request.tag \in Target!Variadic => Target!KeyOf(request.args[k]).tag # request.tag
    BY <1>2, <1>3, <1>7 DEF Variadic, Target!Variadic
  <2> HIDE DEF request, args
  <2> QED
    BY <1>2, <1>6, <2>1, <2>2, TargetAssumptions, Target!FlatMeaning
<1>9. Target!TermOf(Target!Term, Target!Wanted(request, args)) = TermOf(Term, key)
  <2> DEFINE f == Target!Term
             g == Term
             s == args
             r == key.children
             w == Target!Wanted(request, args)
  <2>1. w.tag = key.tag /\ w.payload = key.payload /\ w.children = s
    BY <1>2 DEF Target!Wanted
  <2>2. DOMAIN s = DOMAIN r /\ \A k \in DOMAIN r : f[s[k]] = g[r[k]]
    BY <1>3
  <2> HIDE DEF f, g, s, r, w, key
  <2>3. [k \in DOMAIN s |-> f[s[k]]] = [k \in DOMAIN r |-> g[r[k]]]
    BY <2>2
  <2>4. Target!BagOf(f, s) = BagOf(g, r)
    <3>1. {f[s[k]] : k \in DOMAIN s} = {g[r[k]] : k \in DOMAIN r}
      BY <2>2
    <3>2. \A t : {k \in DOMAIN s : f[s[k]] = t} = {k \in DOMAIN r : g[r[k]] = t}
      BY <2>2
    <3>3. Target!BagOf(f, s) = BagOf(f, s)
      BY DEF Target!BagOf, BagOf, Target!Cardinality, Cardinality
    <3> QED
      BY <3>1, <3>2, <3>3, Zenon DEF BagOf
  <2>5. Target!Variadic = Variadic
    BY DEF Target!Variadic, Variadic
  <2>6. Target!TermOf(f, w) = <<key.tag, key.payload,
           IF key.tag \in Variadic THEN BagOf(g, r) ELSE [k \in DOMAIN r |-> g[r[k]]]>>
    BY <2>1, <2>3, <2>4, <2>5, Zenon DEF Target!TermOf
  <2> QED
    BY <2>6, Zenon DEF TermOf, f, g, r, w, s
<1>10. TermOf(Term, key) = Term[i]
  BY <1>1, TermCalls DEF CopiesInv, StoreInv
<1> QED
  BY <1>6, <1>8, <1>9, <1>10

-----------------------------------------------------------------------------
(* Steps. *)

\* Whatever either store does, the copies made so far are right.
LEMMA CallsKeepCopies ==
    ASSUME CopiesInv, IndicesFit, [Call]_vars, [Target!Call]_(Target!vars)
    PROVE  /\ StoreInv' /\ Target!StoreInv'
           /\ \A i \in Interned : i \in Interned' /\ Term'[i] = Term[i]
           /\ \A j \in Target!Interned : j \in Target!Interned' /\ (Target!Term')[j] = Target!Term[j]
<1>1. StoreInv' /\ \A i \in Interned : i \in Interned' /\ Term'[i] = Term[i]
  BY CallKeepsTerms DEF CopiesInv
<1>2. /\ Target!StoreInv'
      /\ \A j \in Target!Interned : j \in Target!Interned' /\ (Target!Term')[j] = Target!Term[j]
  BY TargetAssumptions, Target!CallKeepsTerms DEF CopiesInv, IndicesFit, Target!IndicesFit
<1> QED
  BY <1>1, <1>2

LEMMA CopiesStay ==
    ASSUME CopiesInv, IndicesFit, [BothNext]_<<vars, otherVars, clones>>
    PROVE  CopiesInv'
<1>1. ASSUME [Call]_vars, [Target!Call]_(Target!vars), UNCHANGED clones
      PROVE  CopiesInv'
  <2>1. ASSUME NEW i \in DOMAIN clones' PROVE Copied(i)'
    <3>1. i \in DOMAIN clones /\ clones'[i] = clones[i]
      BY <1>1
    <3>2. Copied(i)
      BY <3>1 DEF CopiesInv
    <3> QED
      BY <1>1, <3>1, <3>2, CallsKeepCopies DEF Copied
  <2> QED
    BY <1>1, <2>1, CallsKeepCopies DEF CopiesInv
<1>2. CASE Next /\ UNCHANGED <<otherVars, clones>>
  BY <1>1, <1>2, NextIsCall DEF otherVars, Target!vars
<1>3. CASE UNCHANGED <<vars, otherVars, clones>>
  BY <1>1, <1>3 DEF otherVars, Target!vars
<1>4. ASSUME NEW i \in Interned, clone_into(i)
      PROVE  CopiesInv'
  <2> DEFINE request == CloneRequest(i)
             slot == other_call'.slot
  <2>1. /\ Target!Callable(request)
        /\ Target!Bank!Meaning(request) = Term[i]
    BY <1>4, CloneRequestMeans DEF clone_into
  <2>2. Target!Build(request) /\ UNCHANGED vars
        /\ clones' = IF slot = None THEN clones
                     ELSE [j \in DOMAIN clones \cup {i} |-> IF j = i THEN slot ELSE clones[j]]
    BY <1>4, OtherIsTarget DEF clone_into
  <2>3. Target!Call
    BY <2>1, <2>2 DEF Target!Call
  <2>4. slot # None => slot \in Target!Interned' /\ (Target!Term')[slot] = Target!Bank!Meaning(request)
    BY <2>1, <2>2, TargetAssumptions, Target!CallsAreBankCalls
       DEF CopiesInv, IndicesFit, Target!IndicesFit
  <2> HIDE DEF request, slot
  <2>5. CASE slot = None
    BY <1>1, <2>2, <2>3, <2>5
  <2>6. CASE slot # None
    <3>1. /\ StoreInv' /\ Target!StoreInv'
          /\ \A h \in Interned : h \in Interned' /\ Term'[h] = Term[h]
          /\ \A j \in Target!Interned : j \in Target!Interned' /\ (Target!Term')[j] = Target!Term[j]
      BY <2>2, <2>3, CallsKeepCopies
    <3>2. DOMAIN clones' = DOMAIN clones \cup {i}
      BY <2>2, <2>6
    <3>3. Copied(i)'
      <4>1. clones'[i] = slot
        BY <2>2, <2>6
      <4> QED
        BY <2>1, <2>4, <2>6, <3>1, <4>1 DEF Copied
    <3>4. ASSUME NEW j \in DOMAIN clones, j # i PROVE Copied(j)'
      <4>1. clones'[j] = clones[j]
        BY <2>2, <2>6, <3>4
      <4>2. Copied(j)
        BY DEF CopiesInv
      <4> QED
        BY <3>1, <4>1, <4>2 DEF Copied
    <3>5. \A j \in DOMAIN clones' : Copied(j)'
      BY <3>2, <3>3, <3>4
    <3> QED
      BY <3>1, <3>5 DEF CopiesInv
  <2> QED
    BY <2>5, <2>6
<1> QED
  BY <1>2, <1>3, <1>4 DEF BothNext

\* What parallel_rewrite copies into a store of its own is the term it was
\* asked to rewrite, for all terms and for all that either store holds before.
THEOREM ClonesAreFaithful == IndicesFit => (BothSpec => []ClonesMeanTheSame)
<1> SUFFICES ASSUME IndicesFit PROVE BothSpec => []ClonesMeanTheSame
  OBVIOUS
<1>1. BothInit => CopiesInv
  <2> SUFFICES ASSUME BothInit PROVE CopiesInv
    OBVIOUS
  <2>1. StoreInv
    BY InitHasStoreInv DEF BothInit
  <2>2. Target!Init
    BY OtherIsTarget DEF BothInit
  <2>3. Target!StoreInv
    BY <2>2, TargetAssumptions, Target!InitHasStoreInv
  <2> QED
    BY <2>1, <2>3 DEF BothInit, CopiesInv
<1>2. CopiesInv /\ [BothNext]_<<vars, otherVars, clones>> => CopiesInv'
  BY CopiesStay
<1>3. CopiesInv => ClonesMeanTheSame
  BY OtherIsTarget DEF CopiesInv, Copied, ClonesMeanTheSame
<1> QED
  BY <1>1, <1>2, <1>3, PTL DEF BothSpec
=============================================================================
