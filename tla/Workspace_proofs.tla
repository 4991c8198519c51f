-------------------------- MODULE Workspace_proofs --------------------------
(* Theorems about Workspace: with requests no larger than a standard chunk, *)
(* no slice leaves its chunk, no two live slices overlap and the arena      *)
(* grows only when every chunk is in use; the poison is exact for all.      *)
EXTENDS Workspace, TLAPS

\* align_up moves an offset up, by less than the alignment.
LEMMA AlignUpBounds ==
    ASSUME NEW n \in Nat, NEW a \in Nat \ {0}
    PROVE  align_up(n, a) \in Nat /\ n <= align_up(n, a) /\ align_up(n, a) < n + a
<1>1. n + a - 1 \in Nat
  OBVIOUS
<1>2. (n + a - 1) % a \in 0 .. a - 1
  BY <1>1
<1> QED
  BY <1>1, <1>2 DEF align_up

\* Setting one field of a chunk, and one chunk of a sequence.
LEMMA SetUsed ==
    ASSUME NEW r \in Chunk, NEW n \in Nat
    PROVE  /\ [r EXCEPT !.used = n] \in Chunk
           /\ [r EXCEPT !.used = n].used = n
           /\ [r EXCEPT !.used = n].capacity = r.capacity
           /\ [r EXCEPT !.used = n].base = r.base
BY DEF Chunk

LEMMA ReplaceAt ==
    ASSUME NEW S, NEW seq \in Seq(S), NEW i \in DOMAIN seq, NEW x \in S
    PROVE  LET new == [seq EXCEPT ![i] = x] IN
           /\ new \in Seq(S) /\ Len(new) = Len(seq) /\ DOMAIN new = DOMAIN seq
           /\ new[i] = x
           /\ \A j \in DOMAIN seq : j # i => new[j] = seq[j]
OBVIOUS

\* The record of a slice has its type.
LEMMA SliceRecord ==
    ASSUME NEW c \in Nat, NEW first \in Nat, NEW size \in Nat \ {0}, NEW alignment \in Nat \ {0}
    PROVE  LET s == [chunk |-> c, first |-> first, size |-> size, alignment |-> alignment] IN
           s \in Slice /\ s.chunk = c /\ s.first = first /\ s.size = size
BY DEF Slice

\* Taking a slice from chunk c of cs, which is chunks_ or chunks_ with a fresh
\* chunk behind it.
Sliced(cs, c, size, alignment) ==
    /\ cs \in Seq(Chunk) /\ c \in DOMAIN cs
    /\ DOMAIN chunks \subseteq DOMAIN cs /\ \A d \in DOMAIN chunks : cs[d] = chunks[d]
    /\ active_chunk_' \in 0 .. Len(cs)
    /\ Bump(cs, c, size, alignment)
    /\ addressable' \in Seq(SUBSET Nat) /\ Len(addressable') = Len(cs)
    /\ UNCHANGED stale /\ failures' \in Nat

\* The slice taken.
SliceOf(cs, c, size, alignment) ==
    [chunk |-> c, first |-> align_up(cs[c].used, alignment), size |-> size, alignment |-> alignment]

LEMMA BumpType ==
    ASSUME TypeOK, NEW size \in Nat \ {0}, NEW alignment \in Nat \ {0},
           NEW cs, NEW c \in Nat, Sliced(cs, c, size, alignment)
    PROVE  LET s == SliceOf(cs, c, size, alignment) IN
           /\ TypeOK'
           /\ cs[c].used \in Nat /\ cs[c].capacity \in Nat /\ cs[c].used <= s.first
           /\ live' = live \cup {s} /\ s \in Slice /\ s.chunk = c /\ s.size = size
           /\ s.first = align_up(cs[c].used, alignment)
           /\ DOMAIN chunks' = DOMAIN cs /\ Len(chunks') = Len(cs)
           /\ chunks'[c].used = s.first + size /\ chunks'[c].capacity = cs[c].capacity
           /\ chunks'[c].base = cs[c].base
           /\ \A d \in DOMAIN cs : d # c => chunks'[d] = cs[d]
<1> DEFINE first == align_up(cs[c].used, alignment)
           s == [chunk |-> c, first |-> first, size |-> size, alignment |-> alignment]
<1>0. cs \in Seq(Chunk) /\ c \in DOMAIN cs
  BY DEF Sliced
<1>1. cs[c] \in Chunk /\ cs[c].used \in Nat /\ cs[c].capacity \in Nat
  <2>1. cs[c] \in Chunk
    BY <1>0
  <2> QED
    BY <2>1 DEF Chunk
<1>2. first \in Nat /\ cs[c].used <= first
  BY <1>1, AlignUpBounds
<1>3. chunks' = [cs EXCEPT ![c].used = first + size] /\ live' = live \cup {s}
  BY DEF Bump, Sliced
<1>4. /\ chunks' \in Seq(Chunk) /\ Len(chunks') = Len(cs) /\ DOMAIN chunks' = DOMAIN cs
      /\ chunks'[c].used = first + size /\ chunks'[c].capacity = cs[c].capacity
      /\ chunks'[c].base = cs[c].base
      /\ \A d \in DOMAIN cs : d # c => chunks'[d] = cs[d]
  <2>1. chunks' = [cs EXCEPT ![c] = [cs[c] EXCEPT !.used = first + size]]
    BY <1>3
  <2>2. first + size \in Nat
    BY <1>2
  <2> DEFINE bumped == [cs[c] EXCEPT !.used = first + size]
  <2>3. /\ bumped \in Chunk /\ bumped.used = first + size /\ bumped.capacity = cs[c].capacity
        /\ bumped.base = cs[c].base
    BY <1>1, <2>2, SetUsed
  <2>4. chunks' = [cs EXCEPT ![c] = bumped]
    BY <2>1
  <2> HIDE DEF bumped
  <2> QED
    BY <1>0, <2>3, <2>4, ReplaceAt
<1>5. s \in Slice /\ s.chunk = c /\ s.first = first /\ s.size = size
  <2> HIDE DEF first
  <2> QED
    BY <1>2, SliceRecord
<1> HIDE DEF first, s
<1>6. TypeOK'
  <2>0. UNCHANGED stale /\ DOMAIN chunks \subseteq DOMAIN cs /\ failures' \in Nat
        /\ addressable' \in Seq(SUBSET Nat) /\ Len(addressable') = Len(cs)
        /\ active_chunk_' \in 0 .. Len(cs)
    BY DEF Sliced
  <2>1. \A r \in live' \cup stale' : r \in Slice /\ r.chunk \in DOMAIN chunks'
    BY <1>0, <1>3, <1>4, <1>5, <2>0 DEF TypeOK
  <2> QED
    BY <1>4, <2>0, <2>1 DEF TypeOK
<1>7. SliceOf(cs, c, size, alignment) = s
  BY DEF SliceOf, s, first
<1> QED
  BY <1>1, <1>2, <1>3, <1>4, <1>5, <1>6, <1>7 DEF first

\* What taking a slice leaves of the chunks' memory.
LEMMA BumpMemory ==
    ASSUME TypeOK, NEW size \in Nat \ {0}, NEW alignment \in Nat \ {0},
           NEW cs, NEW c \in Nat, Sliced(cs, c, size, alignment)
    PROVE  /\ DOMAIN chunks' = DOMAIN cs /\ Len(chunks') = Len(cs)
           /\ chunks'[c].capacity = cs[c].capacity /\ chunks'[c].base = cs[c].base
           /\ \A d \in DOMAIN cs : d # c => chunks'[d] = cs[d]
BY BumpType

\* ... which has room for it and lies behind the active chunk, keeps the invariant.
LEMMA BumpKeeps ==
    ASSUME IInv, NEW size \in Nat \ {0}, NEW alignment \in Nat \ {0},
           NEW cs, NEW c \in Nat, Sliced(cs, c, size, alignment),
           \A d \in DOMAIN cs \ DOMAIN chunks : cs[d].used = 0,
           \A d \in DOMAIN cs : ChunkSize <= cs[d].capacity /\ cs[d].used <= cs[d].capacity,
           Fits(cs[c], size, alignment),
           active_chunk_ <= active_chunk_', c = active_chunk_' + 1
    PROVE  IInv'
<1> DEFINE s == SliceOf(cs, c, size, alignment)
           first == s.first
<1>0. /\ c \in DOMAIN cs /\ DOMAIN chunks \subseteq DOMAIN cs
      /\ \A d \in DOMAIN chunks : cs[d] = chunks[d]
      /\ active_chunk_' \in Nat /\ DOMAIN cs \subseteq Nat
  <2>1. cs \in Seq(Chunk) /\ active_chunk_' \in 0 .. Len(cs)
    BY DEF Sliced
  <2>2. DOMAIN cs \subseteq Nat /\ active_chunk_' \in Nat
    BY <2>1
  <2> QED
    BY <2>2, Zenon DEF Sliced
<1>1. TypeOK
  BY DEF IInv
<1>2. /\ TypeOK' /\ live' = live \cup {s} /\ s \in Slice /\ s.chunk = c /\ s.size = size
      /\ first = align_up(cs[c].used, alignment)
      /\ cs[c].used \in Nat /\ cs[c].capacity \in Nat /\ cs[c].used <= first
  BY <1>1, BumpType
<1>3. /\ DOMAIN chunks' = DOMAIN cs
      /\ chunks'[c].used = first + size /\ chunks'[c].capacity = cs[c].capacity
      /\ \A d \in DOMAIN cs : d # c => chunks'[d] = cs[d]
  BY <1>1, BumpType
<1> HIDE DEF s
<1>4. first \in Nat
  BY <1>2 DEF Slice
<1>5. first + size <= cs[c].capacity
  BY <1>2 DEF Fits, EndIn
<1> HIDE DEF first
<1>8. \A r \in live : /\ r.chunk \in DOMAIN chunks /\ r.first \in Nat /\ r.size \in Nat \ {0}
                      /\ r.first + r.size <= chunks[r.chunk].used
  BY DEF IInv, TypeOK, Slice, FilledFromFront
<1>9. \A r \in live : r.chunk = c => r.first + r.size <= first
  <2> TAKE r \in live
  <2>1. CASE r.chunk = c
    <3>1. chunks[r.chunk].used = cs[c].used
      BY <1>0, <1>8, <2>1
    <3> QED
      BY <1>2, <1>4, <1>8, <3>1
  <2> QED
    BY <2>1
<1>10. FilledFromFront'
  <2>1. ASSUME NEW d \in DOMAIN chunks'
        PROVE  chunks'[d].used <= chunks'[d].capacity /\ ChunkSize <= chunks'[d].capacity
    <3>1. CASE d = c
      BY <1>0, <1>3, <1>5, <3>1
    <3>2. CASE d # c
      BY <1>3, <3>2
    <3> QED
      BY <3>1, <3>2
  <2>2. ASSUME NEW r \in live' PROVE r.first + r.size <= chunks'[r.chunk].used
    <3>1. CASE r = s
      BY <1>2, <1>3, <1>4, <3>1 DEF first
    <3>2. CASE r \in live /\ r.chunk = c
      BY <1>3, <1>4, <1>8, <1>9, <3>2
    <3>3. CASE r \in live /\ r.chunk # c
      BY <1>0, <1>3, <1>8, <3>3
    <3> QED
      BY <1>2, <3>1, <3>2, <3>3
  <2> QED
    BY <2>1, <2>2 DEF FilledFromFront
<1>11. LaterChunksAreEmpty'
  <2>0. active_chunk_ \in Nat
    BY DEF IInv, TypeOK
  <2>1. ASSUME NEW d \in DOMAIN chunks', d > active_chunk_' + 1 PROVE chunks'[d].used = 0
    <3>1. d \in Nat /\ d # c /\ d > active_chunk_ + 1 /\ d \in DOMAIN cs
      BY <1>0, <1>3, <2>0, <2>1
    <3>2. chunks'[d] = cs[d]
      BY <1>3, <3>1
    <3>3. d \in DOMAIN chunks => chunks[d].used = 0
      BY <3>1 DEF IInv, LaterChunksAreEmpty
    <3> QED
      BY <1>0, <3>1, <3>2, <3>3
  <2>2. ASSUME NEW r \in live' PROVE r.chunk <= active_chunk_' + 1
    <3>1. CASE r = s
      BY <1>0, <1>2, <3>1
    <3>2. CASE r \in live
      <4>1. r.chunk <= active_chunk_ + 1 /\ r.chunk \in Nat
        BY <1>0, <1>8, <3>2 DEF IInv, LaterChunksAreEmpty
      <4> QED
        BY <1>0, <2>0, <4>1
    <3> QED
      BY <1>2, <3>1, <3>2
  <2> QED
    BY <2>1, <2>2 DEF LaterChunksAreEmpty
<1>12. LiveDisjoint'
  <2>1. ASSUME NEW r \in live, r.chunk = c PROVE Bytes(r) \cap Bytes(s) = {}
    <3>1. r.first + r.size <= first /\ r.first \in Nat /\ r.size \in Nat
      BY <1>8, <1>9, <2>1
    <3>2. Bytes(r) = r.first .. r.first + r.size - 1 /\ Bytes(s) = first .. first + size - 1
      BY <1>2 DEF Bytes, first
    <3> QED
      BY <1>4, <3>1, <3>2
  <2>2. ASSUME NEW r \in live', NEW q \in live', r # q
        PROVE  r.chunk # q.chunk \/ Bytes(r) \cap Bytes(q) = {}
    <3>1. CASE r \in live /\ q \in live
      BY <2>2, <3>1 DEF IInv, LiveDisjoint
    <3>2. CASE r = s /\ q \in live
      BY <1>2, <2>1, <3>2
    <3>3. CASE r \in live /\ q = s
      BY <1>2, <2>1, <3>3
    <3> QED
      BY <1>2, <2>2, <3>1, <3>2, <3>3
  <2> QED
    BY <2>2 DEF LiveDisjoint, Bytes
<1> QED
  BY <1>2, <1>10, <1>11, <1>12 DEF IInv

-----------------------------------------------------------------------------
(* The invariant is inductive. *)

LEMMA InitIInv == Init => IInv
BY DEF Init, IInv, TypeOK, FilledFromFront, LaterChunksAreEmpty, LiveDisjoint

\* Unpoisoning touches offsets of the chunk only.
LEMMA UnpoisonType ==
    ASSUME TypeOK, NEW c \in DOMAIN chunks, NEW first \in Nat, NEW size \in Nat
    PROVE  Unpoison(c, first, size) \in SUBSET Nat
<1>1. first % Granule \in Nat /\ first % Granule <= first
  BY GranuleIsPositive
<1>2. (first - (first % Granule) .. first + size - 1) \subseteq Nat
  BY <1>1
<1>3. addressable[c] \in SUBSET Nat
  BY DEF TypeOK
<1> QED
  BY <1>2, <1>3 DEF Unpoison

\* What allocating out of an existing chunk does to the shadow memory.
LEMMA ShadowType ==
    ASSUME TypeOK, NEW c \in DOMAIN chunks, NEW size \in Nat, NEW alignment \in Nat \ {0},
           addressable' = [addressable EXCEPT
                             ![c] = Unpoison(c, align_up(chunks[c].used, alignment), size)]
    PROVE  addressable' \in Seq(SUBSET Nat) /\ Len(addressable') = Len(chunks)
<1> DEFINE shadow == Unpoison(c, align_up(chunks[c].used, alignment), size)
<1>1. chunks[c] \in Chunk
  BY DEF TypeOK
<1>2. chunks[c].used \in Nat
  BY <1>1 DEF Chunk
<1>3. align_up(chunks[c].used, alignment) \in Nat
  BY <1>2, AlignUpBounds
<1>4. shadow \in SUBSET Nat
  BY <1>3, UnpoisonType
<1>5. addressable \in Seq(SUBSET Nat) /\ c \in DOMAIN addressable /\ Len(addressable) = Len(chunks)
  BY DEF TypeOK
<1> HIDE DEF shadow
<1> QED
  BY <1>4, <1>5, ReplaceAt DEF shadow

\* The three ways of taking a slice.
LEMMA ActiveSliced ==
    ASSUME TypeOK, NEW size \in Nat \ {0}, NEW alignment \in Nat \ {0},
           AllocateFromActive(size, alignment)
    PROVE  Sliced(chunks, active_chunk_ + 1, size, alignment)
<1> DEFINE c == active_chunk_ + 1
<1>1. c \in DOMAIN chunks /\ chunks \in Seq(Chunk) /\ active_chunk_ \in 0 .. Len(chunks)
  BY DEF TypeOK, AllocateFromActive, HasActive
<1>2. addressable' \in Seq(SUBSET Nat) /\ Len(addressable') = Len(chunks)
  BY <1>1, ShadowType DEF AllocateFromActive
<1>3. Bump(chunks, c, size, alignment) /\ active_chunk_' = active_chunk_ /\ UNCHANGED <<stale, failures>>
  BY DEF AllocateFromActive
<1>4. failures \in Nat
  BY DEF TypeOK
<1> HIDE DEF c
<1> QED
  BY <1>1, <1>2, <1>3, <1>4 DEF Sliced, c

LEMMA ReusedSliced ==
    ASSUME TypeOK, NEW size \in Nat \ {0}, NEW alignment \in Nat \ {0},
           AllocateFromReused(size, alignment)
    PROVE  Sliced(chunks, active_chunk_ + 2, size, alignment)
<1> DEFINE c == active_chunk_ + 2
<1>1. c \in DOMAIN chunks /\ chunks \in Seq(Chunk) /\ active_chunk_ + 1 \in 0 .. Len(chunks)
  BY DEF TypeOK, AllocateFromReused, HasActive
<1>2. addressable' \in Seq(SUBSET Nat) /\ Len(addressable') = Len(chunks)
  BY <1>1, ShadowType DEF AllocateFromReused
<1>3. Bump(chunks, c, size, alignment) /\ active_chunk_' = active_chunk_ + 1
      /\ UNCHANGED <<stale, failures>>
  BY DEF AllocateFromReused
<1>4. failures \in Nat
  BY DEF TypeOK
<1> HIDE DEF c
<1> QED
  BY <1>1, <1>2, <1>3, <1>4 DEF Sliced, c

\* A fresh chunk at base, made large enough for the request.
Fresh(base, size, alignment) ==
    [base |-> base, capacity |-> CapacityFor(size, alignment), used |-> 0]

LEMMA NewSliced ==
    ASSUME TypeOK, NEW size \in Nat \ {0}, NEW alignment \in Nat \ {0},
           AllocateFromNew(size, alignment)
    PROVE  \E base \in Bases :
             LET fresh == Fresh(base, size, alignment)
                 cs == Append(chunks, fresh)
             IN /\ Sliced(cs, Len(chunks) + 1, size, alignment)
                /\ cs[Len(chunks) + 1] = fresh /\ fresh.used = 0
                /\ ChunkSize <= fresh.capacity /\ size + alignment <= fresh.capacity
                /\ DOMAIN cs = DOMAIN chunks \cup {Len(chunks) + 1}
<1> DEFINE capacity == CapacityFor(size, alignment)
           c == Len(chunks) + 1
<1>1. PICK base \in Bases : Bump(Append(chunks, Fresh(base, size, alignment)), c, size, alignment)
  BY DEF AllocateFromNew, Fresh
<1> DEFINE fresh == Fresh(base, size, alignment)
           cs == Append(chunks, fresh)
<1>2. capacity \in Nat /\ ChunkSize <= capacity /\ size + alignment <= capacity
  BY ChunkSizeIsPositive DEF CapacityFor
<1>3. fresh \in Chunk /\ fresh.used = 0 /\ fresh.capacity = capacity
  BY <1>2 DEF Chunk, Fresh
<1>4. chunks \in Seq(Chunk) /\ Len(chunks) \in Nat
      /\ addressable \in Seq(SUBSET Nat) /\ Len(addressable) = Len(chunks) /\ failures \in Nat
  BY DEF TypeOK
<1> HIDE DEF fresh, capacity
<1>5. /\ cs \in Seq(Chunk) /\ Len(cs) = c /\ DOMAIN cs = 1 .. c /\ cs[c] = fresh
      /\ DOMAIN chunks = 1 .. Len(chunks)
      /\ \A d \in 1 .. Len(chunks) : cs[d] = chunks[d]
  BY <1>3, <1>4
<1>6. /\ c \in DOMAIN cs /\ DOMAIN chunks \subseteq DOMAIN cs
      /\ \A d \in DOMAIN chunks : cs[d] = chunks[d]
      /\ DOMAIN cs = DOMAIN chunks \cup {c}
  BY <1>4, <1>5
<1>7. addressable' \in Seq(SUBSET Nat) /\ Len(addressable') = Len(cs)
  <2>1. (0 .. size - 1) \in SUBSET Nat
    OBVIOUS
  <2> QED
    BY <1>4, <1>5, <2>1 DEF AllocateFromNew
<1>8. active_chunk_' = Len(chunks) /\ UNCHANGED <<stale, failures>>
  BY DEF AllocateFromNew
<1>9. active_chunk_' \in 0 .. Len(cs) /\ failures' \in Nat
  BY <1>4, <1>5, <1>8
<1>10. Bump(cs, c, size, alignment)
  BY <1>1 DEF fresh
<1>11. Sliced(cs, c, size, alignment)
  <2> HIDE DEF cs, c
  <2> QED
    BY <1>5, <1>6, <1>7, <1>8, <1>9, <1>10 DEF Sliced
<1> QED
  BY <1>2, <1>3, <1>5, <1>6, <1>11 DEF fresh

\* A slice out of the active chunk, which was checked to have room.
LEMMA ActiveKeeps ==
    ASSUME IInv, NEW size \in Nat \ {0}, NEW alignment \in Nat \ {0},
           AllocateFromActive(size, alignment)
    PROVE  IInv'
<1> DEFINE c == active_chunk_ + 1
<1>1. TypeOK /\ Sliced(chunks, c, size, alignment)
  BY ActiveSliced DEF IInv
<1>2. Fits(chunks[c], size, alignment) /\ active_chunk_' = active_chunk_ /\ active_chunk_ \in Nat
  BY <1>1 DEF AllocateFromActive, Active, TypeOK
<1>3. \A d \in DOMAIN chunks : ChunkSize <= chunks[d].capacity /\ chunks[d].used <= chunks[d].capacity
  BY DEF IInv, FilledFromFront
<1>4. c \in Nat /\ c = active_chunk_' + 1 /\ active_chunk_ <= active_chunk_'
  BY <1>2
<1> HIDE DEF c
<1> QED
  BY <1>1, <1>2, <1>3, <1>4, BumpKeeps

\* An empty chunk of the standard size has room for any small request.
LEMMA EmptyFits ==
    ASSUME NEW chunk, chunk.used = 0, chunk.capacity \in Nat,
           NEW size \in Nat \ {0}, NEW alignment \in Nat \ {0}, size + alignment <= chunk.capacity
    PROVE  Fits(chunk, size, alignment)
<1>0. PICK first : first = align_up(0, alignment)
  OBVIOUS
<1>1. first \in Nat /\ first < 0 + alignment
  <2>1. 0 \in Nat
    OBVIOUS
  <2> QED
    BY <1>0, <2>1, AlignUpBounds, Zenon
<1> QED
  BY <1>0, <1>1 DEF Fits, EndIn

\* A slice out of the chunk after the active one: nothing checks that it fits,
\* it does because the chunk is empty and the request small.
LEMMA ReusedKeeps ==
    ASSUME IInv, NEW size \in Nat \ {0}, NEW alignment \in Nat \ {0},
           size + alignment <= ChunkSize, AllocateFromReused(size, alignment)
    PROVE  IInv'
<1> DEFINE c == active_chunk_ + 2
<1>1. TypeOK /\ Sliced(chunks, c, size, alignment)
  BY ReusedSliced DEF IInv
<1>2. active_chunk_' = active_chunk_ + 1 /\ active_chunk_ \in Nat
  BY <1>1 DEF AllocateFromReused, TypeOK
<1>3. \A d \in DOMAIN chunks : ChunkSize <= chunks[d].capacity /\ chunks[d].used <= chunks[d].capacity
  BY DEF IInv, FilledFromFront
<1>4. chunks \in Seq(Chunk) /\ c \in DOMAIN chunks
  BY <1>1 DEF Sliced
<1>5. chunks[c].used = 0 /\ chunks[c] \in Chunk
  BY <1>2, <1>4 DEF IInv, LaterChunksAreEmpty
<1>6. Fits(chunks[c], size, alignment)
  <2>1. chunks[c].capacity \in Nat /\ size + alignment <= chunks[c].capacity
    BY <1>3, <1>4, <1>5, ChunkSizeIsPositive DEF Chunk
  <2> QED
    BY <1>5, <2>1, EmptyFits
<1>7. active_chunk_ <= active_chunk_' /\ c = active_chunk_' + 1 /\ c \in Nat
  BY <1>2
<1> HIDE DEF c
<1> QED
  BY <1>1, <1>3, <1>6, <1>7, BumpKeeps

\* A slice out of a fresh chunk, which is made large enough.
LEMMA NewKeeps ==
    ASSUME IInv, NEW size \in Nat \ {0}, NEW alignment \in Nat \ {0},
           AllocateFromNew(size, alignment)
    PROVE  IInv'
<1> DEFINE c == Len(chunks) + 1
<1>1. TypeOK
  BY DEF IInv
<1>2. PICK cs, fresh :
        /\ Sliced(cs, c, size, alignment)
        /\ cs[c] = fresh /\ fresh.used = 0
        /\ ChunkSize <= fresh.capacity /\ size + alignment <= fresh.capacity
        /\ DOMAIN cs = DOMAIN chunks \cup {c}
  BY <1>1, NewSliced
<1>3. cs \in Seq(Chunk) /\ c \in DOMAIN cs /\ \A d \in DOMAIN chunks : cs[d] = chunks[d]
  BY <1>2 DEF Sliced
<1>4. cs[c] \in Chunk /\ c \in Nat /\ Len(chunks) \in Nat /\ active_chunk_ \in 0 .. Len(chunks)
  BY <1>1, <1>3 DEF TypeOK
<1>5. cs[c].capacity \in Nat
  BY <1>4 DEF Chunk
<1>6. Fits(cs[c], size, alignment)
  BY <1>2, <1>5, EmptyFits
<1>7. \A d \in DOMAIN cs : ChunkSize <= cs[d].capacity /\ cs[d].used <= cs[d].capacity
  <2>1. \A d \in DOMAIN chunks : ChunkSize <= chunks[d].capacity /\ chunks[d].used <= chunks[d].capacity
    BY DEF IInv, FilledFromFront
  <2> QED
    BY <1>2, <1>3, <1>5, <2>1
<1>8. active_chunk_ <= active_chunk_' /\ c = active_chunk_' + 1
  BY <1>4 DEF AllocateFromNew
<1>9. \A d \in DOMAIN cs \ DOMAIN chunks : cs[d].used = 0
  BY <1>2
<1> HIDE DEF c
<1> QED
  BY <1>2, <1>4, <1>6, <1>7, <1>8, <1>9, BumpKeeps

\* A failed growth leaves the arena past its last chunk, and all slices intact.
LEMMA GrowFailsKeeps ==
    ASSUME IInv, NEW size, NEW alignment, GrowFails(size, alignment)
    PROVE  IInv'
<1>1. active_chunk_' = Len(chunks) /\ failures' = failures + 1
      /\ UNCHANGED <<chunks, live, stale, addressable>>
  BY DEF GrowFails
<1>2. TypeOK'
  BY <1>1 DEF IInv, TypeOK
<1>3. FilledFromFront' /\ LiveDisjoint'
  BY <1>1 DEF IInv, FilledFromFront, LiveDisjoint, Bytes
<1>4. LaterChunksAreEmpty'
  BY <1>1 DEF IInv, TypeOK, LaterChunksAreEmpty
<1> QED
  BY <1>2, <1>3, <1>4 DEF IInv

\* reset() empties every chunk at once.
LEMMA ResetType == ASSUME TypeOK, reset PROVE TypeOK'
<1>1. /\ chunks \in Seq(Chunk) /\ DOMAIN chunks = 1 .. Len(chunks) /\ Len(chunks) \in Nat
      /\ \A c \in DOMAIN chunks : [chunks[c] EXCEPT !.used = 0] \in Chunk
  <2>1. chunks \in Seq(Chunk)
    BY DEF TypeOK
  <2>2. \A c \in DOMAIN chunks : chunks[c] \in Chunk /\ 0 \in Nat
    BY <2>1
  <2>3. \A c \in DOMAIN chunks : [chunks[c] EXCEPT !.used = 0] \in Chunk
    BY <2>2, SetUsed, Zenon
  <2> QED
    BY <2>1, <2>3
<1>2. /\ chunks' = [c \in 1 .. Len(chunks) |-> [chunks[c] EXCEPT !.used = 0]]
      /\ active_chunk_' = 0 /\ live' = {} /\ stale' = live /\ failures' = failures
      /\ addressable' = [c \in 1 .. Len(chunks) |-> Poison(c)]
      /\ \A c \in 1 .. Len(chunks) : Poison(c) \in SUBSET Nat
  <2>1. \A c \in 1 .. Len(chunks) : addressable[c] \in SUBSET Nat /\ Poison(c) \subseteq addressable[c]
    BY DEF TypeOK, Poison
  <2> QED
    BY <1>1, <2>1 DEF reset
<1>3. chunks' \in Seq(Chunk) /\ Len(chunks') = Len(chunks) /\ DOMAIN chunks' = DOMAIN chunks
  BY <1>1, <1>2
<1>4. addressable' \in Seq(SUBSET Nat) /\ Len(addressable') = Len(chunks')
  BY <1>1, <1>2, <1>3
<1> QED
  BY <1>1, <1>2, <1>3, <1>4 DEF TypeOK

LEMMA ResetKeeps ==
    ASSUME IInv, reset
    PROVE  IInv'
<1>1. TypeOK' /\ chunks \in Seq(Chunk) /\ \A c \in DOMAIN chunks : chunks[c] \in Chunk
  BY ResetType DEF IInv, TypeOK
<1>2. /\ DOMAIN chunks' = DOMAIN chunks /\ live' = {} /\ active_chunk_' = 0
      /\ \A c \in DOMAIN chunks : chunks'[c] = [chunks[c] EXCEPT !.used = 0]
  BY DEF reset
<1>3. \A c \in DOMAIN chunks : /\ chunks'[c].used = 0 /\ chunks'[c].capacity = chunks[c].capacity
                               /\ chunks[c].capacity \in Nat
  BY <1>1, <1>2 DEF Chunk
<1>4. FilledFromFront'
  BY <1>2, <1>3 DEF IInv, FilledFromFront
<1>5. LaterChunksAreEmpty' /\ LiveDisjoint'
  BY <1>2, <1>3 DEF LaterChunksAreEmpty, LiveDisjoint
<1> QED
  BY <1>1, <1>4, <1>5 DEF IInv

LEMMA NextIInv == SmallRequests /\ IInv /\ [Next]_vars => IInv'
<1> SUFFICES ASSUME SmallRequests, IInv, [Next]_vars PROVE IInv'
  OBVIOUS
<1>1. CASE reset
  BY <1>1, ResetKeeps
<1>2. ASSUME NEW r \in Requests, allocate(r[1], r[2]) PROVE IInv'
  <2>1. r[1] \in Nat \ {0} /\ r[2] \in Nat \ {0} /\ r[1] + r[2] <= ChunkSize
    BY RequestsAreSane DEF SmallRequests
  <2> QED
    BY <1>2, <2>1, ActiveKeeps, ReusedKeeps, NewKeeps, GrowFailsKeeps DEF allocate
<1>3. CASE UNCHANGED vars
  BY <1>3 DEF vars, IInv, TypeOK, FilledFromFront, LaterChunksAreEmpty, LiveDisjoint, Bytes
<1> QED
  BY <1>1, <1>2, <1>3 DEF Next

-----------------------------------------------------------------------------
(* The shadow memory.                                                       *)

LEMMA InvInBounds == IInv => InBounds
<1> SUFFICES ASSUME IInv, NEW s \in live PROVE s.first + s.size <= chunks[s.chunk].capacity
  BY DEF InBounds
<1>1. s \in Slice /\ chunks[s.chunk] \in Chunk
      /\ s.first + s.size <= chunks[s.chunk].used
      /\ chunks[s.chunk].used <= chunks[s.chunk].capacity
  BY DEF IInv, TypeOK, FilledFromFront
<1> QED
  BY <1>1 DEF Slice, Chunk

\* The bytes from the start of n's granule up to n lie in one granule.
LEMMA GranuleStart ==
    ASSUME NEW n \in Nat, NEW b \in n - (n % Granule) .. n
    PROVE  b \in Nat /\ b \div Granule = n \div Granule
<1> PICK g \in Nat : g = Granule /\ g > 0
  BY GranuleIsPositive
<1>1. PICK q \in Int, r \in Int : q = n \div g /\ r = n % g /\ n = g * q + r /\ 0 <= r /\ r < g
  OBVIOUS
<1>2. g * q <= b /\ b < g * q + g /\ b \in Int
  BY <1>1
<1>3. g * q \in Nat
  <2>1. q >= 0
    BY <1>1
  <2> QED
    BY <2>1
<1>4. PICK p \in Int, e \in Int : p = b \div g /\ b = g * p + e /\ 0 <= e /\ e < g
  BY <1>2
<1>5. p = q
  <2>1. CASE p >= q + 1
    <3>1. g * p >= g * (q + 1) /\ g * (q + 1) = g * q + g
      BY <2>1
    <3> QED
      BY <1>2, <1>4, <3>1
  <2>2. CASE p + 1 <= q
    <3>1. g * q >= g * (p + 1) /\ g * (p + 1) = g * p + g
      BY <2>2
    <3> QED
      BY <1>2, <1>4, <3>1
  <2> QED
    BY <2>1, <2>2
<1> QED
  BY <1>1, <1>2, <1>3, <1>4, <1>5

\* Handing out slice s and unpoisoning it, with no more than the granule its
\* first byte lies in.
LEMMA ShadowKeeps ==
    ASSUME PoisonInv, TypeOK', NEW s \in Slice, live' = live \cup {s},
           s.chunk \in DOMAIN chunks',
           \A d \in DOMAIN chunks : addressable[d] \subseteq addressable'[d],
           Bytes(s) \subseteq addressable'[s.chunk],
           \A d \in DOMAIN chunks' : \A b \in addressable'[d] :
             \/ d \in DOMAIN chunks /\ b \in addressable[d]
             \/ d = s.chunk /\ b < s.first + s.size
                            /\ \E e \in Bytes(s) : e \div Granule = b \div Granule,
           s.first + s.size <= chunks'[s.chunk].capacity,
           \A d \in DOMAIN chunks : chunks'[d].capacity = chunks[d].capacity
    PROVE  PoisonInv'
<1>1. LiveIsAddressable'
  <2> SUFFICES ASSUME NEW r \in live' PROVE Bytes(r) \subseteq addressable'[r.chunk]
    BY DEF LiveIsAddressable, Bytes
  <2>1. CASE r \in live
    <3>1. r.chunk \in DOMAIN chunks /\ Bytes(r) \subseteq addressable[r.chunk]
      BY <2>1 DEF PoisonInv, TypeOK, LiveIsAddressable
    <3> QED
      BY <3>1
  <2>2. CASE r = s
    BY <2>2
  <2> QED
    BY <2>1, <2>2
<1>2. AddressableIsInUse'
  <2> SUFFICES ASSUME NEW d \in DOMAIN chunks', NEW b \in addressable'[d]
               PROVE  \E r \in live' : r.chunk = d /\ \E e \in Bytes(r) : e \div Granule = b \div Granule
    BY DEF AddressableIsInUse, GranuleInUse, Bytes
  <2>1. CASE d \in DOMAIN chunks /\ b \in addressable[d]
    BY <2>1 DEF PoisonInv, AddressableIsInUse, GranuleInUse
  <2>2. CASE d = s.chunk /\ \E e \in Bytes(s) : e \div Granule = b \div Granule
    BY <2>2
  <2> QED
    BY <2>1, <2>2
<1>3. AddressableInChunk'
  <2> SUFFICES ASSUME NEW d \in DOMAIN chunks', NEW b \in addressable'[d]
               PROVE  b < chunks'[d].capacity
    BY DEF AddressableInChunk
  <2>1. CASE d \in DOMAIN chunks /\ b \in addressable[d]
    BY <2>1 DEF PoisonInv, AddressableInChunk
  <2>2. CASE d = s.chunk /\ b < s.first + s.size
    <3>1. chunks'[d] \in Chunk /\ b \in Nat
      BY DEF TypeOK
    <3>2. s.first \in Nat /\ s.size \in Nat /\ chunks'[d].capacity \in Nat
      BY <3>1 DEF Chunk, Slice
    <3> QED
      BY <2>2, <3>1, <3>2
  <2> QED
    BY <2>1, <2>2
<1> QED
  BY <1>1, <1>2, <1>3 DEF PoisonInv

\* A slice out of a chunk the arena has: its bytes are unpoisoned, and the rest
\* of the granule before them.
LEMMA UnpoisonKeeps ==
    ASSUME PoisonInv, NEW size \in Nat \ {0}, NEW alignment \in Nat \ {0}, NEW c \in Nat,
           Sliced(chunks, c, size, alignment),
           addressable' = [addressable EXCEPT
                             ![c] = Unpoison(c, align_up(chunks[c].used, alignment), size)],
           InBounds'
    PROVE  PoisonInv'
<1> DEFINE s == SliceOf(chunks, c, size, alignment)
           first == s.first
<1>1. /\ TypeOK' /\ live' = live \cup {s} /\ s \in Slice /\ s.chunk = c /\ s.size = size
      /\ first = align_up(chunks[c].used, alignment) /\ DOMAIN chunks' = DOMAIN chunks
  BY BumpType DEF PoisonInv
<1>2. c \in DOMAIN chunks /\ addressable \in Seq(SUBSET Nat) /\ chunks \in Seq(Chunk)
      /\ Len(addressable) = Len(chunks)
  BY DEF Sliced, PoisonInv, TypeOK
<1> HIDE DEF s
<1>3. first \in Nat
  BY <1>1 DEF Slice
<1>4. Bytes(s) = first .. first + size - 1
  BY <1>1 DEF Bytes
<1>5. addressable'[c] = addressable[c] \cup (first - (first % Granule) .. first + size - 1)
      /\ \A d \in DOMAIN chunks : d # c => addressable'[d] = addressable[d]
  <2>1. addressable' = [addressable EXCEPT ![c] = Unpoison(c, first, size)]
    BY <1>1
  <2>2. DOMAIN addressable = DOMAIN chunks
    BY <1>2
  <2> HIDE DEF first
  <2> QED
    BY <1>2, <2>1, <2>2 DEF Unpoison
<1> HIDE DEF first
<1>6. first % Granule \in Nat
  BY <1>3, GranuleIsPositive
<1>7. Bytes(s) \subseteq addressable'[c]
  BY <1>3, <1>4, <1>5, <1>6
<1>8. ASSUME NEW b \in first - (first % Granule) .. first + size - 1
      PROVE  \E e \in Bytes(s) : e \div Granule = b \div Granule
  <2>1. CASE b <= first
    <3>1. b \in first - (first % Granule) .. first /\ first \in Bytes(s)
      BY <1>3, <1>4, <1>6, <2>1
    <3> QED
      BY <1>3, <3>1, GranuleStart
  <2>2. CASE ~(b <= first)
    <3>1. b \in Bytes(s)
      BY <1>3, <1>4, <1>6, <2>2
    <3> QED
      BY <3>1
  <2> QED
    BY <2>1, <2>2
<1>9. \A d \in DOMAIN chunks : addressable[d] \subseteq addressable'[d]
  BY <1>5
<1>10. \A d \in DOMAIN chunks' : \A b \in addressable'[d] :
         \/ d \in DOMAIN chunks /\ b \in addressable[d]
         \/ d = c /\ b < first + size /\ \E e \in Bytes(s) : e \div Granule = b \div Granule
  <2>1. \A b \in first - (first % Granule) .. first + size - 1 : b < first + size
    BY <1>3, <1>6
  <2> QED
    BY <1>1, <1>5, <1>8, <2>1
<1>11. /\ s.first + s.size <= chunks'[s.chunk].capacity
       /\ \A d \in DOMAIN chunks : chunks'[d].capacity = chunks[d].capacity
  <2>1. s \in live'
    BY <1>1
  <2>2. \A d \in DOMAIN chunks : chunks'[d].capacity = chunks[d].capacity
    BY BumpMemory DEF PoisonInv
  <2> QED
    BY <2>1, <2>2 DEF InBounds
<1>12. first = s.first
  BY DEF first
<1> QED
  BY <1>1, <1>2, <1>7, <1>9, <1>10, <1>11, <1>12, ShadowKeeps

\* A slice out of a fresh chunk, which is poisoned but for the slice.
LEMMA FreshKeeps ==
    ASSUME PoisonInv, NEW size \in Nat \ {0}, NEW alignment \in Nat \ {0},
           AllocateFromNew(size, alignment), InBounds'
    PROVE  PoisonInv'
<1> DEFINE c == Len(chunks) + 1
<1>1. TypeOK
  BY DEF PoisonInv
<1>2. PICK cs, fresh : /\ Sliced(cs, c, size, alignment) /\ cs[c] = fresh /\ fresh.used = 0
                       /\ DOMAIN cs = DOMAIN chunks \cup {c}
  BY <1>1, NewSliced
<1>3. /\ Len(chunks) \in Nat /\ c \in Nat /\ chunks \in Seq(Chunk)
      /\ addressable \in Seq(SUBSET Nat) /\ Len(addressable) = Len(chunks)
  BY <1>1 DEF TypeOK
<1>4. /\ addressable'[c] = 0 .. size - 1
      /\ \A d \in DOMAIN chunks : d # c /\ addressable'[d] = addressable[d]
  BY <1>3 DEF AllocateFromNew
<1> DEFINE s == SliceOf(cs, c, size, alignment)
<1> HIDE DEF c
<1>5. /\ TypeOK' /\ live' = live \cup {s} /\ s \in Slice /\ s.chunk = c /\ s.size = size
      /\ s.first = align_up(cs[c].used, alignment) /\ DOMAIN chunks' = DOMAIN cs
  BY <1>1, <1>2, <1>3, BumpType
<1>6. s.first = 0
  <2>1. align_up(0, alignment) = 0
    <3>1. 0 + alignment - 1 \in 0 .. alignment - 1
      OBVIOUS
    <3>2. (0 + alignment - 1) % alignment = 0 + alignment - 1
      BY <3>1
    <3> QED
      BY <3>1, <3>2 DEF align_up
  <2> QED
    BY <1>2, <1>5, <2>1
<1> HIDE DEF s
<1>7. Bytes(s) = 0 .. size - 1
  BY <1>5, <1>6 DEF Bytes
<1>8. \A d \in DOMAIN chunks : addressable[d] \subseteq addressable'[d]
  BY <1>4
<1>9. \A d \in DOMAIN chunks' : \A b \in addressable'[d] :
         \/ d \in DOMAIN chunks /\ b \in addressable[d]
         \/ d = c /\ b < s.first + s.size /\ \E e \in Bytes(s) : e \div Granule = b \div Granule
  <2>1. \A b \in 0 .. size - 1 : b < s.first + s.size
    BY <1>5, <1>6
  <2> QED
    BY <1>2, <1>4, <1>5, <1>7, <2>1
<1>10. /\ s.first + s.size <= chunks'[s.chunk].capacity
       /\ \A d \in DOMAIN chunks : chunks'[d].capacity = chunks[d].capacity
  <2>1. s \in live'
    BY <1>5
  <2>2. \A d \in DOMAIN chunks : chunks'[d] = chunks[d]
    <3>1. \A d \in DOMAIN chunks : d # c /\ d \in DOMAIN cs /\ cs[d] = chunks[d]
      BY <1>2, <1>4 DEF Sliced
    <3>2. \A d \in DOMAIN cs : d # c => chunks'[d] = cs[d]
      BY <1>1, <1>2, <1>3, BumpMemory
    <3> QED
      BY <3>1, <3>2
  <2> QED
    BY <2>1, <2>2 DEF InBounds
<1> QED
  BY <1>2, <1>4, <1>5, <1>7, <1>8, <1>9, <1>10, ShadowKeeps

\* reset() poisons every chunk as a whole when no byte behind it is addressable.
LEMMA ResetPoisons ==
    ASSUME PoisonInv, reset
    PROVE  \A c \in DOMAIN chunks' : addressable'[c] = {}
<1> SUFFICES ASSUME NEW c \in DOMAIN chunks PROVE Poison(c) = {}
  BY DEF reset
<1>1. chunks[c].capacity \in Nat /\ addressable[c] \subseteq Nat
  <2>1. chunks \in Seq(Chunk) /\ addressable \in Seq(SUBSET Nat) /\ Len(addressable) = Len(chunks)
    BY DEF PoisonInv, TypeOK
  <2>2. chunks[c] \in Chunk /\ addressable[c] \in SUBSET Nat
    BY <2>1
  <2> QED
    BY <2>2 DEF Chunk
<1>2. \A d \in addressable[c] : ~(d >= chunks[c].capacity)
  BY <1>1 DEF PoisonInv, AddressableInChunk
<1> QED
  BY <1>2 DEF Poison

LEMMA NextPoisonInv == SmallRequests /\ IInv /\ PoisonInv /\ [Next]_vars => PoisonInv'
<1> SUFFICES ASSUME SmallRequests, IInv, PoisonInv, [Next]_vars PROVE PoisonInv'
  OBVIOUS
<1>0. InBounds'
  <2>1. IInv'
    BY NextIInv
  <2> QED
    BY <2>1, InvInBounds, PTL
<1>1. CASE reset
  <2>1. TypeOK'
    BY <1>1, ResetType DEF PoisonInv
  <2>2. live' = {} /\ \A c \in DOMAIN chunks' : addressable'[c] = {}
    BY <1>1, ResetPoisons DEF reset
  <2> QED
    BY <2>1, <2>2 DEF PoisonInv, LiveIsAddressable, AddressableIsInUse, AddressableInChunk
<1>2. ASSUME NEW r \in Requests, allocate(r[1], r[2]) PROVE PoisonInv'
  <2> DEFINE size == r[1]
             alignment == r[2]
  <2>1. size \in Nat \ {0} /\ alignment \in Nat \ {0}
    BY RequestsAreSane
  <2>2. TypeOK /\ active_chunk_ \in Nat
    BY DEF PoisonInv, TypeOK
  <2> HIDE DEF size, alignment
  <2>3. CASE AllocateFromActive(size, alignment)
    <3>1. Sliced(chunks, active_chunk_ + 1, size, alignment)
      BY <2>1, <2>2, <2>3, ActiveSliced
    <3>2. addressable' = [addressable EXCEPT ![active_chunk_ + 1] =
            Unpoison(active_chunk_ + 1, align_up(chunks[active_chunk_ + 1].used, alignment), size)]
      BY <2>3 DEF AllocateFromActive
    <3>3. active_chunk_ + 1 \in Nat
      BY <2>2
    <3> QED
      BY <1>0, <2>1, <3>1, <3>2, <3>3, UnpoisonKeeps
  <2>4. CASE AllocateFromReused(size, alignment)
    <3>1. Sliced(chunks, active_chunk_ + 2, size, alignment)
      BY <2>1, <2>2, <2>4, ReusedSliced
    <3>2. addressable' = [addressable EXCEPT ![active_chunk_ + 2] =
            Unpoison(active_chunk_ + 2, align_up(chunks[active_chunk_ + 2].used, alignment), size)]
      BY <2>4 DEF AllocateFromReused
    <3>3. active_chunk_ + 2 \in Nat
      BY <2>2
    <3> QED
      BY <1>0, <2>1, <3>1, <3>2, <3>3, UnpoisonKeeps
  <2>5. CASE AllocateFromNew(size, alignment)
    BY <1>0, <2>1, <2>5, FreshKeeps
  <2>6. CASE GrowFails(size, alignment)
    BY <2>6 DEF GrowFails, PoisonInv, TypeOK, LiveIsAddressable, AddressableIsInUse,
                AddressableInChunk, GranuleInUse, Bytes
  <2> QED
    BY <1>2, <2>3, <2>4, <2>5, <2>6 DEF allocate, size, alignment
<1>3. CASE UNCHANGED vars
  BY <1>3 DEF vars, PoisonInv, TypeOK, LiveIsAddressable, AddressableIsInUse,
              AddressableInChunk, GranuleInUse, Bytes
<1> QED
  BY <1>1, <1>2, <1>3 DEF Next

-----------------------------------------------------------------------------
(* Chunks are reused before the arena grows.                                *)

\* A chunk a small request does not fit has been used.
LEMMA FullIsUsed ==
    ASSUME IInv, HasActive, NEW size \in Nat \ {0}, NEW alignment \in Nat \ {0},
           size + alignment <= ChunkSize, ~Fits(Active, size, alignment)
    PROVE  active_chunk_ + 1 \in DOMAIN chunks /\ chunks[active_chunk_ + 1].used > 0
<1>1. chunks \in Seq(Chunk) /\ active_chunk_ + 1 \in DOMAIN chunks /\ active_chunk_ \in Nat
  BY DEF IInv, TypeOK, HasActive
<1>2. Active \in Chunk /\ Active = chunks[active_chunk_ + 1] /\ ChunkSize <= Active.capacity
  BY <1>1 DEF Active, IInv, FilledFromFront
<1>3. Active.used \in Nat /\ Active.capacity \in Nat /\ size + alignment <= Active.capacity
  BY <1>2, ChunkSizeIsPositive DEF Chunk
<1>4. Active.used # 0
  BY <1>3, EmptyFits
<1> QED
  BY <1>1, <1>2, <1>3, <1>4

\* ... so that when no chunk is left, every chunk is in use.
LEMMA AllInUse ==
    ASSUME IInv, ChunksInUse, NEW size \in Nat \ {0}, NEW alignment \in Nat \ {0},
           size + alignment <= ChunkSize, NoChunkLeft(size, alignment)
    PROVE  \A c \in DOMAIN chunks : \E s \in live : s.chunk = c
<1>1. chunks \in Seq(Chunk) /\ active_chunk_ \in 0 .. Len(chunks) /\ Len(chunks) \in Nat
      /\ DOMAIN chunks = 1 .. Len(chunks)
  BY DEF IInv, TypeOK
<1>2. CASE HasActive
  <2>1. active_chunk_ + 1 = Len(chunks) /\ chunks[active_chunk_ + 1].used > 0
    BY <1>2, FullIsUsed DEF NoChunkLeft
  <2>2. \A c \in DOMAIN chunks : c <= active_chunk_ \/ c = active_chunk_ + 1
    BY <1>1, <2>1
  <2> QED
    BY <2>1, <2>2 DEF ChunksInUse
<1>3. CASE ~HasActive
  <2>1. \A c \in DOMAIN chunks : c <= active_chunk_
    BY <1>1, <1>3 DEF HasActive
  <2> QED
    BY <2>1 DEF ChunksInUse
<1> QED
  BY <1>2, <1>3

\* A slice taken leaves the chunk it lies in with a live slice, and the active
\* chunk has moved past chunks that have one.
LEMMA BumpKeepsInUse ==
    ASSUME IInv, ChunksInUse, NEW size \in Nat \ {0}, NEW alignment \in Nat \ {0},
           NEW cs, NEW c \in Nat, Sliced(cs, c, size, alignment), c = active_chunk_' + 1,
           \A d \in DOMAIN cs : d < c => d \in DOMAIN chunks /\ \E s \in live : s.chunk = d,
           \A d \in DOMAIN cs : d > c => d \in DOMAIN chunks
    PROVE  ChunksInUse'
<1>1. TypeOK
  BY DEF IInv
<1>2. PICK s : /\ live' = live \cup {s} /\ s.chunk = c /\ DOMAIN chunks' = DOMAIN cs
               /\ \A d \in DOMAIN cs : d # c => chunks'[d] = cs[d]
  BY <1>1, BumpType
<1>3. cs \in Seq(Chunk) /\ \A d \in DOMAIN chunks : cs[d] = chunks[d]
  BY DEF Sliced
<1>4. DOMAIN cs \subseteq Nat /\ active_chunk_' = c - 1
  <2>1. active_chunk_' \in 0 .. Len(cs) /\ Len(cs) \in Nat
    BY <1>3 DEF Sliced
  <2>2. active_chunk_' = c - 1
    <3>1. \A a, b \in Nat : b = a + 1 => a = b - 1
      OBVIOUS
    <3>2. active_chunk_' \in Nat
      BY <2>1
    <3> QED
      BY <3>1, <3>2, Zenon
  <2>3. DOMAIN cs = 1 .. Len(cs)
    BY <1>3
  <2>4. DOMAIN cs \subseteq Nat
    BY <2>1, <2>3
  <2> QED
    BY <2>2, <2>4, Zenon
<1> SUFFICES ASSUME NEW d \in DOMAIN chunks', d <= active_chunk_' \/ chunks'[d].used > 0
             PROVE  \E r \in live' : r.chunk = d
  BY DEF ChunksInUse
<1>5. CASE d = c
  BY <1>2, <1>5
<1>6. CASE d < c
  BY <1>2, <1>6
<1>7. CASE d > c
  <2>1. d \in DOMAIN chunks /\ ~(d <= active_chunk_') /\ d # c
    BY <1>2, <1>4, <1>7
  <2>2. chunks[d].used > 0
    BY <1>2, <1>3, <2>1
  <2> QED
    BY <1>2, <2>1, <2>2 DEF ChunksInUse
<1> QED
  BY <1>2, <1>4, <1>5, <1>6, <1>7

LEMMA AllocateKeepsInUse ==
    ASSUME IInv, ChunksInUse, NEW size \in Nat \ {0}, NEW alignment \in Nat \ {0},
           size + alignment <= ChunkSize, allocate(size, alignment)
    PROVE  ChunksInUse'
<1>1. TypeOK /\ active_chunk_ \in 0 .. Len(chunks) /\ chunks \in Seq(Chunk) /\ Len(chunks) \in Nat
      /\ DOMAIN chunks = 1 .. Len(chunks)
  BY DEF IInv, TypeOK
<1>2. \A d \in DOMAIN chunks : d < active_chunk_ + 1 => \E s \in live : s.chunk = d
  BY <1>1 DEF ChunksInUse
<1>3. CASE AllocateFromActive(size, alignment)
  <2>1. Sliced(chunks, active_chunk_ + 1, size, alignment) /\ active_chunk_' = active_chunk_
    BY <1>1, <1>3, ActiveSliced DEF AllocateFromActive
  <2>2. active_chunk_ + 1 \in Nat
    BY <1>1
  <2> QED
    BY <1>2, <2>1, <2>2, BumpKeepsInUse
<1>4. CASE AllocateFromReused(size, alignment)
  <2>1. Sliced(chunks, active_chunk_ + 2, size, alignment) /\ active_chunk_' = active_chunk_ + 1
    BY <1>1, <1>4, ReusedSliced DEF AllocateFromReused
  <2>2. active_chunk_ + 2 \in Nat /\ active_chunk_ + 2 = active_chunk_' + 1
    BY <1>1, <2>1
  <2>3. \E s \in live : s.chunk = active_chunk_ + 1
    BY <1>4, FullIsUsed DEF ChunksInUse, AllocateFromReused
  <2>4. \A d \in DOMAIN chunks :
          d < active_chunk_ + 2 => d \in DOMAIN chunks /\ \E s \in live : s.chunk = d
    <3>1. \A d \in DOMAIN chunks : d < active_chunk_ + 2 => d < active_chunk_ + 1 \/ d = active_chunk_ + 1
      BY <1>1
    <3> QED
      BY <1>2, <2>3, <3>1
  <2> QED
    BY <2>1, <2>2, <2>4, BumpKeepsInUse
<1>5. CASE AllocateFromNew(size, alignment)
  <2>1. PICK cs : Sliced(cs, Len(chunks) + 1, size, alignment)
                  /\ DOMAIN cs = DOMAIN chunks \cup {Len(chunks) + 1}
    BY <1>1, <1>5, NewSliced
  <2>2. active_chunk_' = Len(chunks) /\ Len(chunks) + 1 \in Nat
    BY <1>1, <1>5 DEF AllocateFromNew
  <2>3. \A d \in DOMAIN chunks : \E s \in live : s.chunk = d
    BY <1>5, AllInUse DEF AllocateFromNew
  <2>4. /\ \A d \in DOMAIN cs : d < Len(chunks) + 1 =>
              d \in DOMAIN chunks /\ \E s \in live : s.chunk = d
        /\ \A d \in DOMAIN cs : d > Len(chunks) + 1 => d \in DOMAIN chunks
    BY <1>1, <2>1, <2>3
  <2> QED
    BY <2>1, <2>2, <2>4, BumpKeepsInUse
<1>6. CASE GrowFails(size, alignment)
  <2>1. \A d \in DOMAIN chunks : \E s \in live : s.chunk = d
    BY <1>6, AllInUse DEF GrowFails
  <2> QED
    BY <1>6, <2>1 DEF GrowFails, ChunksInUse
<1> QED
  BY <1>3, <1>4, <1>5, <1>6 DEF allocate

LEMMA NextInUse == SmallRequests /\ IInv /\ ChunksInUse /\ [Next]_vars => ChunksInUse'
<1> SUFFICES ASSUME SmallRequests, IInv, ChunksInUse, [Next]_vars PROVE ChunksInUse'
  OBVIOUS
<1>1. CASE reset
  <2>1. chunks \in Seq(Chunk) /\ DOMAIN chunks' = DOMAIN chunks /\ active_chunk_' = 0
        /\ \A c \in DOMAIN chunks : chunks'[c] = [chunks[c] EXCEPT !.used = 0]
    BY <1>1 DEF reset, IInv, TypeOK
  <2>2. \A c \in DOMAIN chunks' : ~(c <= active_chunk_') /\ ~(chunks'[c].used > 0)
    <3>1. \A c \in DOMAIN chunks : c >= 1 /\ chunks[c] \in Chunk
      BY <2>1
    <3> QED
      BY <2>1, <3>1 DEF Chunk
  <2> QED
    BY <2>2 DEF ChunksInUse
<1>2. ASSUME NEW r \in Requests, allocate(r[1], r[2]) PROVE ChunksInUse'
  <2>1. r[1] \in Nat \ {0} /\ r[2] \in Nat \ {0} /\ r[1] + r[2] <= ChunkSize
    BY RequestsAreSane DEF SmallRequests
  <2> QED
    BY <1>2, <2>1, AllocateKeepsInUse
<1>3. CASE UNCHANGED vars
  BY <1>3 DEF vars, ChunksInUse
<1> QED
  BY <1>1, <1>2, <1>3 DEF Next

-----------------------------------------------------------------------------
(* The theorems. *)

THEOREM Invariance == SmallRequests => (Spec => []IInv)
<1>1. ASSUME SmallRequests PROVE Spec => []IInv
  BY <1>1, InitIInv, NextIInv, PTL DEF Spec
<1> QED
  BY <1>1

\* With requests that fit a standard chunk no slice leaves its chunk, although
\* a chunk that reset() left behind is reused without checking its capacity.
THEOREM SlicesStayInBounds == SmallRequests => (Spec => []InBounds)
BY InvInBounds, Invariance, PTL

\* Live slices never overlap.
THEOREM SlicesNeverOverlap == SmallRequests => (Spec => []LiveDisjoint)
<1>1. IInv => LiveDisjoint
  BY DEF IInv
<1> QED
  BY <1>1, Invariance, PTL

\* The sanitizer lets the program touch all of a live slice; of a slice that
\* reset() took back it lets it touch only what shares a granule with a live
\* one.  Requests must fit a standard chunk: what an oversized slice unpoisons
\* behind its chunk is not poisoned by reset().
THEOREM PoisonIsExact == SmallRequests => (Spec => []PoisonTracksLiveness)
<1> SUFFICES ASSUME SmallRequests PROVE Spec => []PoisonTracksLiveness
  OBVIOUS
<1>1. Init => PoisonInv
  BY DEF Init, PoisonInv, TypeOK, LiveIsAddressable, AddressableIsInUse, AddressableInChunk
<1>2. PoisonInv => PoisonTracksLiveness
  BY DEF PoisonInv, TypeOK, LiveIsAddressable, AddressableIsInUse, PoisonTracksLiveness
<1>3. IInv /\ PoisonInv /\ [Next]_vars => PoisonInv'
  BY NextPoisonInv
<1> QED
  BY <1>1, <1>2, <1>3, InitIInv, NextIInv, PTL DEF Spec

\* Chunks are reused, not replaced: every step keeps each chunk's memory, and
\* the arena grows only when every chunk has a live slice, also after a failed
\* growth has moved active_chunk_ past the last one.
THEOREM ReusesBeforeGrowing == SmallRequests => (Spec => GrowsOnlyWhenNeeded)
<1> SUFFICES ASSUME SmallRequests PROVE Spec => GrowsOnlyWhenNeeded
  OBVIOUS
<1>1. Init => ChunksInUse
  BY DEF Init, ChunksInUse
<1>2. IInv /\ ChunksInUse /\ [Next]_vars =>
        [\A c \in DOMAIN chunks :
            /\ c \in DOMAIN chunks'
            /\ chunks'[c].base = chunks[c].base /\ chunks'[c].capacity = chunks[c].capacity
            /\ Len(chunks') > Len(chunks) => \E s \in live : s.chunk = c]_vars
  <2> SUFFICES ASSUME IInv, ChunksInUse, Next, NEW c \in DOMAIN chunks
               PROVE  /\ c \in DOMAIN chunks'
                      /\ chunks'[c].base = chunks[c].base /\ chunks'[c].capacity = chunks[c].capacity
                      /\ Len(chunks') > Len(chunks) => \E s \in live : s.chunk = c
    BY Zenon
  <2>0. TypeOK /\ chunks \in Seq(Chunk) /\ Len(chunks) \in Nat /\ active_chunk_ \in Nat
    BY DEF IInv, TypeOK
  <2>1. CASE reset
    <3>1. /\ DOMAIN chunks' = DOMAIN chunks /\ chunks'[c] = [chunks[c] EXCEPT !.used = 0]
          /\ chunks[c] \in Chunk
      BY <2>0, <2>1 DEF reset
    <3>2. Len(chunks') = Len(chunks)
      BY <2>0, <2>1 DEF reset
    <3> QED
      BY <2>0, <3>1, <3>2 DEF Chunk
  <2>2. ASSUME NEW r \in Requests, allocate(r[1], r[2])
        PROVE  /\ c \in DOMAIN chunks'
               /\ chunks'[c].base = chunks[c].base /\ chunks'[c].capacity = chunks[c].capacity
               /\ Len(chunks') > Len(chunks) => \E s \in live : s.chunk = c
    <3> DEFINE size == r[1]
               alignment == r[2]
    <3>1. size \in Nat \ {0} /\ alignment \in Nat \ {0} /\ size + alignment <= ChunkSize
      BY RequestsAreSane DEF SmallRequests
    <3> HIDE DEF size, alignment
    <3>2. ASSUME NEW cs, NEW d \in Nat, Sliced(cs, d, size, alignment)
          PROVE  /\ c \in DOMAIN chunks' /\ Len(chunks') = Len(cs)
                 /\ chunks'[c].base = chunks[c].base /\ chunks'[c].capacity = chunks[c].capacity
      <4>1. c \in DOMAIN cs /\ cs[c] = chunks[c]
        BY <3>2 DEF Sliced
      <4>2. /\ DOMAIN chunks' = DOMAIN cs /\ Len(chunks') = Len(cs)
            /\ chunks'[d].capacity = cs[d].capacity /\ chunks'[d].base = cs[d].base
            /\ \A e \in DOMAIN cs : e # d => chunks'[e] = cs[e]
        BY <2>0, <3>1, <3>2, BumpMemory
      <4> QED
        BY <4>1, <4>2
    <3>3. CASE AllocateFromActive(size, alignment)
      <4>1. Sliced(chunks, active_chunk_ + 1, size, alignment) /\ active_chunk_ + 1 \in Nat
        BY <2>0, <3>1, <3>3, ActiveSliced
      <4> QED
        BY <2>0, <3>2, <4>1
    <3>4. CASE AllocateFromReused(size, alignment)
      <4>1. Sliced(chunks, active_chunk_ + 2, size, alignment) /\ active_chunk_ + 2 \in Nat
        BY <2>0, <3>1, <3>4, ReusedSliced
      <4> QED
        BY <2>0, <3>2, <4>1
    <3>5. CASE AllocateFromNew(size, alignment)
      <4>1. PICK cs : Sliced(cs, Len(chunks) + 1, size, alignment)
        BY <2>0, <3>1, <3>5, NewSliced
      <4>2. \E s \in live : s.chunk = c
        BY <3>1, <3>5, AllInUse DEF AllocateFromNew
      <4>3. Len(chunks) + 1 \in Nat
        BY <2>0
      <4> QED
        BY <3>2, <4>1, <4>2, <4>3
    <3>6. CASE GrowFails(size, alignment)
      BY <2>0, <3>6 DEF GrowFails
    <3> QED
      BY <2>2, <3>3, <3>4, <3>5, <3>6 DEF allocate, size, alignment
  <2> QED
    BY <2>1, <2>2 DEF Next
<1> QED
  BY <1>1, <1>2, InitIInv, NextIInv, NextInUse, PTL DEF Spec, GrowsOnlyWhenNeeded

=============================================================================
