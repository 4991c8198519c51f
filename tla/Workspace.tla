----------------------------- MODULE Workspace -----------------------------
(***************************************************************************)
(* The per-thread bump arena (src/src/symbol_table/workspace.cc).  One     *)
(* thread owns an arena, so operations are atomic; what is hard is the     *)
(* reuse of chunks after reset() and the arithmetic of offsets.            *)
(*                                                                         *)
(* Bytes are numbered within their chunk.  Under AddressSanitizer the      *)
(* build poisons and unpoisons memory: addressable[c] holds the offsets of *)
(* chunk c that the shadow memory lets the program touch.                  *)
(***************************************************************************)
EXTENDS Integers, Sequences, FiniteSets

CONSTANTS ChunkSize,     \* kChunkSize
          Requests,      \* <<size, alignment>> arguments of allocate()
          Bases,         \* addresses operator new[] may return
          Granule,       \* bytes of memory one byte of ASan shadow describes
          MaxChunks,     \* bound: chunks an arena may grow to
          MaxLive,       \* bound: slices handed out between two resets
          MaxFailures    \* bound: allocations of a chunk that fail

ASSUME ChunkSizeIsPositive == ChunkSize \in Nat \ {0}
ASSUME RequestsAreSane == \A r \in Requests : r[1] \in Nat \ {0} /\ r[2] \in Nat \ {0}
ASSUME BasesAreAddresses == Bases \subseteq Nat
ASSUME GranuleIsPositive == Granule \in Nat \ {0}

VARIABLES chunks,        \* chunks_: [base, capacity, used]
          active_chunk_, \* index of the chunk being filled, from 0
          live,          \* slices handed out since the last reset()
          stale,         \* slices the last reset() took back
          addressable,   \* addressable[c]: unpoisoned offsets of chunk c
          failures       \* failed allocations so far (bounded)

vars == <<chunks, active_chunk_, live, stale, addressable, failures>>

-----------------------------------------------------------------------------
\* Mutant: rounds down.
AlignDown(offset, alignment) == offset - (offset % alignment)

\* (offset + alignment - 1) & ~(alignment - 1), alignment a power of two.
align_up(offset, alignment) ==
    LET n == offset + alignment - 1 IN n - (n % alignment)

Chunk == [base : Bases, capacity : Nat, used : Nat]

\* Where a request would end in chunk c: aligned + size.
EndIn(c, size, alignment) == align_up(c.used, alignment) + size

\* Mutant: compares the end with the capacity before aligning.
FitsUnaligned(c, size, alignment) == c.used + size <= c.capacity

Fits(c, size, alignment) == EndIn(c, size, alignment) <= c.capacity

HasActive == active_chunk_ < Len(chunks)

Active == chunks[active_chunk_ + 1]

Bytes(slice) == slice.first .. slice.first + slice.size - 1

\* Mutant: unpoisons from the start of the chunk.
UnpoisonFromStart(c, first, size) == addressable[c] \cup (0 .. first + size - 1)

\* __asan_unpoison_memory_region: a granule's shadow byte counts its leading
\* addressable bytes, so the granule is unpoisoned from its start.
Unpoison(c, first, size) == addressable[c] \cup (first - (first % Granule) .. first + size - 1)

\* __asan_poison_memory_region over chunk c: a granule that reaches past the
\* chunk stays as it is if a byte of it there is addressable, and so do the
\* granules behind, which an oversized slice may have unpoisoned.
Poison(c) ==
    {b \in addressable[c] : \E d \in addressable[c] :
                               d >= chunks[c].capacity /\ d \div Granule = b \div Granule}

\* The second half of allocate(): bump chunk c (counted from 1) of cs.
Bump(cs, c, size, alignment) ==
    LET first == align_up(cs[c].used, alignment) IN
    /\ chunks' = [cs EXCEPT ![c].used = first + size]
    /\ live' = live \cup {[chunk |-> c, first |-> first, size |-> size, alignment |-> alignment]}

Slice == [chunk : Nat, first : Nat, size : Nat \ {0}, alignment : Nat \ {0}]

TypeOK ==
    /\ chunks \in Seq(Chunk)
    /\ active_chunk_ \in 0 .. Len(chunks)
    /\ live \in SUBSET Slice /\ stale \in SUBSET Slice
    /\ \A s \in live \cup stale : s.chunk \in DOMAIN chunks
    /\ addressable \in Seq(SUBSET Nat) /\ Len(addressable) = Len(chunks)
    /\ failures \in Nat

Init ==
    /\ chunks = <<>>
    /\ active_chunk_ = 0
    /\ live = {}
    /\ stale = {}
    /\ addressable = <<>>
    /\ failures = 0

\* allocate() out of the active chunk, which has room.
AllocateFromActive(size, alignment) ==
    /\ HasActive /\ Fits(Active, size, alignment)
    /\ LET c == active_chunk_ + 1 IN
       /\ Bump(chunks, c, size, alignment)
       /\ addressable' = [addressable EXCEPT
                            ![c] = Unpoison(c, align_up(chunks[c].used, alignment), size)]
    /\ UNCHANGED <<active_chunk_, stale, failures>>

\* The active chunk is full: the arena moves on to the chunk after it, which a
\* reset() has left behind, and takes the slice from there.
AllocateFromReused(size, alignment) ==
    /\ HasActive /\ ~Fits(Active, size, alignment)
    /\ active_chunk_ + 1 < Len(chunks)
    /\ active_chunk_' = active_chunk_ + 1
    /\ LET c == active_chunk_ + 2 IN
       /\ Bump(chunks, c, size, alignment)
       /\ addressable' = [addressable EXCEPT
                            ![c] = Unpoison(c, align_up(chunks[c].used, alignment), size)]
    /\ UNCHANGED <<stale, failures>>

\* No chunk is left after the active one.
NoChunkLeft(size, alignment) ==
    HasActive => ~Fits(Active, size, alignment) /\ active_chunk_ + 1 = Len(chunks)

\* std::max(kChunkSize, size + alignment)
CapacityFor(size, alignment) ==
    IF ChunkSize < size + alignment THEN size + alignment ELSE ChunkSize

\* ... so a fresh chunk, poisoned as a whole, is appended and used.
AllocateFromNew(size, alignment) ==
    /\ NoChunkLeft(size, alignment)
    /\ Len(chunks) < MaxChunks
    /\ active_chunk_' = Len(chunks)
    /\ \E base \in Bases :
         LET fresh == [base |-> base, capacity |-> CapacityFor(size, alignment), used |-> 0] IN
         Bump(Append(chunks, fresh), Len(chunks) + 1, size, alignment)
    /\ addressable' = Append(addressable, 0 .. size - 1)
    /\ UNCHANGED <<stale, failures>>

\* ... or it cannot be had: bad_alloc leaves allocate() after active_chunk_
\* has moved past the last chunk.
GrowFails(size, alignment) ==
    /\ NoChunkLeft(size, alignment)
    /\ failures < MaxFailures
    /\ failures' = failures + 1
    /\ active_chunk_' = Len(chunks)
    /\ UNCHANGED <<chunks, live, stale, addressable>>

allocate(size, alignment) ==
    /\ Cardinality(live) < MaxLive
    /\ \/ AllocateFromActive(size, alignment)
       \/ AllocateFromReused(size, alignment)
       \/ AllocateFromNew(size, alignment)
       \/ GrowFails(size, alignment)

\* Mutant: goes on with the chunk that was active.
ResetInPlace ==
    /\ chunks' = [c \in DOMAIN chunks |-> [chunks[c] EXCEPT !.used = 0]]
    /\ addressable' = [c \in DOMAIN chunks |-> Poison(c)]
    /\ stale' = live
    /\ live' = {}
    /\ UNCHANGED <<active_chunk_, failures>>

reset ==
    /\ chunks' = [c \in DOMAIN chunks |-> [chunks[c] EXCEPT !.used = 0]]
    /\ active_chunk_' = 0
    /\ addressable' = [c \in DOMAIN chunks |-> Poison(c)]
    /\ stale' = live
    /\ live' = {}
    /\ UNCHANGED failures

Next == reset \/ \E r \in Requests : allocate(r[1], r[2])

Spec == Init /\ [][Next]_vars

-----------------------------------------------------------------------------
(* Properties *)

\* A slice handed out lies inside its chunk ("growing the arena with a new
\* chunk if necessary", workspace.hh:48).
InBounds == \A s \in live : s.first + s.size <= chunks[s.chunk].capacity

\* Live slices never share a byte ("without corrupting earlier allocations").
LiveDisjoint ==
    \A s, r \in live : s # r => s.chunk # r.chunk \/ Bytes(s) \cap Bytes(r) = {}

\* A live slice touches the granule of chunk c that byte b lies in.
GranuleInUse(c, b) ==
    \E r \in live : r.chunk = c /\ \E d \in Bytes(r) : d \div Granule = b \div Granule

\* The sanitizer lets the program touch all of a live slice, and after reset()
\* a stale slice only where a granule is in use again (workspace.hh:31-37).
PoisonTracksLiveness ==
    /\ \A s \in live : Bytes(s) \subseteq addressable[s.chunk]
    /\ \A s \in stale : \A b \in Bytes(s) \cap addressable[s.chunk] : GranuleInUse(s.chunk, b)

\* The chunks the arena has yet to reach are empty, so that skipping to the
\* next one never lands in memory that is in use.
LaterChunksAreEmpty ==
    /\ \A c \in DOMAIN chunks : c > active_chunk_ + 1 => chunks[c].used = 0
    /\ \A s \in live : s.chunk <= active_chunk_ + 1

\* Chunks are reused, not replaced: a step keeps every chunk's memory, and the
\* arena grows only when each chunk it has is in use since the last reset().
GrowsOnlyWhenNeeded ==
    [][\A c \in DOMAIN chunks :
          /\ c \in DOMAIN chunks'
          /\ chunks'[c].base = chunks[c].base /\ chunks'[c].capacity = chunks[c].capacity
          /\ Len(chunks') > Len(chunks) => \E s \in live : s.chunk = c]_vars

\* Every request fits a chunk of the standard size, whatever its alignment.
SmallRequests == \A r \in Requests : r[1] + r[2] <= ChunkSize

-----------------------------------------------------------------------------
(* The inductive invariants: chunks are filled from the front and none is    *)
(* smaller than the standard size; the shadow memory is as PoisonTracksLive- *)
(* ness wants it wherever the arena has memory, whoever held it before, and  *)
(* nothing behind a chunk is unpoisoned, so that reset() poisons all of it;  *)
(* the arena has left no chunk, and moved no offset, without a live slice    *)
(* there.                                                                    *)

FilledFromFront ==
    /\ \A c \in DOMAIN chunks : chunks[c].used <= chunks[c].capacity
                                /\ ChunkSize <= chunks[c].capacity
    /\ \A s \in live : s.first + s.size <= chunks[s.chunk].used

IInv == TypeOK /\ FilledFromFront /\ LaterChunksAreEmpty /\ LiveDisjoint

LiveIsAddressable == \A s \in live : Bytes(s) \subseteq addressable[s.chunk]

AddressableIsInUse == \A c \in DOMAIN chunks : \A b \in addressable[c] : GranuleInUse(c, b)

AddressableInChunk == \A c \in DOMAIN chunks : \A b \in addressable[c] : b < chunks[c].capacity

PoisonInv == TypeOK /\ LiveIsAddressable /\ AddressableIsInUse /\ AddressableInChunk

ChunksInUse ==
    \A c \in DOMAIN chunks :
      c <= active_chunk_ \/ chunks[c].used > 0 => \E s \in live : s.chunk = c

=============================================================================
