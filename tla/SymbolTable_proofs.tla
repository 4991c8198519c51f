------------------------- MODULE SymbolTable_proofs -------------------------
(* Theorems about SymbolTable, for any threads, names and attributes. *)
EXTENDS SymbolTable, FiniteSetTheorems, TLAPS

-----------------------------------------------------------------------------
(* What the copy-and-append step does to a snapshot. *)

\* Arguments of the operators stay in their types.
LEMMA NameOfType ==
    ASSUME request \in [Threads -> Requests], NEW t \in Threads
    PROVE  NameOf(t) \in Names /\ request[t].attributes \in AttributeLists
BY RequestsAreTyped DEF NameOf, Names

\* Appending an entry yields a snapshot with every old entry in its place.
LEMMA AppendedType ==
    ASSUME request \in [Threads -> Requests], NEW t \in Threads, NEW s \in Snapshot
    PROVE  /\ Appended(s, t) \in Snapshot
           /\ Keeps(s, Appended(s, t))
           /\ Len(Appended(s, t).entries) = Len(s.entries) + 1
           /\ EntryOf(Appended(s, t), Len(s.entries)).name = NameOf(t)
<1> DEFINE e == [name |-> NameOf(t), attributes |-> request[t].attributes, location |-> t]
<1>1. e \in Entry
  BY NameOfType DEF Entry
<1>2. s.entries \in Seq(Entry) /\ s.index \in [Names -> Nat] /\ Len(s.entries) \in Nat
  BY DEF Snapshot
<1>3. Append(s.entries, e) \in Seq(Entry) /\ Len(Append(s.entries, e)) = Len(s.entries) + 1
  BY <1>1, <1>2
<1>4. [s.index EXCEPT ![NameOf(t)] = IF @ # 0 THEN @ ELSE Len(s.entries) + 1] \in [Names -> Nat]
  BY <1>2, NameOfType
<1>5. Appended(s, t) \in Snapshot /\ Appended(s, t).entries = Append(s.entries, e)
  BY <1>3, <1>4 DEF Appended, Snapshot
<1>6. Keeps(s, Appended(s, t))
  BY <1>1, <1>2, <1>5 DEF Keeps
<1>7. EntryOf(Appended(s, t), Len(s.entries)) = e
  BY <1>1, <1>2, <1>5 DEF EntryOf
<1> QED
  BY <1>3, <1>5, <1>6, <1>7

\* Appending a name the snapshot does not have keeps the index in agreement.
LEMMA AppendedWhole ==
    ASSUME request \in [Threads -> Requests], NEW t \in Threads, NEW s \in Snapshot,
           Whole(s), ~Finds(s, NameOf(t))
    PROVE  Whole(Appended(s, t))
<1> DEFINE e == [name |-> NameOf(t), attributes |-> request[t].attributes, location |-> t]
           u == Appended(s, t)
<1>1. e \in Entry /\ e.name = NameOf(t) /\ NameOf(t) \in Names
  BY NameOfType DEF Entry
<1>2. s.entries \in Seq(Entry) /\ s.index \in [Names -> Nat] /\ Len(s.entries) \in Nat
  BY DEF Snapshot
<1>3. u.entries = Append(s.entries, e)
      /\ u.index = [s.index EXCEPT ![NameOf(t)] = Len(s.entries) + 1]
  BY <1>2 DEF Appended, Finds
<1>4. ASSUME NEW n \in Names, Finds(u, n)
      PROVE  IsValidId(u, IdOf(u, n)) /\ EntryOf(u, IdOf(u, n)).name = n
  <2>1. CASE n = NameOf(t)
    <3>1. u.index[n] = Len(s.entries) + 1
      BY <1>1, <1>2, <1>3, <2>1
    <3>2. u.entries[Len(s.entries) + 1] = e /\ Len(s.entries) + 1 \in DOMAIN u.entries
      BY <1>1, <1>2, <1>3
    <3> QED
      BY <1>1, <1>2, <2>1, <3>1, <3>2 DEF IsValidId, IdOf, EntryOf
  <2>2. CASE n # NameOf(t)
    <3>1. u.index[n] = s.index[n] /\ s.index[n] \in Nat
      BY <1>1, <1>2, <1>3, <2>2
    <3>2. IsValidId(s, IdOf(s, n)) /\ EntryOf(s, IdOf(s, n)).name = n
      BY <1>4, <3>1 DEF Whole, Finds
    <3>3. s.index[n] \in DOMAIN s.entries /\ s.entries[s.index[n]].name = n
      BY <3>1, <3>2 DEF IsValidId, IdOf, EntryOf
    <3>4. s.index[n] \in DOMAIN u.entries /\ u.entries[s.index[n]] = s.entries[s.index[n]]
      BY <1>1, <1>2, <1>3, <3>3
    <3> QED
      BY <3>1, <3>3, <3>4 DEF IsValidId, IdOf, EntryOf
  <2> QED
    BY <2>1, <2>2
<1>5. ASSUME NEW i \in DOMAIN u.entries
      PROVE  u.index[u.entries[i].name] = i
  <2>1. CASE i = Len(s.entries) + 1
    BY <1>1, <1>2, <1>3, <2>1
  <2>2. CASE i # Len(s.entries) + 1
    <3>1. i \in DOMAIN s.entries /\ u.entries[i] = s.entries[i]
      BY <1>1, <1>2, <1>3, <2>2
    <3>5. s.entries[i] \in Entry /\ i # 0
      BY <1>2, <3>1
    <3>2. s.entries[i].name \in Names /\ i # 0
      BY <3>5 DEF Entry
    <3>4. s.index[s.entries[i].name] = i
      BY <3>1 DEF Whole
    <3>3. s.entries[i].name # NameOf(t)
      BY <3>2, <3>4 DEF Finds
    <3> QED
      BY <1>1, <1>2, <1>3, <3>1, <3>2, <3>3, <3>4
  <2> QED
    BY <2>1, <2>2
<1> QED
  BY <1>4, <1>5 DEF Whole
\* What a lookup that found the name answers is an outcome, and a Symbol it
\* answers is the one the snapshot has under that name.
LEMMA ValidateType ==
    ASSUME request \in [Threads -> Requests], NEW t \in Threads, NEW s \in Snapshot,
           Whole(s), Finds(s, NameOf(t))
    PROVE  /\ Validate(s, t) \in Outcome
           /\ Validate(s, t).kind \in {"symbol", "conflict"}
           /\ Validate(s, t).kind = "symbol" => /\ Validate(s, t).id \in Nat
                                                /\ Knows(s, Validate(s, t).id, NameOf(t))
<1> DEFINE id == IdOf(s, NameOf(t))
<1>1. s.entries \in Seq(Entry) /\ s.index \in [Names -> Nat] /\ NameOf(t) \in Names
  BY NameOfType DEF Snapshot
<1>2. IsValidId(s, id) /\ EntryOf(s, id).name = NameOf(t)
  BY <1>1 DEF Whole
<1>3. id \in Nat
  BY <1>1 DEF IdOf, Finds
<1>4. EntryOf(s, id) \in Entry
  BY <1>1, <1>2 DEF EntryOf, IsValidId
<1>5. EntryOf(s, id).location \in Threads
  BY <1>4 DEF Entry
<1>6. CASE same_attributes(request[t].attributes, EntryOf(s, id).attributes)
  <2>1. Validate(s, t) = [kind |-> "symbol", id |-> id]
    BY <1>6 DEF Validate, Returned
  <2>2. [kind |-> "symbol", id |-> id] \in [kind : {"symbol"}, id : Nat]
    BY <1>3
  <2> QED
    BY <1>2, <1>3, <2>1, <2>2 DEF Outcome, Knows
<1>7. CASE ~same_attributes(request[t].attributes, EntryOf(s, id).attributes)
  <2>1. Validate(s, t) = [kind |-> "conflict", location |-> EntryOf(s, id).location]
    BY <1>7 DEF Validate, Conflict
  <2>2. [kind |-> "conflict", location |-> EntryOf(s, id).location]
          \in [kind : {"conflict"}, location : Threads]
    BY <1>5
  <2> QED
    BY <2>1, <2>2 DEF Outcome
<1> QED
  BY <1>6, <1>7

\* What a snapshot knows, every snapshot that keeps its entries knows.
LEMMA KnowsKept ==
    ASSUME NEW s, NEW u, NEW id, NEW n, Keeps(s, u), Knows(s, id, n)
    PROVE  Knows(u, id, n)
BY DEF Keeps, Knows, IsValidId, EntryOf

\* The snapshots a thread may load, and the newest one.
LEMMA SnapshotTypes ==
    ASSUME TypeOK
    PROVE  /\ Len(snapshots) \in Nat /\ Len(snapshots) \in DOMAIN snapshots
           /\ DOMAIN snapshots = 1 .. Len(snapshots)
           /\ Latest \in Snapshot
           /\ \A v \in DOMAIN snapshots : snapshots[v] \in Snapshot
           /\ \A t \in Threads : /\ view[t] \in DOMAIN snapshots
                                 /\ Loadable(t) \subseteq DOMAIN snapshots
BY DEF TypeOK, Latest, Loadable

-----------------------------------------------------------------------------
(* The invariant is inductive. *)

\* There is something to ask for.
LEMMA SomeRequest == (CHOOSE r \in Requests : TRUE) \in Requests
BY SomethingToAskFor

\* It holds at the start.
LEMMA InitIInv == Init => IInv
<1> SUFFICES ASSUME Init PROVE IInv
  OBVIOUS
<1>1. EmptySnapshot \in Snapshot
  BY DEF EmptySnapshot, Snapshot
<1>2. (CHOOSE r \in Requests : TRUE) \in Requests
  BY SomeRequest
<1>3. /\ snapshots \in Seq(Snapshot) /\ snapshots # <<>>
      /\ DOMAIN snapshots = {1} /\ Len(snapshots) = 1 /\ snapshots[1] = EmptySnapshot
  BY <1>1 DEF Init
<1>4. TypeOK
  BY <1>1, <1>2, <1>3, MaxFailuresIsNat DEF Init, TypeOK, Outcome, NoOutcome
<1>5. Whole(EmptySnapshot)
  BY DEF Whole, Finds, EmptySnapshot
<1>6. SnapshotsAreWhole
  BY <1>3, <1>5 DEF SnapshotsAreWhole
<1>7. HolderSeesLatest
  BY <1>3, NoThreadIsNotAThread DEF Init, HolderSeesLatest
<1>8. SnapshotsGrow
  BY <1>3 DEF SnapshotsGrow, Keeps
<1>9. BuiltOnLatest /\ HandlesAreKnown
  BY DEF Init, BuiltOnLatest, HandlesAreKnown
<1> QED
  BY <1>4, <1>6, <1>7, <1>8, <1>9 DEF IInv

\* Loading a newer snapshot, a thread loses no handle it knows.
LEMMA LoadKeepsHandles ==
    ASSUME IInv, NEW t \in Threads, NEW v \in Loadable(t), NEW h \in handles[t]
    PROVE  Knows(snapshots[v], h.id, qualify(h.pair))
<1>1. v \in DOMAIN snapshots /\ view[t] \in DOMAIN snapshots /\ view[t] <= v
  BY SnapshotTypes DEF IInv, Loadable
<1>2. Keeps(snapshots[view[t]], snapshots[v])
  BY <1>1 DEF IInv, SnapshotsGrow
<1>3. Knows(snapshots[view[t]], h.id, qualify(h.pair))
  BY DEF IInv, HandlesAreKnown
<1> QED
  BY <1>2, <1>3, KnowsKept

\* Under the lock a relaxed load returns the newest snapshot.
LEMMA LockedLoad ==
    ASSUME IInv, NEW t \in Threads, owner = t, NEW v \in Loadable(t)
    PROVE  v = Len(snapshots) /\ snapshots[v] = Latest /\ v = view[t]
<1>1. Len(snapshots) \in Nat /\ view[t] = Len(snapshots)
  BY SnapshotTypes DEF IInv, HolderSeesLatest
<1> QED
  BY <1>1 DEF Loadable, Latest

\* Starting a call changes nothing but the caller's own arguments.
LEMMA CallKeeps ==
    ASSUME IInv, NEW t \in Threads, get_symbol(t)
    PROVE  IInv'
<1>1. TypeOK'
  BY DEF IInv, TypeOK, get_symbol, Outcome, NoOutcome
<1>2. SnapshotsAreWhole' /\ SnapshotsGrow'
  BY DEF IInv, SnapshotsAreWhole, SnapshotsGrow, get_symbol
<1>3. HolderSeesLatest'
  BY DEF IInv, TypeOK, HolderSeesLatest, get_symbol
<1>4. BuiltOnLatest'
  BY DEF IInv, TypeOK, BuiltOnLatest, get_symbol, Latest, NameOf, Appended
<1>5. HandlesAreKnown'
  BY DEF IInv, TypeOK, HandlesAreKnown, get_symbol, NameOf
<1> QED
  BY <1>1, <1>2, <1>3, <1>4, <1>5 DEF IInv

\* A lock-free hit hands out a handle of the snapshot it was found in.
LEMMA FastHitKeeps ==
    ASSUME IInv, NEW t \in Threads, FastHit(t)
    PROVE  IInv'
<1>1. PICK v \in Loadable(t) :
        /\ Finds(snapshots[v], NameOf(t))
        /\ view' = [view EXCEPT ![t] = v]
        /\ outcome' = [outcome EXCEPT ![t] = Validate(snapshots[v], t)]
        /\ Deliver(t, Validate(snapshots[v], t))
  BY DEF FastHit
<1> DEFINE result == Validate(snapshots[v], t)
<1>2. v \in DOMAIN snapshots /\ snapshots[v] \in Snapshot /\ Whole(snapshots[v])
  BY SnapshotTypes DEF IInv, SnapshotsAreWhole
<1>3. result \in Outcome /\ result.kind \in {"symbol", "conflict"}
      /\ (result.kind = "symbol" =>
            result.id \in Nat /\ Knows(snapshots[v], result.id, NameOf(t)))
  BY <1>1, <1>2, ValidateType DEF IInv, TypeOK
<1>4. handles' = IF result.kind = "symbol"
                 THEN [handles EXCEPT ![t] = @ \cup {[id |-> result.id, pair |-> request[t].pair]}]
                 ELSE handles
  BY <1>1 DEF Deliver
<1>5. TypeOK'
  <2>1. request[t].pair \in Pairs
    BY RequestsAreTyped DEF IInv, TypeOK
  <2>2. handles' \in [Threads -> SUBSET [id : Nat, pair : Pairs]]
    BY <1>3, <1>4, <2>1 DEF IInv, TypeOK
  <2>3. view' \in [Threads -> 1 .. Len(snapshots)]
    BY <1>1, <1>2, SnapshotTypes DEF IInv, TypeOK
  <2>4. outcome' \in [Threads -> Outcome]
    BY <1>1, <1>3 DEF IInv, TypeOK
  <2> QED
    BY <2>2, <2>3, <2>4 DEF IInv, TypeOK, FastHit
<1>6. SnapshotsAreWhole' /\ SnapshotsGrow'
  BY DEF IInv, SnapshotsAreWhole, SnapshotsGrow, FastHit
<1>7. owner # t
  BY DEF IInv, HolderSeesLatest, FastHit
<1>8. HolderSeesLatest'
  BY <1>1, <1>7 DEF IInv, TypeOK, HolderSeesLatest, FastHit
<1>9. BuiltOnLatest'
  BY DEF IInv, TypeOK, BuiltOnLatest, FastHit, Latest, NameOf, Appended
<1>10. HandlesAreKnown'
  <2>1. ASSUME NEW u \in Threads, NEW h \in handles'[u]
        PROVE  Knows(snapshots[view'[u]], h.id, qualify(h.pair))
    <3>1. CASE u # t
      BY <1>1, <1>4, <2>1, <3>1 DEF IInv, TypeOK, HandlesAreKnown
    <3>2. CASE u = t /\ h \in handles[t]
      BY <1>1, <3>2, LoadKeepsHandles DEF IInv, TypeOK
    <3>3. CASE u = t /\ h \notin handles[t]
      <4>1. result.kind = "symbol" /\ h = [id |-> result.id, pair |-> request[t].pair]
        BY <1>4, <2>1, <3>3 DEF IInv, TypeOK
      <4> QED
        BY <1>1, <1>3, <3>3, <4>1 DEF IInv, TypeOK, NameOf
    <3> QED
      BY <3>1, <3>2, <3>3
  <2>2. ASSUME NEW u \in Threads, pc'[u] = "unlock", outcome'[u].kind = "symbol"
        PROVE  Knows(snapshots[view'[u]], outcome'[u].id, NameOf(u)')
    <3>1. u # t /\ pc[u] = "unlock"
      BY <2>2 DEF IInv, TypeOK, FastHit
    <3>2. outcome'[u] = outcome[u] /\ view'[u] = view[u]
      BY <1>1, <3>1 DEF IInv, TypeOK
    <3> QED
      BY <2>2, <3>1, <3>2 DEF IInv, HandlesAreKnown, NameOf, FastHit
  <2>3. snapshots' = snapshots
    BY DEF FastHit
  <2> QED
    BY <2>1, <2>2, <2>3 DEF HandlesAreKnown, Knows, IsValidId, EntryOf
<1> QED
  BY <1>5, <1>6, <1>8, <1>9, <1>10 DEF IInv

\* Any step that only moves the view of a thread that does not hold the lock,
\* to a snapshot it may load, and touches neither calls nor handles nor locks.
LEMMA ViewMoves ==
    ASSUME IInv, NEW t \in Threads, owner # t, NEW v \in Loadable(t),
           view' = [view EXCEPT ![t] = v],
           UNCHANGED <<snapshots, handles>>
    PROVE  /\ view' \in [Threads -> 1 .. Len(snapshots')]
           /\ \A u \in Threads : owner = u => view'[u] = Len(snapshots)
           /\ \A u \in Threads : \A h \in handles'[u] :
                 Knows(snapshots'[view'[u]], h.id, qualify(h.pair))
           /\ \A u \in Threads : pc[u] = "unlock" => view'[u] = view[u]
<1>1. v \in DOMAIN snapshots /\ DOMAIN snapshots = 1 .. Len(snapshots)
  BY SnapshotTypes DEF IInv
<1>2. view \in [Threads -> 1 .. Len(snapshots)]
  BY DEF IInv, TypeOK
<1>3. view' \in [Threads -> 1 .. Len(snapshots')]
  BY <1>1, <1>2
<1>4. \A u \in Threads : owner = u => view'[u] = Len(snapshots)
  BY <1>2 DEF IInv, HolderSeesLatest
<1>5. \A u \in Threads : pc[u] = "unlock" => view'[u] = view[u]
  BY <1>2 DEF IInv, HolderSeesLatest
<1>6. ASSUME NEW u \in Threads, NEW h \in handles'[u]
      PROVE  Knows(snapshots'[view'[u]], h.id, qualify(h.pair))
  <2>1. CASE u = t
    BY <1>2, <2>1, LoadKeepsHandles
  <2>2. CASE u # t
    BY <1>2, <2>2 DEF IInv, HandlesAreKnown
  <2> QED
    BY <2>1, <2>2
<1> QED
  BY <1>3, <1>4, <1>5, <1>6

\* A lock-free miss sends the thread to the lock.
LEMMA FastMissKeeps ==
    ASSUME IInv, NEW t \in Threads, FastMiss(t)
    PROVE  IInv'
<1>1. PICK v \in Loadable(t) : view' = [view EXCEPT ![t] = v]
  BY DEF FastMiss
<1>2. owner # t
  BY DEF IInv, HolderSeesLatest, FastMiss
<1>3. /\ view' \in [Threads -> 1 .. Len(snapshots')]
      /\ \A u \in Threads : owner = u => view'[u] = Len(snapshots)
      /\ \A u \in Threads : \A h \in handles'[u] :
            Knows(snapshots'[view'[u]], h.id, qualify(h.pair))
      /\ \A u \in Threads : pc[u] = "unlock" => view'[u] = view[u]
  BY <1>1, <1>2, ViewMoves DEF FastMiss
<1>4. TypeOK'
  BY <1>3 DEF IInv, TypeOK, FastMiss
<1>5. SnapshotsAreWhole' /\ SnapshotsGrow'
  BY DEF IInv, SnapshotsAreWhole, SnapshotsGrow, FastMiss
<1>6. HolderSeesLatest'
  BY <1>2, <1>3 DEF IInv, TypeOK, HolderSeesLatest, FastMiss
<1>7. BuiltOnLatest'
  BY DEF IInv, TypeOK, BuiltOnLatest, FastMiss, Latest, NameOf, Appended
<1>8. HandlesAreKnown'
  <2>1. ASSUME NEW u \in Threads, pc'[u] = "unlock", outcome'[u].kind = "symbol"
        PROVE  Knows(snapshots'[view'[u]], outcome'[u].id, NameOf(u)')
    <3>1. pc[u] = "unlock" /\ view'[u] = view[u]
      BY <1>3, <2>1 DEF IInv, TypeOK, FastMiss
    <3> QED
      BY <2>1, <3>1 DEF IInv, HandlesAreKnown, NameOf, FastMiss
  <2> QED
    BY <1>3, <2>1 DEF HandlesAreKnown, Knows, IsValidId, EntryOf
<1> QED
  BY <1>4, <1>5, <1>6, <1>7, <1>8 DEF IInv

\* Locking brings the thread up to the newest snapshot.
LEMMA LockKeeps ==
    ASSUME IInv, NEW t \in Threads, Lock(t)
    PROVE  IInv'
<1>1. Len(snapshots) \in Nat /\ view \in [Threads -> 1 .. Len(snapshots)]
      /\ mutexView = Len(snapshots)
  BY SnapshotTypes DEF IInv, TypeOK, HolderSeesLatest, Lock
<1>2. Joined(view[t], mutexView) = Len(snapshots)
  BY <1>1 DEF Joined
<1>3. view' = [view EXCEPT ![t] = Len(snapshots)] /\ Len(snapshots) \in Loadable(t)
  BY <1>1, <1>2 DEF Lock, Loadable
<1>4. owner # t
  BY NoThreadIsNotAThread DEF Lock
<1>5. /\ view' \in [Threads -> 1 .. Len(snapshots')]
      /\ \A u \in Threads : \A h \in handles'[u] :
            Knows(snapshots'[view'[u]], h.id, qualify(h.pair))
      /\ \A u \in Threads : pc[u] = "unlock" => view'[u] = view[u]
  BY <1>3, <1>4, ViewMoves DEF Lock
<1>6. TypeOK'
  BY <1>5 DEF IInv, TypeOK, Lock
<1>7. SnapshotsAreWhole' /\ SnapshotsGrow'
  BY DEF IInv, SnapshotsAreWhole, SnapshotsGrow, Lock
<1>8. HolderSeesLatest'
  BY <1>1, <1>3, NoThreadIsNotAThread DEF IInv, TypeOK, HolderSeesLatest, Lock
<1>9. BuiltOnLatest'
  BY DEF IInv, TypeOK, BuiltOnLatest, Lock, Latest, NameOf, Appended
<1>10. HandlesAreKnown'
  <2>1. ASSUME NEW u \in Threads, pc'[u] = "unlock", outcome'[u].kind = "symbol"
        PROVE  Knows(snapshots'[view'[u]], outcome'[u].id, NameOf(u)')
    <3>1. pc[u] = "unlock" /\ view'[u] = view[u]
      BY <1>5, <2>1 DEF IInv, TypeOK, Lock
    <3> QED
      BY <2>1, <3>1 DEF IInv, HandlesAreKnown, NameOf, Lock
  <2> QED
    BY <1>5, <2>1 DEF HandlesAreKnown, Knows, IsValidId, EntryOf
<1> QED
  BY <1>6, <1>7, <1>8, <1>9, <1>10 DEF IInv

\* A hit under the lock: the answer is an entry of the newest snapshot.
LEMMA RecheckHitKeeps ==
    ASSUME IInv, NEW t \in Threads, RecheckHit(t)
    PROVE  IInv'
<1>1. owner = t
  BY DEF IInv, HolderSeesLatest, RecheckHit
<1>2. PICK v \in Loadable(t) :
        /\ Finds(snapshots[v], NameOf(t))
        /\ view' = [view EXCEPT ![t] = v]
        /\ outcome' = [outcome EXCEPT ![t] = Validate(snapshots[v], t)]
  BY DEF RecheckHit
<1>3. view' = view /\ snapshots[v] = snapshots[view[t]] /\ v = view[t]
  BY <1>1, <1>2, LockedLoad DEF IInv, TypeOK
<1>4. snapshots[v] \in Snapshot /\ Whole(snapshots[v])
  BY <1>2, SnapshotTypes DEF IInv, SnapshotsAreWhole
<1>5. Validate(snapshots[v], t) \in Outcome
      /\ (Validate(snapshots[v], t).kind = "symbol" =>
            Knows(snapshots[v], Validate(snapshots[v], t).id, NameOf(t)))
  BY <1>2, <1>4, ValidateType DEF IInv, TypeOK
<1>6. TypeOK'
  <2>1. outcome' \in [Threads -> Outcome]
    BY <1>2, <1>5 DEF IInv, TypeOK
  <2> QED
    BY <1>3, <2>1 DEF IInv, TypeOK, RecheckHit
<1>7. SnapshotsAreWhole' /\ SnapshotsGrow'
  BY DEF IInv, SnapshotsAreWhole, SnapshotsGrow, RecheckHit
<1>8. HolderSeesLatest'
  BY <1>3 DEF IInv, TypeOK, HolderSeesLatest, RecheckHit
<1>9. BuiltOnLatest'
  BY DEF IInv, TypeOK, BuiltOnLatest, RecheckHit, Latest, NameOf, Appended
<1>10. HandlesAreKnown'
  <2>1. ASSUME NEW u \in Threads, pc'[u] = "unlock", outcome'[u].kind = "symbol"
        PROVE  Knows(snapshots'[view'[u]], outcome'[u].id, NameOf(u)')
    <3>1. CASE u = t
      BY <1>2, <1>3, <1>5, <2>1, <3>1 DEF IInv, TypeOK, NameOf, RecheckHit
    <3>2. CASE u # t
      <4>1. pc[u] = "unlock" /\ outcome'[u] = outcome[u]
        BY <1>2, <2>1, <3>2 DEF IInv, TypeOK, RecheckHit
      <4> QED
        BY <1>3, <2>1, <4>1 DEF IInv, HandlesAreKnown, NameOf, RecheckHit
    <3> QED
      BY <3>1, <3>2
  <2>2. \A u \in Threads : \A h \in handles'[u] :
           Knows(snapshots'[view'[u]], h.id, qualify(h.pair))
    BY <1>3 DEF IInv, HandlesAreKnown, RecheckHit
  <2> QED
    BY <2>1, <2>2 DEF HandlesAreKnown, Knows, IsValidId, EntryOf
<1> QED
  BY <1>6, <1>7, <1>8, <1>9, <1>10 DEF IInv

\* A miss under the lock: the thread builds the newest snapshot plus one entry.
LEMMA RecheckMissKeeps ==
    ASSUME IInv, NEW t \in Threads, RecheckMiss(t)
    PROVE  IInv'
<1>1. owner = t
  BY DEF IInv, HolderSeesLatest, RecheckMiss
<1>2. PICK v \in Loadable(t) :
        /\ ~Finds(snapshots[v], NameOf(t))
        /\ view' = [view EXCEPT ![t] = v]
        /\ next' = [next EXCEPT ![t] = Appended(snapshots[v], t)]
  BY DEF RecheckMiss
<1>3. view' = view /\ snapshots[v] = Latest
  BY <1>1, <1>2, LockedLoad DEF IInv, TypeOK
<1>4. Appended(Latest, t) \in Snapshot
  BY SnapshotTypes, AppendedType DEF IInv, TypeOK
<1>5. TypeOK'
  <2>1. next' \in [Threads -> Snapshot]
    BY <1>2, <1>3, <1>4 DEF IInv, TypeOK
  <2> QED
    BY <1>3, <2>1 DEF IInv, TypeOK, RecheckMiss
<1>6. SnapshotsAreWhole' /\ SnapshotsGrow'
  BY DEF IInv, SnapshotsAreWhole, SnapshotsGrow, RecheckMiss
<1>7. HolderSeesLatest'
  BY <1>3 DEF IInv, TypeOK, HolderSeesLatest, RecheckMiss
<1>8. BuiltOnLatest'
  <2>1. ASSUME NEW u \in Threads, pc'[u] = "publish"
        PROVE  ~Finds(Latest, NameOf(u)) /\ next'[u] = Appended(Latest, u)
    <3>1. CASE u = t
      BY <1>2, <1>3, <3>1 DEF IInv, TypeOK
    <3>2. CASE u # t
      <4>1. pc[u] = "publish" /\ next'[u] = next[u]
        BY <1>2, <2>1, <3>2 DEF IInv, TypeOK, RecheckMiss
      <4> QED
        BY <4>1 DEF IInv, BuiltOnLatest
    <3> QED
      BY <3>1, <3>2
  <2>2. snapshots' = snapshots /\ request' = request
    BY DEF RecheckMiss
  <2> QED
    BY <2>1, <2>2 DEF BuiltOnLatest, Latest, NameOf, Appended
<1>9. HandlesAreKnown'
  BY <1>3 DEF IInv, TypeOK, HandlesAreKnown, NameOf, RecheckMiss
<1> QED
  BY <1>5, <1>6, <1>7, <1>8, <1>9 DEF IInv

\* An allocation that fails while a call runs leaves the table as it was.
LEMMA CopyFailsKeeps ==
    ASSUME IInv, NEW t \in Threads, CopyFails(t)
    PROVE  IInv'
<1>1. EmptySnapshot \in Snapshot /\ BadAlloc \in Outcome
  BY DEF EmptySnapshot, Snapshot, Outcome
<1>2. TypeOK'
  BY <1>1, MaxFailuresIsNat DEF IInv, TypeOK, CopyFails, RunsOut
<1>3. SnapshotsAreWhole' /\ SnapshotsGrow'
  BY DEF IInv, SnapshotsAreWhole, SnapshotsGrow, CopyFails, RunsOut
<1>4. HolderSeesLatest'
  BY DEF IInv, TypeOK, HolderSeesLatest, CopyFails, RunsOut
<1>5. BuiltOnLatest'
  BY DEF IInv, TypeOK, BuiltOnLatest, CopyFails, RunsOut, Latest, NameOf, Appended
<1>6. HandlesAreKnown'
  BY DEF IInv, TypeOK, HandlesAreKnown, NameOf, CopyFails, RunsOut, BadAlloc
<1> QED
  BY <1>2, <1>3, <1>4, <1>5, <1>6 DEF IInv

\* So does one that fails under the lock, where the name was found.
LEMMA RecheckHitFailsKeeps ==
    ASSUME IInv, NEW t \in Threads, RecheckHitFails(t)
    PROVE  IInv'
<1>1. owner = t
  BY DEF IInv, HolderSeesLatest, RecheckHitFails
<1>2. PICK v \in Loadable(t) : view' = [view EXCEPT ![t] = v]
  BY DEF RecheckHitFails
<1>3. view' = view
  BY <1>1, <1>2, LockedLoad DEF IInv, TypeOK
<1>4. BadAlloc \in Outcome
  BY DEF Outcome
<1>5. TypeOK'
  BY <1>3, <1>4, MaxFailuresIsNat DEF IInv, TypeOK, RecheckHitFails, RunsOut
<1>6. SnapshotsAreWhole' /\ SnapshotsGrow'
  BY DEF IInv, SnapshotsAreWhole, SnapshotsGrow, RecheckHitFails, RunsOut
<1>7. HolderSeesLatest'
  BY <1>3 DEF IInv, TypeOK, HolderSeesLatest, RecheckHitFails, RunsOut
<1>8. BuiltOnLatest'
  BY DEF IInv, TypeOK, BuiltOnLatest, RecheckHitFails, RunsOut, Latest, NameOf, Appended
<1>9. HandlesAreKnown'
  BY <1>3 DEF IInv, TypeOK, HandlesAreKnown, NameOf, RecheckHitFails, RunsOut, BadAlloc
<1> QED
  BY <1>5, <1>6, <1>7, <1>8, <1>9 DEF IInv

\* Without the lock, a thread that runs out of memory may have moved its view.
LEMMA UnlockedFailureKeeps ==
    ASSUME IInv, NEW t \in Threads, NEW v \in Loadable(t), pc[t] \in {"idle", "fast"},
           view' = [view EXCEPT ![t] = v], RunsOut(t, "idle"), UNCHANGED next
    PROVE  IInv'
<1>1. owner # t
  BY DEF IInv, HolderSeesLatest
<1>2. /\ view' \in [Threads -> 1 .. Len(snapshots')]
      /\ \A u \in Threads : owner = u => view'[u] = Len(snapshots)
      /\ \A u \in Threads : \A h \in handles'[u] :
            Knows(snapshots'[view'[u]], h.id, qualify(h.pair))
      /\ \A u \in Threads : pc[u] = "unlock" => view'[u] = view[u]
  BY <1>1, ViewMoves DEF RunsOut
<1>3. BadAlloc \in Outcome
  BY DEF Outcome
<1>4. TypeOK'
  BY <1>2, <1>3, MaxFailuresIsNat DEF IInv, TypeOK, RunsOut
<1>5. SnapshotsAreWhole' /\ SnapshotsGrow'
  BY DEF IInv, SnapshotsAreWhole, SnapshotsGrow, RunsOut
<1>6. HolderSeesLatest'
  BY <1>1, <1>2 DEF IInv, TypeOK, HolderSeesLatest, RunsOut
<1>7. BuiltOnLatest'
  BY DEF IInv, TypeOK, BuiltOnLatest, RunsOut, Latest, NameOf, Appended
<1>8. HandlesAreKnown'
  <2>1. ASSUME NEW u \in Threads, pc'[u] = "unlock", outcome'[u].kind = "symbol"
        PROVE  Knows(snapshots'[view'[u]], outcome'[u].id, NameOf(u)')
    <3>1. u # t /\ pc[u] = "unlock" /\ view'[u] = view[u] /\ outcome'[u] = outcome[u]
      BY <1>2, <2>1 DEF IInv, TypeOK, RunsOut
    <3> QED
      BY <2>1, <3>1 DEF IInv, HandlesAreKnown, NameOf, RunsOut
  <2> QED
    BY <1>2, <2>1 DEF HandlesAreKnown, Knows, IsValidId, EntryOf
<1> QED
  BY <1>4, <1>5, <1>6, <1>7, <1>8 DEF IInv

LEMMA UnlockedFailuresKeep ==
    ASSUME IInv, NEW t \in Threads, QualifyFails(t) \/ FastHitFails(t) \/ ReadFails(t)
    PROVE  IInv'
<1>1. PICK v \in Loadable(t) : view' = [view EXCEPT ![t] = v]
  <2>1. CASE QualifyFails(t)
    <3>1. view[t] \in Loadable(t) /\ view' = [view EXCEPT ![t] = view[t]]
      BY <2>1 DEF IInv, TypeOK, QualifyFails, Loadable
    <3> QED
      BY <3>1
  <2>2. CASE FastHitFails(t)
    BY <2>2 DEF FastHitFails
  <2>3. CASE ReadFails(t)
    BY <2>3 DEF ReadFails
  <2> QED
    BY <2>1, <2>2, <2>3
<1>2. pc[t] \in {"idle", "fast"} /\ RunsOut(t, "idle") /\ UNCHANGED next
  BY DEF QualifyFails, FastHitFails, ReadFails
<1> QED
  BY <1>1, <1>2, UnlockedFailureKeeps

\* The release store appends a snapshot that keeps all entries before it.
LEMMA PublishKeeps ==
    ASSUME IInv, NEW t \in Threads, Publish(t)
    PROVE  /\ IInv'
           /\ Keeps(Latest, Latest')
<1> DEFINE last == Len(snapshots)
           new == Appended(Latest, t)
<1>1. owner = t /\ next[t] = new /\ ~Finds(Latest, NameOf(t))
  BY DEF IInv, HolderSeesLatest, BuiltOnLatest, Publish
<1>2. Latest \in Snapshot /\ Whole(Latest) /\ last \in Nat /\ last \in DOMAIN snapshots
  BY SnapshotTypes DEF IInv, SnapshotsAreWhole, Latest
<1>3. new \in Snapshot /\ Whole(new) /\ Keeps(Latest, new)
      /\ Len(new.entries) = Len(Latest.entries) + 1
      /\ EntryOf(new, Len(Latest.entries)).name = NameOf(t)
  BY <1>1, <1>2, AppendedType, AppendedWhole DEF IInv, TypeOK
<1>4. snapshots \in Seq(Snapshot) /\ snapshots' = Append(snapshots, new)
  BY <1>1 DEF IInv, TypeOK, Publish
<1>5. /\ snapshots' \in Seq(Snapshot) /\ snapshots' # <<>>
      /\ Len(snapshots') = last + 1 /\ DOMAIN snapshots' = 1 .. last + 1
      /\ snapshots'[last + 1] = new
      /\ \A v \in 1 .. last : snapshots'[v] = snapshots[v]
      /\ DOMAIN snapshots = 1 .. last
  BY <1>2, <1>3, <1>4
<1>6. Latest' = new /\ Latest = snapshots[last]
  BY <1>5 DEF Latest
<1>7. view' = [view EXCEPT ![t] = last + 1] /\ view \in [Threads -> 1 .. last]
  BY DEF IInv, TypeOK, Publish
<1>8. Len(Latest.entries) \in Nat /\ DOMAIN new.entries = 1 .. Len(new.entries)
  BY <1>2, <1>3 DEF Snapshot
<1>9. TypeOK'
  <2>1. view' \in [Threads -> 1 .. Len(snapshots')]
    BY <1>2, <1>5, <1>7
  <2>2. mutexView' \in 1 .. Len(snapshots')
    BY <1>2, <1>5 DEF IInv, TypeOK, Publish
  <2>3. next' \in [Threads -> Snapshot]
    BY DEF IInv, TypeOK, Publish, EmptySnapshot, Snapshot
  <2>4. Len(next[t].entries) - 1 \in Nat
    BY <1>1, <1>3, <1>8
  <2>5. outcome' \in [Threads -> Outcome]
    BY <2>4 DEF IInv, TypeOK, Publish, Outcome, Returned
  <2> QED
    BY <1>5, <2>1, <2>2, <2>3, <2>5 DEF IInv, TypeOK, Publish
<1>10. SnapshotsAreWhole'
  <2>1. \A v \in DOMAIN snapshots' : Whole(snapshots'[v])
    BY <1>2, <1>3, <1>5 DEF IInv, SnapshotsAreWhole
  <2> QED
    BY <2>1 DEF SnapshotsAreWhole, Whole, Finds, IsValidId, IdOf, EntryOf
<1>11. HolderSeesLatest'
  <2>1. \A u \in Threads : u # t => owner # u
    BY <1>1
  <2>2. owner # NoThread
    BY <1>1, NoThreadIsNotAThread
  <2> QED
    BY <1>1, <1>5, <1>7, <2>1, <2>2 DEF IInv, TypeOK, HolderSeesLatest, Publish
<1>12. SnapshotsGrow'
  <2>1. ASSUME NEW v \in DOMAIN snapshots', NEW w \in DOMAIN snapshots', v <= w
        PROVE  Keeps(snapshots'[v], snapshots'[w])
    <3>1. CASE w \in 1 .. last
      BY <1>2, <1>5, <2>1, <3>1 DEF IInv, SnapshotsGrow
    <3>2. CASE w = last + 1 /\ v = last + 1
      BY <3>2 DEF Keeps
    <3>3. CASE w = last + 1 /\ v \in 1 .. last
      <4>1. Keeps(snapshots[v], snapshots[last])
        BY <1>2, <1>5, <3>3 DEF IInv, SnapshotsGrow
      <4>2. Keeps(snapshots[v], new)
        BY <1>3, <1>6, <4>1 DEF Keeps
      <4> QED
        BY <1>5, <3>3, <4>2
    <3> QED
      BY <1>2, <1>5, <3>1, <3>2, <3>3
  <2> QED
    BY <2>1 DEF SnapshotsGrow, Keeps
<1>13. BuiltOnLatest'
  <2>1. \A u \in Threads : pc'[u] # "publish"
    BY <1>1 DEF IInv, TypeOK, HolderSeesLatest, Publish
  <2> QED
    BY <2>1 DEF BuiltOnLatest
<1>14. ASSUME NEW u \in Threads, NEW id, NEW n, Knows(snapshots[view[u]], id, n)
       PROVE  Knows(snapshots'[view'[u]], id, n)
  <2>1. CASE u # t
    BY <1>5, <1>7, <1>14, <2>1
  <2>2. CASE u = t
    <3>1. view[t] = last
      BY <1>1 DEF IInv, HolderSeesLatest
    <3>2. Knows(new, id, n)
      BY <1>3, <1>6, <1>14, <2>2, <3>1, KnowsKept
    <3> QED
      BY <1>5, <1>7, <2>2, <3>2
  <2> QED
    BY <2>1, <2>2
<1>15. HandlesAreKnown'
  <2>1. \A u \in Threads : \A h \in handles'[u] :
           Knows(snapshots'[view'[u]], h.id, qualify(h.pair))
    BY <1>14 DEF IInv, HandlesAreKnown, Publish
  <2>2. ASSUME NEW u \in Threads, pc'[u] = "unlock", outcome'[u].kind = "symbol"
        PROVE  Knows(snapshots'[view'[u]], outcome'[u].id, NameOf(u)')
    <3>1. u = t
      BY <1>1, <2>2 DEF IInv, TypeOK, HolderSeesLatest, Publish
    <3>2. outcome'[t] = [kind |-> "symbol", id |-> Len(new.entries) - 1]
      BY <1>1 DEF IInv, TypeOK, Publish, Returned
    <3>3. Len(new.entries) - 1 = Len(Latest.entries)
      BY <1>3, <1>8
    <3>4. Knows(new, Len(Latest.entries), NameOf(t))
      BY <1>3, <1>8 DEF Knows, IsValidId
    <3>5. view'[t] = last + 1 /\ NameOf(t)' = NameOf(t)
      BY <1>7 DEF NameOf, Publish
    <3> QED
      BY <1>5, <3>1, <3>2, <3>3, <3>4, <3>5
  <2> QED
    BY <2>1, <2>2 DEF HandlesAreKnown, Knows, IsValidId, EntryOf
<1> QED
  BY <1>3, <1>6, <1>9, <1>10, <1>11, <1>12, <1>13, <1>15 DEF IInv

\* Unlocking passes the holder's view on to the next one.
LEMMA UnlockKeeps ==
    ASSUME IInv, NEW t \in Threads, Unlock(t)
    PROVE  IInv'
<1>1. owner = t /\ view[t] = Len(snapshots)
  BY DEF IInv, HolderSeesLatest, Unlock
<1>2. handles' = IF outcome[t].kind = "symbol"
                 THEN [handles EXCEPT ![t] =
                         @ \cup {[id |-> outcome[t].id, pair |-> request[t].pair]}]
                 ELSE handles
  BY DEF Unlock, Deliver
<1>3. outcome[t].kind = "symbol" => outcome[t].id \in Nat
  <2>1. outcome[t] \in Outcome
    BY DEF IInv, TypeOK
  <2>2. NoOutcome.kind # "symbol" /\ BadAlloc.kind # "symbol" /\ OutOfRange.kind # "symbol"
    BY DEF NoOutcome, BadAlloc, OutOfRange
  <2> QED
    BY <2>1, <2>2 DEF Outcome
<1>4. TypeOK'
  <2>1. request[t].pair \in Pairs
    BY RequestsAreTyped DEF IInv, TypeOK
  <2>2. handles' \in [Threads -> SUBSET [id : Nat, pair : Pairs]]
    BY <1>2, <1>3, <2>1 DEF IInv, TypeOK
  <2> QED
    BY <1>1, <2>2, SnapshotTypes DEF IInv, TypeOK, Unlock
<1>5. SnapshotsAreWhole' /\ SnapshotsGrow'
  BY DEF IInv, SnapshotsAreWhole, SnapshotsGrow, Unlock
<1>6. HolderSeesLatest'
  BY <1>1, NoThreadIsNotAThread DEF IInv, TypeOK, HolderSeesLatest, Unlock
<1>7. BuiltOnLatest'
  BY DEF IInv, TypeOK, BuiltOnLatest, Unlock, Latest, NameOf, Appended
<1>8. HandlesAreKnown'
  <2>1. ASSUME NEW u \in Threads, NEW h \in handles'[u]
        PROVE  Knows(snapshots[view[u]], h.id, qualify(h.pair))
    <3>1. CASE h \in handles[u]
      BY <3>1 DEF IInv, HandlesAreKnown
    <3>2. CASE h \notin handles[u]
      <4>1. u = t /\ outcome[t].kind = "symbol"
            /\ h = [id |-> outcome[t].id, pair |-> request[t].pair]
        BY <1>2, <2>1, <3>2 DEF IInv, TypeOK
      <4> QED
        BY <4>1 DEF IInv, HandlesAreKnown, Unlock, NameOf
    <3> QED
      BY <3>1, <3>2
  <2>2. \A u \in Threads : pc'[u] = "unlock" => pc[u] = "unlock"
    BY DEF IInv, TypeOK, Unlock
  <2>3. snapshots' = snapshots /\ view' = view /\ outcome' = outcome /\ request' = request
    BY DEF Unlock
  <2> QED
    BY <2>1, <2>2, <2>3 DEF IInv, HandlesAreKnown, Knows, IsValidId, EntryOf, NameOf
<1> QED
  BY <1>4, <1>5, <1>6, <1>7, <1>8 DEF IInv

\* Reading a symbol's name finds it, in any snapshot the thread may load.
LEMMA SymbolNameKeeps ==
    ASSUME IInv, NEW t \in Threads, symbol_name(t)
    PROVE  /\ IInv'
           /\ outcome'[t].kind # "out_of_range"
           /\ \E h \in handles[t] : outcome'[t] = Read(h.id, qualify(h.pair))
<1>1. PICK h \in handles[t], v \in Loadable(t) :
        /\ view' = [view EXCEPT ![t] = v]
        /\ outcome' = [outcome EXCEPT ![t] = IF IsValidId(snapshots[v], h.id)
                                             THEN Read(h.id, EntryOf(snapshots[v], h.id).name)
                                             ELSE OutOfRange]
  BY DEF symbol_name
<1>2. Knows(snapshots[v], h.id, qualify(h.pair))
  BY LoadKeepsHandles
<1>3. outcome'[t] = Read(h.id, qualify(h.pair)) /\ outcome'[t].kind = "read"
  BY <1>1, <1>2 DEF Knows, IInv, TypeOK, Read
<1>4. owner # t
  BY DEF IInv, HolderSeesLatest, symbol_name
<1>5. /\ view' \in [Threads -> 1 .. Len(snapshots')]
      /\ \A u \in Threads : owner = u => view'[u] = Len(snapshots)
      /\ \A u \in Threads : \A g \in handles'[u] :
            Knows(snapshots'[view'[u]], g.id, qualify(g.pair))
      /\ \A u \in Threads : pc[u] = "unlock" => view'[u] = view[u]
  BY <1>1, <1>4, ViewMoves DEF symbol_name
<1>6. TypeOK'
  <2>1. h.id \in Nat /\ h.pair \in Pairs
    BY <1>1 DEF IInv, TypeOK
  <2>2. Read(h.id, qualify(h.pair)) \in [kind : {"read"}, id : Nat, name : Names]
    BY <2>1 DEF Read, Names
  <2>3. Read(h.id, qualify(h.pair)) \in Outcome
    BY <2>2 DEF Outcome
  <2>4. outcome' \in [Threads -> Outcome]
    BY <1>1, <1>3, <2>3 DEF IInv, TypeOK
  <2> QED
    BY <1>5, <2>4 DEF IInv, TypeOK, symbol_name
<1>7. SnapshotsAreWhole' /\ SnapshotsGrow'
  BY DEF IInv, SnapshotsAreWhole, SnapshotsGrow, symbol_name
<1>8. HolderSeesLatest'
  BY <1>5 DEF IInv, TypeOK, HolderSeesLatest, symbol_name
<1>9. BuiltOnLatest'
  BY DEF IInv, TypeOK, BuiltOnLatest, symbol_name, Latest, NameOf, Appended
<1>10. HandlesAreKnown'
  <2>1. ASSUME NEW u \in Threads, pc'[u] = "unlock", outcome'[u].kind = "symbol"
        PROVE  Knows(snapshots'[view'[u]], outcome'[u].id, NameOf(u)')
    <3>1. pc[u] = "unlock" /\ view'[u] = view[u] /\ u # t
      BY <1>5, <2>1 DEF symbol_name
    <3> QED
      BY <1>1, <2>1, <3>1 DEF IInv, TypeOK, HandlesAreKnown, NameOf, symbol_name
  <2> QED
    BY <1>5, <2>1 DEF HandlesAreKnown, Knows, IsValidId, EntryOf
<1> QED
  BY <1>1, <1>3, <1>6, <1>7, <1>8, <1>9, <1>10 DEF IInv

\* A handle passed on together with what its giver has seen stays readable.
LEMMA HandOverKeeps ==
    ASSUME IInv, NEW t \in Threads, NEW u \in Threads, HandOver(t, u)
    PROVE  IInv'
<1>1. PICK h \in handles[t] : handles' = [handles EXCEPT ![u] = @ \cup {h}]
  BY DEF HandOver
<1> DEFINE v == Joined(view[u], view[t])
<1>2. view \in [Threads -> 1 .. Len(snapshots)] /\ Len(snapshots) \in Nat
  BY SnapshotTypes DEF IInv, TypeOK
<1>3. v \in 1 .. Len(snapshots) /\ view[t] <= v /\ view[u] <= v
  BY <1>2 DEF Joined
<1>4. v \in Loadable(u) /\ v \in Loadable(t)
  BY <1>2, <1>3 DEF Loadable
<1>5. view' = [view EXCEPT ![u] = v]
  BY DEF HandOver
<1>6. owner # u
  BY DEF IInv, HolderSeesLatest, HandOver
<1>7. TypeOK'
  <2>1. handles' \in [Threads -> SUBSET [id : Nat, pair : Pairs]]
    BY <1>1 DEF IInv, TypeOK
  <2> QED
    BY <1>2, <1>3, <1>5, <2>1 DEF IInv, TypeOK, HandOver
<1>8. SnapshotsAreWhole' /\ SnapshotsGrow'
  BY DEF IInv, SnapshotsAreWhole, SnapshotsGrow, HandOver
<1>9. HolderSeesLatest'
  BY <1>2, <1>5, <1>6 DEF IInv, HolderSeesLatest, HandOver
<1>10. BuiltOnLatest'
  BY DEF IInv, TypeOK, BuiltOnLatest, HandOver, Latest, NameOf, Appended
<1>11. HandlesAreKnown'
  <2>1. ASSUME NEW w \in Threads, NEW g \in handles'[w]
        PROVE  Knows(snapshots[view'[w]], g.id, qualify(g.pair))
    <3>1. CASE w # u
      BY <1>1, <1>2, <1>5, <3>1 DEF IInv, TypeOK, HandlesAreKnown
    <3>2. CASE w = u /\ g \in handles[u]
      BY <1>2, <1>4, <1>5, <3>2, LoadKeepsHandles
    <3>3. CASE w = u /\ g = h
      BY <1>1, <1>2, <1>4, <1>5, <3>3, LoadKeepsHandles
    <3> QED
      BY <1>1, <3>1, <3>2, <3>3 DEF IInv, TypeOK
  <2>2. ASSUME NEW w \in Threads, pc[w] = "unlock"
        PROVE  view'[w] = view[w]
    BY <1>2, <1>5, <2>2 DEF HandOver
  <2>3. snapshots' = snapshots /\ outcome' = outcome /\ request' = request /\ pc' = pc
    BY DEF HandOver
  <2> QED
    BY <2>1, <2>2, <2>3 DEF IInv, HandlesAreKnown, Knows, IsValidId, EntryOf, NameOf
<1> QED
  BY <1>7, <1>8, <1>9, <1>10, <1>11 DEF IInv

\* Doing nothing.
LEMMA StutterKeeps == IInv /\ UNCHANGED vars => IInv'
BY DEF vars, IInv, TypeOK, SnapshotsAreWhole, HolderSeesLatest, SnapshotsGrow, BuiltOnLatest,
       HandlesAreKnown, Whole, Keeps, Knows, Finds, IsValidId, IdOf, EntryOf, NameOf, Latest,
       Appended

LEMMA NextIInv == IInv /\ [Next]_vars => IInv'
BY CallKeeps, FastHitKeeps, FastMissKeeps, LockKeeps, RecheckHitKeeps, RecheckMissKeeps,
   UnlockedFailuresKeep, RecheckHitFailsKeeps, CopyFailsKeeps, PublishKeeps, UnlockKeeps,
   SymbolNameKeeps, HandOverKeeps, StutterKeeps
   DEF Next, Step

-----------------------------------------------------------------------------
(* The theorems. *)

\* The invariant holds in every reachable state.
THEOREM Invariance == Spec => []IInv
BY InitIInv, NextIInv, PTL DEF Spec

\* Type correctness of every reachable state.
THEOREM TypeCorrect == Spec => []TypeOK
<1>1. IInv => TypeOK
  BY DEF IInv
<1> QED
  BY <1>1, Invariance, PTL

\* No registration is lost, however many threads race to register: what a
\* writer publishes is the newest snapshot plus one entry for a new name.
THEOREM RegistrationsSurvive == Spec => []NoLostRegistration
<1>1. IInv => NoLostRegistration
  <2> SUFFICES ASSUME IInv, NEW t \in Threads, pc[t] = "publish"
               PROVE  /\ owner = t
                      /\ next[t].entries =
                           Append(Latest.entries, EntryOf(next[t], Len(Latest.entries)))
                      /\ ~Finds(Latest, NameOf(t))
    BY DEF NoLostRegistration
  <2> DEFINE e == [name |-> NameOf(t), attributes |-> request[t].attributes, location |-> t]
  <2>1. owner = t /\ ~Finds(Latest, NameOf(t)) /\ next[t] = Appended(Latest, t)
    BY DEF IInv, HolderSeesLatest, BuiltOnLatest
  <2>2. next[t].entries = Append(Latest.entries, e) /\ Latest.entries \in Seq(Entry)
    BY <2>1, SnapshotTypes DEF IInv, Appended, Snapshot
  <2>3. e \in Entry
    BY NameOfType DEF IInv, TypeOK, Entry
  <2>4. EntryOf(next[t], Len(Latest.entries)) = e
    BY <2>2, <2>3 DEF EntryOf
  <2> QED
    BY <2>1, <2>2, <2>4
<1> QED
  BY <1>1, Invariance, PTL

\* Equal handles mean equal qualified names and conversely, across threads.
THEOREM HandlesIdentifyNames == Spec => []OneHandlePerName
<1>1. IInv => OneHandlePerName
  <2> SUFFICES ASSUME IInv, NEW t \in Threads, NEW u \in Threads,
                      NEW h \in handles[t], NEW g \in handles[u]
               PROVE  h.id = g.id <=> qualify(h.pair) = qualify(g.pair)
    BY DEF OneHandlePerName
  <2>1. h.id \in Nat /\ g.id \in Nat
    BY DEF IInv, TypeOK
  <2>2. Knows(Latest, h.id, qualify(h.pair)) /\ Knows(Latest, g.id, qualify(g.pair))
    <3>1. Len(snapshots) \in Loadable(t) /\ Len(snapshots) \in Loadable(u)
      BY SnapshotTypes DEF IInv, TypeOK, Loadable
    <3> QED
      BY <3>1, LoadKeepsHandles DEF Latest
  <2>3. \A i \in DOMAIN Latest.entries : Latest.index[Latest.entries[i].name] = i
    BY SnapshotTypes DEF IInv, SnapshotsAreWhole, Whole, Latest
  <2> QED
    BY <2>1, <2>2, <2>3 DEF Knows, IsValidId, EntryOf
<1> QED
  BY <1>1, Invariance, PTL

\* First definition wins, on every step of every behaviour.
THEOREM DefinitionsAreKept == Spec => FirstDefinitionWins
<1>1. IInv /\ [Next]_vars => [Keeps(Latest, Latest')]_vars
  <2> SUFFICES ASSUME IInv, Next PROVE Keeps(Latest, Latest')
    OBVIOUS
  <2>1. ASSUME NEW t \in Threads, Publish(t) PROVE Keeps(Latest, Latest')
    BY <2>1, PublishKeeps
  <2>2. CASE snapshots' = snapshots
    BY <2>2 DEF Keeps, Latest
  <2> QED
    BY <2>1, <2>2 DEF Next, Step, get_symbol, FastHit, FastMiss, Lock, RecheckHit, RecheckMiss,
                      QualifyFails, FastHitFails, RecheckHitFails, CopyFails, ReadFails, RunsOut,
                      Unlock, symbol_name, HandOver
<1> QED
  BY <1>1, Invariance, PTL DEF Spec, FirstDefinitionWins

-----------------------------------------------------------------------------
(* Refinement: the threads implement the one dictionary of SymbolRegistry. *)

\* How often a list has an attribute: not at all, or once if it has no
\* attribute twice.
LEMMA OccurrencesCount ==
    ASSUME NEW list \in Seq(SymbolAttribute), NEW x
    PROVE  /\ Occurrences(list, x) = 0 <=> x \notin AttributeSet(list)
           /\ x \in AttributeSet(list) /\ ~RepeatsAttribute(list) => Occurrences(list, x) = 1
<1> DEFINE At == {i \in DOMAIN list : list[i] = x}
<1>1. IsFiniteSet(At)
  <2>1. IsFiniteSet(DOMAIN list)
    BY FS_Interval
  <2>2. At \in SUBSET DOMAIN list
    OBVIOUS
  <2> HIDE DEF At
  <2> QED
    BY <2>1, <2>2, FS_Subset
<1>2. Occurrences(list, x) = Cardinality(At)
  BY DEF Occurrences
<1>3. At = {} <=> x \notin AttributeSet(list)
  BY DEF AttributeSet
<1>4. ASSUME x \in AttributeSet(list), ~RepeatsAttribute(list) PROVE Cardinality(At) = 1
  <2>1. PICK i \in DOMAIN list : list[i] = x
    BY <1>4 DEF AttributeSet
  <2>2. At = {i}
    BY <1>4, <2>1 DEF RepeatsAttribute
  <2> HIDE DEF At
  <2> QED
    BY <2>2, FS_Singleton
<1> HIDE DEF At
<1> QED
  BY <1>1, <1>2, <1>3, <1>4, FS_EmptySet

\* A list that has no attribute twice is as long as its attribute set is large.
LEMMA LengthIsSize ==
    ASSUME NEW list \in Seq(SymbolAttribute), ~RepeatsAttribute(list)
    PROVE  Len(list) = Cardinality(AttributeSet(list))
<1>1. [i \in DOMAIN list |-> list[i]] \in Bijection(DOMAIN list, AttributeSet(list))
  BY DEF RepeatsAttribute, AttributeSet, Bijection, Injection, IsInjective, Surjection
<1>2. IsFiniteSet(DOMAIN list) /\ Cardinality(DOMAIN list) = Len(list)
  <2>1. DOMAIN list = 1 .. Len(list) /\ Len(list) \in Nat
    OBVIOUS
  <2>2. Cardinality(1 .. Len(list)) = Len(list) /\ IsFiniteSet(1 .. Len(list))
    BY <2>1, FS_Interval
  <2> QED
    BY <2>1, <2>2
<1> QED
  BY <1>1, <1>2, FS_Bijection DEF ExistsBijection

\* Sorting and comparing accepts only lists of the same attribute set, and all
\* of those that have no attribute twice.
LEMMA CountingComparesSets ==
    ASSUME NEW a \in Seq(SymbolAttribute), NEW b \in Seq(SymbolAttribute)
    PROVE  /\ same_attributes(a, b) => SameSet(a, b)
           /\ SameSet(a, b) /\ ~RepeatsAttribute(a) /\ ~RepeatsAttribute(b) => same_attributes(a, b)
<1>1. ASSUME same_attributes(a, b) PROVE SameSet(a, b)
  <2>1. \A x \in SymbolAttribute : x \in AttributeSet(a) <=> x \in AttributeSet(b)
    BY <1>1, OccurrencesCount DEF same_attributes
  <2>2. AttributeSet(a) \subseteq SymbolAttribute /\ AttributeSet(b) \subseteq SymbolAttribute
    BY DEF AttributeSet
  <2> QED
    BY <2>1, <2>2 DEF SameSet
<1>2. ASSUME SameSet(a, b), ~RepeatsAttribute(a), ~RepeatsAttribute(b) PROVE same_attributes(a, b)
  <2>1. Len(a) = Len(b)
    BY <1>2, LengthIsSize DEF SameSet
  <2>2. ASSUME NEW x \in SymbolAttribute PROVE Occurrences(a, x) = Occurrences(b, x)
    <3>1. CASE x \in AttributeSet(a)
      BY <1>2, <3>1, OccurrencesCount DEF SameSet
    <3>2. CASE x \notin AttributeSet(a)
      BY <1>2, <3>2, OccurrencesCount DEF SameSet
    <3> QED
      BY <3>1, <3>2
  <2> QED
    BY <2>1, <2>2 DEF same_attributes
<1> QED
  BY <1>1, <1>2

\* The names are finitely many, and a whole snapshot has at most one entry each.
LEMMA EntriesFit ==
    ASSUME NEW s \in Snapshot, Whole(s)
    PROVE  Cardinality(Names) \in Nat /\ Len(s.entries) <= Cardinality(Names)
<1>1. IsFiniteSet(Names)
  <2>1. [p \in Pairs |-> qualify(p)] \in Surjection(Pairs, Names)
    BY DEF Surjection, Names
  <2> QED
    BY <2>1, FinitelyManyPairs, FS_Surjection
<1>2. s.entries \in Seq(Entry) /\ Len(s.entries) \in Nat
  BY DEF Snapshot
<1>3. [i \in 1 .. Len(s.entries) |-> s.entries[i].name] \in Injection(1 .. Len(s.entries), Names)
  <2>1. \A i \in 1 .. Len(s.entries) : s.entries[i].name \in Names
                                       /\ s.index[s.entries[i].name] = i
    <3>1. \A i \in 1 .. Len(s.entries) : i \in DOMAIN s.entries /\ s.entries[i] \in Entry
      BY <1>2
    <3> QED
      BY <3>1 DEF Whole, Entry
  <2> QED
    BY <2>1 DEF Injection, IsInjective
<1>4. Cardinality(1 .. Len(s.entries)) <= Cardinality(Names)
  BY <1>1, <1>3, FS_Injection
<1>5. Cardinality(1 .. Len(s.entries)) = Len(s.entries)
  BY <1>2, FS_Interval
<1> QED
  BY <1>1, <1>4, <1>5, FS_CardinalityType

\* The dictionary starts empty.
LEMMA InitRegistry == Init => Registry!Init
<1> SUFFICES ASSUME Init PROVE Registry!Init
  OBVIOUS
<1>1. Latest = EmptySnapshot
  BY DEF Init, Latest
<1>2. {m \in Names : Finds(Latest, m)} = {}
  BY <1>1 DEF Finds, EmptySnapshot
<1>3. DefinedNow = [n \in {} |-> [id |-> 0]]
  BY <1>2 DEF DefinedNow
<1>4. {t \in Threads : pc[t] \in {"fast", "lock", "check", "publish"}} = {}
  BY DEF Init
<1>5. (CHOOSE r \in Requests : TRUE) \in Requests
  BY SomeRequest
<1> QED
  BY <1>3, <1>4, <1>5 DEF Init, NoOutcome, Registry!Init

\* The dictionary that the newest snapshot stands for.
LEMMA Dictionary ==
    ASSUME IInv
    PROVE  /\ DOMAIN DefinedNow = {m \in Names : Finds(Latest, m)}
           /\ \A m \in DOMAIN DefinedNow :
                /\ DefinedNow[m] = [id         |-> IdOf(Latest, m),
                                    attributes |-> EntryOf(Latest, IdOf(Latest, m)).attributes,
                                    location   |-> EntryOf(Latest, IdOf(Latest, m)).location]
                /\ IdOf(Latest, m) \in 0 .. Len(Latest.entries) - 1
<1>1. DOMAIN DefinedNow = {m \in Names : Finds(Latest, m)}
  BY DEF DefinedNow
<1>2. ASSUME NEW m \in Names, Finds(Latest, m) PROVE IdOf(Latest, m) \in 0 .. Len(Latest.entries) - 1
  <2>1. Latest \in Snapshot /\ Whole(Latest)
    BY SnapshotTypes DEF IInv, SnapshotsAreWhole, Latest
  <2>2. Latest.index[m] \in Nat /\ Latest.entries \in Seq(Entry)
    BY <2>1 DEF Snapshot
  <2>3. IsValidId(Latest, IdOf(Latest, m))
    BY <1>2, <2>1 DEF Whole
  <2> QED
    BY <1>2, <2>2, <2>3 DEF IsValidId, IdOf, Finds
<1> QED
  BY <1>1, <1>2 DEF DefinedNow

\* A stale snapshot that has a name says of it what the newest one says.
LEMMA StaleIsRight ==
    ASSUME IInv, NEW v \in DOMAIN snapshots, NEW n \in Names, Finds(snapshots[v], n)
    PROVE  /\ Finds(Latest, n) /\ IdOf(Latest, n) = IdOf(snapshots[v], n)
           /\ EntryOf(Latest, IdOf(Latest, n)) = EntryOf(snapshots[v], IdOf(snapshots[v], n))
           /\ EntryOf(Latest, IdOf(Latest, n)) \in Entry
<1> DEFINE s == snapshots[v]
           i == s.index[n]
<1>1. s \in Snapshot /\ Whole(s) /\ Latest \in Snapshot /\ Whole(Latest) /\ Keeps(s, Latest)
  BY SnapshotTypes DEF IInv, SnapshotsAreWhole, SnapshotsGrow, Latest
<1>2. i \in Nat /\ i # 0 /\ i - 1 + 1 = i
  BY <1>1 DEF Snapshot, Finds
<1>3. i \in DOMAIN s.entries /\ s.entries[i].name = n
  BY <1>1, <1>2 DEF Whole, Finds, IsValidId, EntryOf, IdOf
<1>4. i \in DOMAIN Latest.entries /\ Latest.entries[i] = s.entries[i]
  BY <1>1, <1>3 DEF Keeps
<1>5. Latest.index[n] = i /\ Latest.entries[i] \in Entry
  BY <1>1, <1>3, <1>4 DEF Whole, Snapshot
<1> QED
  BY <1>2, <1>4, <1>5 DEF Finds, IdOf, EntryOf

\* A lookup that finds the name answers as the dictionary does, however old
\* the snapshot it looked in.
LEMMA HitResolves ==
    ASSUME IInv, NEW t \in Threads, NEW v \in Loadable(t), Finds(snapshots[v], NameOf(t)),
           outcome' = [outcome EXCEPT ![t] = Validate(snapshots[v], t)],
           pc[t] \in {"fast", "check"}, pc' \in {[pc EXCEPT ![t] = "idle"], [pc EXCEPT ![t] = "unlock"]},
           snapshots' = snapshots, request' = request
    PROVE  Registry!Resolve(t) \/ Registry!Refuse(t)
<1> DEFINE n == NameOf(t)
           e == EntryOf(Latest, IdOf(Latest, n))
           Asking == {u \in Threads : pc[u] \in {"fast", "lock", "check", "publish"}}
<1>1. v \in DOMAIN snapshots /\ n \in Names /\ request[t].attributes \in AttributeLists
  BY SnapshotTypes, NameOfType DEF IInv, TypeOK
<1>2. /\ Finds(Latest, n) /\ IdOf(Latest, n) = IdOf(snapshots[v], n)
      /\ EntryOf(snapshots[v], IdOf(snapshots[v], n)) = e /\ e \in Entry
  BY <1>1, StaleIsRight
<1>3. n \in DOMAIN DefinedNow /\ DefinedNow[n] = [id |-> IdOf(Latest, n), attributes |-> e.attributes,
                                                  location |-> e.location]
  BY <1>1, <1>2, Dictionary
<1>4. e.attributes \in Seq(SymbolAttribute) /\ request[t].attributes \in Seq(SymbolAttribute)
  BY <1>1, <1>2, AttributesAreListed DEF Entry
<1>5. DefinedNow' = DefinedNow
  BY DEF DefinedNow, Latest
<1>6. t \in Asking /\ Asking' = Asking \ {t}
  BY DEF IInv, TypeOK
<1>7. CASE same_attributes(request[t].attributes, e.attributes)
  <2>1. Validate(snapshots[v], t) = [kind |-> "symbol", id |-> DefinedNow[n].id]
    BY <1>2, <1>3, <1>7 DEF Validate, Returned
  <2>2. SameSet(request[t].attributes, DefinedNow[n].attributes)
    BY <1>3, <1>4, <1>7, CountingComparesSets
  <2> QED
    BY <1>3, <1>5, <1>6, <2>1, <2>2 DEF Registry!Resolve, Registry!Answer, NameOf
<1>8. CASE ~same_attributes(request[t].attributes, e.attributes)
  <2>1. Validate(snapshots[v], t) = [kind |-> "conflict", location |-> DefinedNow[n].location]
    BY <1>2, <1>3, <1>8 DEF Validate, Conflict
  <2>2. \/ ~SameSet(request[t].attributes, DefinedNow[n].attributes)
        \/ RepeatsAttribute(request[t].attributes) \/ RepeatsAttribute(DefinedNow[n].attributes)
    BY <1>3, <1>4, <1>8, CountingComparesSets
  <2> QED
    BY <1>3, <1>5, <1>6, <2>1, <2>2 DEF Registry!Refuse, Registry!Answer, NameOf
<1> QED
  BY <1>7, <1>8

\* Publishing defines the name, under an id that no name has.
LEMMA PublishDefines ==
    ASSUME IInv, NEW t \in Threads, Publish(t)
    PROVE  Registry!Define(t)
<1> DEFINE n == NameOf(t)
           id == Len(Latest.entries)
           e == [name |-> n, attributes |-> request[t].attributes, location |-> t]
           Asking == {u \in Threads : pc[u] \in {"fast", "lock", "check", "publish"}}
<1>1. ~Finds(Latest, n) /\ Latest' = Appended(Latest, t) /\ Latest \in Snapshot /\ n \in Names
  <2>1. ~Finds(Latest, n) /\ next[t] = Appended(Latest, t)
    BY DEF Publish, IInv, BuiltOnLatest
  <2>2. Latest' = next[t]
    BY DEF Publish, Latest, IInv, TypeOK
  <2> QED
    BY <2>1, <2>2, SnapshotTypes, NameOfType DEF IInv, TypeOK
<1>2. Latest.entries \in Seq(Entry) /\ Latest.index \in [Names -> Nat] /\ id \in Nat /\ e \in Entry
  <2>1. e \in Entry
    BY NameOfType DEF IInv, TypeOK, Entry
  <2>2. Latest.entries \in Seq(Entry) /\ Latest.index \in [Names -> Nat]
    BY <1>1 DEF Snapshot
  <2> QED
    BY <2>1, <2>2
<1>3. Latest'.entries = Append(Latest.entries, e) /\ Latest'.index = [Latest.index EXCEPT ![n] = id + 1]
  BY <1>1, <1>2 DEF Appended, Finds
<1>4. id \in 0 .. Cardinality(Names) - 1
  <2>1. Latest' \in Snapshot /\ Whole(Latest')
    BY <1>1, AppendedType, AppendedWhole, SnapshotTypes DEF IInv, TypeOK, SnapshotsAreWhole, Latest
  <2>2. Cardinality(Names) \in Nat /\ Len(Latest'.entries) <= Cardinality(Names)
    BY <2>1, EntriesFit
  <2>3. Len(Latest'.entries) = id + 1
    BY <1>2, <1>3
  <2> QED
    BY <1>2, <2>2, <2>3
<1>5. id \notin {DefinedNow[m].id : m \in DOMAIN DefinedNow}
  <2>1. \A m \in DOMAIN DefinedNow : DefinedNow[m].id \in 0 .. id - 1
    BY Dictionary
  <2> QED
    BY <1>2, <2>1
<1>6. n \notin DOMAIN DefinedNow
  BY <1>1, Dictionary
<1>7. DefinedNow' = [m \in DOMAIN DefinedNow \cup {n} |->
                       IF m = n THEN [id |-> id, attributes |-> request[t].attributes, location |-> t]
                       ELSE DefinedNow[m]]
  <2>1. IInv'
    BY NextIInv DEF Next, Step
  <2>2. /\ DOMAIN DefinedNow' = {m \in Names : Finds(Latest', m)}
        /\ \A m \in DOMAIN DefinedNow' :
             DefinedNow'[m] = [id         |-> IdOf(Latest', m),
                               attributes |-> EntryOf(Latest', IdOf(Latest', m)).attributes,
                               location   |-> EntryOf(Latest', IdOf(Latest', m)).location]
    BY DEF DefinedNow
  <2>3. DOMAIN DefinedNow' = DOMAIN DefinedNow \cup {n}
    BY <1>1, <1>2, <1>3, <2>2, Dictionary DEF Finds
  <2>4. DefinedNow'[n] = [id |-> id, attributes |-> request[t].attributes, location |-> t]
    <3>1. IdOf(Latest', n) = id
      BY <1>1, <1>2, <1>3 DEF IdOf
    <3>2. EntryOf(Latest', id) = e
      BY <1>2, <1>3 DEF EntryOf
    <3> QED
      BY <2>2, <2>3, <3>1, <3>2
  <2>5. ASSUME NEW m \in DOMAIN DefinedNow PROVE DefinedNow'[m] = DefinedNow[m]
    <3>1. m \in Names /\ m # n /\ IdOf(Latest, m) \in 0 .. id - 1
      BY <1>6, Dictionary
    <3>2. IdOf(Latest', m) = IdOf(Latest, m)
      BY <1>1, <1>2, <1>3, <3>1 DEF IdOf
    <3>3. EntryOf(Latest', IdOf(Latest, m)) = EntryOf(Latest, IdOf(Latest, m))
      BY <1>2, <1>3, <3>1 DEF EntryOf
    <3> QED
      BY <2>2, <2>3, <3>2, <3>3, Dictionary
  <2> QED
    BY <2>2, <2>3, <2>4, <2>5 DEF DefinedNow
<1>8. t \in Asking /\ Asking' = Asking \ {t}
  BY DEF IInv, TypeOK, Publish
<1>9. outcome' = [outcome EXCEPT ![t] = [kind |-> "symbol", id |-> id]] /\ request' = request
  <2>1. Len(next[t].entries) - 1 = id
    <3>1. next[t] = Appended(Latest, t)
      BY DEF Publish, IInv, BuiltOnLatest
    <3>2. Len(next[t].entries) = id + 1
      BY <1>1, <3>1, AppendedType DEF IInv, TypeOK
    <3> QED
      BY <1>2, <3>2
  <2> QED
    BY <2>1 DEF Publish, Returned
<1> QED
  BY <1>4, <1>5, <1>6, <1>7, <1>8, <1>9 DEF Registry!Define, Registry!Answer, Registry!UsedIds, NameOf

\* An allocation that fails in a call is the failure of that call.
LEMMA FailureFails ==
    ASSUME IInv, NEW t \in Threads,
           QualifyFails(t) \/ FastHitFails(t) \/ RecheckHitFails(t) \/ CopyFails(t)
    PROVE  Registry!Fail(t)
<1> DEFINE Asking == {u \in Threads : pc[u] \in {"fast", "lock", "check", "publish"}}
<1>1. /\ pc[t] \in {"fast", "check", "publish"}
      /\ RunsOut(t, "idle") \/ RunsOut(t, "unlock")
  BY DEF QualifyFails, FastHitFails, RecheckHitFails, CopyFails
<1>2. DefinedNow' = DefinedNow
  BY <1>1 DEF RunsOut, DefinedNow, Latest
<1>3. t \in Asking /\ Asking' = Asking \ {t}
  BY <1>1 DEF IInv, TypeOK, RunsOut
<1>4. outcome' = [outcome EXCEPT ![t] = [kind |-> "bad_alloc"]] /\ request' = request
  BY <1>1 DEF RunsOut, BadAlloc
<1> QED
  BY <1>2, <1>3, <1>4 DEF Registry!Fail, Registry!Answer

\* ... and one that fails while a name is read, of that reading.
LEMMA FailureToRead ==
    ASSUME IInv, NEW t \in Threads, ReadFails(t)
    PROVE  Registry!FailToRead(t)
<1> DEFINE Asking == {u \in Threads : pc[u] \in {"fast", "lock", "check", "publish"}}
<1>1. pc[t] = "idle" /\ RunsOut(t, "idle")
  BY DEF ReadFails
<1>2. DefinedNow' = DefinedNow
  BY <1>1 DEF RunsOut, DefinedNow, Latest
<1>3. t \notin Asking /\ Asking' = Asking
  BY <1>1 DEF IInv, TypeOK, RunsOut
<1>4. outcome' = [outcome EXCEPT ![t] = [kind |-> "bad_alloc"]] /\ request' = request
  BY <1>1 DEF RunsOut, BadAlloc
<1> QED
  BY <1>2, <1>3, <1>4 DEF Registry!FailToRead

\* A handle can be read in every snapshot that its thread may load, and it
\* reads the name that the dictionary gives its id.
LEMMA ReadingReads ==
    ASSUME IInv, NEW t \in Threads, symbol_name(t)
    PROVE  Registry!ReadName(t)
<1> DEFINE Asking == {u \in Threads : pc[u] \in {"fast", "lock", "check", "publish"}}
<1>1. PICK h \in handles[t], v \in Loadable(t) :
             outcome' = [outcome EXCEPT ![t] =
                           IF IsValidId(snapshots[v], h.id)
                           THEN Read(h.id, EntryOf(snapshots[v], h.id).name)
                           ELSE OutOfRange]
  BY DEF symbol_name
<1> DEFINE n == qualify(h.pair)
<1>2. IsValidId(snapshots[v], h.id) /\ EntryOf(snapshots[v], h.id).name = n
  BY LoadKeepsHandles DEF Knows
<1>3. h.id \in Nat /\ n \in Names
  BY DEF IInv, TypeOK, Names
<1>4. n \in DOMAIN DefinedNow /\ DefinedNow[n].id = h.id
  <2>1. v \in DOMAIN snapshots /\ snapshots[v] \in Snapshot /\ Whole(snapshots[v])
    BY SnapshotTypes DEF IInv, SnapshotsAreWhole
  <2>2. snapshots[v].index[n] = h.id + 1
    BY <1>2, <2>1 DEF Whole, IsValidId, EntryOf
  <2>3. Finds(snapshots[v], n) /\ IdOf(snapshots[v], n) = h.id
    BY <1>3, <2>2 DEF Finds, IdOf
  <2>4. Finds(Latest, n) /\ IdOf(Latest, n) = h.id
    BY <1>3, <2>1, <2>3, StaleIsRight
  <2> QED
    BY <1>3, <2>4, Dictionary
<1>5. outcome' = [outcome EXCEPT ![t] = [kind |-> "read", id |-> DefinedNow[n].id, name |-> n]]
  BY <1>1, <1>2, <1>4 DEF Read
<1>6. t \notin Asking /\ Asking' = Asking /\ request' = request /\ DefinedNow' = DefinedNow
  BY DEF symbol_name, DefinedNow, Latest
<1> QED
  BY <1>4, <1>5, <1>6 DEF Registry!ReadName

\* The remaining steps are invisible.
LEMMA InvisibleSteps ==
    ASSUME IInv, snapshots' = snapshots, request' = request, outcome' = outcome,
           \/ UNCHANGED pc
           \/ \E t \in Threads : \/ FastMiss(t) \/ Lock(t) \/ RecheckMiss(t) \/ Unlock(t)
    PROVE  UNCHANGED Registry!vars
<1> DEFINE Asking == {u \in Threads : pc[u] \in {"fast", "lock", "check", "publish"}}
<1>1. Asking' = Asking
  <2>1. CASE UNCHANGED pc
    BY <2>1
  <2>2. ASSUME NEW t \in Threads, FastMiss(t) \/ Lock(t) \/ RecheckMiss(t) \/ Unlock(t)
        PROVE  Asking' = Asking
    BY <2>2 DEF IInv, TypeOK, FastMiss, Lock, RecheckMiss, Unlock
  <2> QED
    BY <2>1, <2>2
<1>2. DefinedNow' = DefinedNow
  BY DEF DefinedNow, Latest
<1> QED
  BY <1>1, <1>2 DEF Registry!vars

\* Every step of a thread is a step of the dictionary, or invisible to it.
LEMMA NextRegistry == IInv /\ [Next]_vars => [Registry!Next]_(Registry!vars)
<1> DEFINE Asking == {u \in Threads : pc[u] \in {"fast", "lock", "check", "publish"}}
<1> SUFFICES ASSUME IInv, [Next]_vars PROVE Registry!Next \/ UNCHANGED Registry!vars
  OBVIOUS
<1>1. ASSUME NEW t \in Threads, get_symbol(t) PROVE Registry!Next
  <2>1. t \notin Asking /\ Asking' = Asking \cup {t}
    BY <1>1 DEF IInv, TypeOK, get_symbol
  <2>2. DefinedNow' = DefinedNow
    BY <1>1 DEF get_symbol, DefinedNow, Latest
  <2>3. Registry!Ask(t)
    BY <1>1, <2>1, <2>2 DEF get_symbol, NoOutcome, Registry!Ask
  <2> QED
    BY <2>3 DEF Registry!Next
<1>2. ASSUME NEW t \in Threads, FastHit(t) \/ RecheckHit(t) PROVE Registry!Next
  <2>1. PICK v \in Loadable(t) : /\ Finds(snapshots[v], NameOf(t))
                                 /\ outcome' = [outcome EXCEPT ![t] = Validate(snapshots[v], t)]
    BY <1>2 DEF FastHit, RecheckHit
  <2>2. /\ pc[t] \in {"fast", "check"} /\ snapshots' = snapshots /\ request' = request
        /\ pc' \in {[pc EXCEPT ![t] = "idle"], [pc EXCEPT ![t] = "unlock"]}
    BY <1>2 DEF FastHit, RecheckHit
  <2>3. Registry!Resolve(t) \/ Registry!Refuse(t)
    BY <2>1, <2>2, HitResolves
  <2> QED
    BY <2>3 DEF Registry!Next
<1>3. ASSUME NEW t \in Threads, FastMiss(t) \/ Lock(t) \/ RecheckMiss(t) \/ Unlock(t)
      PROVE  UNCHANGED Registry!vars
  <2>1. snapshots' = snapshots /\ request' = request /\ outcome' = outcome
    BY <1>3 DEF FastMiss, Lock, RecheckMiss, Unlock
  <2> QED
    BY <1>3, <2>1, InvisibleSteps
<1>4. ASSUME NEW t \in Threads,
             QualifyFails(t) \/ FastHitFails(t) \/ RecheckHitFails(t) \/ CopyFails(t)
      PROVE  Registry!Next
  <2>1. Registry!Fail(t)
    BY <1>4, FailureFails
  <2> QED
    BY <2>1 DEF Registry!Next
<1>5. ASSUME NEW t \in Threads, Publish(t) PROVE Registry!Next
  BY <1>5, PublishDefines DEF Registry!Next
<1>6. ASSUME NEW t \in Threads, symbol_name(t) PROVE Registry!Next
  BY <1>6, ReadingReads DEF Registry!Next
<1>7. ASSUME NEW t \in Threads, ReadFails(t) PROVE Registry!Next
  BY <1>7, FailureToRead DEF Registry!Next
<1>8. ASSUME NEW t \in Threads, NEW u \in Threads, HandOver(t, u) PROVE UNCHANGED Registry!vars
  <2>1. snapshots' = snapshots /\ request' = request /\ outcome' = outcome /\ UNCHANGED pc
    BY <1>8 DEF HandOver
  <2> QED
    BY <2>1, InvisibleSteps
<1>9. CASE UNCHANGED vars
  <2>1. snapshots' = snapshots /\ request' = request /\ outcome' = outcome /\ UNCHANGED pc
    BY <1>9 DEF vars
  <2> QED
    BY <2>1, InvisibleSteps
<1> QED
  BY <1>1, <1>2, <1>3, <1>4, <1>5, <1>6, <1>7, <1>8, <1>9 DEF Next, Step

\* Stale reads, the race for the lock and the two-step registration cannot be
\* told from a dictionary whose operations are atomic: the behaviours of the
\* threads, seen through their answers, are behaviours of SymbolRegistry.
THEOREM ThreadsImplementRegistry == Spec => ImplementsRegistry
<1> QED
  BY InitRegistry, NextRegistry, Invariance, PTL DEF Spec, ImplementsRegistry, Registry!Spec

=============================================================================
