---------------------------- MODULE RouterProofs ----------------------------
(***************************************************************************)
(* For every width of the ids, every set of worker indices and any number  *)
(* of calls: the table of LockFreeRouteTable means what Bind and Unbind    *)
(* say, a lookup finds the binding published when it began, and a handler  *)
(* that was registered before Freeze is found.                             *)
(***************************************************************************)
EXTENDS Router, TLAPS

\* No entry is empty.
NonEmpty(S) == \A x \in S : x.begin < x.end

\* S is a table that means the bindings B.
Exact(S, B) ==
    /\ S \subseteq Entry
    /\ NonEmpty(S)
    /\ Disjoint(S)
    /\ \A id \in Ids, w \in Indices : Covers(S, id, w) <=> B[id] = w

\* The entries without what they have in [b, e).
Trim(S, b, e) == UNION {Cut(x, b, e) : x \in S}

----------------------------------------------------------------------------
(* Bind and Unbind.                                                        *)

\* A part of an entry lies inside it, outside [b, e), and keeps its worker (the
\* truncations in Bind).
LEMMA CutPart ==
    ASSUME NEW x \in Entry, x.begin < x.end, NEW b \in Ids, NEW e \in 0 .. Wrap, b < e,
           NEW y \in Cut(x, b, e)
    PROVE  /\ y \in Entry
           /\ y.begin < y.end
           /\ x.begin <= y.begin /\ y.end <= x.end
           /\ y.end <= b \/ y.begin >= e
           /\ y.worker = x.worker
  <1>0. /\ x.begin \in Ids /\ x.end \in Ids /\ x.worker \in Indices /\ Wrap \in Nat
    BY RouterAssumption DEF Entry
  <1>1. CASE x.end <= b \/ x.begin >= e
    BY <1>0, <1>1 DEF Cut, Ids
  <1>2. CASE ~(x.end <= b \/ x.begin >= e)
    <2>1. CASE x.begin < b /\ y = [begin |-> x.begin, end |-> b, worker |-> x.worker]
      BY <1>0, <1>2, <2>1 DEF Ids, Entry
    <2>2. CASE e < x.end /\ y = [begin |-> e, end |-> x.end, worker |-> x.worker]
      <3>1. e \in Ids
        BY <1>0, <2>2 DEF Ids
      <3>2. QED BY <1>0, <1>2, <2>2, <3>1 DEF Ids, Entry
    <2>3. QED BY <1>2, <2>1, <2>2 DEF Cut, Piece
  <1>3. QED BY <1>1, <1>2

\* Two parts of one entry are on the two sides of [b, e) (the split in Bind).
LEMMA CutSides ==
    ASSUME NEW x \in Entry, x.begin < x.end, NEW b \in Ids, NEW e \in 0 .. Wrap, b < e,
           NEW y \in Cut(x, b, e), NEW z \in Cut(x, b, e), y # z
    PROVE  y.end <= z.begin \/ z.end <= y.begin
  <1>0. /\ x.begin \in Int /\ x.end \in Int /\ b \in Int /\ e \in Int
    BY RouterAssumption DEF Entry, Ids
  <1>1. ~(x.end <= b \/ x.begin >= e)
    BY DEF Cut
  <1>2. \A u \in Cut(x, b, e) :
            \/ u = [begin |-> x.begin, end |-> b, worker |-> x.worker]
            \/ u = [begin |-> e, end |-> x.end, worker |-> x.worker]
    BY <1>1 DEF Cut, Piece
  <1>3. QED BY <1>0, <1>2

\* Outside [b, e) an entry covers what its parts cover.
LEMMA CutCovers ==
    ASSUME NEW x \in Entry, x.begin < x.end, NEW b \in Ids, NEW e \in 0 .. Wrap, b < e,
           NEW id \in Ids, id < b \/ id >= e, x.begin <= id, id < x.end
    PROVE  \E y \in Cut(x, b, e) : y.begin <= id /\ id < y.end /\ y.worker = x.worker
  <1>0. /\ x.begin \in Int /\ x.end \in Int /\ b \in Int /\ e \in Int /\ id \in Int
    BY RouterAssumption DEF Entry, Ids
  <1>1. CASE x.end <= b \/ x.begin >= e
    BY <1>1 DEF Cut
  <1>2. CASE ~(x.end <= b \/ x.begin >= e)
    <2>1. CASE id < b
      <3> DEFINE y == [begin |-> x.begin, end |-> b, worker |-> x.worker]
      <3>1. x.begin < b
        BY <1>0, <2>1
      <3>2. y \in Cut(x, b, e)
        BY <1>2, <3>1 DEF Cut, Piece
      <3>3. QED BY <3>2, <2>1
    <2>2. CASE id >= e
      <3> DEFINE y == [begin |-> e, end |-> x.end, worker |-> x.worker]
      <3>1. e < x.end
        BY <1>0, <2>2
      <3>2. y \in Cut(x, b, e)
        BY <1>2, <3>1 DEF Cut, Piece
      <3>3. QED BY <1>0, <3>2, <2>2
    <2>3. QED BY <2>1, <2>2
  <1>3. QED BY <1>1, <1>2

\* Trimming a table removes the bindings in [b, e) and no others.
LEMMA TrimExact ==
    ASSUME NEW S, NEW B, Exact(S, B), NEW b \in Ids, NEW e \in 0 .. Wrap, b < e
    PROVE  /\ Trim(S, b, e) \subseteq Entry
           /\ NonEmpty(Trim(S, b, e))
           /\ Disjoint(Trim(S, b, e))
           /\ \A y \in Trim(S, b, e) : y.end <= b \/ y.begin >= e
           /\ \A id \in Ids, w \in Indices :
                  (id < b \/ id >= e) => (Covers(Trim(S, b, e), id, w) <=> B[id] = w)
  <1> DEFINE T == Trim(S, b, e)
  <1>0. Wrap \in Nat
    BY RouterAssumption
  <1>1. ASSUME NEW y \in T
        PROVE  \E x \in S : y \in Cut(x, b, e)
    BY DEF Trim
  <1>2. ASSUME NEW x \in S
        PROVE  x \in Entry /\ x.begin < x.end
    BY DEF Exact, NonEmpty
  <1>3. ASSUME NEW y \in T
        PROVE  y \in Entry /\ y.begin < y.end /\ (y.end <= b \/ y.begin >= e)
    <2>1. PICK x \in S : y \in Cut(x, b, e)
      BY <1>1
    <2>2. QED BY <1>2, <2>1, CutPart
  <1>4. ASSUME NEW y \in T, NEW z \in T, y # z
        PROVE  y.end <= z.begin \/ z.end <= y.begin
    <2>1. PICK u \in S : y \in Cut(u, b, e)
      BY <1>1
    <2>2. PICK v \in S : z \in Cut(v, b, e)
      BY <1>1
    <2>3. CASE u = v
      BY <1>2, <1>4, <2>1, <2>2, <2>3, CutSides
    <2>4. CASE u # v
      <3>1. u.end <= v.begin \/ v.end <= u.begin
        BY <2>4 DEF Exact, Disjoint
      <3>2. u.begin <= y.begin /\ y.end <= u.end
        BY <1>2, <2>1, CutPart
      <3>3. v.begin <= z.begin /\ z.end <= v.end
        BY <1>2, <2>2, CutPart
      <3>4. \A r \in {u, v, y, z} : r.begin \in Int /\ r.end \in Int
        BY <1>2, <1>3, <1>0 DEF Entry, Ids
      <3>5. QED BY <3>1, <3>2, <3>3, <3>4
    <2>5. QED BY <2>3, <2>4
  <1>5. ASSUME NEW id \in Ids, NEW w \in Indices, id < b \/ id >= e
        PROVE  Covers(T, id, w) <=> B[id] = w
    <2>1. ASSUME Covers(T, id, w)
          PROVE  Covers(S, id, w)
      <3>1. PICK y \in T : y.begin <= id /\ id < y.end /\ y.worker = w
        BY <2>1 DEF Covers
      <3>2. PICK x \in S : y \in Cut(x, b, e)
        BY <1>1
      <3>3. x.begin <= y.begin /\ y.end <= x.end /\ y.worker = x.worker
        BY <1>2, <3>2, CutPart
      <3>4. \A r \in {x, y} : r.begin \in Int /\ r.end \in Int
        BY <1>2, <1>3, <1>0 DEF Entry, Ids
      <3>5. x.begin <= id /\ id < x.end /\ x.worker = w
        BY <3>1, <3>3, <3>4, <1>0 DEF Ids
      <3>6. QED BY <3>5 DEF Covers
    <2>2. ASSUME Covers(S, id, w)
          PROVE  Covers(T, id, w)
      <3>1. PICK x \in S : x.begin <= id /\ id < x.end /\ x.worker = w
        BY <2>2 DEF Covers
      <3>2. PICK y \in Cut(x, b, e) : y.begin <= id /\ id < y.end /\ y.worker = x.worker
        BY <1>2, <1>5, <3>1, CutCovers
      <3>3. y \in T
        BY DEF Trim
      <3>4. QED BY <3>1, <3>2, <3>3 DEF Covers
    <2>3. QED BY <2>1, <2>2 DEF Exact
  <1>6. QED BY <1>3, <1>4, <1>5 DEF NonEmpty, Disjoint

\* Bind gives [b, e) to w and leaves every other id alone (Bind).
LEMMA BindExact ==
    ASSUME NEW S, NEW B \in [Ids -> Indices \cup {NoRoute}], Exact(S, B),
           NEW b \in Ids, NEW e \in Ids, NEW w \in Indices
    PROVE  Exact(BindEntries(S, b, e, w),
                 [i \in Ids |-> IF b <= i /\ i < e THEN w ELSE B[i]])
  <1> DEFINE C == [i \in Ids |-> IF b <= i /\ i < e THEN w ELSE B[i]]
             N == BindEntries(S, b, e, w)
             T == Trim(S, b, e)
             n == [begin |-> b, end |-> e, worker |-> w]
  <1>0. Wrap \in Nat /\ b \in Int /\ e \in Int /\ e \in 0 .. Wrap
    BY RouterAssumption DEF Ids
  <1>1. CASE b >= e
    <2>1. N = S
      BY <1>1 DEF BindEntries
    <2>2. \A i \in Ids : C[i] = B[i]
      BY <1>0, <1>1 DEF Ids
    <2>3. QED BY <2>1, <2>2 DEF Exact
  <1>2. CASE b < e
    <2>1. N = T \cup {n}
      <3>1. ~(b >= e)
        BY <1>0, <1>2
      <3>2. Piece(b, e, w) = {n}
        BY <1>2 DEF Piece
      <3>3. N = T \cup Piece(b, e, w)
        BY <3>1, Zenon DEF BindEntries, Trim
      <3>4. QED BY <3>2, <3>3
    <2>2. /\ T \subseteq Entry /\ NonEmpty(T) /\ Disjoint(T)
          /\ \A y \in T : y.end <= b \/ y.begin >= e
          /\ \A id \in Ids, v \in Indices :
                 (id < b \/ id >= e) => (Covers(T, id, v) <=> B[id] = v)
      BY <1>0, <1>2, TrimExact
    <2>3. n \in Entry /\ n.begin = b /\ n.end = e /\ n.worker = w
      BY DEF Entry
    <2>4. N \subseteq Entry
      BY <2>1, <2>2, <2>3
    <2>5. NonEmpty(N)
      BY <1>2, <2>1, <2>2, <2>3 DEF NonEmpty
    <2>6. Disjoint(N)
      BY <2>1, <2>2, <2>3 DEF Disjoint
    <2>7. ASSUME NEW id \in Ids, NEW v \in Indices
          PROVE  Covers(N, id, v) <=> C[id] = v
      <3>1. CASE b <= id /\ id < e
        <4>1. \A y \in T : ~(y.begin <= id /\ id < y.end)
          BY <1>0, <2>2, <3>1 DEF Entry, Ids
        <4>2. Covers(N, id, v) <=> v = w
          BY <2>1, <2>3, <3>1, <4>1 DEF Covers
        <4>3. QED BY <3>1, <4>2
      <3>2. CASE ~(b <= id /\ id < e)
        <4>1. id < b \/ id >= e
          BY <1>0, <3>2 DEF Ids
        <4>2. Covers(N, id, v) <=> Covers(T, id, v)
          BY <2>1, <2>3, <3>2 DEF Covers
        <4>3. QED BY <2>2, <3>2, <4>1, <4>2
      <3>3. QED BY <3>1, <3>2
    <2>8. QED BY <2>4, <2>5, <2>6, <2>7 DEF Exact
  <1>3. QED BY <1>0, <1>1, <1>2

\* Unbind removes one id (Unbind).
LEMMA UnbindExact ==
    ASSUME NEW S, NEW B \in [Ids -> Indices \cup {NoRoute}], Exact(S, B), NEW id \in Ids
    PROVE  Exact(UnbindEntries(S, id), [B EXCEPT ![id] = NoRoute])
  <1> DEFINE C == [B EXCEPT ![id] = NoRoute]
             N == UnbindEntries(S, id)
             T == Trim(S, id, id + 1)
             Part(x) == IF id >= x.begin /\ id < x.end
                        THEN Piece(x.begin, id, x.worker)
                                \cup Piece((id + 1) % Wrap, x.end, x.worker)
                        ELSE {x}
  <1>0. Wrap \in Nat /\ id \in Int /\ id + 1 \in 0 .. Wrap /\ id < id + 1
    BY RouterAssumption DEF Ids
  <1>1. ASSUME NEW x \in S
        PROVE  Part(x) = Cut(x, id, id + 1)
    <2>1. x.begin \in Ids /\ x.end \in Ids /\ x.begin < x.end
      BY DEF Exact, NonEmpty, Entry
    <2>2. CASE id >= x.begin /\ id < x.end
      <3>1. (id + 1) % Wrap = id + 1
        BY <1>0, <2>1, <2>2 DEF Ids
      <3>2. ~(x.end <= id \/ x.begin >= id + 1)
        BY <1>0, <2>1, <2>2 DEF Ids
      <3>3. QED BY <2>2, <3>1, <3>2, Zenon DEF Cut
    <2>3. CASE ~(id >= x.begin /\ id < x.end)
      <3>1. x.end <= id \/ x.begin >= id + 1
        BY <1>0, <2>1, <2>3 DEF Ids
      <3>2. QED BY <2>3, <3>1, Zenon DEF Cut
    <2>4. QED BY <2>2, <2>3
  <1>2. N = T
    <2>1. N = UNION {Part(x) : x \in S}
      BY DEF UnbindEntries
    <2> HIDE DEF Part
    <2>2. QED BY <1>1, <2>1 DEF Trim
  <1>3. /\ T \subseteq Entry /\ NonEmpty(T) /\ Disjoint(T)
        /\ \A y \in T : y.end <= id \/ y.begin >= id + 1
        /\ \A i \in Ids, v \in Indices :
               (i < id \/ i >= id + 1) => (Covers(T, i, v) <=> B[i] = v)
    BY <1>0, TrimExact
  <1>4. ASSUME NEW i \in Ids, NEW v \in Indices
        PROVE  Covers(T, i, v) <=> C[i] = v
    <2>1. CASE i = id
      <3>1. \A y \in T : ~(y.begin <= id /\ id < y.end)
        BY <1>0, <1>3 DEF Entry, Ids
      <3>2. C[i] # v
        BY <2>1, RouterAssumption
      <3>3. QED BY <2>1, <3>1, <3>2 DEF Covers
    <2>2. CASE i # id
      <3>1. i < id \/ i >= id + 1
        BY <1>0, <2>2 DEF Ids
      <3>2. QED BY <1>3, <2>2, <3>1
    <2>3. QED BY <2>1, <2>2
  <1>5. QED BY <1>2, <1>3, <1>4 DEF Exact

----------------------------------------------------------------------------
(* Freeze and Lookup.                                                      *)

\* On a table of disjoint entries the merge in Freeze changes nothing.
LEMMA SnapshotSame ==
    ASSUME NEW S, S \subseteq Entry, NonEmpty(S), Disjoint(S)
    PROVE  Snapshot(S) = S
  <1>0. \A x \in S : x.begin \in Int /\ x.end \in Int /\ x.begin < x.end
    BY RouterAssumption DEF NonEmpty, Entry, Ids
  <1>1. Opens(S) = S
    BY <1>0 DEF Opens, Disjoint
  <1>2. ASSUME NEW x \in S
        PROVE  Merged(S, x) = x
    <2>1. RunOf(S, x) = {x}
      BY <1>0, <1>1 DEF RunOf, Disjoint
    <2>2. (CHOOSE y \in RunOf(S, x) : \A z \in RunOf(S, x) : z.end <= y.end) = x
      BY <1>0, <2>1
    <2>3. (CHOOSE y \in RunOf(S, x) : \A z \in RunOf(S, x) : z.begin <= y.begin) = x
      BY <1>0, <2>1
    <2>4. x \in Entry
      OBVIOUS
    <2>5. Merged(S, x) = [begin |-> x.begin, end |-> x.end, worker |-> x.worker]
      BY <2>2, <2>3 DEF Merged
    <2>6. QED BY <2>4, <2>5 DEF Entry
  <1>3. QED BY <1>1, <1>2 DEF Snapshot

\* Lookup on a table returns the binding of the id (upper_bound and the test of
\* the interval in Lookup).
LEMMA LookupExact ==
    ASSUME NEW S, NEW B \in [Ids -> Indices \cup {NoRoute}], Exact(S, B), NEW id \in Ids
    PROVE  Lookup(S, id) = B[id]
  <1>0. \A x \in S : x.begin \in Int /\ x.end \in Int /\ x.begin < x.end /\ x.worker \in Indices
    BY RouterAssumption DEF Exact, NonEmpty, Entry, Ids
  <1>1. id \in Int
    BY RouterAssumption DEF Ids
  <1>2. CASE \E x \in LastBefore(S, id) : id < x.end
    <2> DEFINE y == CHOOSE x \in LastBefore(S, id) : id < x.end
    <2>1. y \in LastBefore(S, id) /\ id < y.end
      BY <1>2
    <2>2. y \in S /\ y.begin <= id
      BY <2>1 DEF LastBefore
    <2>3. Covers(S, id, y.worker)
      BY <2>1, <2>2 DEF Covers
    <2>4. B[id] = y.worker
      BY <1>0, <2>2, <2>3 DEF Exact
    <2>5. QED BY <1>2, <2>4 DEF Lookup
  <1>3. CASE ~(\E x \in LastBefore(S, id) : id < x.end)
    <2>1. Lookup(S, id) = NoRoute
      BY <1>3 DEF Lookup
    <2>2. SUFFICES ASSUME B[id] # NoRoute
                   PROVE  FALSE
      BY <2>1
    <2>3. B[id] \in Indices
      BY <2>2
    <2>4. PICK x \in S : x.begin <= id /\ id < x.end
      BY <2>3 DEF Exact, Covers
    <2>5. \A y \in S : y.begin <= id => y.begin <= x.begin
      BY <1>0, <1>1, <2>4 DEF Exact, Disjoint
    <2>6. x \in LastBefore(S, id)
      BY <2>4, <2>5 DEF LastBefore
    <2>7. QED BY <1>3, <2>4, <2>6
  <1>4. QED BY <1>2, <1>3

----------------------------------------------------------------------------
(* The invariant.                                                          *)

\* A handler map means its reference until Freeze takes it and its copy does so
\* from then on; what is stored has been taken.
MapsExact ==
    \A m \in Modes :
        /\ ~Taken(m) => m \notin snapshot /\ (m \in handlers <=> m \in known)
        /\ Taken(m) => (m \in snapshot <=> m \in known)
        /\ m \in frozen => main \in {"storing", "stored", "run"}

\* Both tables mean their reference; with that each lookup is exact.
IInv ==
    /\ RouterTypeOK
    /\ Exact(pending, bound)
    /\ Exact(current, frozen_bound)
    /\ RouteExact
    /\ MapsExact
    /\ HandlerFound

LEMMA InitIInv == Init => IInv
  <1> SUFFICES ASSUME Init PROVE IInv
    OBVIOUS
  <1>1. RouterTypeOK
    BY RouterAssumption DEF Init, RouterTypeOK, Workers, Ids, Entry, Phases
  <1>2. Exact(pending, bound) /\ Exact(current, frozen_bound)
    BY RouterAssumption DEF Init, Exact, NonEmpty, Disjoint, Covers, Ids
  <1>3. RouteExact
    BY DEF Init, RouteExact, Quiet
  <1>4. MapsExact /\ HandlerFound
    BY DEF Init, MapsExact, Taken, HandlerFound, Quiet
  <1>5. QED BY <1>1, <1>2, <1>3, <1>4 DEF IInv

\* An IO thread that is dispatching is described by a full record.
LEMMA IoRecord ==
    ASSUME RouterTypeOK, NEW p \in IoThreads,
           io[p].pc \in {"route", "search", "find", "locked", "deliver"}
    PROVE  io[p] \in Dispatching
  BY DEF RouterTypeOK, Quiet, Ended

\* Steps of the main thread on the writer's side leave the readers alone.
LEMMA TablePreserves ==
    ASSUME IInv, TableStep
    PROVE  IInv'
  <1>0. /\ RouterTypeOK /\ Exact(pending, bound) /\ Exact(current, frozen_bound) /\ RouteExact
        /\ MapsExact /\ HandlerFound
    BY DEF IInv
  <1>1. ASSUME NEW b \in Ids, NEW e \in Ids, NEW w \in Indices, Bind(b, e, w)
        PROVE  IInv'
    <2>1. Exact(pending', bound')
      BY <1>0, <1>1, BindExact DEF Bind, RouterTypeOK
    <2>2. UNCHANGED <<current, frozen_bound, policy, service, frozen_service, handlers, snapshot,
                      frozen, known, main, io>>
      BY <1>1 DEF Bind, startVars, mapVars
    <2>3. RouterTypeOK'
      <3>1. pending' \subseteq Entry
        BY <2>1 DEF Exact
      <3>2. bound' \in [Ids -> Indices \cup {NoRoute}]
        BY <1>0, <1>1 DEF Bind, RouterTypeOK
      <3>3. binds' \in 0 .. MaxBinds
        BY <1>0, <1>1, RouterAssumption DEF Bind, RouterTypeOK
      <3>4. QED BY <1>0, <2>2, <3>1, <3>2, <3>3 DEF RouterTypeOK
    <2>4. Exact(current, frozen_bound)' /\ RouteExact' /\ MapsExact' /\ HandlerFound'
      BY <1>0, <2>2 DEF Exact, NonEmpty, Disjoint, Covers, RouteExact, GetWorker, MapsExact, Taken,
                        HandlerFound
    <2>5. QED BY <2>1, <2>3, <2>4 DEF IInv, Exact, NonEmpty, Disjoint, Covers
  <1>2. ASSUME NEW id \in Ids, NEW w \in Indices, BindSingle(id, w)
        PROVE  IInv'
    <2>1. (id + 1) % Wrap \in Ids
      BY RouterAssumption DEF Ids
    <2>2. QED BY <1>1, <1>2, <2>1 DEF BindSingle
  <1>3. ASSUME NEW id \in Ids, Unbind(id)
        PROVE  IInv'
    <2>1. Exact(pending', bound')
      BY <1>0, <1>3, UnbindExact DEF Unbind, RouterTypeOK
    <2>2. UNCHANGED <<current, frozen_bound, policy, service, frozen_service, handlers, snapshot,
                      frozen, known, main, io>>
      BY <1>3 DEF Unbind, startVars, mapVars
    <2>3. RouterTypeOK'
      <3>1. pending' \subseteq Entry
        BY <2>1 DEF Exact
      <3>2. bound' \in [Ids -> Indices \cup {NoRoute}]
        BY <1>0, <1>3 DEF Unbind, RouterTypeOK
      <3>3. binds' \in 0 .. MaxBinds
        BY <1>0, <1>3, RouterAssumption DEF Unbind, RouterTypeOK
      <3>4. QED BY <1>0, <2>2, <3>1, <3>2, <3>3 DEF RouterTypeOK
    <2>4. Exact(current, frozen_bound)' /\ RouteExact' /\ MapsExact' /\ HandlerFound'
      BY <1>0, <2>2 DEF Exact, NonEmpty, Disjoint, Covers, RouteExact, GetWorker, MapsExact, Taken,
                        HandlerFound
    <2>5. QED BY <2>1, <2>3, <2>4 DEF IInv, Exact, NonEmpty, Disjoint, Covers
  <1>4. ASSUME FreezeEntityRoutes
        PROVE  IInv'
    <2>1. current' = pending /\ frozen_bound' = bound
      BY <1>0, <1>4, SnapshotSame DEF FreezeEntityRoutes, Exact
    <2>2. UNCHANGED <<pending, binds, bound, policy, service, frozen_service, handlers, snapshot,
                      frozen, known, main>>
      BY <1>4 DEF FreezeEntityRoutes, startVars, mapVars
    <2>3. ASSUME NEW p \in IoThreads
          PROVE  /\ io'[p] \in {Quiet} \cup Dispatching \cup Ended
                 /\ io'[p].pc = io[p].pc
                 /\ io'[p].had = io[p].had
                 /\ io[p].pc \in {"search", "find", "locked", "deliver"} =>
                       /\ io'[p].id = io[p].id /\ io'[p].to = io[p].to
                       /\ io'[p].want = io[p].want
                       /\ io[p].pc # "search" => io'[p].age = io[p].age
      <3>1. io'[p] = IF io[p].pc = "search" /\ io[p].age < 2
                     THEN [io[p] EXCEPT !.age = @ + 1] ELSE io[p]
        BY <1>4 DEF FreezeEntityRoutes
      <3>2. CASE io[p].pc = "search" /\ io[p].age < 2
        <4>1. io[p] \in Dispatching
          BY <1>0, <3>2, IoRecord
        <4>2. QED BY <3>1, <3>2, <4>1 DEF Dispatching
      <3>3. CASE ~(io[p].pc = "search" /\ io[p].age < 2)
        BY <1>0, <3>1, <3>3 DEF RouterTypeOK
      <3>4. QED BY <3>2, <3>3
    <2>4. RouterTypeOK'
      <3>1. io' \in [IoThreads -> {Quiet} \cup Dispatching \cup Ended]
        BY <1>4, <2>3 DEF FreezeEntityRoutes
      <3>2. QED BY <1>0, <2>1, <2>2, <3>1 DEF RouterTypeOK
    <2>5. RouteExact' /\ MapsExact' /\ HandlerFound'
      BY <1>0, <2>2, <2>3 DEF RouteExact, GetWorker, MapsExact, Taken, HandlerFound
    <2>6. QED BY <1>0, <2>1, <2>2, <2>4, <2>5 DEF IInv, Exact, NonEmpty, Disjoint, Covers
  <1>5. QED BY <1>1, <1>2, <1>3, <1>4 DEF TableStep

\* Steps of an IO thread read the tables and change its own record only.
LEMMA IoPreserves ==
    ASSUME IInv, NEW p \in IoThreads, IoStep(p)
    PROVE  IInv'
  <1>0. /\ RouterTypeOK /\ Exact(pending, bound) /\ Exact(current, frozen_bound) /\ RouteExact
        /\ MapsExact /\ HandlerFound
    BY DEF IInv
  <1>1. UNCHANGED <<pending, current, binds, bound, frozen_bound, policy, service,
                    frozen_service, handlers, snapshot, frozen, known, main>>
    BY DEF IoStep, Receive, GetExecutor, EndSearch, FindFrozen, FindInMap, DispatchTo,
           tableVars, startVars, mapVars
  <1>2. Exact(pending, bound)' /\ Exact(current, frozen_bound)' /\ MapsExact'
    BY <1>0, <1>1 DEF Exact, NonEmpty, Disjoint, Covers, MapsExact, Taken
  <1> DEFINE Good(r) ==
          /\ r.pc = "search" => r.to = r.want
          /\ r.pc \in {"find", "locked", "deliver"} /\ r.id # 0 /\ r.age < 2
                /\ policy = "Stateful" => r.to = GetWorker(r.want)
          /\ r.pc = "dropped" => r.had # "yes"
          /\ r.pc \in {"deliver", "posted", "inline"} => r.had # "no"
  <1>3. Good(io[p])
    BY <1>0 DEF RouteExact, HandlerFound
  <1>4. SUFFICES ASSUME NEW r \in Dispatching \cup Ended, io' = [io EXCEPT ![p] = r], Good(r)
                 PROVE  RouterTypeOK' /\ RouteExact' /\ HandlerFound'
    <2>1. ASSUME NEW id \in Ids, NEW m \in Modes, Receive(p, id, m)
          PROVE  \E r \in Dispatching \cup Ended : io' = [io EXCEPT ![p] = r] /\ Good(r)
      <3> DEFINE r == [pc |-> "route", id |-> id, mode |-> m, had |-> "any", age |-> 0,
                       want |-> NoRoute, to |-> NoRoute]
      <3>1. r \in Dispatching /\ r.pc = "route"
        BY DEF Dispatching
      <3>2. io' = [io EXCEPT ![p] = r]
        BY <2>1 DEF Receive
      <3> HIDE DEF r
      <3>3. QED BY <3>1, <3>2
    <2>2. ASSUME GetExecutor(p)
          PROVE  \E r \in Dispatching \cup Ended : io' = [io EXCEPT ![p] = r] /\ Good(r)
      <3>1. io[p] \in Dispatching
        BY <1>0, <2>2, IoRecord DEF GetExecutor
      <3>2. io[p].id \in Ids
        BY <3>1 DEF Dispatching
      <3>3. CASE io[p].id = 0 /\ io' = [io EXCEPT ![p].pc = "find", ![p].to = 0]
        <4> DEFINE r == [io[p] EXCEPT !.pc = "find", !.to = 0]
        <4>0. 0 \in Workers
          BY RouterAssumption DEF Workers
        <4>1. r \in Dispatching /\ r.id = 0 /\ r.pc = "find"
          BY <3>1, <3>3, <4>0 DEF Dispatching
        <4>2. io' = [io EXCEPT ![p] = r]
          BY <1>0, <3>3 DEF RouterTypeOK
        <4>3. QED BY <4>1, <4>2
      <3>4. CASE /\ policy = "Stateful"
                 /\ io' = [io EXCEPT ![p].pc = "search", ![p].to = Lookup(current, io[p].id),
                                     ![p].want = frozen_bound[io[p].id]]
        <4> DEFINE f == frozen_bound[io[p].id]
                   r == [io[p] EXCEPT !.pc = "search", !.to = Lookup(current, io[p].id),
                                      !.want = f]
        <4>1. Lookup(current, io[p].id) = f /\ f \in Indices \cup {NoRoute}
          BY <1>0, <3>2, LookupExact DEF RouterTypeOK
        <4>2. r \in Dispatching /\ r.pc = "search" /\ r.to = r.want
          BY <3>1, <4>1 DEF Dispatching
        <4>3. io' = [io EXCEPT ![p] = r]
          BY <1>0, <3>4 DEF RouterTypeOK
        <4>4. QED BY <4>2, <4>3
      <3>5. CASE /\ policy = "Stateless"
                 /\ io' = [io EXCEPT ![p].pc = "find", ![p].to = PickWorker(io[p].id)]
        <4> DEFINE r == [io[p] EXCEPT !.pc = "find", !.to = PickWorker(io[p].id)]
        <4>1. PickWorker(io[p].id) \in Workers \cup {NoRoute}
          BY <1>0, <3>2, RouterAssumption DEF PickWorker, Workers, Ids, RouterTypeOK
        <4>2. r \in Dispatching /\ r.pc = "find"
          BY <3>1, <4>1 DEF Dispatching
        <4>3. io' = [io EXCEPT ![p] = r]
          BY <1>0, <3>5 DEF RouterTypeOK
        <4>4. QED BY <3>5, <4>2, <4>3
      <3>6. QED BY <2>2, <3>3, <3>4, <3>5 DEF GetExecutor
    <2>3. ASSUME EndSearch(p)
          PROVE  \E r \in Dispatching \cup Ended : io' = [io EXCEPT ![p] = r] /\ Good(r)
      <3>1. io[p] \in Dispatching /\ io[p].to = io[p].want
        BY <1>0, <1>3, <2>3, IoRecord DEF EndSearch
      <3>2. CASE io[p].age < 2 /\ io' = [io EXCEPT ![p].pc = "find", ![p].to = GetWorker(@)]
        <4> DEFINE r == [io[p] EXCEPT !.pc = "find", !.to = GetWorker(io[p].to)]
        <4>1. GetWorker(io[p].to) \in Workers \cup {NoRoute}
          BY DEF GetWorker
        <4>2. r \in Dispatching /\ r.to = GetWorker(r.want) /\ r.pc = "find"
          BY <3>1, <4>1 DEF Dispatching
        <4>3. io' = [io EXCEPT ![p] = r]
          BY <1>0, <3>2 DEF RouterTypeOK
        <4>4. QED BY <4>2, <4>3
      <3>3. ASSUME io[p].age = 2, NEW i \in Workers \cup {NoRoute},
                   io' = [io EXCEPT ![p].pc = "find", ![p].to = i]
            PROVE  \E r \in Dispatching \cup Ended : io' = [io EXCEPT ![p] = r] /\ Good(r)
        <4> DEFINE r == [io[p] EXCEPT !.pc = "find", !.to = i]
        <4>1. r \in Dispatching
          BY <3>1, <3>3 DEF Dispatching
        <4>2. r.age = 2 /\ r.pc = "find"
          BY <3>1, <3>3 DEF Dispatching
        <4>3. io' = [io EXCEPT ![p] = r]
          BY <1>0, <3>3 DEF RouterTypeOK
        <4>4. ~(r.age < 2)
          BY <4>2
        <4>5. Good(r)
          BY <4>2, <4>4
        <4>6. QED BY <4>1, <4>3, <4>5
      <3>4. QED BY <2>3, <3>2, <3>3 DEF EndSearch
    <2>4. ASSUME NEW had \in {"yes", "no", "any"}, io[p].pc \in {"find", "locked"},
                 \/ /\ io' = [io EXCEPT ![p].pc = "deliver", ![p].had = had]
                    /\ had # "no"
                 \/ /\ io' = [io EXCEPT ![p] = [pc |-> "dropped", had |-> had]]
                    /\ had # "yes"
          PROVE  \E r \in Dispatching \cup Ended : io' = [io EXCEPT ![p] = r] /\ Good(r)
      <3>1. io[p] \in Dispatching
        BY <1>0, <2>4, IoRecord
      <3>2. CASE io' = [io EXCEPT ![p].pc = "deliver", ![p].had = had] /\ had # "no"
        <4> DEFINE r == [io[p] EXCEPT !.pc = "deliver", !.had = had]
        <4>1. /\ r \in Dispatching /\ r.id = io[p].id /\ r.age = io[p].age
              /\ r.to = io[p].to /\ r.want = io[p].want /\ r.pc = "deliver" /\ r.had = had
          BY <2>4, <3>1 DEF Dispatching
        <4>2. io' = [io EXCEPT ![p] = r]
          BY <1>0, <3>2 DEF RouterTypeOK
        <4> HIDE DEF r
        <4>3. QED BY <1>3, <2>4, <3>2, <4>1, <4>2
      <3>3. CASE io' = [io EXCEPT ![p] = [pc |-> "dropped", had |-> had]] /\ had # "yes"
        <4> DEFINE r == [pc |-> "dropped", had |-> had]
        <4>1. r \in Ended /\ r.pc = "dropped" /\ r.had # "yes"
          BY <2>4, <3>3 DEF Ended
        <4>2. io' = [io EXCEPT ![p] = r]
          BY <3>3
        <4> HIDE DEF r
        <4>3. QED BY <4>1, <4>2
      <3>4. QED BY <2>4, <3>2, <3>3
    <2>5. ASSUME FindFrozen(p)
          PROVE  \E r \in Dispatching \cup Ended : io' = [io EXCEPT ![p] = r] /\ Good(r)
      <3>1. io[p] \in Dispatching /\ io[p].pc = "find" /\ io[p].mode \in Modes
        BY <1>0, <2>5, IoRecord DEF FindFrozen, Dispatching
      <3>2. CASE io[p].mode \in frozen
        <4>1. Taken(io[p].mode)
          BY <1>0, <3>1, <3>2 DEF MapsExact, Taken
        <4>2. (io[p].mode \in snapshot) <=> (io[p].mode \in known)
          BY <1>0, <3>1, <4>1 DEF MapsExact
        <4>3. \/ /\ io[p].mode \in snapshot
                 /\ io' = [io EXCEPT ![p].pc = "deliver", ![p].had = Known(io[p].mode)]
              \/ /\ io[p].mode \notin snapshot
                 /\ io' = [io EXCEPT ![p] = [pc |-> "dropped", had |-> Known(io[p].mode)]]
          BY <2>5, <3>2 DEF FindFrozen, Found
        <4>4. /\ Known(io[p].mode) \in {"yes", "no", "any"}
              /\ io[p].mode \in snapshot => Known(io[p].mode) # "no"
              /\ io[p].mode \notin snapshot => Known(io[p].mode) # "yes"
          BY <4>2 DEF Known
        <4> HIDE DEF Good
        <4>5. QED BY <2>4, <3>1, <4>3, <4>4
      <3>3. CASE io[p].mode \notin frozen
        <4> DEFINE r == [io[p] EXCEPT !.pc = "locked"]
        <4>1. /\ r \in Dispatching /\ r.id = io[p].id /\ r.age = io[p].age
              /\ r.to = io[p].to /\ r.want = io[p].want /\ r.pc = "locked"
          BY <3>1 DEF Dispatching
        <4>2. io' = [io EXCEPT ![p] = r]
          BY <1>0, <2>5, <3>3 DEF FindFrozen, RouterTypeOK
        <4> HIDE DEF r
        <4>3. QED BY <1>3, <3>1, <4>1, <4>2
      <3>4. QED BY <3>2, <3>3
    <2>6. ASSUME FindInMap(p)
          PROVE  \E r \in Dispatching \cup Ended : io' = [io EXCEPT ![p] = r] /\ Good(r)
      <3>1. io[p].mode \in Modes /\ io[p].pc = "locked"
        BY <1>0, <2>6, IoRecord DEF FindInMap, Dispatching
      <3> DEFINE h == IF Taken(io[p].mode) THEN "any" ELSE Known(io[p].mode)
      <3>2. \/ /\ io[p].mode \in handlers
               /\ io' = [io EXCEPT ![p].pc = "deliver", ![p].had = h]
            \/ /\ io[p].mode \notin handlers
               /\ io' = [io EXCEPT ![p] = [pc |-> "dropped", had |-> h]]
        BY <2>6 DEF FindInMap, Found
      <3>3. ~Taken(io[p].mode) => (io[p].mode \in handlers <=> io[p].mode \in known)
        BY <1>0, <3>1 DEF MapsExact
      <3>4. /\ h \in {"yes", "no", "any"}
            /\ io[p].mode \in handlers => h # "no"
            /\ io[p].mode \notin handlers => h # "yes"
        BY <3>3 DEF Known
      <3> HIDE DEF h, Good
      <3>5. QED BY <2>4, <3>1, <3>2, <3>4
    <2>7. ASSUME DispatchTo(p)
          PROVE  \E r \in Dispatching \cup Ended : io' = [io EXCEPT ![p] = r] /\ Good(r)
      <3>1. io[p] \in Dispatching /\ io[p].pc = "deliver"
        BY <1>0, <2>7, IoRecord DEF DispatchTo
      <3>2. io[p].had \in {"yes", "no", "any"} /\ io[p].had # "no"
        BY <1>3, <3>1 DEF Dispatching
      <3> DEFINE q == IF io[p].to = NoRoute THEN "inline" ELSE "posted"
                 r == [pc |-> q, had |-> io[p].had]
      <3>3. r \in Ended /\ r.pc \in {"inline", "posted"} /\ r.had # "no"
        BY <3>2 DEF Ended
      <3>4. io' = [io EXCEPT ![p] = r]
        BY <2>7 DEF DispatchTo
      <3> HIDE DEF q, r
      <3>5. QED BY <3>3, <3>4
    <2> HIDE DEF Good
    <2>8. \E r \in Dispatching \cup Ended : io' = [io EXCEPT ![p] = r] /\ Good(r)
      BY <2>1, <2>2, <2>3, <2>5, <2>6, <2>7 DEF IoStep
    <2>9. QED BY <1>2, <1>4, <2>8 DEF IInv
  <1>5. RouterTypeOK'
    BY <1>0, <1>1, <1>4 DEF RouterTypeOK
  <1>6. RouteExact' /\ HandlerFound'
    BY <1>0, <1>1, <1>4 DEF RouteExact, HandlerFound, RouterTypeOK, GetWorker
  <1>7. QED BY <1>5, <1>6

\* Steps of start-up, of Freeze and of threads that register handlers.
LEMMA MapsPreserve ==
    ASSUME IInv, RegisterWorker \/ Freeze \/ MapStep \/ UNCHANGED vars
    PROVE  IInv'
  <1>0. /\ RouterTypeOK /\ Exact(pending, bound) /\ Exact(current, frozen_bound) /\ RouteExact
        /\ MapsExact /\ HandlerFound
    BY DEF IInv
  <1>1. UNCHANGED <<pending, current, binds, bound, frozen_bound, policy, io>>
    BY DEF RegisterWorker, Freeze, TakeMap, StoreMap, FreezeRouter, MapStep, Listen, UnListen, vars,
           tableVars, startVars, mapVars
  <1>2. /\ service' \in Workers /\ frozen_service' \in Workers /\ main' \in Phases
        /\ handlers' \subseteq Modes /\ snapshot' \subseteq Modes
        /\ frozen' \subseteq Modes /\ known' \subseteq Modes
    <2>1. CASE RegisterWorker
      BY <1>0, <2>1, RouterAssumption DEF RegisterWorker, mapVars, RouterTypeOK, Workers
    <2>2. CASE Freeze
      <3>1. CASE TakeMap("Msg", "init", "listen") \/ TakeMap("Request", "listen", "rpc")
        BY <1>0, <3>1 DEF TakeMap, RouterTypeOK, Phases, Modes
      <3>2. CASE StoreMap("Msg", "rpc", "storing") \/ StoreMap("Request", "storing", "stored")
        BY <1>0, <3>2 DEF StoreMap, RouterTypeOK, Phases, Modes
      <3>3. CASE FreezeRouter
        BY <1>0, <3>3 DEF FreezeRouter, RouterTypeOK, Phases, mapVars
      <3>4. QED BY <2>2, <3>1, <3>2, <3>3 DEF Freeze
    <2>3. CASE MapStep
      BY <1>0, <2>3 DEF MapStep, Listen, UnListen, RouterTypeOK, Modes
    <2>4. CASE UNCHANGED vars
      BY <1>0, <2>4 DEF vars, startVars, mapVars, RouterTypeOK
    <2>5. QED BY <2>1, <2>2, <2>3, <2>4
  <1>3. RouterTypeOK'
    BY <1>0, <1>1, <1>2 DEF RouterTypeOK
  <1>4. MapsExact'
    <2>1. CASE RegisterWorker \/ UNCHANGED vars
      BY <1>0, <2>1 DEF RegisterWorker, MapsExact, Taken, vars, startVars, mapVars
    <2>2. CASE Freeze
      BY <1>0, <2>2 DEF Freeze, TakeMap, StoreMap, FreezeRouter, MapsExact, Taken, Modes, mapVars
    <2>3. CASE MapStep
      BY <1>0, <2>3 DEF MapStep, Listen, UnListen, MapsExact, Taken, Modes
    <2>4. QED BY <2>1, <2>2, <2>3
  <1>5. QED BY <1>0, <1>1, <1>3, <1>4
            DEF IInv, Exact, NonEmpty, Disjoint, Covers, RouteExact, GetWorker, HandlerFound

LEMMA NextIInv == IInv /\ [Next]_vars => IInv'
  BY MapsPreserve, TablePreserves, IoPreserves DEF Next

\* The invariant holds in every reachable state.
THEOREM Invariance == Spec => []IInv
  BY InitIInv, NextIInv, PTL DEF Spec

\* The variables keep their types: no index computed by PickWorker and no end
\* computed by Bind leaves its range, for every width of the ids.
THEOREM TypeCorrect == Spec => []RouterTypeOK
  <1>1. IInv => RouterTypeOK
    BY DEF IInv
  <1>2. QED BY Invariance, <1>1, PTL

\* After any number of calls of Bind, BindSingle and Unbind the entries of
\* pending_ are disjoint and mean exactly what the calls say.
THEOREM TableExact == Spec => []BindingsExact
  <1>1. IInv => BindingsExact
    BY DEF IInv, Exact, BindingsExact
  <1>2. QED BY Invariance, <1>1, PTL

\* A message is routed by the bindings that were published when it was looked
\* up, with any number of IO threads and frames.
THEOREM RoutesExact == Spec => []RouteExact
  <1>1. IInv => RouteExact
    BY DEF IInv
  <1>2. QED BY Invariance, <1>1, PTL

\* A handler registered before Freeze is found, with any number of IO threads,
\* but for a search that Freeze overtakes.
THEOREM HandlersFound == Spec => []HandlerFound
  <1>1. IInv => HandlerFound
    BY DEF IInv
  <1>2. QED BY Invariance, <1>1, PTL
============================================================================
