---------------------------- MODULE DbPoolProofs ----------------------------
(***************************************************************************)
(* For any number of clients and connections, any sizes of the pool and    *)
(* any width of the counters: DbConnectionPool keeps every connection in   *)
(* one place, counts them exactly and stays within its limit; and a        *)
(* PgConnection gives every operation the result of its own command, in    *)
(* the order of the posts.                                                 *)
(***************************************************************************)
EXTENDS DbPool, PgConnection, FiniteSetTheorems, SequenceTheorems, TLAPS

Pool == idle \cup Held

\* A client waits at most once, and only without a connection.
WaitInv ==
    /\ \A i, j \in 1 .. Len(waiters) : waiters[i] = waiters[j] => i = j
    /\ \A i \in 1 .. Len(waiters) : holds[waiters[i]] = NoConn

\* Start is the first handler that runs.
NewInv == stage = "new" => idle = {} /\ waiters = <<>> /\ \A c \in Clients : holds[c] = NoConn

IInv == DbTypeOK /\ PoolExact /\ WaitInv /\ NewInv

----------------------------------------------------------------------------
(* Counters and cardinalities.                                             *)

\* The counters wrap only where the number they stand for leaves the range.
LEMMA PlusMinus ==
    ASSUME NEW n \in 0 .. SizeMod - 1, NEW k \in Nat
    PROVE  /\ Plus(n, k) \in 0 .. SizeMod - 1 /\ Minus(n, k) \in 0 .. SizeMod - 1
           /\ n + k < SizeMod => Plus(n, k) = n + k
           /\ k <= n => Minus(n, k) = n - k
  BY DbAssumption DEF Plus, Minus

LEMMA RemovePart ==
    ASSUME NEW S, IsFiniteSet(S), NEW T, T \subseteq S
    PROVE  /\ IsFiniteSet(S \ T) /\ IsFiniteSet(T)
           /\ Cardinality(T) \in Nat /\ Cardinality(S) \in Nat /\ Cardinality(T) <= Cardinality(S)
           /\ Cardinality(S \ T) = Cardinality(S) - Cardinality(T)
  <1>1. IsFiniteSet(T) /\ IsFiniteSet(S \ T) /\ Cardinality(T) <= Cardinality(S)
    BY FS_Subset
  <1>2. /\ Cardinality(T) \in Nat /\ Cardinality(S) \in Nat /\ Cardinality(S \ T) \in Nat
    BY <1>1, FS_CardinalityType
  <1>3. (S \ T) \cup T = S /\ (S \ T) \cap T = {}
    OBVIOUS
  <1>4. Cardinality(S) = Cardinality(S \ T) + Cardinality(T) - 0
    BY <1>1, <1>3, FS_Union, FS_EmptySet
  <1>5. QED BY <1>1, <1>2, <1>4

LEMMA AddPart ==
    ASSUME NEW S, IsFiniteSet(S), NEW T, IsFiniteSet(T), S \cap T = {}
    PROVE  /\ IsFiniteSet(S \cup T)
           /\ Cardinality(S) \in Nat /\ Cardinality(T) \in Nat
           /\ Cardinality(S \cup T) = Cardinality(S) + Cardinality(T)
  <1>1. Cardinality(S) \in Nat /\ Cardinality(T) \in Nat
    BY FS_CardinalityType
  <1>2. QED BY <1>1, FS_Union, FS_EmptySet

\* What the invariant says of the sets.
LEMMA Sets ==
    ASSUME IInv
    PROVE  /\ idle \subseteq Conns /\ Held \subseteq Conns /\ Pool \subseteq Conns
           /\ IsFiniteSet(idle) /\ IsFiniteSet(Pool) /\ IsFiniteSet(Conns)
           /\ idle \cap Held = {} /\ NoConn \notin Conns
           /\ idle_count = Cardinality(idle) /\ total_connections = Cardinality(Pool)
           /\ Cardinality(idle) \in Nat /\ Cardinality(Pool) \in Nat
           /\ Cardinality(idle) <= Cardinality(Pool)
           /\ idle_count \in 0 .. SizeMod - 1 /\ total_connections \in 0 .. SizeMod - 1
           /\ SizeMod \in Nat /\ MinSize \in 1 .. SizeMod - 1 /\ MaxSize \in 1 .. SizeMod - 1
           /\ total_connections <= MaxSize \/ total_connections <= MinSize
  <1>1. idle \subseteq Conns /\ Held \subseteq Conns /\ Pool \subseteq Conns
    BY DEF IInv, DbTypeOK, Held, Pool
  <1>2. IsFiniteSet(idle) /\ IsFiniteSet(Pool) /\ IsFiniteSet(Conns)
    BY <1>1, DbAssumption, FS_Subset
  <1>3. /\ Cardinality(idle) \in Nat /\ Cardinality(Pool) \in Nat
        /\ Cardinality(idle) <= Cardinality(Pool)
    BY <1>2, FS_CardinalityType, FS_Subset DEF Pool
  <1>4. QED BY <1>1, <1>2, <1>3, DbAssumption DEF IInv, PoolExact, DbTypeOK, Pool

\* A client without a connection gets x.
LEMMA GiveHeld ==
    ASSUME IInv, NEW c \in Clients, holds[c] = NoConn, NEW x \in Conns, x \notin Held,
           holds' = [holds EXCEPT ![c] = x]
    PROVE  /\ holds' \in [Clients -> Conns \cup {NoConn}]
           /\ Held' = Held \cup {x}
           /\ \A a, b \in Clients : a # b /\ holds'[a] # NoConn => holds'[a] # holds'[b]
  <1>0. holds \in [Clients -> Conns \cup {NoConn}] /\ x # NoConn /\ NoConn \notin Conns
    BY DbAssumption DEF IInv, DbTypeOK
  <1>1. \A a \in Clients : holds'[a] = IF a = c THEN x ELSE holds[a]
    BY <1>0
  <1>2. \A a \in Clients : a # c => holds[a] # x
    BY <1>0 DEF Held
  <1>3. Held' = Held \cup {x}
    BY <1>0, <1>1 DEF Held
  <1>4. QED BY <1>0, <1>1, <1>2, <1>3 DEF IInv, PoolExact

\* A client gives its connection back.
LEMMA TakeHeld ==
    ASSUME IInv, NEW c \in Clients, holds[c] # NoConn,
           holds' = [holds EXCEPT ![c] = NoConn]
    PROVE  /\ holds' \in [Clients -> Conns \cup {NoConn}]
           /\ holds[c] \in Held
           /\ Held' = Held \ {holds[c]}
           /\ \A a, b \in Clients : a # b /\ holds'[a] # NoConn => holds'[a] # holds'[b]
  <1>0. holds \in [Clients -> Conns \cup {NoConn}]
    BY DEF IInv, DbTypeOK
  <1>1. \A a \in Clients : holds'[a] = IF a = c THEN NoConn ELSE holds[a]
    BY <1>0
  <1>2. \A a \in Clients : a # c => holds[a] # holds[c]
    BY DEF IInv, PoolExact
  <1>3. Held' = Held \ {holds[c]}
    BY <1>0, <1>1, <1>2 DEF Held
  <1>4. QED BY <1>0, <1>1, <1>3 DEF IInv, PoolExact, Held

\* A client hands its connection to another, which has none.
LEMMA PassHeld ==
    ASSUME IInv, NEW c \in Clients, holds[c] # NoConn, NEW d \in Clients, holds[d] = NoConn,
           holds' = [holds EXCEPT ![c] = NoConn, ![d] = holds[c]]
    PROVE  /\ holds' \in [Clients -> Conns \cup {NoConn}]
           /\ Held' = Held
           /\ \A a, b \in Clients : a # b /\ holds'[a] # NoConn => holds'[a] # holds'[b]
  <1>0. holds \in [Clients -> Conns \cup {NoConn}] /\ c # d
    BY DEF IInv, DbTypeOK
  <1>1. \A a \in Clients : holds'[a] = IF a = c THEN NoConn
                                       ELSE IF a = d THEN holds[c] ELSE holds[a]
    BY <1>0
  <1>2. \A a \in Clients : a # c => holds[a] # holds[c]
    BY DEF IInv, PoolExact
  <1>3. Held' = Held
    <2>1. \A x : x \in Held' <=> x \in Held
      BY <1>0, <1>1, <1>2 DEF Held
    <2>2. QED BY <2>1
  <1>4. QED BY <1>0, <1>1, <1>2, <1>3 DEF IInv, PoolExact

----------------------------------------------------------------------------
(* The handlers.                                                           *)

LEMMA InitIInv == Init => IInv
  <1> SUFFICES ASSUME Init PROVE IInv
    OBVIOUS
  <1>1. Held = {} /\ Cardinality({}) = 0
    BY FS_EmptySet DEF Init, Held
  <1>2. DbTypeOK
    <2>1. 0 \in 0 .. SizeMod - 1 /\ <<>> \in Seq(Clients)
      BY DbAssumption, EmptySeq
    <2>2. QED BY <2>1 DEF Init, DbTypeOK
  <1>3. PoolExact
    BY <1>1, DbAssumption DEF Init, PoolExact
  <1>4. WaitInv /\ NewInv
    BY DEF Init, WaitInv, NewInv
  <1>5. QED BY <1>2, <1>3, <1>4 DEF IInv

LEMMA StartPreserves ==
    ASSUME IInv, Start
    PROVE  IInv'
  <1>1. PICK N \in SUBSET Fresh :
          /\ Cardinality(N) <= MinSize /\ Cardinality(N) <= MaxSize
          /\ idle' = N
          /\ alive' = alive \cup N
          /\ total_connections' = Plus(total_connections, Cardinality(N))
          /\ idle_count' = Plus(idle_count, Cardinality(N))
          /\ faulty' = (Cardinality(N) < MinSize /\ Cardinality(N) < MaxSize)
    BY DEF Start
  <1>2. idle = {} /\ Held = {} /\ Held' = {} /\ Pool = {} /\ N \subseteq Conns
    BY DEF Start, IInv, NewInv, Held, Fresh, Pool
  <1>3. /\ IsFiniteSet(N) /\ Cardinality(N) \in Nat
        /\ total_connections = 0 /\ idle_count = 0
    BY <1>2, Sets, FS_Subset, FS_CardinalityType, FS_EmptySet
  <1>4. Plus(0, Cardinality(N)) = Cardinality(N) /\ Cardinality(N) \in 0 .. SizeMod - 1
    BY <1>1, <1>3, PlusMinus, DbAssumption
  <1>5. idle_count' = Cardinality(N) /\ total_connections' = Cardinality(N)
    BY <1>1, <1>3, <1>4
  <1>6. PoolExact'
    BY <1>1, <1>2, <1>5 DEF Start, IInv, PoolExact
  <1>7. DbTypeOK'
    BY <1>1, <1>2, <1>4, <1>5 DEF Start, IInv, DbTypeOK
  <1>8. QED BY <1>6, <1>7 DEF Start, IInv, WaitInv, NewInv

LEMMA StopPreserves ==
    ASSUME IInv, Stop
    PROVE  IInv'
  <1>1. Held' = Held /\ Pool \ idle = Held /\ idle' = {}
    BY Sets DEF Stop, Held, Pool
  <1>2. Cardinality(Held) = Cardinality(Pool) - Cardinality(idle)
    BY <1>1, Sets, RemovePart DEF Pool
  <1>3. /\ total_connections' = Cardinality(Pool) - Cardinality(idle)
        /\ idle_count' = 0
        /\ total_connections' \in 0 .. SizeMod - 1 /\ idle_count' \in 0 .. SizeMod - 1
    <2>1. /\ Minus(total_connections, Cardinality(idle)) = total_connections - Cardinality(idle)
          /\ Minus(total_connections, Cardinality(idle)) \in 0 .. SizeMod - 1
      BY Sets, PlusMinus
    <2>2. /\ Minus(idle_count, Cardinality(idle)) = idle_count - Cardinality(idle)
          /\ Minus(idle_count, Cardinality(idle)) \in 0 .. SizeMod - 1
      BY Sets, PlusMinus
    <2>3. QED BY <2>1, <2>2, Sets DEF Stop
  <1>4. PoolExact'
    BY <1>1, <1>2, <1>3, Sets, FS_EmptySet DEF Stop, IInv, PoolExact
  <1>5. DbTypeOK'
    BY <1>3 DEF Stop, IInv, DbTypeOK
  <1>6. QED BY <1>4, <1>5 DEF Stop, IInv, WaitInv, NewInv

LEMMA AcquireIdlePreserves ==
    ASSUME IInv, NEW c \in Clients, AcquireIdle(c)
    PROVE  IInv'
  <1>1. PICK x \in idle \cap alive : idle' = idle \ {x} /\ holds' = [holds EXCEPT ![c] = x]
    BY DEF AcquireIdle
  <1>2. /\ holds[c] = NoConn /\ stage # "new" /\ x \in Conns /\ x \notin Held
        /\ \A i \in 1 .. Len(waiters) : waiters[i] # c
    BY <1>1, Sets, LenProperties DEF AcquireIdle, Asks, Waiting, IInv, DbTypeOK
  <1>3. /\ holds' \in [Clients -> Conns \cup {NoConn}]
        /\ Held' = Held \cup {x}
        /\ \A a, b \in Clients : a # b /\ holds'[a] # NoConn => holds'[a] # holds'[b]
    BY <1>1, <1>2, GiveHeld
  <1>4. idle' \cup Held' = Pool /\ idle' \cap Held' = {}
    BY <1>1, <1>3, Sets DEF Pool
  <1>5. Cardinality(idle') = Cardinality(idle) - 1 /\ Cardinality(idle) >= 1
    <2>1. IsFiniteSet(idle \ {x}) /\ Cardinality(idle \ {x}) = Cardinality(idle) - 1
      BY <1>1, Sets, FS_RemoveElement
    <2>2. Cardinality(idle \ {x}) \in Nat /\ Cardinality(idle) \in Nat
      BY <2>1, Sets, FS_CardinalityType
    <2>3. QED BY <1>1, <2>1, <2>2
  <1>6. idle_count' = Cardinality(idle') /\ idle_count' \in 0 .. SizeMod - 1
    BY <1>5, Sets, PlusMinus DEF AcquireIdle
  <1>7. PoolExact'
    BY <1>3, <1>4, <1>6, Sets DEF AcquireIdle, PoolExact
  <1>8. active_count' \in 0 .. SizeMod - 1
    BY PlusMinus DEF AcquireIdle, IInv, DbTypeOK
  <1>9. DbTypeOK'
    BY <1>1, <1>3, <1>6, <1>8 DEF AcquireIdle, IInv, DbTypeOK
  <1>10. WaitInv'
    BY <1>1, <1>2, ElementOfSeq DEF AcquireIdle, IInv, WaitInv, DbTypeOK
  <1>11. QED BY <1>2, <1>7, <1>9, <1>10 DEF AcquireIdle, IInv, NewInv

\* Step 1 of DoAcquire discards at most one broken connection; then a new one is
\* opened within the limit, or the client waits.
LEMMA AcquireNewPreserves ==
    ASSUME IInv, NEW c \in Clients, AcquireNew(c)
    PROVE  IInv'
  <1> DEFINE Left(D) == Minus(total_connections, Cardinality(D))
             Opens(D) == /\ HasRoom(Left(D))
                         /\ \E x \in Fresh :
                               /\ holds' = [holds EXCEPT ![c] = x]
                               /\ alive' = alive \cup {x}
                               /\ total_connections' = Plus(Left(D), 1)
                         /\ active_count' = Plus(active_count, 1)
                         /\ UNCHANGED <<waiters, faulty>>
             Waits(D) == /\ waiters' = Append(waiters, c)
                         /\ total_connections' = Left(D)
                         /\ faulty' = (faulty \/ HasRoom(Left(D)))
                         /\ UNCHANGED <<holds, alive, active_count>>
  <1>1. PICK D \in SUBSET (idle \ alive) :
          /\ idle' = idle \ D
          /\ idle_count' = Minus(idle_count, Cardinality(D))
          /\ Opens(D) \/ Waits(D)
    BY DEF AcquireNew
  <1>2. /\ holds[c] = NoConn /\ stage' = stage /\ stage # "new"
        /\ \A i \in 1 .. Len(waiters) : waiters[i] # c
    BY LenProperties DEF AcquireNew, Asks, Waiting, IInv, DbTypeOK
  <1>3. /\ IsFiniteSet(idle \ D) /\ Cardinality(D) \in Nat /\ Cardinality(D) <= Cardinality(idle)
        /\ Cardinality(idle \ D) = Cardinality(idle) - Cardinality(D)
    BY Sets, RemovePart
  <1>4. /\ IsFiniteSet(Pool \ D) /\ Cardinality(Pool \ D) = Cardinality(Pool) - Cardinality(D)
    BY Sets, RemovePart DEF Pool
  <1>5. /\ Left(D) = Cardinality(Pool \ D) /\ Left(D) \in 0 .. SizeMod - 1
        /\ Left(D) <= total_connections
    <2>1. Cardinality(D) <= total_connections
      BY <1>3, Sets
    <2>2. Left(D) = total_connections - Cardinality(D) /\ Left(D) \in 0 .. SizeMod - 1
      BY <1>3, <2>1, Sets, PlusMinus
    <2>3. QED BY <1>3, <1>4, <2>2, Sets
  <1>6. idle_count' = Cardinality(idle') /\ idle_count' \in 0 .. SizeMod - 1 /\ idle' \subseteq Conns
    <2>1. Minus(idle_count, Cardinality(D)) = idle_count - Cardinality(D)
          /\ Minus(idle_count, Cardinality(D)) \in 0 .. SizeMod - 1
      BY <1>3, Sets, PlusMinus
    <2>2. QED BY <1>1, <1>3, <2>1, Sets
  <1>7. (idle \ D) \cup Held = Pool \ D
    BY Sets DEF Pool
  <1> HIDE DEF Left
  <1>8. CASE Opens(D)
    <2>1. PICK x \in Fresh : /\ holds' = [holds EXCEPT ![c] = x]
                             /\ alive' = alive \cup {x}
                             /\ total_connections' = Plus(Left(D), 1)
      BY <1>8
    <2>2. x \in Conns /\ x \notin Held /\ x \notin idle
      BY DEF Fresh
    <2>3. /\ holds' \in [Clients -> Conns \cup {NoConn}]
          /\ Held' = Held \cup {x}
          /\ \A a, b \in Clients : a # b /\ holds'[a] # NoConn => holds'[a] # holds'[b]
      BY <1>2, <2>1, <2>2, GiveHeld
    <2>4. idle' \cup Held' = (Pool \ D) \cup {x} /\ idle' \cap Held' = {} /\ x \notin Pool \ D
      BY <1>1, <1>7, <2>2, <2>3, Sets DEF Pool
    <2>5. Cardinality(idle' \cup Held') = Left(D) + 1
      <3>1. Cardinality((Pool \ D) \cup {x}) = Cardinality(Pool \ D) + 1
        BY <1>4, <2>4, FS_AddElement
      <3>2. QED BY <1>5, <2>4, <3>1
    <2>6. Left(D) < MaxSize
      BY <1>8 DEF HasRoom
    <2>7. /\ total_connections' = Left(D) + 1 /\ total_connections' \in 0 .. SizeMod - 1
          /\ total_connections' <= MaxSize
      <3>1. Left(D) + 1 < SizeMod
        BY <1>5, <2>6, DbAssumption
      <3>2. Plus(Left(D), 1) = Left(D) + 1 /\ Plus(Left(D), 1) \in 0 .. SizeMod - 1
        BY <1>5, <3>1, PlusMinus
      <3>3. QED BY <1>5, <2>1, <2>6, <3>2, DbAssumption
    <2>8. PoolExact'
      BY <1>6, <2>3, <2>4, <2>5, <2>7 DEF PoolExact
    <2>9. active_count' \in 0 .. SizeMod - 1
      BY <1>8, PlusMinus DEF IInv, DbTypeOK
    <2>10. DbTypeOK'
      BY <1>2, <1>6, <1>8, <2>1, <2>2, <2>3, <2>7, <2>9 DEF IInv, DbTypeOK
    <2>11. WaitInv'
      BY <1>2, <1>8, <2>1, ElementOfSeq DEF IInv, WaitInv, DbTypeOK
    <2>12. QED BY <1>2, <2>8, <2>10, <2>11 DEF IInv, NewInv
  <1>9. CASE Waits(D)
    <2>1. Held' = Held /\ holds' = holds
      BY <1>9 DEF Held
    <2>2. PoolExact'
      <3>1. idle' \cup Held' = Pool \ D /\ idle' \cap Held' = {}
        BY <1>1, <1>7, <2>1, Sets
      <3>2. total_connections' = Cardinality(idle' \cup Held')
        BY <1>5, <1>9, <3>1
      <3>3. total_connections' <= MaxSize \/ total_connections' <= MinSize
        BY <1>5, <1>9, Sets
      <3>4. QED BY <1>6, <2>1, <3>1, <3>2, <3>3 DEF IInv, PoolExact
    <2>3. /\ waiters' \in Seq(Clients) /\ Len(waiters') = Len(waiters) + 1
          /\ \A i \in 1 .. Len(waiters) : waiters'[i] = waiters[i]
          /\ waiters'[Len(waiters) + 1] = c /\ Len(waiters) \in Nat
      BY <1>9, AppendProperties, LenProperties DEF IInv, DbTypeOK
    <2>4. DbTypeOK'
      BY <1>2, <1>5, <1>6, <1>9, <2>3 DEF IInv, DbTypeOK
    <2>5. WaitInv'
      BY <1>2, <2>1, <2>3 DEF IInv, WaitInv
    <2>6. QED BY <1>2, <2>2, <2>4, <2>5 DEF IInv, NewInv
  <1>10. QED BY <1>1, <1>8, <1>9

\* DoRelease of a good connection: to the first waiter, or to idle_.
LEMMA ReleaseGoodPreserves ==
    ASSUME IInv, NEW c \in Clients, ReleaseGood(c)
    PROVE  IInv'
  <1>0. /\ holds[c] # NoConn /\ holds[c] \in Held /\ holds[c] \in Conns
        /\ stage' = stage /\ alive' = alive /\ faulty' = faulty
        /\ total_connections' = total_connections
        /\ active_count' \in 0 .. SizeMod - 1 /\ stage # "new"
    <2>1. holds[c] # NoConn
      BY DbAssumption DEF ReleaseGood, IInv, DbTypeOK
    <2>2. active_count' \in 0 .. SizeMod - 1
      BY PlusMinus DEF ReleaseGood, IInv, DbTypeOK
    <2>3. QED BY <2>1, <2>2 DEF ReleaseGood, IInv, DbTypeOK, Held, NewInv
  <1>1. CASE waiters # <<>>
    <2> DEFINE d == Head(waiters)
    <2>1. /\ holds' = [holds EXCEPT ![c] = NoConn, ![d] = holds[c]]
          /\ waiters' = Tail(waiters) /\ idle' = idle /\ idle_count' = idle_count
      BY <1>1 DEF ReleaseGood
    <2>2. /\ d \in Clients /\ d = waiters[1] /\ waiters' \in Seq(Clients)
          /\ Len(waiters') = Len(waiters) - 1 /\ Len(waiters) \in Nat /\ Len(waiters) >= 1
          /\ \A i \in 1 .. Len(waiters') : waiters'[i] = waiters[i + 1]
      BY <1>1, <2>1, HeadTailProperties, EmptySeq, LenProperties DEF IInv, DbTypeOK
    <2>3. holds[d] = NoConn
      BY <2>2 DEF IInv, WaitInv
    <2> HIDE DEF d
    <2>4. /\ holds' \in [Clients -> Conns \cup {NoConn}]
          /\ Held' = Held
          /\ \A a, b \in Clients : a # b /\ holds'[a] # NoConn => holds'[a] # holds'[b]
      BY <1>0, <2>1, <2>2, <2>3, PassHeld
    <2>5. PoolExact'
      BY <1>0, <2>1, <2>4 DEF IInv, PoolExact
    <2>6. DbTypeOK'
      BY <1>0, <2>1, <2>2, <2>4 DEF IInv, DbTypeOK
    <2>7. WaitInv'
      <3>1. \A i \in 1 .. Len(waiters') : /\ waiters'[i] \in Clients
                                          /\ waiters'[i] # d /\ holds[waiters'[i]] = NoConn
        BY <2>2, ElementOfSeq DEF IInv, WaitInv
      <3>2. \A a \in Clients : a # d /\ holds[a] = NoConn => holds'[a] = NoConn
        BY <2>1 DEF IInv, DbTypeOK
      <3>3. QED BY <2>2, <3>1, <3>2, SMTT(60) DEF IInv, WaitInv
    <2>8. QED BY <1>0, <2>5, <2>6, <2>7 DEF IInv, NewInv
  <1>2. CASE waiters = <<>>
    <2>1. /\ holds' = [holds EXCEPT ![c] = NoConn] /\ idle' = idle \cup {holds[c]}
          /\ idle_count' = Plus(idle_count, 1) /\ waiters' = waiters
      BY <1>2 DEF ReleaseGood
    <2>2. /\ holds' \in [Clients -> Conns \cup {NoConn}]
          /\ Held' = Held \ {holds[c]}
          /\ \A a, b \in Clients : a # b /\ holds'[a] # NoConn => holds'[a] # holds'[b]
      BY <1>0, <2>1, TakeHeld
    <2>3. idle' \cup Held' = Pool /\ idle' \cap Held' = {} /\ holds[c] \notin idle
      BY <1>0, <2>1, <2>2, Sets DEF Pool
    <2>4. Cardinality(idle') = Cardinality(idle) + 1
      BY <2>1, <2>3, Sets, FS_AddElement
    <2>5. Cardinality(idle') <= Cardinality(Pool)
      <3>1. idle' \subseteq Pool
        BY <2>3
      <3>2. QED BY <3>1, Sets, FS_Subset
    <2>6. idle_count' = Cardinality(idle') /\ idle_count' \in 0 .. SizeMod - 1
      <3>1. idle_count + 1 < SizeMod
        BY <2>4, <2>5, Sets
      <3>2. Plus(idle_count, 1) = idle_count + 1 /\ Plus(idle_count, 1) \in 0 .. SizeMod - 1
        BY <3>1, Sets, PlusMinus
      <3>3. QED BY <2>1, <2>4, <3>2, Sets
    <2>7. PoolExact'
      BY <1>0, <2>2, <2>3, <2>6, Sets DEF PoolExact
    <2>8. DbTypeOK'
      BY <1>0, <2>1, <2>2, <2>6 DEF IInv, DbTypeOK
    <2>9. WaitInv'
      BY <1>2, <2>1, EmptySeq DEF WaitInv
    <2>10. QED BY <1>0, <2>7, <2>8, <2>9 DEF IInv, NewInv
  <1>3. QED BY <1>1, <1>2

\* DoRelease of a broken connection.
LEMMA ReleaseBrokenPreserves ==
    ASSUME IInv, NEW c \in Clients, ReleaseBroken(c)
    PROVE  IInv'
  <1>1. /\ holds' \in [Clients -> Conns \cup {NoConn}]
        /\ holds[c] \in Held /\ Held' = Held \ {holds[c]}
        /\ \A a, b \in Clients : a # b /\ holds'[a] # NoConn => holds'[a] # holds'[b]
    BY TakeHeld DEF ReleaseBroken
  <1>2. idle' \cup Held' = Pool \ {holds[c]} /\ idle' \cap Held' = {} /\ holds[c] \in Pool
    BY <1>1, Sets DEF ReleaseBroken, Pool
  <1>3. /\ Cardinality(Pool \ {holds[c]}) = Cardinality(Pool) - 1
        /\ Cardinality(Pool) >= 1
    <2>1. IsFiniteSet(Pool \ {holds[c]}) /\ Cardinality(Pool \ {holds[c]}) = Cardinality(Pool) - 1
      BY <1>2, Sets, FS_RemoveElement
    <2>2. Cardinality(Pool \ {holds[c]}) \in Nat
      BY <2>1, FS_CardinalityType
    <2>3. QED BY <2>1, <2>2, Sets
  <1>4. /\ total_connections' = total_connections - 1
        /\ total_connections' \in 0 .. SizeMod - 1
    <2>1. /\ Minus(total_connections, 1) = total_connections - 1
          /\ Minus(total_connections, 1) \in 0 .. SizeMod - 1
      BY <1>3, Sets, PlusMinus
    <2>2. QED BY <2>1 DEF ReleaseBroken
  <1>5. active_count' \in 0 .. SizeMod - 1
    BY PlusMinus DEF ReleaseBroken, IInv, DbTypeOK
  <1>6. PoolExact'
    BY <1>1, <1>2, <1>3, <1>4, Sets DEF ReleaseBroken, IInv, PoolExact
  <1>7. DbTypeOK'
    BY <1>1, <1>4, <1>5 DEF ReleaseBroken, IInv, DbTypeOK
  <1>8. WaitInv'
    <2>1. \A a \in Clients : holds[a] = NoConn => holds'[a] = NoConn
      BY DEF ReleaseBroken, IInv, DbTypeOK
    <2>2. QED BY <2>1, ElementOfSeq DEF ReleaseBroken, IInv, WaitInv, DbTypeOK
  <1>9. NewInv'
    BY DEF ReleaseBroken, IInv, NewInv
  <1>10. QED BY <1>6, <1>7, <1>8, <1>9 DEF IInv

\* OnHeartbeat replaces the broken idle connections up to min_pool_size.
LEMMA OnHeartbeatPreserves ==
    ASSUME IInv, OnHeartbeat
    PROVE  IInv'
  <1> DEFINE B == idle \ alive
             left == Minus(total_connections, Cardinality(B))
  <1>1. PICK N \in SUBSET Fresh :
          /\ N # {} => left + Cardinality(N) <= MinSize
          /\ idle' = (idle \cap alive) \cup N
          /\ alive' = alive \cup N
          /\ idle_count' = Plus(Minus(idle_count, Cardinality(B)), Cardinality(N))
          /\ total_connections' = Plus(left, Cardinality(N))
          /\ faulty' = (faulty \/ left + Cardinality(N) < MinSize)
    BY DEF OnHeartbeat
  <1>2. /\ N \subseteq Conns /\ N \cap idle = {} /\ N \cap Held = {}
        /\ IsFiniteSet(N) /\ Cardinality(N) \in Nat /\ N \cap Pool = {}
    BY Sets, FS_Subset, FS_CardinalityType DEF Fresh, Pool
  <1>3. /\ IsFiniteSet(idle \ B) /\ Cardinality(B) \in Nat /\ Cardinality(B) <= Cardinality(idle)
        /\ Cardinality(idle \ B) = Cardinality(idle) - Cardinality(B)
    BY Sets, RemovePart
  <1>4. IsFiniteSet(Pool \ B) /\ Cardinality(Pool \ B) = Cardinality(Pool) - Cardinality(B)
    BY Sets, RemovePart DEF Pool
  <1>5. Held' = Held /\ holds' = holds
    BY DEF OnHeartbeat, Held
  <1>6. /\ idle' = (idle \ B) \cup N /\ idle' \cup Held' = (Pool \ B) \cup N
        /\ idle' \cap Held' = {} /\ (idle \ B) \cap N = {} /\ (Pool \ B) \cap N = {}
        /\ idle' \subseteq Conns
    BY <1>1, <1>2, <1>5, Sets DEF Pool
  <1>7. /\ left = Cardinality(Pool \ B) /\ left \in 0 .. SizeMod - 1 /\ left <= total_connections
    <2>1. Cardinality(B) <= total_connections
      BY <1>3, Sets
    <2>2. left = total_connections - Cardinality(B) /\ left \in 0 .. SizeMod - 1
      BY <1>3, <2>1, Sets, PlusMinus
    <2>3. QED BY <1>3, <1>4, <2>2, Sets
  <1>8. /\ Minus(idle_count, Cardinality(B)) = Cardinality(idle \ B)
        /\ Cardinality(idle \ B) \in 0 .. SizeMod - 1
    <2>1. /\ Minus(idle_count, Cardinality(B)) = idle_count - Cardinality(B)
          /\ Minus(idle_count, Cardinality(B)) \in 0 .. SizeMod - 1
      BY <1>3, Sets, PlusMinus
    <2>2. QED BY <1>3, <2>1, Sets
  <1>9. /\ Cardinality(idle') = Cardinality(idle \ B) + Cardinality(N)
        /\ Cardinality(idle' \cup Held') = left + Cardinality(N)
    BY <1>2, <1>3, <1>4, <1>6, <1>7, AddPart
  <1>10. /\ left + Cardinality(N) <= MinSize \/ left + Cardinality(N) <= MaxSize
         /\ left + Cardinality(N) < SizeMod
    <2>1. CASE N = {}
      <3>1. Cardinality(N) = 0
        BY <2>1, FS_EmptySet
      <3>2. QED BY <1>7, <3>1, Sets
    <2>2. CASE N # {}
      BY <1>1, <1>2, <1>7, <2>2, DbAssumption
    <2>3. QED BY <2>1, <2>2
  <1>11. Cardinality(idle \ B) <= left
    <2>1. (idle \ B) \subseteq (Pool \ B)
      BY DEF Pool
    <2>2. QED BY <1>4, <1>7, <2>1, FS_Subset
  <1> HIDE DEF left
  <1>12. /\ total_connections' = left + Cardinality(N) /\ total_connections' \in 0 .. SizeMod - 1
    <2>1. /\ Plus(left, Cardinality(N)) = left + Cardinality(N)
          /\ Plus(left, Cardinality(N)) \in 0 .. SizeMod - 1
      BY <1>2, <1>7, <1>10, PlusMinus
    <2>2. QED BY <1>1, <2>1
  <1>13. idle_count' = Cardinality(idle') /\ idle_count' \in 0 .. SizeMod - 1
    <2>1. Cardinality(idle \ B) + Cardinality(N) < SizeMod
      BY <1>2, <1>7, <1>8, <1>10, <1>11, DbAssumption
    <2>2. /\ Plus(Cardinality(idle \ B), Cardinality(N)) = Cardinality(idle \ B) + Cardinality(N)
          /\ Plus(Cardinality(idle \ B), Cardinality(N)) \in 0 .. SizeMod - 1
      BY <1>2, <1>8, <2>1, PlusMinus
    <2>3. QED BY <1>1, <1>8, <1>9, <2>2
  <1>14. PoolExact'
    BY <1>5, <1>6, <1>9, <1>10, <1>12, <1>13 DEF IInv, PoolExact
  <1>15. DbTypeOK'
    BY <1>1, <1>2, <1>5, <1>6, <1>12, <1>13 DEF OnHeartbeat, IInv, DbTypeOK
  <1>16. WaitInv' /\ NewInv'
    BY DEF OnHeartbeat, IInv, WaitInv, NewInv
  <1>17. QED BY <1>14, <1>15, <1>16 DEF IInv

LEMMA BreaksPreserves ==
    ASSUME IInv, NEW x \in Conns, Breaks(x)
    PROVE  IInv'
  BY DEF Breaks, IInv, DbTypeOK, PoolExact, WaitInv, NewInv, Held

LEMMA NextIInv == IInv /\ [Next]_vars => IInv'
  <1> SUFFICES ASSUME IInv, [Next]_vars PROVE IInv'
    OBVIOUS
  <1>1. CASE Start \/ Stop \/ OnHeartbeat
    BY <1>1, StartPreserves, StopPreserves, OnHeartbeatPreserves
  <1>2. ASSUME NEW c \in Clients, AcquireIdle(c) \/ AcquireNew(c) \/ Release(c) PROVE IInv'
    BY <1>2, AcquireIdlePreserves, AcquireNewPreserves, ReleaseGoodPreserves,
       ReleaseBrokenPreserves DEF Release
  <1>3. ASSUME NEW x \in Conns, Breaks(x) PROVE IInv'
    BY <1>3, BreaksPreserves
  <1>4. CASE UNCHANGED vars
    BY <1>4 DEF vars, IInv, DbTypeOK, PoolExact, WaitInv, NewInv, Held
  <1>5. QED BY <1>1, <1>2, <1>3, <1>4 DEF Next

\* The invariant holds in every reachable state.
THEOREM Invariance == Spec => []IInv
  BY InitIInv, NextIInv, PTL DEF Spec

\* Through every order of acquiring, handing over, discarding, refilling and
\* stopping, the pool counts its connections exactly, gives none of them to two
\* clients and stays within its limit; no counter wraps.
THEOREM PoolAlwaysExact == Spec => []PoolExact
  <1>1. IInv => PoolExact
    BY DEF IInv
  <1>2. QED BY Invariance, <1>1, PTL

----------------------------------------------------------------------------
(***************************************************************************)
(* The connections of the pool, one by one: PgConnection.                  *)
(*                                                                         *)
(* What a connection does with the operations posted to it is a matter of  *)
(* three counts: how many were posted (Len(order[c])), how many of those   *)
(* the io thread has taken (Taken), and how many have ended (EndedCount).  *)
(* The one after the ended ones is under way and the rest of the taken     *)
(* ones is pending_ops_, in the order of the posts.                        *)
(***************************************************************************)
ConState ==
    [conn : {"null", "ok", "bad"}, connected : BOOLEAN, op_active : BOOLEAN,
     pending_ops : Seq(Ops), op : Ops \cup {NoOp}, waits : {"no", "write", "read"},
     busy : Ops \cup {NoOp}, replied : BOOLEAN, up : BOOLEAN, failed : BOOLEAN,
     done : Seq(Ops \X {"own", "other", "error"})]

PgTypeOK ==
    /\ con \in [PgConns -> ConState]
    /\ io \in [PgConns -> Seq({"connect", "close", "send"} \X (Ops \cup {NoOp}))]
    /\ opened \in [PgConns -> {"new", "called", "ok", "failed", "global"}]
    /\ g_pg_conn \in PgConns \cup {0}
    /\ result \in [Ops -> {"none", "dropped", "posted", "own", "other", "error"}]
    /\ order \in [PgConns -> Seq(Ops)]

\* The operations posted to the io_context and not yet taken from it: a connect is
\* the first closure of a connection and a close the last one.
SendsOf(q) == IF q # <<>> /\ q[Len(q)][1] # "send" THEN Len(q) - 1 ELSE Len(q)

Sends(c) == SendsOf(io[c])

\* How many operations of the connection have been given to StartSend.
Taken(c) == Len(order[c]) - Sends(c)

\* The fields s of connection c, when b of its operations have ended and m have
\* been taken: the others are under way and queued, in the order of the posts.
Tracks(c, s, b, m) ==
    /\ s \in ConState
    /\ s.op_active => /\ m = b + 1 + Len(s.pending_ops)
                      /\ s.op = order[c][b + 1]
                      /\ \A i \in 1 .. Len(s.pending_ops) : s.pending_ops[i] = order[c][b + 1 + i]
                      /\ s.conn = "ok" => s.busy = s.op
    /\ ~s.op_active => /\ m = b /\ s.pending_ops = <<>> /\ s.waits = "no"
                       /\ s.busy # NoOp => s.failed

\* How many operations of the connection have ended.
EndedCount(c) == Taken(c) - IF con[c].op_active THEN 1 + Len(con[c].pending_ops) ELSE 0

\* What a connection does with the operations posted to it.
ConnOK(c) ==
    /\ con[c].done = <<>>
    /\ EndedCount(c) \in Nat
    /\ Tracks(c, con[c], EndedCount(c), Taken(c))
    /\ \A i \in 1 .. Sends(c) : io[c][i] = <<"send", order[c][Taken(c) + i]>>

ConnInv == \A c \in PgConns : ConnOK(c)

\* A connection gets operations while it is the global one, and a close once.
OpenOK(c) ==
    /\ opened[c] = "called" => io[c] = << <<"connect", NoOp>> >>
    /\ opened[c] \in {"new", "ok", "failed"} => io[c] = <<>>
    /\ opened[c] # "global" => order[c] = <<>> /\ g_pg_conn # c
    /\ opened[c] = "global" /\ io[c] # <<>> /\ io[c][Len(io[c])][1] # "send" =>
           io[c][Len(io[c])] = <<"close", NoOp>> /\ g_pg_conn # c
    /\ opened[c] \notin {"new", "called"} /\ con[c].conn # "ok" => con[c].failed

OpenInv == \A c \in PgConns : OpenOK(c)

\* The results are those of a prefix of the operations.
ResultOK(c) == \A i \in 1 .. Len(order[c]) :
    IF i <= EndedCount(c) THEN /\ result[order[c][i]] \in {"own", "error"}
                               /\ result[order[c][i]] = "error" => con[c].failed
                          ELSE result[order[c][i]] = "posted"

ResultInv == \A c \in PgConns : ResultOK(c)

\* An operation is posted once.
PostedOnce ==
    \A c, d \in PgConns : \A i \in 1 .. Len(order[c]), k \in 1 .. Len(order[d]) :
        order[c][i] = order[d][k] => c = d /\ i = k

PgInv == PgConstants /\ PgTypeOK /\ ConnInv /\ OpenInv /\ ResultInv /\ PostedOnce

----------------------------------------------------------------------------
(* The fields of a connection.                                             *)

Outcomes == {"own", "other", "error"}

\* The callbacks that s has run are those of the operations after the first b, in
\* order, each with its own result or, once the connection has failed, an error.
Reports(c, s, b) ==
    \A i \in 1 .. Len(s.done) :
        /\ s.done[i][1] = order[c][b + i]
        /\ s.done[i][2] \in {"own", "error"}
        /\ s.done[i][2] = "error" => s.failed

\* What the io thread makes of a connection with b ended and m taken operations.
Goes(c, s, b, m) ==
    /\ Tracks(c, s, b + Len(s.done), m)
    /\ Reports(c, s, b)
    /\ s.conn # "ok" => s.failed

\* FailPending runs the callbacks of the queue.
LEMMA FailPendingFacts ==
    ASSUME NEW s \in ConState
    PROVE  LET r == FailPending(s) IN
           /\ r \in ConState /\ ~r.op_active /\ r.pending_ops = <<>>
           /\ r.conn = s.conn /\ r.failed = s.failed /\ r.waits = s.waits /\ r.busy = s.busy
           /\ Len(r.done) = Len(s.done) + Len(s.pending_ops)
           /\ \A i \in 1 .. Len(s.done) : r.done[i] = s.done[i]
           /\ \A i \in 1 .. Len(s.pending_ops) :
                  r.done[Len(s.done) + i] = <<s.pending_ops[i], "error">>
  <1> DEFINE f == [i \in DOMAIN s.pending_ops |-> <<s.pending_ops[i], "error">>]
             T == Ops \X Outcomes
  <1>1. s.pending_ops \in Seq(Ops) /\ s.done \in Seq(T)
    BY DEF ConState, Outcomes
  <1>2. f \in Seq(T) /\ Len(f) = Len(s.pending_ops)
    BY <1>1 DEF Outcomes
  <1>3. /\ s.done \o f \in Seq(T) /\ Len(s.done \o f) = Len(s.done) + Len(f)
        /\ \A i \in 1 .. Len(s.done) + Len(f) :
               (s.done \o f)[i] = IF i <= Len(s.done) THEN s.done[i] ELSE f[i - Len(s.done)]
    BY <1>1, <1>2, ConcatProperties
  <1>4. /\ Len(s.done) \in Nat /\ Len(s.pending_ops) \in Nat
        /\ \A i \in 1 .. Len(s.pending_ops) : f[i] = <<s.pending_ops[i], "error">>
    BY <1>1
  <1>5. /\ \A i \in 1 .. Len(s.done) : (s.done \o f)[i] = s.done[i]
        /\ \A i \in 1 .. Len(s.pending_ops) :
               (s.done \o f)[Len(s.done) + i] = <<s.pending_ops[i], "error">>
    BY <1>2, <1>3, <1>4
  <1> HIDE DEF f
  <1>6. FailPending(s) = [s EXCEPT !.op_active = FALSE, !.pending_ops = <<>>, !.done = s.done \o f]
    BY DEF FailPending, f, ConState
  <1> DEFINE d == s.done \o f
             r == FailPending(s)
  <1>7. <<>> \in Seq(Ops) /\ d \in Seq(Ops \X {"own", "other", "error"})
    BY <1>3 DEF Outcomes
  <1>8. /\ Len(d) = Len(s.done) + Len(s.pending_ops)
        /\ \A i \in 1 .. Len(s.done) : d[i] = s.done[i]
        /\ \A i \in 1 .. Len(s.pending_ops) : d[Len(s.done) + i] = <<s.pending_ops[i], "error">>
    BY <1>2, <1>3, <1>5
  <1>9. r = [s EXCEPT !.op_active = FALSE, !.pending_ops = <<>>, !.done = d]
    BY <1>6
  <1> HIDE DEF d, r
  <1>10. /\ r \in ConState /\ ~r.op_active /\ r.pending_ops = <<>> /\ r.done = d
         /\ r.conn = s.conn /\ r.failed = s.failed /\ r.waits = s.waits /\ r.busy = s.busy
    BY <1>7, <1>9 DEF ConState
  <1>11. QED BY <1>8, <1>10 DEF r

\* Callback adds to the list of callbacks, and Lost marks the connection.
LEMMA CallbackFacts ==
    ASSUME NEW s \in ConState, NEW o \in Ops, NEW res \in Outcomes
    PROVE  LET r == Callback(s, o, res) IN
           /\ r \in ConState
           /\ r.conn = s.conn /\ r.failed = s.failed /\ r.waits = s.waits /\ r.busy = s.busy
           /\ r.op = s.op /\ r.op_active = s.op_active /\ r.pending_ops = s.pending_ops
           /\ Len(r.done) = Len(s.done) + 1 /\ Len(s.done) \in Nat
           /\ \A i \in 1 .. Len(s.done) : r.done[i] = s.done[i]
           /\ r.done[Len(s.done) + 1] = <<o, res>>
  <1>1. s.done \in Seq(Ops \X Outcomes) /\ <<o, res>> \in Ops \X Outcomes
    BY DEF ConState, Outcomes
  <1>2. Append(s.done, <<o, res>>) \in Seq(Ops \X Outcomes)
    BY <1>1
  <1>3. Callback(s, o, res) = [s EXCEPT !.done = Append(s.done, <<o, res>>)]
    BY DEF Callback, ConState
  <1>4. LET d == Append(s.done, <<o, res>>) IN
        /\ Len(d) = Len(s.done) + 1 /\ Len(s.done) \in Nat
        /\ \A i \in 1 .. Len(s.done) : d[i] = s.done[i]
        /\ d[Len(s.done) + 1] = <<o, res>>
    BY <1>1
  <1>5. /\ Callback(s, o, res) \in ConState
        /\ Callback(s, o, res).done = Append(s.done, <<o, res>>)
    BY <1>2, <1>3 DEF ConState, Outcomes
  <1>6. QED BY <1>3, <1>4, <1>5 DEF ConState

LEMMA LostFacts ==
    ASSUME NEW s \in ConState
    PROVE  /\ Lost(s) \in ConState /\ Lost(s).failed /\ Lost(s).conn = "bad"
           /\ Lost(s).busy = NoOp /\ Lost(s).op = s.op /\ Lost(s).done = s.done
           /\ Lost(s).op_active = s.op_active /\ Lost(s).pending_ops = s.pending_ops
           /\ Lost(s).waits = s.waits
  BY DEF Lost, ConState

\* The connection s may take its next operation: b ended before, and those that
\* ended since are reported.  The queue holds the operations after the first k.
Free(c, s, b, k, m) ==
    /\ s \in ConState /\ s.waits = "no"
    /\ Reports(c, s, b)
    /\ m = k + Len(s.pending_ops)
    /\ \A i \in 1 .. Len(s.pending_ops) : s.pending_ops[i] = order[c][k + i]
    /\ s.conn # "ok" => s.failed

\* On a failed connection an operation and the queue behind it end with errors.
LEMMA FailGoes ==
    ASSUME NEW c \in PgConns, NEW s, NEW b \in Nat, NEW m \in Nat, NEW o \in Ops,
           Free(c, s, b, b + Len(s.done) + 1, m), s.failed, o = order[c][b + Len(s.done) + 1]
    PROVE  Goes(c, FailPending(Callback(s, o, "error")), b, m)
  <1> DEFINE t == Callback(s, o, "error")
             r == FailPending(t)
             n == Len(s.done)
             q == Len(s.pending_ops)
  <1>1. /\ s \in ConState /\ s.waits = "no" /\ m = b + n + 1 + q
        /\ \A i \in 1 .. q : s.pending_ops[i] = order[c][b + n + 1 + i]
        /\ o = order[c][b + n + 1]
        /\ \A i \in 1 .. n : s.done[i][1] = order[c][b + i] /\ s.done[i][2] \in {"own", "error"}
    BY DEF Free, Reports
  <1>2. n \in Nat /\ q \in Nat /\ "error" \in Outcomes
    BY <1>1 DEF Outcomes, ConState
  <1>3. /\ t \in ConState /\ t.failed /\ t.waits = "no" /\ t.pending_ops = s.pending_ops
        /\ Len(t.done) = n + 1 /\ Len(t.pending_ops) = q
        /\ \A i \in 1 .. n : t.done[i] = s.done[i]
        /\ t.done[n + 1] = <<o, "error">>
    <2>1. /\ t \in ConState /\ t.waits = s.waits
          /\ t.pending_ops = s.pending_ops /\ Len(t.done) = Len(s.done) + 1
          /\ \A i \in 1 .. Len(s.done) : t.done[i] = s.done[i]
          /\ t.done[Len(s.done) + 1] = <<o, "error">>
      <3> HIDE DEF n, q
      <3>1. s \in ConState /\ "error" \in Outcomes
        BY <1>1, <1>2
      <3>2. t \in ConState /\ t.waits = s.waits /\ t.pending_ops = s.pending_ops
        BY <3>1, CallbackFacts
      <3>3. Len(t.done) = Len(s.done) + 1 /\ t.done[Len(s.done) + 1] = <<o, "error">>
        BY <3>1, CallbackFacts
      <3>4. \A i \in 1 .. Len(s.done) : t.done[i] = s.done[i]
        BY <3>1, CallbackFacts
      <3>5. QED BY <3>2, <3>3, <3>4
    <2>2. t.failed
      BY <1>1, <1>2, CallbackFacts
    <2> HIDE DEF t
    <2>3. QED BY <1>1, <2>1, <2>2
  <1> HIDE DEF t
  <1>4. /\ r \in ConState /\ ~r.op_active /\ r.pending_ops = <<>> /\ r.failed /\ r.waits = "no"
        /\ Len(r.done) = Len(t.done) + Len(t.pending_ops)
        /\ \A i \in 1 .. Len(t.done) : r.done[i] = t.done[i]
        /\ \A i \in 1 .. Len(t.pending_ops) : r.done[Len(t.done) + i] = <<t.pending_ops[i], "error">>
    BY <1>3, FailPendingFacts
  <1> HIDE DEF r, n, q
  <1>5. /\ Len(r.done) = n + 1 + q
        /\ \A i \in 1 .. n + 1 : r.done[i] = t.done[i]
        /\ \A i \in 1 .. q : r.done[n + 1 + i] = <<s.pending_ops[i], "error">>
    BY <1>3, <1>4
  <1>6. Reports(c, r, b)
    <2>1. ASSUME NEW i \in 1 .. n
          PROVE  r.done[i][1] = order[c][b + i] /\ r.done[i][2] \in {"own", "error"}
      <3>1. i \in 1 .. n + 1
        BY <1>2
      <3>2. r.done[i] = s.done[i]
        BY <1>3, <1>5, <3>1
      <3>3. QED BY <1>1, <3>2
    <2>2. r.done[n + 1][1] = order[c][b + (n + 1)] /\ r.done[n + 1][2] = "error"
      <3>1. n + 1 \in 1 .. n + 1 /\ b + (n + 1) = b + n + 1
        BY <1>2
      <3>2. r.done[n + 1] = <<o, "error">>
        BY <1>3, <1>5, <3>1
      <3>3. QED BY <1>1, <3>1, <3>2
    <2>3. ASSUME NEW k \in 1 .. q
          PROVE  r.done[n + 1 + k][1] = order[c][b + (n + 1 + k)] /\ r.done[n + 1 + k][2] = "error"
      <3>1. b + (n + 1 + k) = b + n + 1 + k
        BY <1>2
      <3>2. r.done[n + 1 + k] = <<s.pending_ops[k], "error">>
        BY <1>5
      <3>3. QED BY <1>1, <3>1, <3>2
    <2>4. ASSUME NEW i \in 1 .. n + 1 + q
          PROVE  r.done[i][1] = order[c][b + i] /\ r.done[i][2] \in {"own", "error"}
      <3>1. CASE i <= n
        BY <1>2, <2>1, <3>1
      <3>2. CASE i = n + 1
        BY <2>2, <3>2
      <3>3. CASE i > n + 1
        <4>1. i - (n + 1) \in 1 .. q /\ n + 1 + (i - (n + 1)) = i
          BY <1>2, <3>3
        <4>2. QED BY <2>3, <4>1
      <3>4. QED BY <1>2, <3>1, <3>2, <3>3
    <2>5. QED BY <1>4, <1>5, <2>4 DEF Reports
  <1>7. Tracks(c, r, b + Len(r.done), m)
    <2>1. m = b + Len(r.done)
      BY <1>1, <1>2, <1>5
    <2>2. QED BY <1>4, <2>1 DEF Tracks
  <1>8. QED BY <1>4, <1>6, <1>7 DEF Goes, r, t

\* An operation is sent, or fails with the queue behind it.
LEMMA SendNowGoes ==
    ASSUME NEW c \in PgConns, NEW s, NEW b \in Nat, NEW m \in Nat, NEW o \in Ops, NEW full \in BOOLEAN,
           Free(c, s, b, b + Len(s.done) + 1, m), o = order[c][b + Len(s.done) + 1],
           s.busy # NoOp => s.failed
    PROVE  Goes(c, SendNow(s, o, full), b, m) /\ (s.failed => SendNow(s, o, full).failed)
  <1> DEFINE a == [s EXCEPT !.op_active = TRUE]
  <1>1. s \in ConState /\ Len(s.done) \in Nat
    BY DEF Free, ConState
  <1>2. /\ a \in ConState /\ a.done = s.done /\ a.pending_ops = s.pending_ops /\ a.waits = s.waits
        /\ a.conn = s.conn /\ a.failed = s.failed /\ a.busy = s.busy /\ a.op_active
    BY <1>1 DEF ConState
  <1> HIDE DEF a
  <1>3. Free(c, a, b, b + Len(a.done) + 1, m) /\ o = order[c][b + Len(a.done) + 1]
    BY <1>2 DEF Free, Reports
  <1>4. ASSUME NEW x, x \in {a, Lost(a)}, x.failed
        PROVE  /\ Goes(c, FailPending(Callback(x, o, "error")), b, m)
               /\ FailPending(Callback(x, o, "error")).failed
    <2>0. /\ x \in ConState /\ x.done = a.done /\ x.pending_ops = a.pending_ops
          /\ x.waits = a.waits
      BY <1>2, <1>4, LostFacts
    <2>1. Free(c, x, b, b + Len(x.done) + 1, m) /\ o = order[c][b + Len(x.done) + 1]
      <3>1. b + Len(x.done) + 1 = b + Len(a.done) + 1
        BY <2>0
      <3>2. Reports(c, x, b)
        BY <1>3, <1>4, <2>0 DEF Free, Reports
      <3> DEFINE k == b + Len(a.done) + 1
      <3>3. Free(c, a, b, k, m) /\ o = order[c][k]
        BY <1>3
      <3> HIDE DEF k
      <3>4. Free(c, x, b, k, m)
        BY <1>4, <2>0, <3>2, <3>3 DEF Free
      <3>5. QED BY <3>1, <3>3, <3>4 DEF k
    <2>2. Goes(c, FailPending(Callback(x, o, "error")), b, m)
      BY <1>4, <2>1, FailGoes
    <2>3. FailPending(Callback(x, o, "error")).failed
      <3>1. x \in ConState /\ "error" \in Outcomes
        BY <2>1 DEF Free, Outcomes
      <3>2. Callback(x, o, "error") \in ConState /\ Callback(x, o, "error").failed
        BY <1>4, <3>1, CallbackFacts
      <3>3. QED BY <3>2, FailPendingFacts
    <2>4. QED BY <2>2, <2>3
  <1>5. CASE s.conn # "ok" \/ s.busy # NoOp
    <2>1. SendNow(s, o, full) = FailPending(Callback(a, o, "error")) /\ a.failed
      BY <1>2, <1>5 DEF SendNow, a, Free
    <2>2. QED BY <1>4, <2>1
  <1>6. CASE s.conn = "ok" /\ s.busy = NoOp /\ ~s.up
    <2>1. SendNow(s, o, full) = FailPending(Callback(Lost(a), o, "error")) /\ Lost(a).failed
      BY <1>2, <1>6, LostFacts DEF SendNow, a
    <2>2. QED BY <1>4, <2>1
  <1>7. CASE s.conn = "ok" /\ s.busy = NoOp /\ s.up
    <2> DEFINE r == [a EXCEPT !.op = o, !.busy = o, !.replied = FALSE,
                              !.waits = IF full THEN "write" ELSE "read"]
    <2>1. SendNow(s, o, full) = r
      BY <1>7 DEF SendNow, a
    <2>2. /\ r \in ConState /\ r.done = a.done /\ r.pending_ops = a.pending_ops /\ r.op_active
          /\ r.op = o /\ r.busy = o /\ r.conn = "ok" /\ r.failed = a.failed
      BY <1>2, <1>7 DEF ConState
    <2> HIDE DEF r
    <2>3. Reports(c, r, b)
      BY <1>3, <2>2 DEF Free, Reports
    <2>4. Tracks(c, r, b + Len(r.done), m)
      BY <1>3, <2>2 DEF Free, Tracks
    <2>5. QED BY <1>2, <2>1, <2>2, <2>3, <2>4 DEF Goes
  <1>8. QED BY <1>5, <1>6, <1>7, <1>1 DEF ConState

\* StartNext takes the head of the queue, if there is one.
LEMMA StartNextGoes ==
    ASSUME NEW c \in PgConns, NEW s, NEW b \in Nat, NEW m \in Nat, NEW full \in BOOLEAN,
           Free(c, s, b, b + Len(s.done), m), s.busy # NoOp => s.failed
    PROVE  Goes(c, StartNext(s, full), b, m) /\ (s.failed => StartNext(s, full).failed)
  <1>1. s \in ConState /\ Len(s.done) \in Nat /\ s.pending_ops \in Seq(Ops)
    BY DEF Free, ConState
  <1>2. CASE s.pending_ops = <<>>
    <2> DEFINE r == [s EXCEPT !.op_active = FALSE]
    <2>1. /\ StartNext(s, full) = r /\ r \in ConState /\ ~r.op_active /\ r.pending_ops = <<>>
          /\ r.done = s.done /\ r.waits = s.waits /\ r.busy = s.busy /\ r.failed = s.failed
          /\ r.conn = s.conn
      BY <1>1, <1>2 DEF StartNext, ConState
    <2> HIDE DEF r
    <2>2. m = b + Len(r.done)
      BY <1>1, <1>2, <2>1 DEF Free
    <2>3. QED BY <2>1, <2>2 DEF Free, Goes, Tracks, Reports
  <1>3. CASE s.pending_ops # <<>>
    <2> DEFINE q == s.pending_ops
               k == b + Len(s.done)
               n == Len(q)
               t == [s EXCEPT !.pending_ops = Tail(q)]
    <2>1. /\ Head(q) \in Ops /\ Head(q) = q[1] /\ Tail(q) \in Seq(Ops)
          /\ n \in Nat /\ n > 0 /\ Len(Tail(q)) = n - 1
          /\ \A i \in 1 .. n - 1 : Tail(q)[i] = q[i + 1]
      BY <1>1, <1>3
    <2>2. /\ StartNext(s, full) = SendNow(t, Head(q), full)
          /\ t \in ConState /\ t.pending_ops = Tail(q) /\ t.done = s.done /\ t.waits = s.waits
          /\ t.busy = s.busy /\ t.failed = s.failed /\ t.conn = s.conn
      BY <1>1, <1>3, <2>1 DEF StartNext, ConState
    <2>3. /\ k \in Nat /\ m = k + n /\ \A i \in 1 .. n : q[i] = order[c][k + i]
          /\ k + 1 = b + Len(t.done) + 1
      BY <1>1, <2>2 DEF Free
    <2>4. Free(c, s, b, k, m)
      OBVIOUS
    <2> HIDE DEF t, q, k, n
    <2>5. Head(q) = order[c][k + 1]
      BY <2>1, <2>3
    <2>6. \A i \in 1 .. n - 1 : Tail(q)[i] = order[c][k + 1 + i]
      <3> SUFFICES ASSUME NEW i \in 1 .. n - 1 PROVE Tail(q)[i] = order[c][k + 1 + i]
        OBVIOUS
      <3>1. i + 1 \in 1 .. n /\ k + (i + 1) = k + 1 + i
        BY <2>1, <2>3
      <3>2. QED BY <2>1, <2>3, <3>1
    <2>7. m = k + 1 + (n - 1)
      BY <2>1, <2>3
    <2>8. Free(c, t, b, k + 1, m)
      <3>1. Reports(c, t, b) /\ t.waits = "no" /\ (t.conn # "ok" => t.failed)
        BY <2>2, <2>4 DEF Free, Reports
      <3>2. Len(t.pending_ops) = n - 1
        BY <2>1, <2>2
      <3>3. \A i \in 1 .. Len(t.pending_ops) : t.pending_ops[i] = order[c][k + 1 + i]
        BY <2>2, <2>6, <3>2
      <3>4. m = k + 1 + Len(t.pending_ops)
        BY <2>7, <3>2
      <3>5. QED BY <2>2, <3>1, <3>3, <3>4 DEF Free
    <2>9. /\ Free(c, t, b, b + Len(t.done) + 1, m)
          /\ Head(q) = order[c][b + Len(t.done) + 1]
          /\ t.busy # NoOp => t.failed
      BY <2>2, <2>3, <2>5, <2>8
    <2>10. Goes(c, SendNow(t, Head(q), full), b, m)
           /\ (t.failed => SendNow(t, Head(q), full).failed)
      BY <2>1, <2>9, SendNowGoes
    <2>11. QED BY <2>2, <2>10
  <1>4. QED BY <1>2, <1>3

\* The connection s has an operation under way: the one after the first b.
UnderWay(c, s, b, m) ==
    /\ s \in ConState /\ s.done = <<>> /\ s.op \in Ops
    /\ m = b + 1 + Len(s.pending_ops)
    /\ s.op = order[c][b + 1]
    /\ \A i \in 1 .. Len(s.pending_ops) : s.pending_ops[i] = order[c][b + 1 + i]

\* The operation under way ends and the next one is taken.
LEMMA EndsGoes ==
    ASSUME NEW c \in PgConns, NEW s, NEW b \in Nat, NEW m \in Nat, NEW full \in BOOLEAN,
           NEW res \in {"own", "error"}, UnderWay(c, s, b, m),
           res = "error" => s.failed, s.conn # "ok" => s.failed, s.busy # NoOp => s.failed
    PROVE  Goes(c, Ends(s, res, full), b, m) /\ (s.failed => Ends(s, res, full).failed)
  <1> DEFINE a == Callback(s, s.op, res)
             t == [a EXCEPT !.op = NoOp, !.waits = "no"]
  <1>1. s \in ConState /\ s.op \in Ops /\ res \in Outcomes /\ Len(s.done) = 0 /\ s.op = order[c][b + 1]
    BY DEF UnderWay, Outcomes
  <1>2. a \in ConState /\ a.conn = s.conn /\ a.busy = s.busy /\ a.pending_ops = s.pending_ops
    BY <1>1, CallbackFacts
  <1>3. (a.failed <=> s.failed)
    BY <1>1, CallbackFacts
  <1>4. Len(a.done) = 1 /\ a.done[1] = <<s.op, res>>
    <2>1. Len(a.done) = Len(s.done) + 1
      BY <1>1, CallbackFacts
    <2>2. a.done[Len(s.done) + 1] = <<s.op, res>>
      BY <1>1, CallbackFacts
    <2> HIDE DEF a
    <2>3. Len(s.done) + 1 = 1
      BY <1>1
    <2>4. QED BY <2>1, <2>2, <2>3
  <1> HIDE DEF a
  <1>5. /\ t \in ConState /\ t.conn = a.conn /\ t.busy = a.busy /\ t.pending_ops = a.pending_ops
        /\ (t.failed <=> a.failed) /\ t.done = a.done /\ t.waits = "no"
    BY <1>2 DEF ConState
  <1>6. Ends(s, res, full) = StartNext(t, full)
    BY DEF Ends, a
  <1> HIDE DEF t
  <1>7. Reports(c, t, b)
    <2>1. \A i \in 1 .. Len(t.done) : i = 1
      <3>1. Len(t.done) = 1
        BY <1>4, <1>5
      <3>2. QED BY <3>1
    <2>2. t.done[1][1] = order[c][b + 1] /\ t.done[1][2] = res
      BY <1>1, <1>4, <1>5
    <2>3. t.done[1][2] \in {"own", "error"} /\ (t.done[1][2] = "error" => t.failed)
      BY <1>3, <1>5, <2>2
    <2>4. QED BY <2>1, <2>2, <2>3 DEF Reports
  <1>8. b + Len(t.done) = b + 1
    BY <1>4, <1>5
  <1>9. Free(c, t, b, b + 1, m)
    BY <1>2, <1>3, <1>5, <1>7 DEF Free, UnderWay
  <1>10. Free(c, t, b, b + Len(t.done), m) /\ (t.busy # NoOp => t.failed)
    BY <1>2, <1>3, <1>5, <1>8, <1>9
  <1>11. Goes(c, StartNext(t, full), b, m) /\ (t.failed => StartNext(t, full).failed)
    BY <1>10, StartNextGoes
  <1>12. QED BY <1>3, <1>5, <1>6, <1>11

\* A connection that only waits on goes on.
LEMMA StaysGoes ==
    ASSUME NEW c \in PgConns, NEW s, NEW b \in Nat, NEW m \in Nat,
           Tracks(c, s, b, m), s.done = <<>>, s.conn # "ok" => s.failed
    PROVE  Goes(c, s, b, m)
  <1>1. Len(s.done) = 0 /\ b + Len(s.done) = b
    OBVIOUS
  <1>2. Reports(c, s, b)
    BY <1>1 DEF Reports
  <1>3. QED BY <1>1, <1>2 DEF Goes

\* The handler of async_wait.
LEMMA ContinueOpGoes ==
    ASSUME NEW c \in PgConns, NEW s, NEW b \in Nat, NEW m \in Nat, NEW full \in BOOLEAN,
           Tracks(c, s, b, m), s.op_active, s.op \in Ops, s.op # NoOp, s.done = <<>>,
           s.conn # "ok" => s.failed
    PROVE  Goes(c, ContinueOp(s, full), b, m) /\ (s.failed => ContinueOp(s, full).failed)
  <1>1. s \in ConState /\ UnderWay(c, s, b, m) /\ (s.conn = "ok" => s.busy = s.op)
    BY DEF Tracks, UnderWay
  <1>2. s.op # NoOp
    OBVIOUS
  <1>3. CASE s.conn # "ok"
    <2>1. ContinueOp(s, full) = Ends(s, "error", full)
      BY <1>3 DEF ContinueOp
    <2>2. Goes(c, Ends(s, "error", full), b, m) /\ (s.failed => Ends(s, "error", full).failed)
      BY <1>1, <1>3, EndsGoes
    <2>3. QED BY <2>1, <2>2
  <1>4. CASE s.conn = "ok" /\ ~s.up
    <2> DEFINE t == Lost(s)
    <2>1. ContinueOp(s, full) = Ends(t, "error", full)
      BY <1>4 DEF ContinueOp
    <2>2. UnderWay(c, t, b, m) /\ t.failed
      BY <1>1, LostFacts DEF UnderWay
    <2> HIDE DEF t
    <2>3. Goes(c, Ends(t, "error", full), b, m) /\ (t.failed => Ends(t, "error", full).failed)
      BY <2>2, EndsGoes
    <2>4. QED BY <2>1, <2>2, <2>3
  <1>5. CASE s.conn = "ok" /\ s.up /\ s.waits = "write" /\ full
    <2>1. ContinueOp(s, full) = s
      BY <1>5 DEF ContinueOp
    <2>2. Goes(c, s, b, m)
      BY StaysGoes
    <2>3. QED BY <2>1, <2>2
  <1>6. CASE s.conn = "ok" /\ s.up /\ ~(s.waits = "write" /\ full) /\ ~s.replied
    <2> DEFINE t == [s EXCEPT !.waits = "read"]
    <2>1. ContinueOp(s, full) = t
      BY <1>1, <1>2, <1>6 DEF ContinueOp
    <2>2. /\ t \in ConState /\ t.conn = s.conn /\ t.busy = s.busy /\ t.pending_ops = s.pending_ops
          /\ t.done = s.done /\ t.op = s.op /\ (t.op_active <=> s.op_active) /\ (t.failed <=> s.failed)
      BY <1>1 DEF ConState
    <2> HIDE DEF t
    <2>3. Tracks(c, t, b, m)
      BY <2>2 DEF Tracks
    <2>4. Goes(c, t, b, m)
      BY <2>2, <2>3, StaysGoes
    <2>5. QED BY <2>1, <2>2, <2>4
  <1>7. CASE s.conn = "ok" /\ s.up /\ ~(s.waits = "write" /\ full) /\ s.replied
    <2> DEFINE t == [s EXCEPT !.busy = NoOp, !.replied = FALSE]
    <2>1. ContinueOp(s, full) = Ends(t, "own", full)
      BY <1>1, <1>7 DEF ContinueOp
    <2>2. /\ t \in ConState /\ t.conn = s.conn /\ t.busy = NoOp /\ t.pending_ops = s.pending_ops
          /\ t.done = s.done /\ t.op = s.op /\ (t.failed <=> s.failed)
      BY <1>1 DEF ConState, NoOp
    <2> HIDE DEF t
    <2>3. UnderWay(c, t, b, m)
      BY <1>1, <2>2 DEF UnderWay
    <2>4. Goes(c, Ends(t, "own", full), b, m) /\ (t.failed => Ends(t, "own", full).failed)
      BY <1>7, <2>2, <2>3, EndsGoes
    <2>5. QED BY <2>1, <2>2, <2>4
  <1>8. QED BY <1>3, <1>4, <1>5, <1>6, <1>7

\* The wait fails: the connection has failed.
LEMMA WaitFailedGoes ==
    ASSUME NEW c \in PgConns, NEW s, NEW b \in Nat, NEW m \in Nat, NEW full \in BOOLEAN,
           Tracks(c, s, b, m), s.op_active, s.op \in Ops, s.done = <<>>
    PROVE  LET r == WaitFailed([s EXCEPT !.failed = TRUE], full) IN Goes(c, r, b, m) /\ r.failed
  <1> DEFINE t == [s EXCEPT !.failed = TRUE]
  <1>1. s \in ConState /\ UnderWay(c, s, b, m)
    BY DEF Tracks, UnderWay
  <1>2. /\ t \in ConState /\ t.pending_ops = s.pending_ops
        /\ t.done = s.done /\ t.op = s.op /\ t.failed
    BY <1>1 DEF ConState
  <1> HIDE DEF t
  <1>3. UnderWay(c, t, b, m)
    BY <1>1, <1>2 DEF UnderWay
  <1>4. Goes(c, Ends(t, "error", full), b, m) /\ (t.failed => Ends(t, "error", full).failed)
    BY <1>2, <1>3, EndsGoes
  <1>5. QED BY <1>2, <1>4 DEF WaitFailed, t

\* The next operation posted is queued or sent.
LEMMA StartSendGoes ==
    ASSUME NEW c \in PgConns, NEW s, NEW b \in Nat, NEW m \in Nat, NEW full \in BOOLEAN, NEW o \in Ops,
           Tracks(c, s, b, m), s.done = <<>>, s.conn # "ok" => s.failed, o = order[c][m + 1]
    PROVE  Goes(c, StartSend(s, o, full), b, m + 1) /\ (s.failed => StartSend(s, o, full).failed)
  <1>1. s \in ConState
    BY DEF Tracks
  <1>2. CASE s.op_active
    <2> DEFINE q == s.pending_ops
               p == Append(q, o)
               n == Len(q)
               t == [s EXCEPT !.pending_ops = p]
    <2>1. q \in Seq(Ops)
      BY <1>1 DEF ConState
    <2>2. /\ n \in Nat /\ p \in Seq(Ops) /\ Len(p) = n + 1
          /\ \A i \in 1 .. n : p[i] = q[i]
          /\ p[n + 1] = o
      BY <2>1
    <2>3. /\ m = b + 1 + n /\ s.op = order[c][b + 1] /\ (s.conn = "ok" => s.busy = s.op)
          /\ \A i \in 1 .. n : q[i] = order[c][b + 1 + i]
      BY <1>2 DEF Tracks
    <2> HIDE DEF n, p, q
    <2>4. StartSend(s, o, full) = t
      BY <1>2, <1>1 DEF StartSend, p, q, ConState
    <2>5. /\ t \in ConState /\ t.pending_ops = p /\ t.done = s.done /\ t.op = s.op
          /\ t.op_active /\ t.conn = s.conn /\ t.busy = s.busy /\ (t.failed <=> s.failed)
      BY <1>1, <1>2, <2>2 DEF ConState
    <2> HIDE DEF t
    <2>6. \A i \in 1 .. n + 1 : p[i] = order[c][b + 1 + i]
      <3> SUFFICES ASSUME NEW i \in 1 .. n + 1 PROVE p[i] = order[c][b + 1 + i]
        OBVIOUS
      <3>1. CASE i \in 1 .. n
        BY <2>2, <2>3, <3>1
      <3>2. CASE i = n + 1
        <4>1. b + 1 + i = m + 1
          BY <2>2, <2>3, <3>2
        <4>2. QED BY <2>2, <3>2, <4>1
      <3>3. QED BY <2>2, <3>1, <3>2
    <2>7. m + 1 = b + 1 + (n + 1)
      BY <2>2, <2>3
    <2>8. Tracks(c, t, b, m + 1)
      <3>1. Len(t.pending_ops) = n + 1
        BY <2>2, <2>5
      <3>2. /\ m + 1 = b + 1 + Len(t.pending_ops)
            /\ \A i \in 1 .. Len(t.pending_ops) : t.pending_ops[i] = order[c][b + 1 + i]
        BY <2>5, <2>6, <2>7, <3>1
      <3>3. QED BY <2>3, <2>5, <3>2 DEF Tracks
    <2>9. m + 1 \in Nat
      OBVIOUS
    <2>10. Goes(c, t, b, m + 1)
      BY <2>5, <2>8, <2>9, StaysGoes
    <2>11. QED BY <2>4, <2>5, <2>10
  <1>3. CASE ~s.op_active
    <2>1. m = b /\ s.pending_ops = <<>> /\ s.waits = "no" /\ (s.busy # NoOp => s.failed)
      BY <1>3 DEF Tracks
    <2>2. Len(s.done) = 0 /\ Len(s.pending_ops) = 0 /\ b + Len(s.done) + 1 = b + 1 /\ m + 1 \in Nat
      BY <2>1
    <2>3. Reports(c, s, b)
      BY <2>2 DEF Reports
    <2>4. Free(c, s, b, b + 1, m + 1)
      BY <1>1, <2>1, <2>2, <2>3 DEF Free
    <2>5. Free(c, s, b, b + Len(s.done) + 1, m + 1) /\ o = order[c][b + Len(s.done) + 1]
      BY <2>1, <2>2, <2>4
    <2>6. Goes(c, SendNow(s, o, full), b, m + 1) /\ (s.failed => SendNow(s, o, full).failed)
      BY <2>1, <2>2, <2>5, SendNowGoes
    <2>7. StartSend(s, o, full) = SendNow(s, o, full)
      BY <1>3 DEF StartSend
    <2>8. QED BY <2>6, <2>7
  <1>4. QED BY <1>2, <1>3

----------------------------------------------------------------------------
(* The closures of a connection.                                           *)

IoClosure == {"connect", "close", "send"} \X (Ops \cup {NoOp})

LEMMA SendsAppend ==
    ASSUME NEW q \in Seq(IoClosure), NEW x \in IoClosure, SendsOf(q) = Len(q)
    PROVE  /\ x[1] # "send" => SendsOf(Append(q, x)) = Len(q)
           /\ x[1] = "send" => SendsOf(Append(q, x)) = Len(q) + 1
  <1> DEFINE p == Append(q, x)
  <1>1. p # <<>> /\ Len(p) = Len(q) + 1 /\ Len(q) \in Nat /\ p[Len(q) + 1] = x
    OBVIOUS
  <1> HIDE DEF p
  <1>2. p[Len(p)] = x /\ Len(p) - 1 = Len(q)
    BY <1>1
  <1>3. QED BY <1>1, <1>2 DEF SendsOf, p

LEMMA SendsTail ==
    ASSUME NEW q \in Seq(IoClosure), q # <<>>, q[1][1] = "send"
    PROVE  SendsOf(q) \in Nat /\ SendsOf(q) > 0 /\ SendsOf(Tail(q)) = SendsOf(q) - 1
  <1> DEFINE p == Tail(q)
             n == Len(q)
  <1>1. n \in Nat /\ n > 0 /\ Len(p) = n - 1 /\ p \in Seq(IoClosure)
        /\ \A i \in 1 .. n - 1 : p[i] = q[i + 1]
    OBVIOUS
  <1>2. SendsOf(q) = IF q[n][1] # "send" THEN n - 1 ELSE n
    BY DEF SendsOf
  <1>3. SendsOf(p) = IF p # <<>> /\ p[Len(p)][1] # "send" THEN Len(p) - 1 ELSE Len(p)
    BY DEF SendsOf
  <1>4. p = <<>> <=> n = 1
    <2>1. p = <<>> <=> Len(p) = 0
      BY <1>1
    <2> HIDE DEF p, n
    <2>2. QED BY <1>1, <2>1
  <1> SUFFICES SendsOf(q) \in Nat /\ SendsOf(q) > 0 /\ SendsOf(p) = SendsOf(q) - 1
    OBVIOUS
  <1> HIDE DEF p, n
  <1>5. CASE n = 1
    BY <1>1, <1>2, <1>3, <1>4, <1>5
  <1>6. CASE n # 1
    <2>1. p # <<>> /\ n - 1 \in 1 .. n - 1 /\ n - 1 + 1 = n
      BY <1>1, <1>4, <1>6
    <2>2. p[n - 1] = q[n - 1 + 1]
      BY <1>1, <2>1
    <2>3. p[Len(p)] = q[n]
      BY <1>1, <2>1, <2>2
    <2>4. QED BY <1>1, <1>2, <1>3, <2>1, <2>3
  <1>7. QED BY <1>5, <1>6

\* The counts of a connection.
LEMMA Counts ==
    ASSUME PgInv, NEW c \in PgConns
    PROVE  /\ Sends(c) \in Nat /\ Taken(c) \in Nat /\ EndedCount(c) \in Nat /\ Len(order[c]) \in Nat
           /\ EndedCount(c) <= Taken(c) /\ Taken(c) <= Len(order[c])
           /\ Taken(c) + Sends(c) = Len(order[c])
           /\ con[c].op_active => EndedCount(c) < Taken(c)
           /\ con[c] \in ConState /\ io[c] \in Seq(IoClosure) /\ order[c] \in Seq(Ops)
  <1>1. con[c] \in ConState /\ io[c] \in Seq(IoClosure) /\ order[c] \in Seq(Ops)
    BY DEF PgInv, PgTypeOK, IoClosure
  <1>2. Len(order[c]) \in Nat /\ Len(con[c].pending_ops) \in Nat
    BY <1>1 DEF ConState
  <1>3. Sends(c) \in Nat
    BY <1>1 DEF Sends, SendsOf
  <1>4. EndedCount(c) \in Nat
    BY DEF PgInv, ConnInv, ConnOK
  <1>5. Taken(c) = Len(order[c]) - Sends(c)
    BY DEF Taken
  <1>6. EndedCount(c) = Taken(c) - IF con[c].op_active THEN 1 + Len(con[c].pending_ops) ELSE 0
    BY DEF EndedCount
  <1>7. /\ EndedCount(c) <= Taken(c) /\ Taken(c) <= Len(order[c]) /\ Taken(c) \in Nat
        /\ Taken(c) + Sends(c) = Len(order[c])
        /\ con[c].op_active => EndedCount(c) < Taken(c)
    <2> DEFINE n == Len(order[c])
               p == Len(con[c].pending_ops)
               a == Sends(c)
               t == Taken(c)
               e == EndedCount(c)
    <2> HIDE DEF n, p, a, t, e
    <2>1. n \in Nat /\ p \in Nat /\ a \in Nat /\ e \in Nat /\ t = n - a
          /\ e = t - IF con[c].op_active THEN 1 + p ELSE 0
      BY <1>2, <1>3, <1>4, <1>5, <1>6 DEF n, p, a, t, e
    <2>2. /\ e <= t /\ t <= n /\ t \in Nat /\ t + a = n
          /\ con[c].op_active => e < t
      BY <2>1
    <2>3. QED BY <2>2 DEF n, p, a, t, e
  <1>8. QED BY <1>1, <1>2, <1>3, <1>4, <1>7

\* What a connection needs of the others: that they leave it alone.
LEMMA LeftAlone ==
    ASSUME NEW d \in PgConns, con'[d] = con[d], io'[d] = io[d], order'[d] = order[d]
    PROVE  /\ Sends(d)' = Sends(d) /\ Taken(d)' = Taken(d) /\ EndedCount(d)' = EndedCount(d)
           /\ ConnOK(d) => ConnOK(d)'
  <1>1. Sends(d)' = Sends(d)
    BY DEF Sends
  <1>2. Taken(d)' = Taken(d)
    BY <1>1 DEF Taken
  <1>3. EndedCount(d)' = EndedCount(d)
    BY <1>2 DEF EndedCount
  <1>4. QED BY <1>1, <1>2, <1>3 DEF ConnOK, Tracks

----------------------------------------------------------------------------
(* A step of the io thread.                                                *)

\* The callbacks that the step ran give their operations their results, and no
\* other operation.
LEMMA BecameResults ==
    ASSUME PgInv, NEW c \in PgConns, NEW s, NEW m \in Nat,
           s \in ConState, Reports(c, s, EndedCount(c)), con[c].failed => s.failed,
           EndedCount(c) + Len(s.done) <= m, m <= Len(order[c]), Became(c, s)
    PROVE  /\ result' \in [Ops -> {"none", "dropped", "posted", "own", "other", "error"}]
           /\ \A i \in 1 .. Len(order[c]) :
                  IF i <= EndedCount(c) + Len(s.done)
                  THEN /\ result'[order[c][i]] \in {"own", "error"}
                       /\ result'[order[c][i]] = "error" => s.failed
                  ELSE result'[order[c][i]] = "posted"
           /\ \A d \in PgConns : d # c =>
                  \A i \in 1 .. Len(order[d]) : result'[order[d][i]] = result[order[d][i]]
  <1> DEFINE b == EndedCount(c)
             n == Len(s.done)
             N == Len(order[c])
             Has(o) == \E i \in 1 .. n : s.done[i][1] = o
             R == {"none", "dropped", "posted", "own", "other", "error"}
  <1>1. /\ b \in Nat /\ N \in Nat /\ n \in Nat /\ b + n <= N
        /\ DOMAIN s.done = 1 .. n
    <2>1. s.done \in Seq(Ops \X {"own", "other", "error"})
      BY DEF ConState
    <2>2. /\ b \in Nat /\ N \in Nat /\ n \in Nat /\ DOMAIN s.done = 1 .. n
      BY <2>1, Counts
    <2>3. b + n <= m /\ m <= N
      OBVIOUS
    <2> HIDE DEF b, n, N
    <2>4. QED BY <2>2, <2>3
  <1>2. \A i \in 1 .. n : /\ s.done[i][1] = order[c][b + i] /\ s.done[i][2] \in {"own", "error"}
                          /\ s.done[i][2] = "error" => s.failed
    BY DEF Reports
  <1>3. \A d \in PgConns : order[d] \in Seq(Ops) /\ \A i \in 1 .. Len(order[d]) : order[d][i] \in Ops
    BY DEF PgInv, PgTypeOK
  <1>4. \A d \in PgConns : \A i \in 1 .. Len(order[d]), k \in 1 .. N :
            order[d][i] = order[c][k] => d = c /\ i = k
    BY DEF PgInv, PostedOnce
  <1>5. \A i \in 1 .. N : IF i <= b THEN /\ result[order[c][i]] \in {"own", "error"}
                                         /\ result[order[c][i]] = "error" => con[c].failed
                                    ELSE result[order[c][i]] = "posted"
    BY DEF PgInv, ResultInv, ResultOK
  <1>6. result \in [Ops -> R]
    BY DEF PgInv, PgTypeOK
  <1> HIDE DEF b, n, N
  <1>7. result' = [o \in Ops |-> IF Has(o) THEN s.done[CHOOSE i \in 1 .. n : s.done[i][1] = o][2]
                                 ELSE result[o]]
    BY <1>1 DEF Became
  <1>8. \A k \in 1 .. n : b + k \in 1 .. N
    BY <1>1
  <1>9. ASSUME NEW d \in PgConns, NEW i \in 1 .. Len(order[d]), Has(order[d][i])
        PROVE  d = c /\ i > b /\ i <= b + n
    <2>1. PICK k \in 1 .. n : s.done[k][1] = order[d][i]
      BY <1>9
    <2>2. order[d][i] = order[c][b + k] /\ b + k \in 1 .. N
      BY <1>2, <1>8, <2>1
    <2>3. d = c /\ i = b + k
      BY <1>4, <2>2
    <2>4. QED BY <1>1, <2>3
  <1>10. ASSUME NEW o \in Ops, Has(o)
         PROVE  /\ result'[o] \in {"own", "error"}
                /\ result'[o] = "error" => s.failed
    <2> DEFINE k == CHOOSE i \in 1 .. n : s.done[i][1] = o
    <2>1. k \in 1 .. n
      BY <1>10
    <2>2. result'[o] = s.done[k][2]
      BY <1>7, <1>10
    <2> HIDE DEF k
    <2>3. QED BY <1>2, <2>1, <2>2
  <1>11. ASSUME NEW o \in Ops, ~Has(o)
         PROVE  result'[o] = result[o]
    BY <1>7, <1>11
  <1> HIDE DEF Has
  <1>12. ASSUME NEW i \in 1 .. N
         PROVE  IF i <= b + n THEN /\ result'[order[c][i]] \in {"own", "error"}
                                   /\ result'[order[c][i]] = "error" => s.failed
                              ELSE result'[order[c][i]] = "posted"
    <2>1. order[c][i] \in Ops /\ i \in 1 .. Len(order[c])
      BY <1>3 DEF N
    <2>2. CASE i <= b
      <3>1. ~(i > b) /\ i <= b + n
        BY <1>1, <2>2
      <3>2. ~Has(order[c][i])
        BY <1>9, <2>1, <3>1
      <3>3. QED BY <1>5, <1>11, <2>1, <2>2, <3>1, <3>2
    <2>3. CASE i > b /\ i <= b + n
      <3>1. i - b \in 1 .. n /\ b + (i - b) = i
        BY <1>1, <2>3
      <3>2. Has(order[c][i])
        BY <1>2, <3>1 DEF Has
      <3>3. QED BY <1>10, <2>1, <2>3, <3>2
    <2>4. CASE i > b + n
      <3>1. ~(i <= b) /\ ~(i <= b + n)
        BY <1>1, <2>4
      <3>2. ~Has(order[c][i])
        BY <1>9, <2>1, <3>1
      <3>3. QED BY <1>5, <1>11, <2>1, <3>1, <3>2
    <2>5. QED BY <1>1, <2>2, <2>3, <2>4
  <1>13. ASSUME NEW d \in PgConns, d # c, NEW i \in 1 .. Len(order[d])
         PROVE  result'[order[d][i]] = result[order[d][i]]
    <2>1. order[d][i] \in Ops /\ ~Has(order[d][i])
      BY <1>3, <1>9, <1>13
    <2>2. QED BY <1>11, <2>1
  <1>14. result' \in [Ops -> R]
    <2>1. \A o \in Ops : result'[o] \in R
      <3> SUFFICES ASSUME NEW o \in Ops PROVE result'[o] \in R
        OBVIOUS
      <3>1. CASE Has(o)
        BY <1>10, <3>1
      <3>2. CASE ~Has(o)
        BY <1>6, <1>11, <3>2
      <3>3. QED BY <3>1, <3>2
    <2> HIDE DEF R
    <2>2. QED BY <1>7, <2>1
  <1>15. QED BY <1>12, <1>13, <1>14 DEF b, n, N

\* The io thread has made s of the connection c and m operations are taken now.
LEMMA BecameKeeps ==
    ASSUME PgInv, NEW c \in PgConns, NEW s, NEW m \in Nat, Goes(c, s, EndedCount(c), m),
           con[c].failed => s.failed, m <= Len(order[c]), Became(c, s),
           order' = order, Taken(c)' = m, \A d \in PgConns : d # c => io'[d] = io[d]
    PROVE  /\ con' \in [PgConns -> ConState] /\ (con'[c].conn # "ok" => con'[c].failed)
           /\ con'[c].done = <<>> /\ EndedCount(c)' \in Nat
           /\ Tracks(c, con[c], EndedCount(c), Taken(c))'
           /\ \A d \in PgConns : d # c => con'[d] = con[d] /\ ConnOK(d)'
           /\ result' \in [Ops -> {"none", "dropped", "posted", "own", "other", "error"}]
           /\ ResultInv' /\ PostedOnce'
  <1> DEFINE b == EndedCount(c)
             n == Len(s.done)
             t == [s EXCEPT !.done = <<>>]
             p == Len(s.pending_ops)
             N == Len(order[c])
  <1>1. s \in ConState /\ Tracks(c, s, b + n, m) /\ Reports(c, s, b) /\ (s.conn # "ok" => s.failed)
    BY DEF Goes, Tracks
  <1>2. /\ t \in ConState /\ t.done = <<>> /\ t.conn = s.conn /\ t.pending_ops = s.pending_ops
        /\ t.op = s.op /\ t.busy = s.busy /\ t.waits = s.waits
        /\ (t.failed <=> s.failed) /\ (t.op_active <=> s.op_active)
    <2>1. <<>> \in Seq(Ops \X {"own", "other", "error"})
      OBVIOUS
    <2>2. QED BY <1>1, <2>1 DEF ConState
  <1>3. con \in [PgConns -> ConState]
    BY DEF PgInv, PgTypeOK
  <1>4. con' = [con EXCEPT ![c] = t]
    BY DEF Became
  <1>5. b \in Nat /\ n \in Nat /\ p \in Nat
    BY <1>1, Counts DEF ConState
  <1>6. Tracks(c, t, b + n, m)
    <2> HIDE DEF t, b, n, p
    <2>1. QED BY <1>1, <1>2 DEF Tracks
  <1>7. m = b + n + IF s.op_active THEN 1 + p ELSE 0
    <2>1. /\ s.op_active => m = b + n + 1 + p
          /\ ~s.op_active => m = b + n
      BY <1>1 DEF Tracks
    <2> HIDE DEF b, n, p
    <2>2. QED BY <1>5, <2>1
  <1>8. EndedCount(c)' = Taken(c)' - IF con'[c].op_active THEN 1 + Len(con'[c].pending_ops) ELSE 0
    BY DEF EndedCount
  <1> HIDE DEF t, n, b, p, N
  <1>9. con'[c] = t /\ con' \in [PgConns -> ConState] /\ \A d \in PgConns : d # c => con'[d] = con[d]
    BY <1>2, <1>3, <1>4
  <1>10. Len(t.pending_ops) = p
    BY <1>2 DEF p
  <1>11. EndedCount(c)' = m - IF s.op_active THEN 1 + p ELSE 0
    BY <1>2, <1>8, <1>9, <1>10
  <1>12. EndedCount(c)' = b + n /\ b + n <= m
    BY <1>5, <1>7, <1>11
  <1>13. Tracks(c, con[c], EndedCount(c), Taken(c))'
    <2>1. Tracks(c, con[c], EndedCount(c), Taken(c))' <=> Tracks(c, t, b + n, m)
      BY <1>9, <1>12 DEF Tracks
    <2>2. QED BY <1>6, <2>1
  <1>14. /\ result' \in [Ops -> {"none", "dropped", "posted", "own", "other", "error"}]
         /\ \A i \in 1 .. N :
                IF i <= b + n
                THEN /\ result'[order[c][i]] \in {"own", "error"}
                     /\ result'[order[c][i]] = "error" => s.failed
                ELSE result'[order[c][i]] = "posted"
         /\ \A d \in PgConns : d # c =>
                \A i \in 1 .. Len(order[d]) : result'[order[d][i]] = result[order[d][i]]
    <2>1. Reports(c, s, EndedCount(c)) /\ EndedCount(c) + Len(s.done) <= m
      BY <1>1, <1>12 DEF b, n
    <2>2. QED BY <1>1, <2>1, BecameResults DEF b, n, N
  <1>15. ResultInv'
    <2> SUFFICES ASSUME NEW d \in PgConns PROVE ResultOK(d)'
      BY DEF ResultInv
    <2>1. CASE d = c
      <3>1. con'[c].failed <=> s.failed
        BY <1>2, <1>9
      <3>2. QED BY <1>12, <1>14, <2>1, <3>1 DEF ResultOK, N
    <2>2. CASE d # c
      <3>1. EndedCount(d)' = EndedCount(d) /\ con'[d] = con[d]
        BY <1>9, <2>2, LeftAlone
      <3>2. ResultOK(d)
        BY DEF PgInv, ResultInv
      <3>3. QED BY <1>14, <2>2, <3>1, <3>2 DEF ResultOK
    <2>3. QED BY <2>1, <2>2
  <1>16. ASSUME NEW d \in PgConns, d # c PROVE con'[d] = con[d] /\ ConnOK(d)'
    <2>1. ConnOK(d) /\ con'[d] = con[d]
      BY <1>9, <1>16 DEF PgInv, ConnInv
    <2>2. QED BY <1>16, <2>1, LeftAlone
  <1>17. PostedOnce'
    BY DEF PgInv, PostedOnce
  <1>18. con'[c].done = <<>> /\ EndedCount(c)' \in Nat /\ (con'[c].conn # "ok" => con'[c].failed)
    BY <1>1, <1>2, <1>5, <1>9, <1>12
  <1>19. QED BY <1>9, <1>13, <1>14, <1>15, <1>16, <1>17, <1>18

\* A step of the io thread keeps the invariant, when what it leaves posted is
\* what follows the operations that are taken.
LEMMA IoKeeps ==
    ASSUME PgInv, NEW c \in PgConns, NEW s, NEW m \in Nat, Goes(c, s, EndedCount(c), m),
           con[c].failed => s.failed, m <= Len(order[c]), Became(c, s),
           order' = order, g_pg_conn' = g_pg_conn, Taken(c)' = m,
           io' \in [PgConns -> Seq(IoClosure)],
           opened' \in [PgConns -> {"new", "called", "ok", "failed", "global"}],
           \A d \in PgConns : d # c => io'[d] = io[d] /\ opened'[d] = opened[d],
           \A i \in 1 .. Sends(c)' : io'[c][i] = <<"send", order[c][m + i]>>,
           (con'[c].conn # "ok" => con'[c].failed) => OpenOK(c)'
    PROVE  PgInv'
  <1>1. /\ con' \in [PgConns -> ConState] /\ (con'[c].conn # "ok" => con'[c].failed)
        /\ con'[c].done = <<>> /\ EndedCount(c)' \in Nat
        /\ Tracks(c, con[c], EndedCount(c), Taken(c))'
        /\ \A d \in PgConns : d # c => con'[d] = con[d] /\ ConnOK(d)'
        /\ result' \in [Ops -> {"none", "dropped", "posted", "own", "other", "error"}]
        /\ ResultInv' /\ PostedOnce'
    BY BecameKeeps
  <1>2. PgTypeOK'
    BY <1>1 DEF PgInv, PgTypeOK, IoClosure
  <1>3. ConnOK(c)'
    BY <1>1 DEF ConnOK
  <1>4. ConnInv'
    BY <1>1, <1>3 DEF ConnInv
  <1>5. OpenInv'
    <2> SUFFICES ASSUME NEW d \in PgConns PROVE OpenOK(d)'
      BY DEF OpenInv
    <2>1. CASE d = c
      BY <1>1, <2>1
    <2>2. CASE d # c
      <3>1. OpenOK(d)
        BY DEF PgInv, OpenInv
      <3>2. con'[d] = con[d] /\ io'[d] = io[d] /\ opened'[d] = opened[d]
        BY <1>1, <2>2
      <3>3. QED BY <3>1, <3>2 DEF OpenOK
    <2>3. QED BY <2>1, <2>2
  <1>6. QED BY <1>1, <1>2, <1>4, <1>5 DEF PgInv, PgConstants

\* The state of a connection before a step.
LEMMA ConnFacts ==
    ASSUME PgInv, NEW c \in PgConns
    PROVE  /\ con[c].done = <<>> /\ Tracks(c, con[c], EndedCount(c), Taken(c))
           /\ \A i \in 1 .. Sends(c) : io[c][i] = <<"send", order[c][Taken(c) + i]>>
           /\ OpenOK(c)
           /\ con[c].op_active => con[c].op \in Ops /\ con[c].op # NoOp
  <1>1. /\ con[c].done = <<>> /\ Tracks(c, con[c], EndedCount(c), Taken(c))
        /\ \A i \in 1 .. Sends(c) : io[c][i] = <<"send", order[c][Taken(c) + i]>>
        /\ OpenOK(c)
    BY DEF PgInv, ConnInv, ConnOK, OpenInv
  <1>2. con[c].op_active => con[c].op \in Ops
    <2> DEFINE k == EndedCount(c) + 1
    <2>1. con[c].op_active => k \in 1 .. Len(order[c])
      <3> DEFINE b == EndedCount(c)
                 t == Taken(c)
                 n == Len(order[c])
      <3>1. b \in Nat /\ t \in Nat /\ n \in Nat /\ t <= n /\ (con[c].op_active => b < t)
        BY Counts
      <3> HIDE DEF b, t, n
      <3>2. QED BY <3>1 DEF b, n
    <2>2. con[c].op_active => con[c].op = order[c][k]
      BY <1>1 DEF Tracks
    <2>3. order[c] \in Seq(Ops)
      BY Counts
    <2> HIDE DEF k
    <2>4. QED BY <2>1, <2>2, <2>3
  <1>3. \A o \in Ops : o # NoOp
    BY DEF PgInv, PgConstants, NoOp
  <1>4. QED BY <1>1, <1>2, <1>3

\* The handlers of async_wait leave the closures alone.
LEMMA WaitKeeps ==
    ASSUME PgInv, NEW c \in PgConns, NEW s, Goes(c, s, EndedCount(c), Taken(c)),
           con[c].failed => s.failed, Became(c, s), UNCHANGED <<io, opened, g_pg_conn, order>>
    PROVE  PgInv'
  <1>1. Taken(c)' = Taken(c) /\ Sends(c)' = Sends(c)
    BY DEF Taken, Sends
  <1>2. Taken(c) \in Nat /\ Taken(c) <= Len(order[c])
    BY Counts
  <1>3. \A i \in 1 .. Sends(c) : io[c][i] = <<"send", order[c][Taken(c) + i]>>
    BY ConnFacts
  <1>4. (con'[c].conn # "ok" => con'[c].failed) => OpenOK(c)'
    <2>1. OpenOK(c)
      BY ConnFacts
    <2>2. QED BY <2>1 DEF OpenOK
  <1>5. /\ io' \in [PgConns -> Seq(IoClosure)]
        /\ opened' \in [PgConns -> {"new", "called", "ok", "failed", "global"}]
    BY DEF PgInv, PgTypeOK, IoClosure
  <1> DEFINE m == Taken(c)
  <1>6. Goes(c, s, EndedCount(c), m) /\ Taken(c)' = m /\ m \in Nat /\ m <= Len(order[c])
    BY <1>1, <1>2
  <1>7. \A i \in 1 .. Sends(c)' : io'[c][i] = <<"send", order[c][m + i]>>
    BY <1>1, <1>3
  <1> HIDE DEF m
  <1>8. QED BY <1>4, <1>5, <1>6, <1>7, IoKeeps

\* A wait is that of an operation under way.
LEMMA WaitsUnderWay ==
    ASSUME PgInv, NEW c \in PgConns, con[c].waits # "no"
    PROVE  /\ con[c].op_active /\ con[c].op \in Ops /\ con[c].op # NoOp
           /\ con[c].conn # "ok" => con[c].failed
  <1>1. con[c].op_active /\ con[c].op \in Ops /\ con[c].op # NoOp
    BY ConnFacts DEF Tracks
  <1>2. order[c] # <<>>
    <2> DEFINE b == EndedCount(c)
               t == Taken(c)
               n == Len(order[c])
    <2>1. b \in Nat /\ t \in Nat /\ n \in Nat /\ t <= n /\ b < t
      BY <1>1, Counts
    <2>2. n # 0
      <3> HIDE DEF b, t, n
      <3>1. QED BY <2>1
    <2>3. QED BY <2>2
  <1>3. OpenOK(c)
    BY ConnFacts
  <1>4. QED BY <1>1, <1>2, <1>3 DEF OpenOK

LEMMA SocketReadyKeeps ==
    ASSUME PgInv, NEW c \in PgConns, SocketReady(c)
    PROVE  PgInv'
  <1>1. con[c].waits # "no" /\ UNCHANGED <<io, opened, g_pg_conn, order>>
    BY DEF SocketReady
  <1>2. PICK full \in BOOLEAN : Became(c, ContinueOp(con[c], full))
    BY DEF SocketReady
  <1>3. /\ con[c].op_active /\ con[c].op \in Ops /\ con[c].op # NoOp
        /\ con[c].conn # "ok" => con[c].failed
    BY <1>1, WaitsUnderWay
  <1>4. /\ con[c].done = <<>> /\ Tracks(c, con[c], EndedCount(c), Taken(c))
        /\ EndedCount(c) \in Nat /\ Taken(c) \in Nat
    BY ConnFacts, Counts
  <1>5. /\ Goes(c, ContinueOp(con[c], full), EndedCount(c), Taken(c))
        /\ con[c].failed => ContinueOp(con[c], full).failed
    BY <1>3, <1>4, ContinueOpGoes
  <1>6. QED BY <1>1, <1>2, <1>5, WaitKeeps

LEMMA SocketErrorKeeps ==
    ASSUME PgInv, NEW c \in PgConns, SocketError(c)
    PROVE  PgInv'
  <1>1. con[c].waits # "no" /\ UNCHANGED <<io, opened, g_pg_conn, order>>
    BY DEF SocketError
  <1>2. PICK full \in BOOLEAN : Became(c, WaitFailed([con[c] EXCEPT !.failed = TRUE], full))
    BY DEF SocketError
  <1>3. con[c].op_active /\ con[c].op \in Ops
    BY <1>1, WaitsUnderWay
  <1>4. /\ con[c].done = <<>> /\ Tracks(c, con[c], EndedCount(c), Taken(c))
        /\ EndedCount(c) \in Nat /\ Taken(c) \in Nat
    BY ConnFacts, Counts
  <1> DEFINE r == WaitFailed([con[c] EXCEPT !.failed = TRUE], full)
  <1>5. Goes(c, r, EndedCount(c), Taken(c)) /\ r.failed
    BY <1>3, <1>4, WaitFailedGoes
  <1> HIDE DEF r
  <1>6. QED BY <1>1, <1>2, <1>5, WaitKeeps DEF r

LEMMA NonEmptySeq ==
    ASSUME NEW q \in Seq(IoClosure), q # <<>>
    PROVE  /\ Len(q) \in Nat /\ Len(q) > 0 /\ Head(q) = q[1] /\ Head(q) \in IoClosure
           /\ Tail(q) \in Seq(IoClosure) /\ Len(Tail(q)) = Len(q) - 1
           /\ \A i \in 1 .. Len(q) - 1 : Tail(q)[i] = q[i + 1]
           /\ Len(q) = 1 => Tail(q) = <<>>
  <1>1. /\ Len(q) \in Nat /\ Len(q) > 0 /\ Head(q) = q[1] /\ Head(q) \in IoClosure
        /\ Tail(q) \in Seq(IoClosure) /\ Len(Tail(q)) = Len(q) - 1
        /\ \A i \in 1 .. Len(q) - 1 : Tail(q)[i] = q[i + 1]
    OBVIOUS
  <1>2. ASSUME Len(q) = 1 PROVE Tail(q) = <<>>
    <2>1. Len(Tail(q)) = 0
      BY <1>1, <1>2
    <2>2. QED BY <1>1, <2>1, EmptySeq
  <1>3. QED BY <1>1, <1>2

\* A connect and a close are run when no operation is posted before or after them.
LEMMA HeadFacts ==
    ASSUME PgInv, NEW c \in PgConns, io[c] # <<>>
    PROVE  /\ Head(io[c]) = io[c][1]
           /\ Head(io[c])[1] = "send" => opened[c] = "global" /\ Sends(c) > 0
           /\ Head(io[c])[1] # "send" => /\ Sends(c) = 0 /\ Tail(io[c]) = <<>>
                                         /\ \/ opened[c] = "called" /\ Head(io[c])[1] = "connect"
                                            \/ opened[c] = "global" /\ Head(io[c])[1] = "close"
  <1> DEFINE q == io[c]
             n == Len(q)
             k == Sends(c)
  <1>1. q \in Seq(IoClosure) /\ k \in Nat /\ OpenOK(c)
    BY Counts, ConnFacts
  <1>2. n \in Nat /\ n > 0 /\ Head(q) = q[1] /\ (n = 1 => Tail(q) = <<>>)
    BY <1>1, NonEmptySeq
  <1>3. k = IF q[n][1] # "send" THEN n - 1 ELSE n
    BY DEF Sends, SendsOf
  <1>4. \A i \in 1 .. k : q[i][1] = "send"
    BY ConnFacts
  <1>5. opened[c] \in {"new", "called", "ok", "failed", "global"}
    BY DEF PgInv, PgTypeOK
  <1>6. opened[c] = "called" \/ opened[c] = "global"
    BY <1>1, <1>5 DEF OpenOK
  <1>7. opened[c] = "called" => q = << <<"connect", NoOp>> >>
    BY <1>1 DEF OpenOK
  <1>8. opened[c] = "global" /\ q[n][1] # "send" => q[n] = <<"close", NoOp>>
    BY <1>1 DEF OpenOK
  <1> SUFFICES /\ Head(q) = q[1]
               /\ q[1][1] = "send" => opened[c] = "global" /\ k > 0
               /\ q[1][1] # "send" => /\ k = 0 /\ n = 1
                                      /\ \/ opened[c] = "called" /\ q[1][1] = "connect"
                                         \/ opened[c] = "global" /\ q[1][1] = "close"
    BY <1>2
  <1>9. opened[c] = "called" => q[1][1] = "connect" /\ n = 1
    <2>1. << <<"connect", NoOp>> >>[1][1] = "connect" /\ Len(<< <<"connect", NoOp>> >>) = 1
      OBVIOUS
    <2>2. QED BY <1>7, <2>1
  <1> HIDE DEF q, n, k
  <1>10. CASE k > 0
    <2>1. q[1][1] = "send"
      BY <1>1, <1>4, <1>10
    <2>2. QED BY <1>2, <1>6, <1>9, <1>10, <2>1
  <1>11. CASE k = 0
    <2>1. n = 1 /\ q[n][1] # "send"
      BY <1>2, <1>3, <1>11
    <2>2. QED BY <1>2, <1>6, <1>8, <1>9, <1>11, <2>1
  <1>12. QED BY <1>1, <1>10, <1>11

\* Taking the last closure leaves nothing.
LEMMA TakesLast ==
    ASSUME PgInv, NEW c \in PgConns, io[c] # <<>>, Head(io[c])[1] # "send",
           io' = [io EXCEPT ![c] = Tail(@)], order' = order
    PROVE  /\ io'[c] = <<>> /\ io' \in [PgConns -> Seq(IoClosure)]
           /\ \A d \in PgConns : d # c => io'[d] = io[d]
           /\ Sends(c)' = 0 /\ Taken(c)' = Taken(c)
           /\ Taken(c) \in Nat /\ Taken(c) <= Len(order[c])
  <1>1. io \in [PgConns -> Seq(IoClosure)]
    BY DEF PgInv, PgTypeOK, IoClosure
  <1>2. Tail(io[c]) = <<>> /\ Sends(c) = 0
    BY HeadFacts
  <1>3. <<>> \in Seq(IoClosure)
    OBVIOUS
  <1>4. io' = [io EXCEPT ![c] = <<>>]
    BY <1>1, <1>2
  <1>5. io'[c] = <<>> /\ io' \in [PgConns -> Seq(IoClosure)] /\ \A d \in PgConns : d # c => io'[d] = io[d]
    BY <1>1, <1>3, <1>4
  <1>6. Sends(c)' = 0
    BY <1>5 DEF Sends, SendsOf
  <1>7. Taken(c)' = Taken(c)
    BY <1>2, <1>6 DEF Taken
  <1>8. QED BY <1>5, <1>6, <1>7, Counts

LEMMA RunConnectKeeps ==
    ASSUME PgInv, NEW c \in PgConns, RunConnect(c)
    PROVE  PgInv'
  <1>1. /\ io[c] # <<>> /\ Head(io[c])[1] = "connect" /\ io' = [io EXCEPT ![c] = Tail(@)]
        /\ g_pg_conn' = g_pg_conn /\ order' = order
    BY DEF RunConnect
  <1>2. PICK ok \in BOOLEAN : /\ Became(c, ConnectSync(con[c], ok))
                              /\ opened' = [opened EXCEPT ![c] = IF ok THEN "ok" ELSE "failed"]
    BY DEF RunConnect
  <1>3. opened[c] = "called"
    BY <1>1, HeadFacts
  <1>4. /\ io'[c] = <<>> /\ io' \in [PgConns -> Seq(IoClosure)]
        /\ \A d \in PgConns : d # c => io'[d] = io[d]
        /\ Sends(c)' = 0 /\ Taken(c)' = Taken(c)
        /\ Taken(c) \in Nat /\ Taken(c) <= Len(order[c])
    BY <1>1, TakesLast
  <1>5. order[c] = <<>> /\ g_pg_conn # c
    BY <1>3, ConnFacts DEF OpenOK
  <1>6. ~con[c].op_active
    <2> DEFINE b == EndedCount(c)
               t == Taken(c)
    <2>1. Len(order[c]) = 0
      BY <1>5
    <2>2. b \in Nat /\ t \in Nat /\ t <= 0 /\ (con[c].op_active => b < t)
      BY <1>4, <2>1, Counts
    <2> HIDE DEF b, t
    <2>3. QED BY <2>2
  <1>7. /\ con[c].done = <<>> /\ Tracks(c, con[c], EndedCount(c), Taken(c))
        /\ EndedCount(c) \in Nat /\ con[c] \in ConState
    BY ConnFacts, Counts
  <1> DEFINE s == ConnectSync(con[c], ok)
  <1>8. /\ s \in ConState /\ s.done = con[c].done /\ s.pending_ops = con[c].pending_ops
        /\ s.waits = con[c].waits /\ s.busy = con[c].busy /\ ~s.op_active
        /\ (con[c].failed => s.failed) /\ (s.conn # "ok" => s.failed)
    BY <1>6, <1>7 DEF ConnectSync, ConState
  <1> HIDE DEF s
  <1>9. Tracks(c, s, EndedCount(c), Taken(c))
    BY <1>6, <1>7, <1>8 DEF Tracks
  <1>10. Goes(c, s, EndedCount(c), Taken(c))
    BY <1>4, <1>7, <1>8, <1>9, StaysGoes
  <1>11. opened \in [PgConns -> {"new", "called", "ok", "failed", "global"}]
    BY DEF PgInv, PgTypeOK
  <1>12. /\ opened' \in [PgConns -> {"new", "called", "ok", "failed", "global"}]
         /\ opened'[c] \in {"ok", "failed"} /\ \A d \in PgConns : d # c => opened'[d] = opened[d]
    BY <1>2, <1>11
  <1>13. (con'[c].conn # "ok" => con'[c].failed) => OpenOK(c)'
    BY <1>1, <1>4, <1>5, <1>12 DEF OpenOK
  <1>14. Became(c, s)
    BY <1>2 DEF s
  <1> DEFINE m == Taken(c)
  <1>15. Goes(c, s, EndedCount(c), m) /\ Taken(c)' = m /\ m \in Nat /\ m <= Len(order[c])
    BY <1>4, <1>10
  <1> HIDE DEF m
  <1>16. \A i \in 1 .. Sends(c)' : io'[c][i] = <<"send", order[c][m + i]>>
    BY <1>4
  <1>17. QED BY <1>1, <1>4, <1>8, <1>12, <1>13, <1>14, <1>15, <1>16, IoKeeps

LEMMA RunCloseKeeps ==
    ASSUME PgInv, NEW c \in PgConns, RunClose(c)
    PROVE  PgInv'
  <1>1. /\ io[c] # <<>> /\ Head(io[c])[1] = "close" /\ io' = [io EXCEPT ![c] = Tail(@)]
        /\ g_pg_conn' = g_pg_conn /\ order' = order /\ opened' = opened
        /\ Became(c, CloseSync(con[c]))
    BY DEF RunClose
  <1>2. opened[c] = "global"
    BY <1>1, HeadFacts
  <1>3. /\ io'[c] = <<>> /\ io' \in [PgConns -> Seq(IoClosure)]
        /\ \A d \in PgConns : d # c => io'[d] = io[d]
        /\ Sends(c)' = 0 /\ Taken(c)' = Taken(c)
        /\ Taken(c) \in Nat /\ Taken(c) <= Len(order[c])
    BY <1>1, TakesLast
  <1>4. /\ con[c].done = <<>> /\ Tracks(c, con[c], EndedCount(c), Taken(c))
        /\ EndedCount(c) \in Nat /\ con[c] \in ConState
    BY ConnFacts, Counts
  <1> DEFINE s == CloseSync(con[c])
  <1>5. /\ s \in ConState /\ s.done = con[c].done /\ s.pending_ops = con[c].pending_ops
        /\ s.waits = con[c].waits /\ s.op = con[c].op /\ s.conn = "null" /\ s.failed
        /\ (s.op_active <=> con[c].op_active)
    BY <1>4 DEF CloseSync, ConState, NoOp
  <1> HIDE DEF s
  <1>6. Tracks(c, s, EndedCount(c), Taken(c))
    BY <1>4, <1>5 DEF Tracks
  <1>7. Goes(c, s, EndedCount(c), Taken(c))
    BY <1>3, <1>4, <1>5, <1>6, StaysGoes
  <1>8. opened' \in [PgConns -> {"new", "called", "ok", "failed", "global"}]
    BY <1>1 DEF PgInv, PgTypeOK
  <1>9. (con'[c].conn # "ok" => con'[c].failed) => OpenOK(c)'
    BY <1>1, <1>2, <1>3 DEF OpenOK
  <1>10. Became(c, s)
    BY <1>1 DEF s
  <1> DEFINE m == Taken(c)
  <1>11. Goes(c, s, EndedCount(c), m) /\ Taken(c)' = m /\ m \in Nat /\ m <= Len(order[c])
    BY <1>3, <1>7
  <1> HIDE DEF m
  <1>12. \A i \in 1 .. Sends(c)' : io'[c][i] = <<"send", order[c][m + i]>>
    BY <1>3
  <1>13. QED BY <1>1, <1>3, <1>5, <1>8, <1>9, <1>10, <1>11, <1>12, IoKeeps

LEMMA RunSendKeeps ==
    ASSUME PgInv, NEW c \in PgConns, RunSend(c)
    PROVE  PgInv'
  <1>1. /\ io[c] # <<>> /\ Head(io[c])[1] = "send" /\ io' = [io EXCEPT ![c] = Tail(@)]
        /\ g_pg_conn' = g_pg_conn /\ order' = order /\ opened' = opened
    BY DEF RunSend
  <1> DEFINE o == Head(io[c])[2]
             k == Sends(c)
             m == Taken(c)
             q == io[c]
  <1>2. PICK full \in BOOLEAN : Became(c, StartSend(con[c], o, full))
    BY DEF RunSend
  <1>3. opened[c] = "global" /\ k > 0 /\ Head(q) = q[1]
    BY <1>1, HeadFacts
  <1>4. io \in [PgConns -> Seq(IoClosure)] /\ q \in Seq(IoClosure)
    BY DEF PgInv, PgTypeOK, IoClosure
  <1>5. /\ Tail(q) \in Seq(IoClosure) /\ Len(q) \in Nat
        /\ \A i \in 1 .. Len(q) - 1 : Tail(q)[i] = q[i + 1]
    BY <1>1, <1>4, NonEmptySeq
  <1>6. SendsOf(Tail(q)) = SendsOf(q) - 1
    BY <1>1, <1>3, <1>4, SendsTail
  <1>7. /\ io' \in [PgConns -> Seq(IoClosure)] /\ io'[c] = Tail(q)
        /\ \A d \in PgConns : d # c => io'[d] = io[d]
    BY <1>1, <1>4, <1>5
  <1>8. Sends(c)' = k - 1
    BY <1>6, <1>7 DEF Sends
  <1>9. /\ k \in Nat /\ m \in Nat /\ Len(order[c]) \in Nat /\ m + k = Len(order[c])
        /\ EndedCount(c) \in Nat
    BY Counts
  <1>10. Taken(c)' = Len(order[c]) - (k - 1) /\ k <= Len(q)
    <2>1. k <= Len(q)
      BY <1>5 DEF Sends, SendsOf
    <2>2. QED BY <1>1, <1>8, <2>1 DEF Taken
  <1>11. /\ con[c].done = <<>> /\ Tracks(c, con[c], EndedCount(c), m)
         /\ \A i \in 1 .. k : q[i] = <<"send", order[c][m + i]>>
         /\ con[c].conn # "ok" => con[c].failed
    BY <1>3, ConnFacts DEF OpenOK
  <1>12. OpenOK(c) /\ order[c] \in Seq(Ops)
    BY ConnFacts, Counts
  <1> DEFINE N == Len(order[c])
             L == Len(q)
  <1>13. N \in Nat /\ L \in Nat /\ Taken(c)' = N - (k - 1) /\ k <= L /\ m + k = N
         /\ \A i \in 1 .. L - 1 : Tail(q)[i] = q[i + 1]
    BY <1>5, <1>9, <1>10
  <1>14. \A i \in 1 .. N : order[c][i] \in Ops
    BY <1>12
  <1>15. Head(q) = <<"send", order[c][m + 1]>> => o = order[c][m + 1]
    OBVIOUS
  <1> HIDE DEF k, m, N, L, q, o
  <1>16. k \in Nat /\ m \in Nat /\ L \in Nat /\ N \in Nat /\ k <= L /\ m + k = N /\ k > 0
    BY <1>3, <1>9, <1>13
  <1>17. m + 1 \in 1 .. N /\ Taken(c)' = m + 1 /\ m + 1 <= N
    BY <1>13, <1>16
  <1>18. o = order[c][m + 1] /\ o \in Ops
    BY <1>3, <1>9, <1>11, <1>14, <1>15, <1>17
  <1> DEFINE s == StartSend(con[c], o, full)
  <1>19. Goes(c, s, EndedCount(c), m + 1) /\ (con[c].failed => s.failed)
    BY <1>9, <1>11, <1>18, StartSendGoes
  <1>20. \A i \in 1 .. Sends(c)' : io'[c][i] = <<"send", order[c][m + 1 + i]>>
    <2> HIDE DEF s
    <2>0. 1 .. Sends(c)' = 1 .. k - 1
      BY <1>8
    <2> SUFFICES ASSUME NEW i \in 1 .. k - 1 PROVE io'[c][i] = <<"send", order[c][m + 1 + i]>>
      BY <2>0
    <2>1. i \in 1 .. L - 1 /\ i + 1 \in 1 .. k /\ m + (i + 1) = m + 1 + i
      BY <1>16
    <2>2. io'[c][i] = q[i + 1]
      BY <1>7, <1>13, <2>1
    <2>3. QED BY <1>11, <2>1, <2>2
  <1>21. (con'[c].conn # "ok" => con'[c].failed) => OpenOK(c)'
    <2>1. ASSUME Tail(q) # <<>> PROVE Tail(q)[Len(Tail(q))] = q[Len(q)]
      <3> DEFINE p == Tail(q)
      <3>1. q \in Seq(IoClosure) /\ q # <<>>
        BY <1>1, <1>4 DEF q
      <3>2. Len(p) = Len(q) - 1 /\ Len(p) \in Nat /\ Len(q) \in Nat /\ Len(p) # 0
            /\ \A i \in 1 .. Len(q) - 1 : p[i] = q[i + 1]
        BY <2>1, <3>1, NonEmptySeq, EmptySeq
      <3> HIDE DEF p
      <3>3. Len(p) \in 1 .. Len(q) - 1 /\ Len(p) + 1 = Len(q)
        BY <3>2
      <3>4. p[Len(p)] = q[Len(q)]
        BY <3>2, <3>3
      <3>5. QED BY <3>4 DEF p
    <2>2. q = io[c]
      BY DEF q
    <2>3. QED BY <1>1, <1>3, <1>7, <1>12, <2>1, <2>2 DEF OpenOK
  <1>22. opened' \in [PgConns -> {"new", "called", "ok", "failed", "global"}]
    BY <1>1 DEF PgInv, PgTypeOK
  <1>23. m + 1 \in Nat /\ m + 1 <= Len(order[c]) /\ Became(c, s)
    BY <1>2, <1>9, <1>17 DEF N
  <1> HIDE DEF s
  <1> DEFINE M == m + 1
  <1>24. /\ Goes(c, s, EndedCount(c), M) /\ M \in Nat /\ M <= Len(order[c]) /\ Taken(c)' = M
         /\ \A i \in 1 .. Sends(c)' : io'[c][i] = <<"send", order[c][M + i]>>
    BY <1>17, <1>19, <1>20, <1>23
  <1> HIDE DEF M
  <1>25. /\ \A d \in PgConns : d # c => io'[d] = io[d] /\ opened'[d] = opened[d]
         /\ con[c].failed => s.failed
         /\ io' \in [PgConns -> Seq(IoClosure)] /\ order' = order /\ g_pg_conn' = g_pg_conn
    BY <1>1, <1>7, <1>19
  <1>26. Became(c, s)
    BY <1>23
  <1>27. QED BY <1>21, <1>22, <1>24, <1>25, <1>26, IoKeeps

----------------------------------------------------------------------------
(* The workers and the server.                                             *)

\* An invariant step that runs no callback and posts no operation.
LEMMA QuietKeeps ==
    ASSUME PgInv, PgTypeOK', UNCHANGED <<result, order>>,
           \A d \in PgConns : /\ ConnOK(d)' /\ OpenOK(d)' /\ EndedCount(d)' = EndedCount(d)
                              /\ con[d].failed => con'[d].failed
    PROVE  PgInv'
  <1>1. ResultInv'
    <2> SUFFICES ASSUME NEW d \in PgConns PROVE ResultOK(d)'
      BY DEF ResultInv
    <2>1. ResultOK(d)
      BY DEF PgInv, ResultInv
    <2>2. QED BY <2>1 DEF ResultOK
  <1>2. PostedOnce' /\ PgConstants'
    BY DEF PgInv, PostedOnce, PgConstants
  <1>3. QED BY <1>1, <1>2 DEF PgInv, ConnInv, OpenInv

LEMMA AsyncConnectKeeps ==
    ASSUME PgInv, NEW c \in PgConns, AsyncConnect(c)
    PROVE  PgInv'
  <1> DEFINE x == <<"connect", NoOp>>
  <1>1. /\ opened[c] = "new" /\ opened' = [opened EXCEPT ![c] = "called"]
        /\ io' = [io EXCEPT ![c] = Append(@, x)]
        /\ UNCHANGED <<con, g_pg_conn, result, order>>
    BY DEF AsyncConnect
  <1>2. /\ io \in [PgConns -> Seq(IoClosure)] /\ x \in IoClosure /\ PgTypeOK
        /\ opened \in [PgConns -> {"new", "called", "ok", "failed", "global"}]
    BY DEF PgInv, PgTypeOK, IoClosure
  <1>3. OpenOK(c) /\ ConnOK(c)
    BY DEF PgInv, OpenInv, ConnInv
  <1>4. io[c] = <<>> /\ order[c] = <<>> /\ g_pg_conn # c
    BY <1>1, <1>3 DEF OpenOK
  <1>5. Append(io[c], x) = <<x>> /\ Append(io[c], x) \in Seq(IoClosure)
    BY <1>2, <1>4
  <1>6. /\ io' \in [PgConns -> Seq(IoClosure)] /\ io'[c] = <<x>>
        /\ \A d \in PgConns : d # c => io'[d] = io[d]
    BY <1>1, <1>2, <1>5
  <1>7. /\ opened' \in [PgConns -> {"new", "called", "ok", "failed", "global"}]
        /\ opened'[c] = "called" /\ \A d \in PgConns : d # c => opened'[d] = opened[d]
    BY <1>1, <1>2
  <1>8. PgTypeOK'
    BY <1>1, <1>2, <1>6, <1>7 DEF PgTypeOK, IoClosure
  <1>9. Sends(c) = 0 /\ Sends(c)' = 0
    <2>1. SendsOf(io[c]) = 0
      BY <1>4 DEF SendsOf
    <2>2. SendsOf(<<x>>) = 0
      BY DEF SendsOf
    <2>3. QED BY <1>6, <2>1, <2>2 DEF Sends
  <1>10. ConnOK(c)' /\ EndedCount(c)' = EndedCount(c)
    <2>1. Taken(c)' = Taken(c)
      BY <1>1, <1>9 DEF Taken
    <2>2. EndedCount(c)' = EndedCount(c)
      BY <1>1, <2>1 DEF EndedCount
    <2>3. Tracks(c, con[c], EndedCount(c), Taken(c))'
      BY <1>1, <1>3, <2>1, <2>2 DEF ConnOK, Tracks
    <2>4. \A i \in 1 .. Sends(c)' : io'[c][i] = <<"send", order'[c][Taken(c)' + i]>>
      BY <1>9
    <2>5. QED BY <1>1, <1>3, <2>2, <2>3, <2>4 DEF ConnOK
  <1>11. OpenOK(c)'
    BY <1>1, <1>4, <1>6, <1>7 DEF OpenOK
  <1>12. ASSUME NEW d \in PgConns, d # c
         PROVE  ConnOK(d)' /\ OpenOK(d)' /\ EndedCount(d)' = EndedCount(d)
    <2>1. ConnOK(d) /\ OpenOK(d)
      BY DEF PgInv, OpenInv, ConnInv
    <2>2. ConnOK(d)' /\ EndedCount(d)' = EndedCount(d)
      BY <1>1, <1>6, <1>12, <2>1, LeftAlone
    <2>3. QED BY <1>1, <1>6, <1>7, <1>12, <2>1, <2>2 DEF OpenOK
  <1>13. QED BY <1>1, <1>8, <1>10, <1>11, <1>12, QuietKeeps

LEMMA ConnectCallbackKeeps ==
    ASSUME PgInv, NEW c \in PgConns, ConnectCallback(c)
    PROVE  PgInv'
  <1>1. /\ opened[c] = "ok" /\ opened' = [opened EXCEPT ![c] = "global"]
        /\ g_pg_conn' = c /\ UNCHANGED <<con, io, result, order>>
    BY DEF ConnectCallback
  <1>2. PgTypeOK /\ opened \in [PgConns -> {"new", "called", "ok", "failed", "global"}]
    BY DEF PgInv, PgTypeOK
  <1>3. /\ opened' \in [PgConns -> {"new", "called", "ok", "failed", "global"}]
        /\ opened'[c] = "global" /\ \A d \in PgConns : d # c => opened'[d] = opened[d]
    BY <1>1, <1>2
  <1>4. PgTypeOK'
    BY <1>1, <1>2, <1>3 DEF PgTypeOK
  <1>5. ASSUME NEW d \in PgConns
        PROVE  ConnOK(d)' /\ OpenOK(d)' /\ EndedCount(d)' = EndedCount(d)
    <2>1. ConnOK(d) /\ OpenOK(d)
      BY DEF PgInv, OpenInv, ConnInv
    <2>2. ConnOK(d)' /\ EndedCount(d)' = EndedCount(d)
      BY <1>1, <2>1, LeftAlone
    <2>3. CASE d = c
      <3>1. io[c] = <<>> /\ (con[c].conn # "ok" => con[c].failed)
        BY <1>1, <2>1, <2>3 DEF OpenOK
      <3>2. QED BY <1>1, <1>3, <2>2, <2>3, <3>1 DEF OpenOK
    <2>4. CASE d # c
      BY <1>1, <1>3, <2>1, <2>2, <2>4 DEF OpenOK
    <2>5. QED BY <2>3, <2>4
  <1>6. QED BY <1>1, <1>4, <1>5, QuietKeeps

LEMMA AppendFacts ==
    ASSUME NEW T, NEW q \in Seq(T), NEW x \in T
    PROVE  /\ Append(q, x) \in Seq(T) /\ Append(q, x) # <<>>
           /\ Len(Append(q, x)) = Len(q) + 1 /\ Len(q) \in Nat
           /\ \A i \in 1 .. Len(q) : Append(q, x)[i] = q[i]
           /\ Append(q, x)[Len(q) + 1] = x
  OBVIOUS

\* The global connection has no close posted to it.
LEMMA GlobalFacts ==
    ASSUME PgInv, g_pg_conn # 0
    PROVE  \E c \in PgConns : /\ c = g_pg_conn /\ opened[c] = "global"
                              /\ Sends(c) = Len(io[c]) /\ SendsOf(io[c]) = Len(io[c])
  <1> DEFINE c == g_pg_conn
  <1>1. c \in PgConns
    BY DEF PgInv, PgTypeOK
  <1>2. OpenOK(c)
    BY <1>1 DEF PgInv, OpenInv
  <1>3. opened[c] = "global" /\ (io[c] = <<>> \/ io[c][Len(io[c])][1] = "send")
    BY <1>2 DEF OpenOK
  <1>4. Sends(c) = Len(io[c]) /\ SendsOf(io[c]) = Len(io[c])
    BY <1>3 DEF Sends, SendsOf
  <1>5. QED BY <1>1, <1>3, <1>4

LEMMA AsyncCloseKeeps ==
    ASSUME PgInv, AsyncClose
    PROVE  PgInv'
  <1>1. PICK c \in PgConns : /\ c = g_pg_conn /\ opened[c] = "global"
                             /\ Sends(c) = Len(io[c]) /\ SendsOf(io[c]) = Len(io[c])
    BY GlobalFacts DEF AsyncClose
  <1> DEFINE x == <<"close", NoOp>>
             q == Append(io[c], x)
  <1>2. /\ g_pg_conn' = 0 /\ io' = [io EXCEPT ![c] = q]
        /\ UNCHANGED <<con, opened, result, order>>
    BY <1>1 DEF AsyncClose
  <1>3. /\ io \in [PgConns -> Seq(IoClosure)] /\ x \in IoClosure /\ x[1] # "send" /\ PgTypeOK
        /\ 0 \notin PgConns
    BY DEF PgInv, PgTypeOK, IoClosure, PgConstants
  <1>4. /\ io[c] \in Seq(IoClosure) /\ q \in Seq(IoClosure) /\ q # <<>>
        /\ Len(q) = Len(io[c]) + 1 /\ Len(io[c]) \in Nat
        /\ \A i \in 1 .. Len(io[c]) : q[i] = io[c][i]
        /\ q[Len(io[c]) + 1] = x
    <2>1. io[c] \in Seq(IoClosure) /\ x \in IoClosure
      BY <1>3
    <2> HIDE DEF x
    <2>2. QED BY <2>1, AppendFacts
  <1>5. SendsOf(q) = Len(io[c])
    BY <1>1, <1>3, <1>4, SendsAppend
  <1> HIDE DEF q
  <1>6. /\ io' \in [PgConns -> Seq(IoClosure)] /\ io'[c] = q
        /\ \A d \in PgConns : d # c => io'[d] = io[d]
    BY <1>2, <1>3, <1>4
  <1>7. PgTypeOK'
    BY <1>2, <1>3, <1>6 DEF PgTypeOK, IoClosure
  <1>8. Sends(c)' = Len(io[c])
    BY <1>5, <1>6 DEF Sends
  <1>9. ConnOK(c) /\ OpenOK(c)
    BY DEF PgInv, OpenInv, ConnInv
  <1>10. ConnOK(c)' /\ EndedCount(c)' = EndedCount(c)
    <2>1. Taken(c)' = Taken(c)
      BY <1>1, <1>2, <1>8 DEF Taken
    <2>2. EndedCount(c)' = EndedCount(c)
      BY <1>2, <2>1 DEF EndedCount
    <2>3. Tracks(c, con[c], EndedCount(c), Taken(c))'
      BY <1>2, <1>9, <2>1, <2>2 DEF ConnOK, Tracks
    <2>4. \A i \in 1 .. Len(io[c]) : io[c][i] = <<"send", order[c][Taken(c) + i]>>
      BY <1>1, <1>9 DEF ConnOK
    <2>5. \A i \in 1 .. Sends(c)' : io'[c][i] = <<"send", order'[c][Taken(c)' + i]>>
      BY <1>2, <1>4, <1>6, <1>8, <2>1, <2>4
    <2>6. QED BY <1>2, <1>9, <2>2, <2>3, <2>5 DEF ConnOK
  <1>11. q[Len(q)] = x
    BY <1>4
  <1>12. OpenOK(c)'
    BY <1>1, <1>2, <1>3, <1>6, <1>9, <1>11 DEF OpenOK
  <1>13. ASSUME NEW d \in PgConns, d # c
         PROVE  ConnOK(d)' /\ OpenOK(d)' /\ EndedCount(d)' = EndedCount(d)
    <2>1. ConnOK(d) /\ OpenOK(d)
      BY DEF PgInv, OpenInv, ConnInv
    <2>2. ConnOK(d)' /\ EndedCount(d)' = EndedCount(d)
      BY <1>2, <1>6, <1>13, <2>1, LeftAlone
    <2>3. QED BY <1>2, <1>3, <1>6, <1>13, <2>1, <2>2 DEF OpenOK
  <1>14. QED BY <1>2, <1>7, <1>10, <1>12, <1>13, QuietKeeps

\* The fields that the invariant speaks of.
LEMMA SameFields ==
    ASSUME PgInv, NEW c \in PgConns, NEW s \in ConState, con' = [con EXCEPT ![c] = s],
           s.conn = con[c].conn, s.pending_ops = con[c].pending_ops, s.op = con[c].op,
           s.busy = con[c].busy, s.waits = con[c].waits, s.done = con[c].done,
           s.op_active <=> con[c].op_active, s.failed <=> con[c].failed,
           UNCHANGED <<io, opened, g_pg_conn, result, order>>
    PROVE  PgInv'
  <1>1. con \in [PgConns -> ConState] /\ PgTypeOK
    BY DEF PgInv, PgTypeOK
  <1>2. con'[c] = s /\ con' \in [PgConns -> ConState] /\ \A d \in PgConns : d # c => con'[d] = con[d]
    BY <1>1
  <1>3. PgTypeOK'
    BY <1>1, <1>2 DEF PgTypeOK
  <1>4. ConnOK(c) /\ OpenOK(c)
    BY DEF PgInv, OpenInv, ConnInv
  <1>5. Sends(c)' = Sends(c) /\ Taken(c)' = Taken(c)
    BY DEF Sends, Taken
  <1>6. EndedCount(c)' = EndedCount(c)
    BY <1>2, <1>5 DEF EndedCount
  <1>7. ConnOK(c)'
    <2>1. Tracks(c, s, EndedCount(c), Taken(c))
      BY <1>4 DEF ConnOK, Tracks
    <2>2. Tracks(c, con[c], EndedCount(c), Taken(c))'
      BY <1>2, <1>5, <1>6, <2>1 DEF Tracks
    <2>3. QED BY <1>2, <1>4, <1>5, <1>6, <2>2 DEF ConnOK
  <1>8. OpenOK(c)' /\ (con[c].failed => con'[c].failed)
    BY <1>2, <1>4 DEF OpenOK
  <1>9. ASSUME NEW d \in PgConns, d # c
        PROVE  ConnOK(d)' /\ OpenOK(d)' /\ EndedCount(d)' = EndedCount(d)
    <2>1. ConnOK(d) /\ OpenOK(d)
      BY DEF PgInv, OpenInv, ConnInv
    <2>2. ConnOK(d)' /\ EndedCount(d)' = EndedCount(d)
      BY <1>2, <1>9, <2>1, LeftAlone
    <2>3. QED BY <1>2, <1>9, <2>1, <2>2 DEF OpenOK
  <1>10. QED BY <1>2, <1>3, <1>6, <1>7, <1>8, <1>9, QuietKeeps

LEMMA ServerKeeps ==
    ASSUME PgInv, NEW c \in PgConns, Replies(c) \/ LinkFails(c)
    PROVE  PgInv'
  <1>1. con \in [PgConns -> ConState] /\ con[c] \in ConState
    BY DEF PgInv, PgTypeOK
  <1>2. CASE Replies(c)
    <2> DEFINE s == [con[c] EXCEPT !.replied = TRUE]
    <2>1. con' = [con EXCEPT ![c] = s] /\ UNCHANGED <<io, opened, g_pg_conn, result, order>>
      BY <1>2 DEF Replies
    <2>2. /\ s \in ConState
          /\ s.conn = con[c].conn /\ s.pending_ops = con[c].pending_ops /\ s.op = con[c].op
          /\ s.busy = con[c].busy /\ s.waits = con[c].waits /\ s.done = con[c].done
          /\ (s.op_active <=> con[c].op_active) /\ (s.failed <=> con[c].failed)
      BY <1>1 DEF ConState
    <2> HIDE DEF s
    <2>3. QED BY <2>1, <2>2, SameFields
  <1>3. CASE LinkFails(c)
    <2> DEFINE s == [con[c] EXCEPT !.up = FALSE]
    <2>1. con' = [con EXCEPT ![c] = s] /\ UNCHANGED <<io, opened, g_pg_conn, result, order>>
      BY <1>3 DEF LinkFails
    <2>2. /\ s \in ConState
          /\ s.conn = con[c].conn /\ s.pending_ops = con[c].pending_ops /\ s.op = con[c].op
          /\ s.busy = con[c].busy /\ s.waits = con[c].waits /\ s.done = con[c].done
          /\ (s.op_active <=> con[c].op_active) /\ (s.failed <=> con[c].failed)
      BY <1>1 DEF ConState
    <2> HIDE DEF s
    <2>3. QED BY <2>1, <2>2, SameFields
  <1>4. QED BY <1>2, <1>3

\* An operation that was not made is in no connection's order.
LEMMA FreshOp ==
    ASSUME PgInv, NEW o \in Ops, result[o] = "none"
    PROVE  \A d \in PgConns : \A i \in 1 .. Len(order[d]) : order[d][i] # o
  <1> SUFFICES ASSUME NEW d \in PgConns, NEW i \in 1 .. Len(order[d]), order[d][i] = o PROVE FALSE
    OBVIOUS
  <1>1. ResultOK(d)
    BY DEF PgInv, ResultInv
  <1>2. result[order[d][i]] \in {"own", "error", "posted"}
    BY <1>1 DEF ResultOK
  <1>3. QED BY <1>2

LEMMA DroppedKeeps ==
    ASSUME PgInv, NEW o \in Ops, result[o] = "none", result' = [result EXCEPT ![o] = "dropped"],
           UNCHANGED <<con, io, opened, g_pg_conn, order>>
    PROVE  PgInv'
  <1>1. PgTypeOK /\ result \in [Ops -> {"none", "dropped", "posted", "own", "other", "error"}]
    BY DEF PgInv, PgTypeOK
  <1>2. /\ result' \in [Ops -> {"none", "dropped", "posted", "own", "other", "error"}]
        /\ \A p \in Ops : p # o => result'[p] = result[p]
    BY <1>1
  <1>3. PgTypeOK'
    BY <1>1, <1>2 DEF PgTypeOK
  <1>4. ASSUME NEW d \in PgConns PROVE ConnOK(d)' /\ OpenOK(d)' /\ ResultOK(d)'
    <2>1. ConnOK(d) /\ OpenOK(d) /\ ResultOK(d)
      BY DEF PgInv, OpenInv, ConnInv, ResultInv
    <2>2. ConnOK(d)' /\ EndedCount(d)' = EndedCount(d)
      BY <2>1, LeftAlone
    <2>3. OpenOK(d)'
      BY <2>1 DEF OpenOK
    <2>4. order[d] \in Seq(Ops)
      BY Counts
    <2>5. \A i \in 1 .. Len(order[d]) : order[d][i] \in Ops /\ order[d][i] # o
      BY <2>4, FreshOp
    <2>6. \A i \in 1 .. Len(order[d]) : result'[order[d][i]] = result[order[d][i]]
      BY <1>2, <2>5
    <2>7. ResultOK(d)'
      BY <2>1, <2>2, <2>6 DEF ResultOK
    <2>8. QED BY <2>2, <2>3, <2>7
  <1>5. PostedOnce' /\ PgConstants'
    BY DEF PgInv, PostedOnce, PgConstants
  <1>6. QED BY <1>3, <1>4, <1>5 DEF PgInv, ConnInv, OpenInv, ResultInv

\* An operation posted to the global connection follows the others.
LEMMA PostedKeeps ==
    ASSUME PgInv, NEW o \in Ops, result[o] = "none", NEW c \in PgConns, opened[c] = "global",
           Sends(c) = Len(io[c]), SendsOf(io[c]) = Len(io[c]),
           result' = [result EXCEPT ![o] = "posted"],
           io' = [io EXCEPT ![c] = Append(@, <<"send", o>>)],
           order' = [order EXCEPT ![c] = Append(@, o)],
           UNCHANGED <<con, opened, g_pg_conn>>
    PROVE  PgInv'
  <1> DEFINE x == <<"send", o>>
             q == Append(io[c], x)
             r == Append(order[c], o)
             N == Len(order[c])
             L == Len(io[c])
             R == {"none", "dropped", "posted", "own", "other", "error"}
  <1>1. /\ PgTypeOK /\ result \in [Ops -> R] /\ io \in [PgConns -> Seq(IoClosure)]
        /\ order \in [PgConns -> Seq(Ops)] /\ x \in IoClosure /\ x[1] = "send"
    BY DEF PgInv, PgTypeOK, IoClosure
  <1>2. io[c] \in Seq(IoClosure) /\ order[c] \in Seq(Ops)
    BY <1>1
  <1>3. SendsOf(q) = L + 1
    BY <1>1, <1>2, SendsAppend
  <1>4. /\ q \in Seq(IoClosure) /\ q # <<>> /\ Len(q) = L + 1 /\ L \in Nat
        /\ \A i \in 1 .. L : q[i] = io[c][i]
        /\ q[L + 1] = x
    <2> HIDE DEF x
    <2>1. QED BY <1>1, <1>2, AppendFacts
  <1>5. /\ r \in Seq(Ops) /\ Len(r) = N + 1 /\ N \in Nat
        /\ \A i \in 1 .. N : r[i] = order[c][i]
        /\ r[N + 1] = o
    BY <1>2, AppendFacts
  <1> HIDE DEF q, r
  <1>6. /\ io' \in [PgConns -> Seq(IoClosure)] /\ io'[c] = q
        /\ \A d \in PgConns : d # c => io'[d] = io[d]
    BY <1>1, <1>4 DEF q
  <1>7. /\ order' \in [PgConns -> Seq(Ops)] /\ order'[c] = r
        /\ \A d \in PgConns : d # c => order'[d] = order[d]
    BY <1>1, <1>5 DEF r
  <1>8. /\ result' \in [Ops -> R] /\ result'[o] = "posted"
        /\ \A p \in Ops : p # o => result'[p] = result[p]
    BY <1>1
  <1>9. PgTypeOK'
    BY <1>1, <1>6, <1>7, <1>8 DEF PgTypeOK, IoClosure
  <1>10. \A d \in PgConns : \A i \in 1 .. Len(order[d]) : order[d][i] \in Ops /\ order[d][i] # o
    BY <1>1, FreshOp
  <1>11. ConnOK(c) /\ OpenOK(c) /\ ResultOK(c)
    BY DEF PgInv, OpenInv, ConnInv, ResultInv
  <1> DEFINE b == EndedCount(c)
             m == Taken(c)
             p == Len(con[c].pending_ops)
  <1>12. /\ b \in Nat /\ m \in Nat /\ m + L = N /\ b <= m /\ (con[c].op_active => b < m)
         /\ p \in Nat
    BY Counts DEF ConState
  <1>13. Sends(c)' = L + 1
    BY <1>3, <1>6 DEF Sends
  <1>14. Taken(c)' = m
    <2>1. Taken(c)' = Len(order'[c]) - Sends(c)'
      BY DEF Taken
    <2>2. Taken(c)' = N + 1 - (L + 1)
      BY <1>5, <1>7, <1>13, <2>1
    <2> HIDE DEF N, L, m
    <2>3. QED BY <1>4, <1>5, <1>12, <2>2
  <1>15. EndedCount(c)' = b
    BY <1>14 DEF EndedCount
  <1>16. Tracks(c, con[c], b, m)
    BY <1>11 DEF ConnOK
  <1> HIDE DEF N, L, b, m, p
  <1>17. Tracks(c, con[c], EndedCount(c), Taken(c))'
    <2>1. con[c].op_active =>
              /\ m = b + 1 + p /\ con[c].op = order[c][b + 1]
              /\ \A i \in 1 .. p : con[c].pending_ops[i] = order[c][b + 1 + i]
              /\ con[c].conn = "ok" => con[c].busy = con[c].op
      BY <1>16 DEF Tracks, p
    <2>2. ASSUME con[c].op_active
          PROVE  /\ order'[c][b + 1] = order[c][b + 1]
                 /\ \A i \in 1 .. p : order'[c][b + 1 + i] = order[c][b + 1 + i]
      <3>1. b + 1 \in 1 .. N /\ \A i \in 1 .. p : b + 1 + i \in 1 .. N
        BY <1>4, <1>5, <1>12, <2>1, <2>2
      <3>2. QED BY <1>5, <1>7, <3>1
    <2>3. con[c].op_active =>
              /\ m = b + 1 + p /\ con[c].op = order'[c][b + 1]
              /\ \A i \in 1 .. p : con[c].pending_ops[i] = order'[c][b + 1 + i]
              /\ con[c].conn = "ok" => con[c].busy = con[c].op
      BY <2>1, <2>2
    <2>4. QED BY <1>14, <1>15, <1>16, <2>3 DEF Tracks, p
  <1>18. \A i \in 1 .. Sends(c)' : io'[c][i] = <<"send", order'[c][Taken(c)' + i]>>
    <2> SUFFICES ASSUME NEW i \in 1 .. L + 1 PROVE q[i] = <<"send", r[m + i]>>
      BY <1>6, <1>7, <1>13, <1>14
    <2>1. CASE i \in 1 .. L
      <3>1. io[c][i] = <<"send", order[c][m + i]>>
        BY <1>11, <2>1 DEF ConnOK, m, L
      <3>2. m + i \in 1 .. N
        BY <1>4, <1>5, <1>12, <2>1
      <3>3. QED BY <1>4, <1>5, <2>1, <3>1, <3>2
    <2>2. CASE i = L + 1
      <3>1. m + i = N + 1
        BY <1>4, <1>5, <1>12, <2>2
      <3>2. QED BY <1>4, <1>5, <2>2, <3>1
    <2>3. QED BY <1>4, <2>1, <2>2
  <1>19. ConnOK(c)'
    BY <1>11, <1>12, <1>15, <1>17, <1>18 DEF ConnOK
  <1>20. q[Len(q)] = x
    BY <1>4
  <1>21. OpenOK(c)'
    BY <1>1, <1>6, <1>11, <1>20 DEF OpenOK
  <1>22. ResultOK(c)'
    <2> SUFFICES ASSUME NEW i \in 1 .. N + 1
                 PROVE  IF i <= b THEN /\ result'[r[i]] \in {"own", "error"}
                                       /\ result'[r[i]] = "error" => con[c].failed
                                  ELSE result'[r[i]] = "posted"
      BY <1>5, <1>7, <1>15 DEF ResultOK
    <2>1. CASE i \in 1 .. N
      <3>1. r[i] = order[c][i] /\ result'[r[i]] = result[order[c][i]]
        BY <1>5, <1>8, <1>10, <2>1 DEF N
      <3>2. IF i <= b THEN /\ result[order[c][i]] \in {"own", "error"}
                           /\ result[order[c][i]] = "error" => con[c].failed
                      ELSE result[order[c][i]] = "posted"
        BY <1>11, <2>1 DEF ResultOK, b, N
      <3>3. QED BY <3>1, <3>2
    <2>2. CASE i = N + 1
      <3>1. ~(i <= b) /\ r[i] = o
        BY <1>4, <1>5, <1>12, <2>2
      <3>2. QED BY <1>8, <3>1
    <2>3. QED BY <1>5, <2>1, <2>2
  <1>23. ASSUME NEW d \in PgConns, d # c PROVE ConnOK(d)' /\ OpenOK(d)' /\ ResultOK(d)'
    <2>1. ConnOK(d) /\ OpenOK(d) /\ ResultOK(d)
      BY DEF PgInv, OpenInv, ConnInv, ResultInv
    <2>2. ConnOK(d)' /\ EndedCount(d)' = EndedCount(d)
      BY <1>6, <1>7, <1>23, <2>1, LeftAlone
    <2>3. OpenOK(d)'
      BY <1>6, <1>7, <1>23, <2>1 DEF OpenOK
    <2>4. \A i \in 1 .. Len(order[d]) : result'[order[d][i]] = result[order[d][i]]
      BY <1>8, <1>10
    <2>5. ResultOK(d)'
      BY <1>7, <1>23, <2>1, <2>2, <2>4 DEF ResultOK
    <2>6. QED BY <2>2, <2>3, <2>5
  <1>24. PostedOnce'
    <2>1. ASSUME NEW d \in PgConns, NEW i \in 1 .. Len(order'[d])
          PROVE  \/ d = c /\ i = N + 1 /\ order'[d][i] = o
                 \/ i \in 1 .. Len(order[d]) /\ order'[d][i] = order[d][i] /\ order[d][i] # o
      <3>1. CASE d = c
        <4>1. i \in 1 .. N + 1
          BY <1>5, <1>7, <3>1
        <4>2. CASE i = N + 1
          BY <1>5, <1>7, <3>1, <4>2
        <4>3. CASE i \in 1 .. N
          BY <1>5, <1>7, <1>10, <3>1, <4>3 DEF N
        <4>4. QED BY <1>5, <4>1, <4>2, <4>3
      <3>2. CASE d # c
        BY <1>7, <1>10, <3>2
      <3>3. QED BY <3>1, <3>2
    <2>2. PostedOnce
      BY DEF PgInv
    <2>3. SUFFICES ASSUME NEW d \in PgConns, NEW e \in PgConns, NEW i \in 1 .. Len(order'[d]),
                          NEW k \in 1 .. Len(order'[e]), order'[d][i] = order'[e][k]
                   PROVE  d = e /\ i = k
      BY DEF PostedOnce
    <2>4. QED BY <2>1, <2>2, <2>3 DEF PostedOnce
  <1>25. PgConstants'
    BY DEF PgInv, PgConstants
  <1>26. QED BY <1>9, <1>19, <1>21, <1>22, <1>23, <1>24, <1>25 DEF PgInv, ConnInv, OpenInv, ResultInv

LEMMA PostsKeeps ==
    ASSUME PgInv, NEW o \in Ops, Posts(o)
    PROVE  PgInv'
  <1>1. result[o] = "none" /\ UNCHANGED <<con, opened, g_pg_conn>>
    BY DEF Posts
  <1>2. CASE g_pg_conn = 0
    <2>1. result' = [result EXCEPT ![o] = "dropped"] /\ UNCHANGED <<io, order>>
      BY <1>2 DEF Posts
    <2>2. QED BY <1>1, <2>1, DroppedKeeps
  <1>3. CASE g_pg_conn # 0
    <2>1. PICK c \in PgConns : /\ c = g_pg_conn /\ opened[c] = "global"
                               /\ Sends(c) = Len(io[c]) /\ SendsOf(io[c]) = Len(io[c])
      BY <1>3, GlobalFacts
    <2>2. /\ result' = [result EXCEPT ![o] = "posted"]
          /\ io' = [io EXCEPT ![c] = Append(@, <<"send", o>>)]
          /\ order' = [order EXCEPT ![c] = Append(@, o)]
      BY <1>3, <2>1 DEF Posts
    <2>3. QED BY <1>1, <2>1, <2>2, PostedKeeps
  <1>4. QED BY <1>2, <1>3

----------------------------------------------------------------------------
(* The theorems.                                                           *)

LEMMA PgInitKeeps ==
    ASSUME PgConstants, PgInit
    PROVE  PgInv
  <1>1. PgTypeOK
    <2>1. con \in [PgConns -> ConState]
      <3> DEFINE s == [conn |-> "null", connected |-> FALSE, op_active |-> FALSE,
                       pending_ops |-> <<>>, op |-> NoOp, waits |-> "no", busy |-> NoOp,
                       replied |-> FALSE, up |-> FALSE, failed |-> FALSE, done |-> <<>>]
      <3>1. <<>> \in Seq(Ops) /\ <<>> \in Seq(Ops \X {"own", "other", "error"})
        OBVIOUS
      <3>2. s \in ConState
        BY <3>1 DEF ConState
      <3> HIDE DEF s
      <3>3. con = [c \in PgConns |-> s]
        BY DEF PgInit, s
      <3>4. QED BY <3>2, <3>3
    <2>2. <<>> \in Seq({"connect", "close", "send"} \X (Ops \cup {NoOp})) /\ <<>> \in Seq(Ops)
      OBVIOUS
    <2>3. QED BY <2>1, <2>2 DEF PgInit, PgTypeOK
  <1>2. ASSUME NEW c \in PgConns
        PROVE  /\ con[c].done = <<>> /\ ~con[c].op_active /\ con[c].pending_ops = <<>>
               /\ con[c].waits = "no" /\ con[c].busy = NoOp
               /\ io[c] = <<>> /\ order[c] = <<>> /\ opened[c] = "new" /\ g_pg_conn # c
    BY DEF PgInit, PgConstants
  <1>3. ASSUME NEW c \in PgConns PROVE ConnOK(c) /\ OpenOK(c) /\ ResultOK(c)
    <2>1. Len(order[c]) = 0 /\ SendsOf(io[c]) = 0
      BY <1>2 DEF SendsOf
    <2>2. Sends(c) = 0 /\ Taken(c) = 0 /\ EndedCount(c) = 0
      <3>1. Sends(c) = 0
        BY <2>1 DEF Sends
      <3>2. Taken(c) = 0
        BY <2>1, <3>1 DEF Taken
      <3>3. EndedCount(c) = 0 - 0
        BY <1>2, <3>2 DEF EndedCount
      <3>4. QED BY <3>1, <3>2, <3>3
    <2>3. con[c] \in ConState
      BY <1>1 DEF PgTypeOK
    <2>4. Tracks(c, con[c], 0, 0)
      BY <1>2, <2>3 DEF Tracks
    <2>5. ConnOK(c)
      BY <1>2, <2>2, <2>4 DEF ConnOK
    <2>6. QED BY <1>2, <2>1, <2>5 DEF OpenOK, ResultOK
  <1>4. PostedOnce
    BY <1>2 DEF PostedOnce
  <1>5. QED BY <1>1, <1>3, <1>4 DEF PgInv, ConnInv, OpenInv, ResultInv

LEMMA PgNextKeeps ==
    ASSUME PgInv, [PgNext]_pgVars
    PROVE  PgInv'
  <1>1. ASSUME NEW c \in PgConns, AsyncConnect(c) PROVE PgInv'
    BY <1>1, AsyncConnectKeeps
  <1>2. ASSUME NEW c \in PgConns, ConnectCallback(c) PROVE PgInv'
    BY <1>2, ConnectCallbackKeeps
  <1>3. ASSUME NEW c \in PgConns, RunConnect(c) PROVE PgInv'
    BY <1>3, RunConnectKeeps
  <1>4. ASSUME NEW c \in PgConns, RunClose(c) PROVE PgInv'
    BY <1>4, RunCloseKeeps
  <1>5. ASSUME NEW c \in PgConns, RunSend(c) PROVE PgInv'
    BY <1>5, RunSendKeeps
  <1>6. ASSUME NEW c \in PgConns, SocketReady(c) PROVE PgInv'
    BY <1>6, SocketReadyKeeps
  <1>7. ASSUME NEW c \in PgConns, SocketError(c) PROVE PgInv'
    BY <1>7, SocketErrorKeeps
  <1>8. ASSUME NEW c \in PgConns, Replies(c) \/ LinkFails(c) PROVE PgInv'
    BY <1>8, ServerKeeps
  <1>9. CASE AsyncClose
    BY <1>9, AsyncCloseKeeps
  <1>10. ASSUME NEW o \in Ops, Posts(o) PROVE PgInv'
    BY <1>10, PostsKeeps
  <1>11. CASE UNCHANGED pgVars
    <2>1. UNCHANGED <<con, io, opened, g_pg_conn, result, order>>
      BY <1>11 DEF pgVars
    <2>2. PgTypeOK'
      BY <2>1 DEF PgInv, PgTypeOK
    <2>3. ASSUME NEW d \in PgConns
          PROVE  /\ ConnOK(d)' /\ OpenOK(d)' /\ EndedCount(d)' = EndedCount(d)
                 /\ con[d].failed => con'[d].failed
      <3>1. ConnOK(d) /\ OpenOK(d)
        BY DEF PgInv, OpenInv, ConnInv
      <3>2. ConnOK(d)' /\ EndedCount(d)' = EndedCount(d)
        BY <2>1, <3>1, LeftAlone
      <3>3. QED BY <2>1, <3>1, <3>2 DEF OpenOK
    <2>4. QED BY <2>1, <2>2, <2>3, QuietKeeps
  <1>12. QED
    BY <1>1, <1>2, <1>3, <1>4, <1>5, <1>6, <1>7, <1>8, <1>9, <1>10, <1>11 DEF PgNext

\* The invariant of the connection (PgInv) holds in every state.
THEOREM PgInvariance == PgSpec => []PgInv
  <1>1. PgInit => PgInv
    BY PgAssumption, PgInitKeeps
  <1>2. PgInv /\ [PgNext]_pgVars => PgInv'
    BY PgNextKeeps
  <1>3. QED BY <1>1, <1>2, PTL DEF PgSpec

\* Every operation gets the result of its own command, or an error of a
\* connection that failed, and operations end in the order of their posts.
THEOREM PgResultsExact == PgSpec => []ResultsExact
  <1>1. ASSUME PgInv PROVE ResultsExact
    <2> SUFFICES ASSUME NEW c \in PgConns, NEW i \in DOMAIN order[c]
                 PROVE  /\ result[order[c][i]] # "other"
                        /\ result[order[c][i]] = "error" => con[c].failed
                        /\ Ended(order[c][i]) => \A k \in 1 .. i - 1 : Ended(order[c][k])
      BY DEF ResultsExact
    <2> DEFINE N == Len(order[c])
               b == EndedCount(c)
    <2>1. order[c] \in Seq(Ops) /\ N \in Nat /\ b \in Nat
      BY <1>1, Counts
    <2>2. i \in 1 .. N
      BY <2>1
    <2>3. \A k \in 1 .. N : IF k <= b THEN /\ result[order[c][k]] \in {"own", "error"}
                                           /\ result[order[c][k]] = "error" => con[c].failed
                                      ELSE result[order[c][k]] = "posted"
      BY <1>1 DEF PgInv, ResultInv, ResultOK
    <2> HIDE DEF N, b
    <2>4. Ended(order[c][i]) => i <= b
      BY <2>2, <2>3 DEF Ended
    <2>5. ASSUME i <= b, NEW k \in 1 .. i - 1 PROVE Ended(order[c][k])
      <3>1. k \in 1 .. N /\ k <= b
        BY <2>1, <2>2, <2>5
      <3>2. QED BY <2>3, <3>1 DEF Ended
    <2>6. QED BY <2>2, <2>3, <2>4, <2>5
  <1>2. QED BY <1>1, PgInvariance, PTL
============================================================================
