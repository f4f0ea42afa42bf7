------------------------------- MODULE DbPool -------------------------------
(***************************************************************************)
(* gb::DbConnectionPool (db/postgres/db_pool.cpp).  Every operation is     *)
(* posted to the pool's io_context, which one thread runs, so a handler is *)
(* one step.  The connections are those of PgConnection: one breaks when a *)
(* query fails on it, while a client holds it or, if the client has given  *)
(* it back with a query still in flight, while it is idle.                 *)
(*                                                                         *)
(* The queue idle_ is a set, whose order decides nothing here; waiters_ is *)
(* a sequence, filled by one producer and therefore first-in, first-out.   *)
(***************************************************************************)
EXTENDS Integers, Sequences, FiniteSets

CONSTANTS Clients,      \* coroutines that use the pool
          Conns,        \* PgConnection objects
          NoConn,       \* nullptr
          MinSize,      \* config_.min_pool_size
          MaxSize,      \* config_.max_pool_size
          SizeMod       \* 2^64: the counters are of type size_t

ASSUME DbAssumption ==
    /\ IsFiniteSet(Clients) /\ IsFiniteSet(Conns)
    /\ NoConn \notin Conns
    /\ SizeMod \in Nat
    /\ MinSize \in 1 .. SizeMod - 1 /\ MaxSize \in 1 .. SizeMod - 1

VARIABLES stage,              \* "new", "started" (running_) or "stopped"
          idle,               \* idle_
          waiters,            \* waiters_: the clients whose promise is queued
          holds,              \* the connection each client has
          alive,              \* connections for which IsConnected() holds
          total_connections,  \* total_connections_
          idle_count,         \* idle_count_
          active_count,       \* active_count_
          faulty              \* a connection has broken or could not be opened

vars == <<stage, idle, waiters, holds, alive, total_connections, idle_count, active_count, faulty>>

Held  == {holds[c] : c \in Clients} \ {NoConn}
Fresh == Conns \ (idle \cup Held)
Waiting(c) == \E i \in DOMAIN waiters : waiters[i] = c

\* Arithmetic of std::atomic<size_t>.
Plus(n, k)  == (n + k) % SizeMod
Minus(n, k) == (n - k) % SizeMod

DbTypeOK ==
    /\ stage \in {"new", "started", "stopped"}
    /\ idle \subseteq Conns
    /\ waiters \in Seq(Clients)
    /\ holds \in [Clients -> Conns \cup {NoConn}]
    /\ alive \subseteq Conns
    /\ total_connections \in 0 .. SizeMod - 1
    /\ idle_count \in 0 .. SizeMod - 1
    /\ active_count \in 0 .. SizeMod - 1
    /\ faulty \in BOOLEAN

Init ==
    /\ stage = "new"
    /\ idle = {}
    /\ waiters = <<>>
    /\ holds = [c \in Clients |-> NoConn]
    /\ alive = {}
    /\ total_connections = 0
    /\ idle_count = 0
    /\ active_count = 0
    /\ faulty = FALSE

----------------------------------------------------------------------------
\* The handler of Start: CreateConnectionSync min(min, max) times, each of which
\* may fail; N are the connections it opened.
Start ==
    /\ stage = "new"
    /\ \E N \in SUBSET Fresh :
          /\ Cardinality(N) <= MinSize /\ Cardinality(N) <= MaxSize
          /\ idle' = N
          /\ alive' = alive \cup N
          /\ total_connections' = Plus(total_connections, Cardinality(N))
          /\ idle_count' = Plus(idle_count, Cardinality(N))
          /\ faulty' = (Cardinality(N) < MinSize /\ Cardinality(N) < MaxSize)
    /\ stage' = "started"
    /\ UNCHANGED <<waiters, holds, active_count>>

\* The handler of Stop: close what is idle, give nullptr to whoever waits.
Stop ==
    /\ stage = "started"
    /\ stage' = "stopped"
    /\ idle' = {}
    /\ alive' = alive \ idle
    /\ total_connections' = Minus(total_connections, Cardinality(idle))
    /\ idle_count' = Minus(idle_count, Cardinality(idle))
    /\ waiters' = <<>>
    /\ UNCHANGED <<holds, active_count, faulty>>

\* A client may ask for a connection: it has none and is not waiting.
Asks(c) == stage # "new" /\ holds[c] = NoConn /\ ~Waiting(c)

\* DoAcquire, step 1: a connection of idle_ that is still connected.
AcquireIdle(c) ==
    /\ Asks(c)
    /\ \E x \in idle \cap alive :
          /\ idle' = idle \ {x}
          /\ holds' = [holds EXCEPT ![c] = x]
    /\ idle_count' = Minus(idle_count, 1)
    /\ active_count' = Plus(active_count, 1)
    /\ UNCHANGED <<stage, waiters, alive, total_connections, faulty>>

\* total_connections_.load() < config_.max_pool_size
HasRoom(total) == total < MaxSize

\* Steps 2 and 3, with idle_ empty or after a broken connection was taken from
\* it (D): open a connection if there is room, and otherwise, or if that fails,
\* wait.
AcquireNew(c) ==
    /\ Asks(c)
    /\ \E D \in SUBSET (idle \ alive) :
          LET left == Minus(total_connections, Cardinality(D)) IN
          /\ Cardinality(D) <= 1 /\ (D = {} => idle = {})
          /\ idle' = idle \ D
          /\ idle_count' = Minus(idle_count, Cardinality(D))
          /\ \/ /\ HasRoom(left)
                /\ \E x \in Fresh :
                      /\ holds' = [holds EXCEPT ![c] = x]
                      /\ alive' = alive \cup {x}
                      /\ total_connections' = Plus(left, 1)
                /\ active_count' = Plus(active_count, 1)
                /\ UNCHANGED <<waiters, faulty>>
             \/ /\ waiters' = Append(waiters, c)
                /\ total_connections' = left
                /\ faulty' = (faulty \/ HasRoom(left))
                /\ UNCHANGED <<holds, alive, active_count>>
    /\ UNCHANGED stage

\* A DoRelease that puts the connection into idle_ although somebody waits.
ReleaseNoHandOff(c) ==
    /\ holds[c] \in alive
    /\ holds' = [holds EXCEPT ![c] = NoConn]
    /\ idle' = idle \cup {holds[c]}
    /\ idle_count' = Plus(idle_count, 1)
    /\ active_count' = Minus(active_count, 1)
    /\ UNCHANGED <<stage, waiters, alive, total_connections, faulty>>

\* DoRelease of a connection that works: to the first waiter, whose promise gets
\* it without active_count_ being incremented again, or to idle_.
ReleaseGood(c) ==
    /\ holds[c] \in alive
    /\ active_count' = Minus(active_count, 1)
    /\ \/ /\ waiters # <<>>
          /\ holds' = [holds EXCEPT ![c] = NoConn, ![Head(waiters)] = holds[c]]
          /\ waiters' = Tail(waiters)
          /\ UNCHANGED <<idle, idle_count>>
       \/ /\ waiters = <<>>
          /\ holds' = [holds EXCEPT ![c] = NoConn]
          /\ idle' = idle \cup {holds[c]}
          /\ idle_count' = Plus(idle_count, 1)
          /\ UNCHANGED waiters
    /\ UNCHANGED <<stage, alive, total_connections, faulty>>

\* A DoRelease that discards a broken connection without uncounting it.
ReleaseBrokenKeepsTotal(c) ==
    /\ holds[c] # NoConn /\ holds[c] \notin alive
    /\ holds' = [holds EXCEPT ![c] = NoConn]
    /\ active_count' = Minus(active_count, 1)
    /\ UNCHANGED <<stage, idle, waiters, alive, total_connections, idle_count, faulty>>

\* DoRelease of a broken connection: it is discarded, and nobody is served.
ReleaseBroken(c) ==
    /\ holds[c] # NoConn /\ holds[c] \notin alive
    /\ holds' = [holds EXCEPT ![c] = NoConn]
    /\ total_connections' = Minus(total_connections, 1)
    /\ active_count' = Minus(active_count, 1)
    /\ UNCHANGED <<stage, idle, waiters, alive, idle_count, faulty>>

\* OnHeartbeat: discard the broken idle connections, then refill up to MinSize
\* until opening one fails.  Who waits is not served.
OnHeartbeat ==
    /\ stage = "started"
    /\ LET good == idle \cap alive
           left == Minus(total_connections, Cardinality(idle \ alive))
       IN  \E N \in SUBSET Fresh :
              /\ N # {} => left + Cardinality(N) <= MinSize
              /\ idle' = good \cup N
              /\ alive' = alive \cup N
              /\ idle_count' = Plus(Minus(idle_count, Cardinality(idle \ alive)), Cardinality(N))
              /\ total_connections' = Plus(left, Cardinality(N))
              /\ faulty' = (faulty \/ left + Cardinality(N) < MinSize)
    /\ UNCHANGED <<stage, waiters, holds, active_count>>

\* A query on connection x fails for good.
Breaks(x) ==
    /\ x \in alive \cap (idle \cup Held)
    /\ alive' = alive \ {x}
    /\ faulty' = TRUE
    /\ UNCHANGED <<stage, idle, waiters, holds, total_connections, idle_count, active_count>>

Release(c) == ReleaseGood(c) \/ ReleaseBroken(c)

Next ==
    \/ Start \/ Stop \/ OnHeartbeat
    \/ \E c \in Clients : AcquireIdle(c) \/ AcquireNew(c) \/ Release(c)
    \/ \E x \in Conns : Breaks(x)

Spec == Init /\ [][Next]_vars

\* A client gives back, sooner or later, the connection it holds.
Fairness == \A c \in Clients : WF_vars(Release(c))

FairSpec == Spec /\ Fairness

----------------------------------------------------------------------------
(* Properties.                                                             *)

\* Through every order of acquiring, handing over, discarding, refilling and
\* stopping, no connection is in two hands, total_connections_ and idle_count_
\* count exactly the connections the pool has given out or keeps, and there are
\* never more than max_pool_size, or than min_pool_size where the configuration
\* has that larger: the heartbeat refills up to it.
PoolExact ==
    /\ \A c, d \in Clients : c # d /\ holds[c] # NoConn => holds[c] # holds[d]
    /\ idle \cap Held = {}
    /\ idle_count = Cardinality(idle)
    /\ total_connections = Cardinality(idle \cup Held)
    /\ total_connections <= MaxSize \/ total_connections <= MinSize

\* A client that waits is served or told that the pool has stopped, provided the
\* others give back what they hold and no connection breaks or fails to open.
WaiterServed == \A c \in Clients : Waiting(c) ~> (~Waiting(c) \/ faulty)
============================================================================
