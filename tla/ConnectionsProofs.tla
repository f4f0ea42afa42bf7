-------------------------- MODULE ConnectionsProofs --------------------------
(***************************************************************************)
(* For any number of sessions, connecting threads and kinds of transport:  *)
(* a server that runs knows only sessions that are open or about to leave, *)
(* by TCP never more than it may have, and a client has one connection,    *)
(* but for sessions that were closed before they were opened.              *)
(***************************************************************************)
EXTENDS Connections, FiniteSetTheorems, TLAPS

USE DEF ctlVars, lisVars, sockVars, tabVars

MaintState   == [pc : {"rest", "tick", "restart", "copy", "sweep"}, left : SUBSET Sessions]
AcceptState  == [pc : {"rest", "accept", "insert", "test", "connect"}, s : Sessions \cup {None}]
IoState      == {"rest", "handshake", "setup", "accept", "insert", "test", "connect", "wait"}
Status       == {"none", "init", "connecting", "connected", "closed"}
ClosingState == [pc : {"no", "enter", "erase", "map", "types"}, s : Sessions \cup {None}]
ConnectState == [pc : {"no", "start", "open", "store"}, s : Sessions \cup {None}]

ConnectionsTypeOK ==
    /\ running \in BOOLEAN
    /\ app \in {"new", "starting", "up", "stopping", "listener closed", "joining", "joined", "stopped"}
    /\ acceptor \in {"maint", "pool"} /\ accepting \in AcceptState
    /\ maint \in MaintState
    /\ io \in [Sessions -> IoState]
    /\ status \in [Sessions -> Status]
    /\ socket \in [Sessions -> {"none", "open", "shut"}]
    /\ early \in SUBSET Sessions /\ table \in SUBSET Sessions /\ told \in SUBSET Sessions
    /\ closing \in [Threads -> ClosingState]
    /\ types \in [Types -> Sessions \cup {None}]
    /\ connecting \in [Types -> ConnectState]

\* The thread of a TCP listener is in on_accept of s.
Accepts(s) == accepting.pc # "rest" /\ accepting.s = s

\* Start comes once: nothing was accepted before it.  A thread that accepts has an
\* open listener until Stop, so a restart finds none.
AppInv ==
    /\ running <=> app = "up"
    /\ app \in {"new", "starting"} =>
          table = {} /\ accepting.pc # "insert" /\ \A s \in Sessions : io[s] # "insert"
    /\ app = "new" => listener = "none"
    /\ app \in {"new", "starting", "up"} =>
          /\ listener # "open" => accepting = NoAccept
          /\ maint.pc = "restart" => listener = "closed"

\* Which threads take part, by the kind of the object.
KindInv ==
    /\ Server => /\ \A s \in Sessions : io[s] # "wait"
                 /\ \A t \in Threads : closing[t].pc \notin {"map", "types"}
                 /\ \A t \in Types : connecting[t].pc = "no" /\ types[t] = None
    /\ ~Server => /\ \A s \in Sessions : io[s] \in {"rest", "wait", "connect"}
                  /\ \A t \in Threads : closing[t].pc # "erase"
    /\ kind = "TCP" => \A s \in Sessions : io[s] = "rest"
    /\ kind # "TCP" => accepting = NoAccept

\* A closed status means a socket that is shut or was not open yet, though not the
\* other way round, and an object is known to nobody before it is used.
StatusInv ==
    /\ \A s \in Sessions : status[s] = "closed" => socket[s] = "shut" \/ s \in early
    /\ \A s \in Sessions : status[s] = "none" =>
          /\ socket[s] = "none" /\ s \notin early \cup told \cup table \cup maint.left
          /\ io[s] = "rest" /\ ~Accepts(s)
          /\ \A t \in Types : types[t] # s /\ (connecting[t].pc # "no" => connecting[t].s # s)
    /\ \A t \in Types : connecting[t].pc # "no" => connecting[t].s \in Sessions
    /\ accepting.pc # "rest" => accepting.s \in Sessions

\* A thread has s and has not inserted it yet.
Accepting(s) ==
    \/ io[s] \in {"handshake", "setup", "accept", "insert"}
    \/ accepting.pc \in {"accept", "insert"} /\ accepting.s = s

\* Before its insertion nobody but the accepting thread knows a session.
AcceptInv ==
    \A s \in Sessions :
        /\ Accepting(s) => socket[s] = "open" /\ s \notin told \cup table \cup maint.left
        /\ accepting.pc \in {"accept", "insert"} /\ accepting.s = s => status[s] = "init"

SetInv ==
    Server /\ running => \A s \in table : socket[s] = "shut" =>
        \E t \in Threads : closing[t].s = s /\ closing[t].pc \in {"enter", "erase"}

\* The thread t has created its session and not opened the socket.
Opens(t) == connecting[t].pc \in {"start", "open"}

\* A client has one session in its table, and besides those that were closed early
\* no other that is open or will be opened.
ClientInv ==
    ~Server => /\ \A x, y \in table : x = y
               /\ Open \ early \subseteq table
               /\ \A t \in Types : Opens(t) => /\ socket[connecting[t].s] = "none"
                                               /\ connecting[t].s \in table \cup early
               /\ \A t, u \in Types : Opens(t) /\ Opens(u) /\ connecting[t].s = connecting[u].s => t = u
               /\ app \in {"joining", "joined", "stopped"} =>
                     /\ Open \subseteq early
                     /\ \A t \in Types : Opens(t) => connecting[t].s \in early

\* Between the test and the insertion the place is kept.
BoundInv ==
    /\ IsFiniteSet(table)
    /\ kind = "TCP" => /\ Cardinality(table) <= MaxConnectionCount
                       /\ accepting.pc = "insert" => Cardinality(table) < MaxConnectionCount

IInv ==
    /\ ConnectionsTypeOK /\ AppInv /\ KindInv /\ StatusInv /\ AcceptInv
    /\ SetInv /\ ClientInv /\ BoundInv

----------------------------------------------------------------------------
LEMMA InitIInv == Init => IInv
  <1> SUFFICES ASSUME Init PROVE IInv
    OBVIOUS
  <1> USE DEF Init, Rest, NoAccept, Returned
  <1>1. ConnectionsTypeOK
    BY DEF ConnectionsTypeOK, MaintState, AcceptState, IoState, Status, ClosingState, ConnectState
  <1>2. AppInv /\ KindInv /\ AcceptInv
    BY DEF AppInv, KindInv, AcceptInv, Accepting, Server
  <1>3. StatusInv
    BY ConnectionsAssumption DEF StatusInv, Accepts
  <1>4. SetInv /\ ClientInv
    BY DEF SetInv, ClientInv, Open, Opens
  <1>5. BoundInv
    BY FS_EmptySet, ConnectionsAssumption DEF BoundInv
  <1>6. QED BY <1>1, <1>2, <1>3, <1>4, <1>5 DEF IInv

\* A table that shrinks stays within its bound.
LEMMA Shrinks ==
    ASSUME IsFiniteSet(table), NEW T \in SUBSET table
    PROVE  /\ IsFiniteSet(T)
           /\ Cardinality(T) \in Nat /\ Cardinality(table) \in Nat
           /\ Cardinality(T) <= Cardinality(table)
  BY FS_Subset, FS_CardinalityType

----------------------------------------------------------------------------
(* on_closed.                                                              *)

\* A step of on_closed: the place of one thread in it changes, and sessions leave
\* the table; of a client only closed ones, of a server the one that is closed.
LEMMA ClosingKeeps ==
    ASSUME IInv, NEW t \in Threads, NEW c \in ClosingState,
           closing' = [closing EXCEPT ![t] = c],
           c.pc = "erase" => Server, c.pc \in {"map", "types"} => ~Server,
           NEW T \in SUBSET table, table' = T,
           Server => table \ T \subseteq {closing[t].s},
           Server /\ running => \/ c.pc = "erase" /\ c.s = closing[t].s
                                \/ closing[t].s \notin T,
           ~Server => T = table \/ \A x \in table : status[x] = "closed",
           types' \in [Types -> Sessions \cup {None}],
           \A y \in Types : types'[y] \in {types[y], None},
           UNCHANGED <<kind, running, app, lisVars, accepting, maint, io, status, sockVars, connecting, told>>
    PROVE  IInv'
  <1> USE DEF IInv, Server
  <1>1. /\ closing'[t] = c /\ \A u \in Threads : u # t => closing'[u] = closing[u]
        /\ closing' \in [Threads -> ClosingState]
    BY DEF ConnectionsTypeOK
  <1>2. ConnectionsTypeOK'
    BY <1>1 DEF ConnectionsTypeOK
  <1>3. AppInv' /\ AcceptInv'
    BY DEF AppInv, AcceptInv, Accepting
  <1>4. KindInv'
    BY <1>1 DEF KindInv
  <1>5. StatusInv'
    BY ConnectionsAssumption DEF StatusInv, Accepts
  <1>6. SetInv'
    <2> SUFFICES ASSUME Server, running, NEW x \in T, socket[x] = "shut"
                 PROVE  \E u \in Threads : closing'[u].s = x /\ closing'[u].pc \in {"enter", "erase"}
      BY DEF SetInv
    <2>1. PICK u \in Threads : closing[u].s = x /\ closing[u].pc \in {"enter", "erase"}
      BY DEF SetInv
    <2>2. QED BY <1>1, <2>1
  <1>7. ClientInv'
    <2> SUFFICES ASSUME ~Server PROVE ClientInv'
      BY DEF ClientInv
    <2>1. CASE T = table
      BY <2>1 DEF ClientInv, Open, Opens
    <2>2. CASE \A x \in table : status[x] = "closed"
      <3>1. \A x \in table : socket[x] = "shut" \/ x \in early
        BY <2>2 DEF StatusInv, ConnectionsTypeOK
      <3>2. /\ Open \subseteq early
            /\ \A y \in Types : Opens(y) => connecting[y].s \in early
        BY <3>1 DEF ClientInv, Open, Opens
      <3>3. QED BY <3>2 DEF ClientInv, Open, Opens
    <2>3. QED BY <2>1, <2>2
  <1>8. BoundInv'
    <2>1. IsFiniteSet(table') /\ Cardinality(table') \in Nat /\ Cardinality(table) \in Nat
          /\ Cardinality(table') <= Cardinality(table)
      BY Shrinks DEF BoundInv
    <2>2. QED BY <2>1, ConnectionsAssumption DEF BoundInv
  <1>9. QED BY <1>2, <1>3, <1>4, <1>5, <1>6, <1>7, <1>8

LEMMA OnClosedKeeps ==
    ASSUME IInv, OnClosedStep
    PROVE  IInv'
  <1> PICK t \in Threads : EnterOnClosed(t) \/ ServerOnClosed(t) \/ ClientOnClosed(t) \/ EraseType(t)
    BY DEF OnClosedStep
  <1>0. /\ table \subseteq Sessions /\ closing[t] \in ClosingState
        /\ types \in [Types -> Sessions \cup {None}]
        /\ Server => closing[t].pc \notin {"map", "types"}
        /\ ~Server => closing[t].pc # "erase"
    BY DEF IInv, ConnectionsTypeOK, KindInv
  <1>1. /\ Returned \in ClosingState /\ Returned.pc = "no"
        /\ \A pc \in {"erase", "map", "types"} : [pc |-> pc, s |-> closing[t].s] \in ClosingState
    BY <1>0 DEF Returned, ClosingState
  <1>2. CASE EnterOnClosed(t)
    <2>1. PICK c \in ClosingState :
              /\ closing' = [closing EXCEPT ![t] = c]
              /\ c.pc = "erase" => Server /\ c.s = closing[t].s
              /\ c.pc \in {"map", "types"} => ~Server
              /\ Server /\ running => c.pc = "erase"
      <3>1. CASE running /\ Server
        BY <1>1, <1>2, <3>1 DEF EnterOnClosed
      <3>2. CASE running /\ ~Server
        BY <1>1, <1>2, <3>2 DEF EnterOnClosed
      <3>3. CASE ~running
        BY <1>1, <1>2, <3>3 DEF EnterOnClosed
      <3>4. QED BY <3>1, <3>2, <3>3
    <2>2. QED BY <1>0, <1>2, <2>1, ClosingKeeps DEF EnterOnClosed
  <1>3. CASE ServerOnClosed(t)
    <2>1. PICK T \in SUBSET table : /\ table' = T /\ table \ T \subseteq {closing[t].s}
                                    /\ closing[t].s \notin T /\ Server
      BY <1>0, <1>3 DEF ServerOnClosed
    <2>2. QED BY <1>0, <1>1, <1>3, <2>1, ClosingKeeps DEF ServerOnClosed
  <1>4. CASE ClientOnClosed(t)
    <2>1. CASE \E x \in table : status[x] # "closed"
      BY <1>0, <1>1, <1>4, <2>1, ClosingKeeps DEF ClientOnClosed
    <2>2. CASE ~\E x \in table : status[x] # "closed"
      BY <1>0, <1>1, <1>4, <2>2, ClosingKeeps DEF ClientOnClosed
    <2>3. QED BY <2>1, <2>2
  <1>5. CASE EraseType(t)
    <2>1. types' \in [Types -> Sessions \cup {None}] /\ \A y \in Types : types'[y] \in {types[y], None}
      BY <1>0, <1>5 DEF EraseType
    <2>2. QED BY <1>0, <1>1, <1>5, <2>1, ClosingKeeps DEF EraseType
  <1>6. QED BY <1>2, <1>3, <1>4, <1>5

\* ByteStream::close of a session that is in use and not being accepted any more.
LEMMA CloseKeeps ==
    ASSUME IInv, NEW s \in Sessions, NEW th \in Threads, Close(s, th), ~Busy(th),
           status[s] # "none",
           maint' \in MaintState, io' \in [Sessions -> IoState], accepting' \in {accepting, NoAccept},
           \A x \in Sessions : io'[x] \in {io[x], "rest"},
           maint'.pc \in {maint.pc, "rest"}, maint'.left \subseteq maint.left,
           ~Accepting(s)',
           UNCHANGED <<kind, running, app, lisVars, table, types, connecting, told>>
    PROVE  IInv'
  <1> USE DEF IInv, Server
  <1>0. /\ NoAccept \in AcceptState /\ NoAccept.pc = "rest"
        /\ accepting'.pc # "rest" => accepting' = accepting
    BY DEF NoAccept, AcceptState
  <1>1. /\ status'[s] = "closed" /\ \A x \in Sessions : x # s => status'[x] = status[x]
        /\ status' \in [Sessions -> Status]
    BY DEF Close, ConnectionsTypeOK, Status
  <1>2. /\ socket' \in [Sessions -> {"none", "open", "shut"}] /\ early' \subseteq Sessions
        /\ \A x \in Sessions : x # s => socket'[x] = socket[x]
        /\ early \subseteq early' /\ early' \subseteq early \cup {s}
        /\ socket'[s] = "none" <=> socket[s] = "none"
        /\ socket'[s] = "shut" \/ s \in early'
        /\ socket[s] # "none" => early' = early
        /\ socket'[s] = "open" => s \in early
        /\ socket'[s] = "open" => socket[s] = "open"
        /\ socket[s] = "none" => s \in early'
    <2>1. CASE status[s] = "closed"
      BY <2>1, ZenonT(60) DEF Close, ConnectionsTypeOK, StatusInv
    <2>2. CASE status[s] # "closed"
      <3>1. /\ socket' = [socket EXCEPT ![s] = IF @ = "open" THEN "shut" ELSE @]
            /\ early' = IF socket[s] = "none" THEN early \cup {s} ELSE early
        BY <2>2 DEF Close
      <3>2. QED BY <3>1 DEF ConnectionsTypeOK
    <2>3. QED BY <2>1, <2>2
  <1>3. /\ closing' \in [Threads -> ClosingState]
        /\ status[s] # "closed" => closing'[th].pc = "enter" /\ closing'[th].s = s
        /\ \A u \in Threads : u # th \/ status[s] = "closed" => closing'[u] = closing[u]
        /\ \A u \in Threads : closing'[u].pc \in {closing[u].pc, "enter"}
    <2>1. CASE status[s] = "closed"
      BY <2>1 DEF Close, ConnectionsTypeOK
    <2>2. CASE status[s] # "closed"
      <3>1. closing' = [closing EXCEPT ![th] = [pc |-> "enter", s |-> s]]
        BY <2>2 DEF Close
      <3>2. [pc |-> "enter", s |-> s] \in ClosingState
        BY DEF ClosingState
      <3>3. QED BY <2>2, <3>1, <3>2 DEF ConnectionsTypeOK
    <2>3. QED BY <2>1, <2>2
  <1>4. ConnectionsTypeOK'
    BY <1>0, <1>1, <1>2, <1>3 DEF ConnectionsTypeOK
  <1>5. AppInv'
    BY <1>0 DEF AppInv
  <1>6. KindInv'
    BY <1>0, <1>3 DEF KindInv
  <1>7. StatusInv'
    BY <1>0, <1>1, <1>2 DEF StatusInv, Accepts
  <1>8. AcceptInv'
    <2>1. \A x \in Sessions : Accepting(x)' => Accepting(x) /\ x # s
      BY <1>0 DEF Accepting
    <2>2. QED BY <1>0, <1>1, <1>2, <2>1 DEF AcceptInv, Accepting
  <1>9. SetInv'
    <2> SUFFICES ASSUME Server, running, NEW x \in table, socket'[x] = "shut"
                 PROVE  \E u \in Threads : closing'[u].s = x /\ closing'[u].pc \in {"enter", "erase"}
      BY DEF SetInv
    <2>1. x \in Sessions
      BY DEF ConnectionsTypeOK
    <2>2. CASE x = s /\ status[s] # "closed"
      BY <1>3, <2>2
    <2>3. CASE ~(x = s /\ status[s] # "closed")
      <3>1. socket[x] = "shut"
        BY <1>2, <2>1, <2>3 DEF Close
      <3>2. PICK u \in Threads : closing[u].s = x /\ closing[u].pc \in {"enter", "erase"}
        BY <3>1 DEF SetInv
      <3>3. u # th
        BY <3>2 DEF Busy
      <3>4. QED BY <1>3, <3>2, <3>3
    <2>4. QED BY <2>2, <2>3
  <1>10. ClientInv'
    <2>1. Open' \subseteq Open
      BY <1>2 DEF Open
    <2>2. \A y \in Types : Opens(y) => connecting[y].s \in Sessions
      BY DEF Opens, StatusInv
    <2>3. QED BY <1>2, <2>1, <2>2 DEF ClientInv, Opens
  <1>11. BoundInv'
    BY <1>0 DEF BoundInv
  <1>12. QED BY <1>4, <1>5, <1>6, <1>7, <1>8, <1>9, <1>10, <1>11

LEMMA EventCloseKeeps ==
    ASSUME IInv, NEW s \in Sessions, PeerCloses(s) \/ AppCloses(s)
    PROVE  IInv'
  <1>1. status[s] # "none"
    BY DEF PeerCloses, AppCloses, IInv, StatusInv
  <1>2. ~Accepting(s)
    <2>1. Accepting(s) => Server
      BY DEF Accepting, IInv, KindInv, Server, NoAccept
    <2>2. CASE AppCloses(s)
      BY <2>1, <2>2, ConnectionsAssumption DEF AppCloses, IInv, AcceptInv, KindInv
    <2>3. CASE PeerCloses(s)
      BY <2>3 DEF PeerCloses, IInv, AcceptInv, Accepting
    <2>4. QED BY <2>2, <2>3
  <1>3. ~Accepting(s)'
    BY <1>2 DEF PeerCloses, AppCloses, Accepting
  <1>4. QED BY <1>1, <1>3, CloseKeeps DEF PeerCloses, AppCloses, IInv, ConnectionsTypeOK, Threads

----------------------------------------------------------------------------
(* Start, Stop and the maintenance thread.                                 *)

\* Steps that change only where the application or the maintenance thread is, or
\* the listener.
LEMMA QuietKeeps ==
    ASSUME IInv,
           \/ \E b \in BOOLEAN : Start(b) \/ TimerMaintain(b) \/ ReStartListen(b)
           \/ Started \/ Stop \/ StopListener \/ JoinPool
           \/ OnTimeout \/ CopySessions \/ AcceptFails \/ KcpForget
    PROVE  IInv'
  <1> USE DEF IInv
  <1>1. UNCHANGED <<kind, accepting, io, status, sockVars, closing, table, types, connecting, told>>
    BY DEF Start, TimerMaintain, ReStartListen, Started, Stop, StopListener, JoinPool, OnTimeout,
           CopySessions, AcceptFails, KcpForget
  <1>2. /\ maint' \in MaintState /\ maint'.left \subseteq maint.left \cup table
        /\ maint'.pc = "restart" => maint.pc = "restart" \/ listener' = "closed"
    <2>1. CASE UNCHANGED maint
      BY <2>1 DEF ConnectionsTypeOK
    <2>2. CASE OnTimeout
      BY <2>2 DEF ConnectionsTypeOK, MaintState, OnTimeout
    <2>3. ASSUME NEW b \in BOOLEAN, TimerMaintain(b) \/ ReStartListen(b)
          PROVE  /\ maint' \in MaintState /\ maint'.pc \in {"restart", "copy"}
                 /\ maint'.left = maint.left
                 /\ maint'.pc = "restart" => listener' = "closed"
      BY <2>3 DEF ConnectionsTypeOK, MaintState, TimerMaintain, ReStartListen
    <2>4. CASE CopySessions
      BY <2>4 DEF ConnectionsTypeOK, MaintState, CopySessions, Rest
    <2>5. QED BY <2>1, <2>2, <2>3, <2>4
              DEF Start, Started, Stop, StopListener, JoinPool, AcceptFails, KcpForget
  <1>3. /\ running' \in BOOLEAN
        /\ app' \in {"new", "starting", "up", "stopping", "listener closed", "joining", "joined", "stopped"}
        /\ running' <=> app' = "up"
        /\ app' \in {"new", "starting"} => app \in {"new", "starting"}
        /\ app' \in {"new", "starting", "up"} => app \in {"new", "starting", "up"}
        /\ running' => running \/ app = "starting"
        /\ app' \in {"joining", "joined", "stopped"} => app \in {"joining", "joined", "stopped"}
    <2>1. CASE UNCHANGED <<app, running>>
      BY <2>1 DEF ConnectionsTypeOK, AppInv
    <2>2. ASSUME NEW b \in BOOLEAN, Start(b), app' # app
          PROVE  app = "new" /\ app' = "starting" /\ UNCHANGED running
      BY <2>2 DEF Start
    <2>3. CASE \E b \in BOOLEAN : Start(b)
      <3>1. CASE app' = app
        BY <2>1, <2>3, <3>1 DEF Start
      <3>2. CASE app' # app
        BY <2>2, <2>3, <3>2 DEF AppInv, ConnectionsTypeOK
      <3>3. QED BY <3>1, <3>2
    <2>4. CASE Started
      BY <2>4 DEF Started
    <2>5. CASE Stop
      BY <2>5 DEF Stop
    <2>6. CASE StopListener \/ JoinPool
      <3>1. /\ app \in {"stopping", "joining"} /\ app' \in {"listener closed", "joined"}
            /\ (app' = "joined" => app = "joining") /\ UNCHANGED running
        BY <2>6 DEF StopListener, JoinPool
      <3>2. running' \in BOOLEAN /\ ~running'
        BY <3>1 DEF AppInv, ConnectionsTypeOK
      <3>3. QED BY <3>1, <3>2 DEF AppInv
    <2>7. QED BY <2>1, <2>3, <2>4, <2>5, <2>6
              DEF TimerMaintain, ReStartListen, OnTimeout, CopySessions, AcceptFails, KcpForget
  <1>4. acceptor' \in {"maint", "pool"}
    BY DEF Start, TimerMaintain, ReStartListen, Started, Stop, StopListener, JoinPool, OnTimeout,
           CopySessions, AcceptFails, KcpForget, ConnectionsTypeOK
  <1>5. app' \in {"new", "starting", "up"} =>
          /\ listener' # "open" => accepting = NoAccept
          /\ maint'.pc = "restart" => listener' = "closed"
    <2>1. CASE UNCHANGED listener
      BY <1>2, <1>3, <2>1 DEF AppInv
    <2>2. CASE \E b \in BOOLEAN : Start(b)
      BY <1>3, <2>2 DEF Start, AppInv
    <2>3. CASE \E b \in BOOLEAN : ReStartListen(b)
      <3>1. maint'.pc # "restart" /\ maint.pc = "restart" /\ app' = app
        BY <2>3 DEF ReStartListen, ConnectionsTypeOK, MaintState
      <3>2. QED BY <3>1 DEF AppInv
    <2>4. CASE StopListener
      BY <2>4 DEF StopListener
    <2>5. CASE AcceptFails
      BY <2>5 DEF AcceptFails, CanAccept, Idle
    <2>6. QED BY <2>1, <2>2, <2>3, <2>4, <2>5
              DEF TimerMaintain, Started, Stop, JoinPool, OnTimeout, CopySessions, KcpForget
  <1>6. ConnectionsTypeOK'
    BY <1>1, <1>2, <1>3, <1>4 DEF ConnectionsTypeOK
  <1>7. AppInv'
    <2>1. app' = "new" => listener' = "none"
      BY DEF Start, TimerMaintain, ReStartListen, Started, Stop, StopListener, JoinPool, OnTimeout,
             CopySessions, AcceptFails, KcpForget, AppInv
    <2>2. QED BY <1>1, <1>3, <1>5, <2>1 DEF AppInv
  <1>8. KindInv'
    BY <1>1 DEF KindInv, Server
  <1>9. StatusInv'
    BY <1>1, <1>2 DEF StatusInv, Accepts
  <1>10. AcceptInv'
    BY <1>1, <1>2 DEF AcceptInv, Accepting
  <1>11. SetInv'
    BY <1>1, <1>3 DEF SetInv, AppInv, Server
  <1>12. ClientInv'
    BY <1>1, <1>3 DEF ClientInv, Open, Opens, Server
  <1>13. BoundInv'
    BY <1>1 DEF BoundInv
  <1>14. QED BY <1>6, <1>7, <1>8, <1>9, <1>10, <1>11, <1>12, <1>13

LEMMA StopSessionsKeeps ==
    ASSUME IInv, StopSessions
    PROVE  IInv'
  <1> USE DEF IInv, StopSessions, Server
  <1>0. ~running
    BY DEF AppInv
  <1>1. \A s \in Sessions : status'[s] = "none" => status[s] = "none" /\ s \notin table
    OBVIOUS
  <1>2. ConnectionsTypeOK' /\ AppInv' /\ KindInv'
    BY DEF ConnectionsTypeOK, AppInv, KindInv, Status
  <1>3. /\ \A s \in Sessions : s \notin table => socket'[s] = socket[s] /\ (s \in early' <=> s \in early)
        /\ \A s \in table : socket'[s] = "shut" \/ s \in early'
        /\ \A s \in Sessions : socket[s] = "none" => socket'[s] = "none"
        /\ \A s \in Sessions : socket'[s] = "open" => socket[s] = "open"
        /\ early \subseteq early'
    BY DEF ConnectionsTypeOK, StatusInv
  <1>4. StatusInv'
    BY <1>1, <1>3, ZenonT(60) DEF StatusInv, Accepts
  <1>5. AcceptInv'
    BY <1>3 DEF AcceptInv, Accepting
  <1>6. SetInv' /\ BoundInv'
    BY <1>0 DEF SetInv, BoundInv
  <1>7. ClientInv'
    <2> SUFFICES ASSUME ~Server PROVE ClientInv'
      BY DEF ClientInv
    <2>1. Open' \subseteq early'
      BY <1>3 DEF Open, ClientInv
    <2>2. ASSUME NEW t \in Types, Opens(t)
          PROVE  socket'[connecting[t].s] = "none" /\ connecting[t].s \in early'
      <3>1. connecting[t].s \in Sessions
        BY <2>2 DEF Opens, StatusInv
      <3>2. socket[connecting[t].s] = "none" /\ connecting[t].s \in table \cup early
        BY <2>2 DEF ClientInv
      <3>3. QED BY <1>3, <3>1, <3>2
    <2>3. QED BY <2>1, <2>2 DEF ClientInv, Opens
  <1>8. QED BY <1>2, <1>4, <1>5, <1>6, <1>7

LEMMA JoinMaintainKeeps ==
    ASSUME IInv, JoinMaintain
    PROVE  IInv'
  <1> USE DEF IInv, JoinMaintain, Server
  <1>1. ConnectionsTypeOK' /\ AppInv' /\ KindInv'
    BY DEF ConnectionsTypeOK, AppInv, KindInv
  <1>2. StatusInv' /\ AcceptInv' /\ SetInv'
    BY ConnectionsAssumption DEF StatusInv, Accepts, AcceptInv, Accepting, SetInv
  <1>3. ClientInv'
    BY DEF ClientInv, Open, Opens
  <1>4. BoundInv'
    BY FS_EmptySet, ConnectionsAssumption DEF BoundInv, NoAccept
  <1>5. QED BY <1>1, <1>2, <1>3, <1>4

LEMMA SweepKeeps ==
    ASSUME IInv, NEW s \in Sessions, NEW idle \in BOOLEAN, SweepSession(s, idle)
    PROVE  IInv'
  <1> USE DEF SweepSession
  <1>1. /\ maint' \in MaintState /\ maint'.pc \in {"rest", "sweep"} /\ maint.pc = "sweep"
        /\ maint'.left \subseteq maint.left
    <2>1. CASE maint' = Rest
      BY <2>1 DEF Rest, MaintState
    <2>2. CASE maint' = [maint EXCEPT !.left = @ \ {s}]
      BY <2>2, ZenonT(40) DEF IInv, ConnectionsTypeOK, MaintState
    <2>3. QED BY <2>1, <2>2
  <1>2. CASE Close(s, "maint")
    <2>1. status[s] # "none" /\ ~Accepting(s)
      BY DEF IInv, StatusInv, AcceptInv
    <2>2. ~Accepting(s)'
      BY <2>1 DEF Accepting
    <2>3. io' \in [Sessions -> IoState] /\ \A x \in Sessions : io'[x] \in {io[x], "rest"}
      BY DEF IInv, ConnectionsTypeOK
    <2>4. /\ UNCHANGED <<kind, running, app, lisVars, table, types, connecting, told>>
          /\ "maint" \in Threads /\ ~Busy("maint") /\ accepting' \in {accepting, NoAccept}
      BY DEF Threads
    <2>5. QED BY <1>1, <1>2, <2>1, <2>2, <2>3, <2>4, CloseKeeps
  <1>3. CASE UNCHANGED <<status, sockVars, closing>>
    <2> USE <1>3 DEF IInv, Server
    <2>1. ConnectionsTypeOK' /\ AppInv' /\ KindInv'
      BY <1>1 DEF ConnectionsTypeOK, AppInv, KindInv
    <2>2. StatusInv'
      BY <1>1 DEF StatusInv, Accepts
    <2>3. AcceptInv'
      BY <1>1 DEF AcceptInv, Accepting
    <2>4. SetInv' /\ ClientInv' /\ BoundInv'
      BY DEF SetInv, ClientInv, Open, Opens, BoundInv
    <2>5. QED BY <2>1, <2>2, <2>3, <2>4
  <1>4. QED BY <1>2, <1>3

----------------------------------------------------------------------------
(* The server accepts.                                                     *)

\* A new session, for the thread of the listener or for its own IO thread.
LEMMA NewSessionKeeps ==
    ASSUME IInv, NEW s \in Sessions, OnAccept(s) \/ KcpOnReceive(s)
    PROVE  IInv'
  <1> USE DEF IInv, Server
  <1>0. /\ Server /\ accepting = NoAccept /\ status[s] = "none" /\ listener = "open"
        /\ UNCHANGED <<kind, running, app, lisVars, maint, early, closing, table, types, connecting, told>>
        /\ s \notin early \cup told \cup table \cup maint.left
        /\ \A t \in Types : connecting[t].pc = "no" /\ types[t] = None
    BY DEF OnAccept, KcpOnReceive, CanAccept, Idle, StatusInv, KindInv
  <1>1. /\ status'[s] = "init" /\ \A x \in Sessions : x # s => status'[x] = status[x]
        /\ status' \in [Sessions -> Status]
        /\ socket'[s] = "open" /\ \A x \in Sessions : x # s => socket'[x] = socket[x]
        /\ socket' \in [Sessions -> {"none", "open", "shut"}]
    BY DEF OnAccept, KcpOnReceive, ConnectionsTypeOK, Status
  <1>2. \/ /\ kind = "TCP" /\ io' = io
           /\ accepting'.pc = "accept" /\ accepting'.s = s /\ accepting' \in AcceptState
        \/ /\ kind # "TCP" /\ accepting' = accepting
           /\ io' \in [Sessions -> IoState] /\ io'[s] \in {"handshake", "setup"}
           /\ \A x \in Sessions : x # s => io'[x] = io[x]
    <2>1. CASE kind = "TCP"
      BY <2>1 DEF OnAccept, KcpOnReceive, AcceptState
    <2>2. CASE kind # "TCP"
      BY <2>2, ZenonT(40) DEF OnAccept, KcpOnReceive, ConnectionsTypeOK, IoState
    <2>3. QED BY <2>1, <2>2
  <1>3. ConnectionsTypeOK'
    BY <1>0, <1>1, <1>2 DEF ConnectionsTypeOK
  <1>4. AppInv' /\ KindInv'
    BY <1>0, <1>2 DEF AppInv, KindInv
  <1>5. StatusInv'
    BY <1>0, <1>1, <1>2, ConnectionsAssumption DEF StatusInv, Accepts
  <1>6. AcceptInv'
    BY <1>0, <1>1, <1>2 DEF AcceptInv, Accepting, NoAccept
  <1>7. SetInv' /\ ClientInv' /\ BoundInv'
    <2>1. \A x \in table : socket'[x] = socket[x]
      BY <1>0, <1>1 DEF ConnectionsTypeOK
    <2>2. QED BY <1>0, <1>2, <2>1, ConnectionsAssumption DEF SetInv, ClientInv, BoundInv, NoAccept
  <1>8. QED BY <1>3, <1>4, <1>5, <1>6, <1>7

\* The IO thread of a session before OnAccepted.
LEMMA SetupKeeps ==
    ASSUME IInv, NEW s \in Sessions, NEW ok \in BOOLEAN, Handshake(s, ok) \/ SetupKcp(s, ok)
    PROVE  IInv'
  <1> USE DEF IInv, Server
  <1>0. /\ UNCHANGED <<kind, running, app, lisVars, accepting, maint, early, closing, table, types, connecting, told>>
        /\ io[s] \in {"handshake", "setup"} /\ kind # "TCP" /\ Server /\ accepting = NoAccept
        /\ status[s] # "none" /\ Accepting(s)
        /\ socket[s] = "open" /\ s \notin told \cup table \cup maint.left
    BY DEF Handshake, SetupKcp, KindInv, StatusInv, AcceptInv, Accepting
  <1>1. /\ io' \in [Sessions -> IoState] /\ io'[s] \in {"accept", "rest"}
        /\ \A x \in Sessions : x # s => io'[x] = io[x]
    BY DEF Handshake, SetupKcp, ConnectionsTypeOK, IoState
  <1>2. /\ status' \in [Sessions -> Status]
        /\ socket' \in [Sessions -> {"none", "open", "shut"}]
        /\ \A x \in Sessions : x # s => status'[x] = status[x] /\ socket'[x] = socket[x]
        /\ status'[s] # "none" /\ (status'[s] = "closed" => socket'[s] = "shut" \/ s \in early)
        /\ socket'[s] # "open" => io'[s] = "rest"
    <2>1. CASE Handshake(s, ok)
      BY <1>0, <2>1 DEF Handshake, ConnectionsTypeOK, StatusInv
    <2>2. CASE SetupKcp(s, ok)
      BY <1>0, <2>2 DEF SetupKcp, ConnectionsTypeOK, Status
    <2>3. QED BY <2>1, <2>2
  <1>3. ConnectionsTypeOK'
    BY <1>0, <1>1, <1>2 DEF ConnectionsTypeOK
  <1>4. AppInv' /\ KindInv'
    BY <1>0, <1>1 DEF AppInv, KindInv
  <1>5. StatusInv'
    BY <1>0, <1>1, <1>2 DEF StatusInv, Accepts
  <1>6. AcceptInv'
    BY <1>0, <1>1, <1>2 DEF AcceptInv, Accepting, NoAccept
  <1>7. SetInv' /\ ClientInv' /\ BoundInv'
    <2>1. \A x \in table : socket'[x] = socket[x]
      BY <1>0, <1>2 DEF ConnectionsTypeOK
    <2>2. QED BY <1>0, <2>1 DEF SetInv, ClientInv, BoundInv
  <1>8. QED BY <1>3, <1>4, <1>5, <1>6, <1>7

\* The thread that accepts s goes on.
LEMMA Goes ==
    ASSUME IInv, NEW s \in Sessions, NEW from \in {"accept", "insert", "test", "connect"},
           NEW to \in {"insert", "test", "connect", "rest"}, At(s, from), GoTo(s, to)
    PROVE  /\ accepting' \in AcceptState /\ io' \in [Sessions -> IoState]
           /\ to = "rest" => accepting' \in {accepting, NoAccept}
           /\ kind = "TCP" => /\ io' = io /\ accepting.pc = from /\ accepting.s = s /\ accepting'.pc = to
                              /\ to # "rest" => accepting'.s = s
           /\ kind # "TCP" => /\ accepting' = accepting /\ io[s] = from /\ io'[s] = to
                              /\ \A x \in Sessions : x # s => io'[x] = io[x]
  <1>1. CASE kind = "TCP" /\ to = "rest"
    <2>1. accepting' = NoAccept /\ io' = io /\ accepting.pc = from /\ accepting.s = s
      BY <1>1 DEF At, GoTo
    <2>2. NoAccept \in AcceptState /\ NoAccept.pc = "rest"
      BY DEF NoAccept, AcceptState
    <2>3. QED BY <1>1, <2>1, <2>2 DEF IInv, ConnectionsTypeOK
  <1>2. CASE kind = "TCP" /\ to # "rest"
    BY <1>2 DEF At, GoTo, AcceptState, IInv, ConnectionsTypeOK
  <1>3. CASE kind # "TCP"
    BY <1>3, ZenonT(40) DEF At, GoTo, IoState, IInv, ConnectionsTypeOK
  <1>4. QED BY <1>1, <1>2, <1>3

\* OnAccepted refuses the session, or keeps a place for it: by TCP the one thread
\* that inserts is between its test and its insertion.
LEMMA OnAcceptedKeeps ==
    ASSUME IInv, NEW s \in Sessions, OnAccepted(s)
    PROVE  IInv'
  <1>0. /\ UNCHANGED <<kind, running, app, lisVars, maint, table, types, connecting, told>>
        /\ At(s, "accept") /\ ~Busy(Thread(s)) /\ status[s] # "none" /\ Server
    BY DEF OnAccepted, At, IInv, StatusInv, Accepts, KindInv, Server
  <1>1. CASE GoTo(s, "rest") /\ Close(s, Thread(s))
    <2>1. /\ accepting' \in {accepting, NoAccept} /\ io' \in [Sessions -> IoState]
          /\ kind = "TCP" => /\ io' = io /\ accepting'.pc = "rest"
          /\ kind # "TCP" => /\ accepting' = accepting /\ io'[s] = "rest"
                             /\ \A x \in Sessions : x # s => io'[x] = io[x]
      BY <1>0, <1>1, Goes
    <2>2. /\ \A x \in Sessions : io'[x] \in {io[x], "rest"}
          /\ maint' \in MaintState /\ maint'.pc \in {maint.pc, "rest"} /\ maint'.left \subseteq maint.left
      BY <1>0, <2>1 DEF IInv, ConnectionsTypeOK
    <2>3. ~Accepting(s)'
      BY <1>0, <2>1 DEF Accepting, IInv, KindInv, NoAccept
    <2>4. Thread(s) \in Threads
      BY DEF Thread, Threads, IInv, ConnectionsTypeOK
    <2>5. QED BY <1>0, <1>1, <2>1, <2>2, <2>3, <2>4, CloseKeeps
  <1>2. CASE /\ running /\ Cardinality(table) < MaxConnectionCount
             /\ GoTo(s, "insert") /\ UNCHANGED <<status, sockVars, closing>>
    <2> USE DEF IInv, Server
    <2>1. /\ accepting' \in AcceptState /\ io' \in [Sessions -> IoState]
          /\ kind = "TCP" => /\ io' = io /\ accepting.pc = "accept" /\ accepting.s = s
                             /\ accepting'.pc = "insert" /\ accepting'.s = s
          /\ kind # "TCP" => /\ accepting' = accepting /\ io[s] = "accept" /\ io'[s] = "insert"
                             /\ \A x \in Sessions : x # s => io'[x] = io[x]
      BY <1>0, <1>2, Goes
    <2>2. ConnectionsTypeOK'
      BY <1>0, <1>2, <2>1 DEF ConnectionsTypeOK
    <2>3. AppInv' /\ KindInv'
      BY <1>0, <1>2, <2>1 DEF AppInv, KindInv, NoAccept
    <2>4. StatusInv'
      BY <1>0, <1>2, <2>1 DEF StatusInv, Accepts
    <2>5. AcceptInv'
      BY <1>0, <1>2, <2>1 DEF AcceptInv, Accepting
    <2>6. SetInv' /\ ClientInv' /\ BoundInv'
      BY <1>0, <1>2, <2>1 DEF SetInv, ClientInv, BoundInv, KindInv, NoAccept
    <2>7. QED BY <2>2, <2>3, <2>4, <2>5, <2>6
  <1>3. QED BY <1>1, <1>2 DEF OnAccepted

LEMMA InsertKeeps ==
    ASSUME IInv, NEW s \in Sessions, Insert(s)
    PROVE  IInv'
  <1> USE DEF IInv, Server
  <1>0. /\ UNCHANGED <<kind, running, app, lisVars, maint, status, sockVars, closing, types, connecting>>
        /\ table' = table \cup {s} /\ told' = told \cup {s} /\ At(s, "insert") /\ Server
        /\ Accepting(s) /\ status[s] # "none" /\ socket[s] = "open" /\ s \notin table
        /\ app \notin {"new", "starting"}
    BY DEF Insert, At, AcceptInv, Accepting, StatusInv, Accepts, KindInv, AppInv
  <1>1. PICK to \in {"test", "rest"} : GoTo(s, to)
    BY DEF Insert
  <1>2. /\ accepting' \in AcceptState /\ io' \in [Sessions -> IoState]
        /\ to = "rest" => accepting' \in {accepting, NoAccept}
        /\ kind = "TCP" => /\ io' = io /\ accepting.pc = "insert" /\ accepting.s = s /\ accepting'.pc = to
                           /\ to # "rest" => accepting'.s = s
        /\ kind # "TCP" => /\ accepting' = accepting /\ io[s] = "insert" /\ io'[s] = to
                           /\ \A x \in Sessions : x # s => io'[x] = io[x]
    BY <1>0, <1>1, Goes
  <1>3. ConnectionsTypeOK'
    BY <1>0, <1>2 DEF ConnectionsTypeOK
  <1>4. AppInv' /\ KindInv'
    BY <1>0, <1>2 DEF AppInv, KindInv, NoAccept
  <1>5. StatusInv'
    BY <1>0, <1>2 DEF StatusInv, Accepts, KindInv
  <1>6. AcceptInv'
    <2>1. \A x \in Sessions : Accepting(x)' => Accepting(x) /\ x # s
      BY <1>2 DEF Accepting, KindInv, NoAccept
    <2>2. QED BY <1>0, <1>2, <2>1 DEF AcceptInv, Accepting, KindInv, NoAccept
  <1>7. SetInv' /\ ClientInv'
    BY <1>0 DEF SetInv, ClientInv
  <1>8. BoundInv'
    <2>1. IsFiniteSet(table') /\ Cardinality(table') = Cardinality(table) + 1 /\ Cardinality(table) \in Nat
      BY <1>0, FS_AddElement, FS_CardinalityType DEF BoundInv
    <2>2. QED BY <1>0, <1>2, <2>1, ConnectionsAssumption DEF BoundInv
  <1>9. QED BY <1>3, <1>4, <1>5, <1>6, <1>7, <1>8

\* After the insertion: the test of is_closed(), and set_socket_connected, which
\* may overwrite a closed status; the socket stays shut.
LEMMA ConnectKeeps ==
    ASSUME IInv, NEW s \in Sessions, Server, TestClosed(s) \/ SetSocketConnected(s)
    PROVE  IInv'
  <1> USE DEF IInv, Server
  <1>0. /\ UNCHANGED <<kind, running, app, lisVars, maint, sockVars, closing, table, types, connecting, told>>
        /\ \A x \in Sessions : x # s => status'[x] = status[x]
        /\ status'[s] \in {status[s], "connected"}
        /\ status' \in [Sessions -> Status]
        /\ status[s] # "none"
    BY ZenonT(60) DEF TestClosed, SetSocketConnected, At, ConnectionsTypeOK, Status, StatusInv, Accepts
  <1>1. PICK from \in {"test", "connect"}, to \in {"connect", "rest"} : At(s, from) /\ GoTo(s, to)
    BY DEF TestClosed, SetSocketConnected
  <1>2. /\ accepting' \in AcceptState /\ io' \in [Sessions -> IoState]
        /\ to = "rest" => accepting' \in {accepting, NoAccept}
        /\ kind = "TCP" => /\ io' = io /\ accepting.pc = from /\ accepting.s = s /\ accepting'.pc = to
                           /\ to # "rest" => accepting'.s = s
        /\ kind # "TCP" => /\ accepting' = accepting /\ io[s] = from /\ io'[s] = to
                           /\ \A x \in Sessions : x # s => io'[x] = io[x]
    BY <1>1, Goes
  <1>3. ConnectionsTypeOK'
    BY <1>0, <1>2 DEF ConnectionsTypeOK
  <1>4. AppInv' /\ KindInv'
    BY <1>0, <1>2 DEF AppInv, KindInv, NoAccept
  <1>5. StatusInv'
    BY <1>0, <1>2 DEF StatusInv, Accepts, KindInv
  <1>6. AcceptInv'
    <2>1. \A x \in Sessions : Accepting(x)' => Accepting(x)
      BY <1>2 DEF Accepting, KindInv
    <2>2. accepting'.pc \notin {"accept", "insert"}
      BY <1>2 DEF KindInv, NoAccept
    <2>3. QED BY <1>0, <1>2, <2>1, <2>2 DEF AcceptInv
  <1>7. SetInv' /\ ClientInv' /\ BoundInv'
    BY <1>0, <1>2 DEF SetInv, ClientInv, BoundInv
  <1>8. QED BY <1>3, <1>4, <1>5, <1>6, <1>7

----------------------------------------------------------------------------
(* The client connects.                                                    *)

LEMMA FindKeeps ==
    ASSUME IInv, NEW t \in Types, FindOrCreateStream(t)
    PROVE  IInv'
  <1> USE DEF IInv, Server
  <1>0. /\ ~Server /\ running /\ app = "up"
        /\ UNCHANGED <<kind, running, app, lisVars, accepting, maint, io, sockVars, closing, types, told>>
    BY DEF FindOrCreateStream, AppInv
  <1>1. PICK s \in Sessions, pc \in {"start", "store"} :
             /\ connecting' = [connecting EXCEPT ![t] = [pc |-> pc, s |-> s]]
             /\ \/ /\ s \in table /\ pc = "store" /\ UNCHANGED <<status, table>>
                \/ /\ \A x \in table : status[x] = "closed"
                   /\ status[s] = "none"
                   /\ status' = [status EXCEPT ![s] = "init"] /\ table' = {s}
    BY DEF FindOrCreateStream, New, ConnectionsTypeOK
  <1>2. /\ connecting' \in [Types -> ConnectState]
        /\ connecting'[t].s = s /\ connecting'[t].pc = pc
        /\ \A u \in Types : u # t => connecting'[u] = connecting[u]
    BY <1>1 DEF ConnectionsTypeOK, ConnectState
  <1>3. /\ status' \in [Sessions -> Status]
        /\ status'[s] # "none" /\ (status'[s] = "closed" => status[s] = "closed")
        /\ \A x \in Sessions : x # s => status'[x] = status[x]
        /\ table' \subseteq Sessions /\ table' \subseteq table \cup {s}
    <2>1. CASE s \in table /\ UNCHANGED <<status, table>>
      BY <2>1 DEF ConnectionsTypeOK, StatusInv
    <2>2. CASE status' = [status EXCEPT ![s] = "init"] /\ table' = {s}
      BY <2>2 DEF ConnectionsTypeOK, Status
    <2>3. QED BY <1>1, <2>1, <2>2
  <1>4. ConnectionsTypeOK'
    BY <1>0, <1>2, <1>3 DEF ConnectionsTypeOK
  <1>5. AppInv' /\ KindInv' /\ SetInv'
    BY <1>0 DEF AppInv, KindInv, SetInv
  <1>6. StatusInv'
    BY <1>0, <1>2, <1>3 DEF StatusInv, Accepts
  <1>7. AcceptInv'
    BY <1>0, <1>3 DEF AcceptInv, Accepting, KindInv, NoAccept
  <1>8. ClientInv'
    <2>1. CASE pc = "store" /\ UNCHANGED <<status, table>>
      <3>1. \A u \in Types : Opens(u)' => Opens(u) /\ connecting'[u] = connecting[u]
        BY <1>2, <2>1 DEF Opens
      <3>2. QED BY <1>0, <2>1, <3>1 DEF ClientInv, Open
    <2>2. CASE (\A x \in table : status[x] = "closed") /\ status[s] = "none" /\ table' = {s}
      <3>1. \A x \in table : socket[x] = "shut" \/ x \in early
        BY <2>2 DEF StatusInv, ConnectionsTypeOK
      <3>2. /\ Open \subseteq early
            /\ \A u \in Types : Opens(u) => connecting[u].s \in early
        BY <1>0, <3>1 DEF ClientInv, Open
      <3>3. socket[s] = "none" /\ \A u \in Types : Opens(u) => connecting[u].s # s
        BY <1>0, <2>2 DEF StatusInv, Opens
      <3>4. \A u \in Types : Opens(u)' => u = t \/ (Opens(u) /\ connecting'[u] = connecting[u])
        BY <1>2 DEF Opens
      <3>5. QED BY <1>0, <1>2, <2>2, <3>2, <3>3, <3>4 DEF ClientInv, Open
    <2>3. QED BY <1>1, <2>1, <2>2
  <1>9. BoundInv'
    <2>1. IsFiniteSet({s})
      BY FS_Singleton
    <2>2. QED BY <1>0, <1>1, <2>1 DEF BoundInv
  <1>10. QED BY <1>4, <1>5, <1>6, <1>7, <1>8, <1>9

\* The status of a session in use is stored over, its IO thread moves, or a type
\* gets it.
LEMMA ConnectingKeeps ==
    ASSUME IInv, ~Server, NEW s \in Sessions, status[s] # "none",
           NEW pc \in {"rest", "wait", "connect"}, io' = [io EXCEPT ![s] = pc],
           NEW v \in {status[s], "connecting", "connected"}, status' = [status EXCEPT ![s] = v],
           told' \in {told, told \cup {s}},
           types' \in [Types -> Sessions \cup {None}], \A t \in Types : types'[t] \in {types[t], s},
           connecting' \in [Types -> ConnectState],
           \A t \in Types : connecting'[t].pc # "no" =>
               connecting[t].pc # "no" /\ connecting'[t].s = connecting[t].s,
           \A t \in Types : Opens(t)' => Opens(t),
           UNCHANGED <<kind, running, app, lisVars, accepting, maint, sockVars, closing, table>>
    PROVE  IInv'
  <1> USE DEF IInv, Server
  <1>1. /\ io' \in [Sessions -> IoState] /\ io'[s] = pc
        /\ \A x \in Sessions : x # s => io'[x] = io[x] /\ status'[x] = status[x]
        /\ status'[s] = v /\ v # "none" /\ (v = "closed" => socket[s] = "shut" \/ s \in early)
        /\ status' \in [Sessions -> Status]
    <2>1. v \in Status /\ v # "none" /\ (v = "closed" => socket[s] = "shut" \/ s \in early)
      BY ZenonT(60) DEF ConnectionsTypeOK, Status, StatusInv
    <2>2. QED BY <2>1 DEF ConnectionsTypeOK, IoState
  <1>2. ConnectionsTypeOK'
    BY <1>1 DEF ConnectionsTypeOK
  <1>3. AppInv' /\ KindInv'
    BY <1>1 DEF AppInv, KindInv
  <1>4. StatusInv'
    BY <1>1 DEF StatusInv, Accepts
  <1>5. AcceptInv'
    BY <1>1 DEF AcceptInv, Accepting, KindInv, NoAccept
  <1>6. SetInv' /\ BoundInv'
    BY DEF SetInv, BoundInv
  <1>7. ClientInv'
    <2>1. Open' = Open
      BY DEF Open
    <2>2. \A t \in Types : Opens(t)' => Opens(t) /\ connecting'[t].s = connecting[t].s
      BY DEF Opens
    <2>3. QED BY <2>1, <2>2 DEF ClientInv
  <1>8. QED BY <1>2, <1>3, <1>4, <1>5, <1>6, <1>7

\* A thread that connects goes on to pc with the same session.
LEMMA ConnectingGoes ==
    ASSUME IInv, NEW t \in Types, NEW pc \in {"open", "store"}, connecting[t].pc # "no",
           connecting' = [connecting EXCEPT ![t] = [pc |-> pc, s |-> @.s]]
    PROVE  /\ connecting' \in [Types -> ConnectState]
           /\ connecting'[t].pc = pc /\ connecting'[t].s = connecting[t].s
           /\ \A u \in Types : u # t => connecting'[u] = connecting[u]
  BY DEF IInv, ConnectionsTypeOK, ConnectState

LEMMA StoreKeeps ==
    ASSUME IInv, NEW t \in Types, StoreConnecting(t) \/ StoreType(t)
    PROVE  IInv'
  <1> DEFINE s == connecting[t].s
  <1>0. ~Server /\ s \in Sessions /\ status[s] # "none" /\ connecting[t].pc # "no"
    BY DEF StoreConnecting, StoreType, IInv, KindInv, StatusInv
  <1>1. io' = [io EXCEPT ![s] = io[s]] /\ io[s] \in {"rest", "wait", "connect"}
    BY <1>0 DEF StoreConnecting, StoreType, IInv, ConnectionsTypeOK, KindInv
  <1>2. CASE StoreConnecting(t)
    <2>1. /\ connecting' \in [Types -> ConnectState]
          /\ \A u \in Types : connecting'[u].s = connecting[u].s
          /\ \A u \in Types : Opens(u)' => Opens(u)
          /\ \A u \in Types : connecting'[u].pc # "no" => connecting[u].pc # "no"
      BY <1>0, <1>2, ConnectingGoes DEF StoreConnecting, Opens
    <2>2. types' \in [Types -> Sessions \cup {None}] /\ \A u \in Types : types'[u] \in {types[u], s}
      BY <1>2 DEF StoreConnecting, IInv, ConnectionsTypeOK
    <2>3. QED BY <1>0, <1>1, <1>2, <2>1, <2>2, ConnectingKeeps DEF StoreConnecting
  <1>3. CASE StoreType(t)
    <2>1. /\ connecting' \in [Types -> ConnectState]
          /\ \A u \in Types : connecting'[u].pc # "no" =>
                 connecting[u].pc # "no" /\ connecting'[u].s = connecting[u].s
          /\ \A u \in Types : Opens(u)' => Opens(u)
      <3>1. [pc |-> "no", s |-> None] \in ConnectState
        BY DEF ConnectState
      <3>2. QED BY <1>3, <3>1 DEF StoreType, IInv, ConnectionsTypeOK, Opens
    <2>2. types' \in [Types -> Sessions \cup {None}] /\ \A u \in Types : types'[u] \in {types[u], s}
      BY <1>0, <1>3 DEF StoreType, IInv, ConnectionsTypeOK
    <2>3. status' = [status EXCEPT ![s] = status[s]]
      BY <1>0, <1>3 DEF StoreType, IInv, ConnectionsTypeOK
    <2>4. QED BY <1>0, <1>1, <1>3, <2>1, <2>2, <2>3, ConnectingKeeps DEF StoreType
  <1>4. QED BY <1>2, <1>3

\* The socket that opens is that of the session in the table, or of one that was
\* closed before.
LEMMA AsyncConnectKeeps ==
    ASSUME IInv, NEW t \in Types, AsyncConnect(t)
    PROVE  IInv'
  <1> DEFINE s == connecting[t].s
  <1> USE DEF IInv, Server
  <1>0. /\ ~Server /\ s \in Sessions /\ status[s] # "none" /\ Opens(t) /\ connecting[t].pc # "no"
        /\ socket[s] = "none" /\ s \in table \cup early
    BY DEF AsyncConnect, KindInv, StatusInv, ClientInv, Opens
  <1>1. /\ connecting' \in [Types -> ConnectState]
        /\ connecting'[t].pc = "store" /\ connecting'[t].s = s
        /\ \A u \in Types : u # t => connecting'[u] = connecting[u]
    BY <1>0, ConnectingGoes DEF AsyncConnect
  <1>2. /\ socket' \in [Sessions -> {"none", "open", "shut"}] /\ io' \in [Sessions -> IoState]
        /\ socket'[s] = "open" /\ io'[s] = "wait"
        /\ \A x \in Sessions : x # s => socket'[x] = socket[x] /\ io'[x] = io[x]
        /\ UNCHANGED <<kind, running, app, lisVars, accepting, maint, status, early, closing, table, types, told>>
    BY <1>0 DEF AsyncConnect, ConnectionsTypeOK, IoState
  <1> HIDE DEF s
  <1>3. ConnectionsTypeOK'
    BY <1>1, <1>2 DEF ConnectionsTypeOK
  <1>4. AppInv' /\ KindInv'
    BY <1>0, <1>2 DEF AppInv, KindInv
  <1>5. StatusInv'
    BY <1>0, <1>1, <1>2 DEF StatusInv, Accepts
  <1>6. AcceptInv'
    BY <1>0, <1>2 DEF AcceptInv, Accepting, KindInv, NoAccept
  <1>7. SetInv' /\ BoundInv'
    BY <1>0, <1>2 DEF SetInv, BoundInv
  <1>8. ClientInv'
    <2>1. \A u \in Types : Opens(u)' => u # t /\ Opens(u) /\ connecting'[u] = connecting[u]
      BY <1>1 DEF Opens
    <2>2. \A u \in Types : Opens(u)' => connecting[u].s \in Sessions /\ connecting[u].s # s
      BY <1>0, <2>1 DEF ClientInv, StatusInv, Opens, s
    <2>3. Open' = Open \cup {s}
      BY <1>0, <1>2 DEF Open
    <2>4. app \in {"joining", "joined", "stopped"} => s \in early
      BY <1>0 DEF ClientInv, s
    <2>5. QED BY <1>0, <1>2, <2>1, <2>2, <2>3, <2>4 DEF ClientInv
  <1>9. QED BY <1>3, <1>4, <1>5, <1>6, <1>7, <1>8

LEMMA ConnectedKeeps ==
    ASSUME IInv, NEW s \in Sessions, Connected(s)
    PROVE  IInv'
  <1>1. status[s] # "none"
    BY DEF Connected, IInv, StatusInv
  <1>2. UNCHANGED <<connecting, types>> /\ \A t \in Types : Opens(t)' => Opens(t)
    BY DEF Connected, Opens
  <1>3. QED BY <1>1, <1>2, ConnectingKeeps DEF Connected, IInv, ConnectionsTypeOK

LEMMA OnConnectKeeps ==
    ASSUME IInv, NEW s \in Sessions, NEW ok \in BOOLEAN, OnConnect(s, ok)
    PROVE  IInv'
  <1>0. /\ ~Server /\ status[s] # "none" /\ io[s] = "wait" /\ ~Busy(s)
        /\ UNCHANGED <<kind, running, app, lisVars, accepting, maint, table, types, connecting, told>>
        /\ connecting \in [Types -> ConnectState] /\ types \in [Types -> Sessions \cup {None}]
        /\ status \in [Sessions -> Status]
    BY DEF OnConnect, IInv, KindInv, StatusInv, ConnectionsTypeOK
  <1>1. ASSUME NEW pc \in {"rest", "connect"}, io' = [io EXCEPT ![s] = pc],
               UNCHANGED <<status, sockVars, closing>>
        PROVE  IInv'
    <2>1. status' = [status EXCEPT ![s] = status[s]] /\ \A t \in Types : Opens(t)' => Opens(t)
      BY <1>0, <1>1 DEF Opens
    <2>2. QED BY <1>0, <1>1, <2>1, ConnectingKeeps
  <1>2. CASE io' = [io EXCEPT ![s] = "rest"] /\ Close(s, s)
    <2>1. /\ io' \in [Sessions -> IoState] /\ maint' \in MaintState /\ s \in Threads
          /\ \A x \in Sessions : io'[x] \in {io[x], "rest"}
          /\ io'[s] = "rest"
      BY <1>0, <1>2 DEF IInv, ConnectionsTypeOK, IoState, Threads
    <2>2. ~Accepting(s)'
      BY <1>0, <2>1 DEF Accepting, IInv, KindInv, Server, NoAccept
    <2>3. QED BY <1>0, <1>2, <2>1, <2>2, CloseKeeps
  <1>3. QED BY <1>1, <1>2 DEF OnConnect

----------------------------------------------------------------------------
LEMMA NextKeeps == IInv /\ [Next]_vars => IInv'
  <1> SUFFICES ASSUME IInv, [Next]_vars PROVE IInv'
    OBVIOUS
  <1>1. CASE MaintStep
    BY <1>1, QuietKeeps, SweepKeeps DEF MaintStep
  <1>2. CASE AcceptStep
    <2>1. ASSUME NEW s \in Sessions, TestClosed(s) PROVE IInv'
      <3>1. Server
        BY <2>1 DEF TestClosed, At, Server, IInv, KindInv
      <3>2. QED BY <2>1, <3>1, ConnectKeeps
    <2>2. QED BY <1>2, <2>1, OnAcceptedKeeps, InsertKeeps, ConnectKeeps, SetupKeeps, OnConnectKeeps,
                 ConnectedKeeps DEF AcceptStep
  <1>3. CASE StopStep
    BY <1>3, QuietKeeps, StopSessionsKeeps, JoinMaintainKeeps DEF StopStep
  <1>4. CASE ConnectStep
    BY <1>4, StoreKeeps, AsyncConnectKeeps DEF ConnectStep
  <1>5. CASE Event
    BY <1>5, EventCloseKeeps, NewSessionKeeps, QuietKeeps, FindKeeps DEF Event
  <1>6. CASE UNCHANGED vars
    <2> USE <1>6 DEF vars, IInv, Server
    <2>1. ConnectionsTypeOK' /\ AppInv' /\ KindInv'
      BY DEF ConnectionsTypeOK, AppInv, KindInv
    <2>2. StatusInv' /\ AcceptInv'
      BY DEF StatusInv, Accepts, AcceptInv, Accepting
    <2>3. SetInv' /\ ClientInv' /\ BoundInv'
      BY DEF SetInv, ClientInv, Open, Opens, BoundInv
    <2>4. QED BY <2>1, <2>2, <2>3
  <1>7. QED BY <1>1, <1>2, <1>3, <1>4, <1>5, <1>6, OnClosedKeeps DEF Next

\* The inductive invariant of the sessions: who may know a session at each place
\* of the accepting and the connecting thread, of on_closed and of Stop, and when
\* its socket is open (server.cpp, client.cpp and the listeners).
THEOREM Invariance == Spec => []IInv
  <1>1. QED BY InitIInv, NextKeeps, PTL DEF Spec

\* For any max_connection_count and however sessions close meanwhile, a TCP server
\* never has more: OnAccepted tests and inserts on one thread (server.cpp:310).
THEOREM Bounded == Spec => []ConnectionsBounded
  <1>1. IInv => ConnectionsBounded
    BY DEF IInv, BoundInv, ConnectionsBounded
  <1>2. QED BY <1>1, Invariance, PTL

\* Every session in the set of a running server is open or will be erased by an
\* on_closed that is under way, although set_socket_connected may overwrite its
\* status.  A client has one open connection besides the sessions that were
\* closed before their sockets were opened, whichever of its threads connect and
\* close (server.cpp:349, client.cpp:164, tcp_transport.cpp:45).
THEOREM SessionsCorrect == Spec => []SessionsExact
  <1>1. IInv => SessionsExact
    <2> SUFFICES ASSUME IInv, ~Server PROVE Cardinality(Open \ early) <= 1
      BY DEF IInv, SetInv, SessionsExact
    <2> DEFINE Live == Open \ early
    <2>1. \A x, y \in Live : x = y
      BY DEF IInv, ClientInv
    <2>2. CASE Live = {}
      BY <2>2, FS_EmptySet
    <2>3. CASE Live # {}
      <3>1. PICK x \in Live : TRUE
        BY <2>3
      <3>2. Live = {x}
        BY <2>1, <3>1
      <3>3. QED BY <3>2, FS_Singleton
    <2>4. QED BY <2>2, <2>3
  <1>2. QED BY <1>1, Invariance, PTL
==============================================================================
