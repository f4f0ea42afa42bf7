----------------------------- MODULE Connections -----------------------------
(***************************************************************************)
(* The sessions of a ServerImpl or of a ClientImpl (src/network/io): who   *)
(* enters a session in _session_set or _session_map, who closes it, and    *)
(* how Start, Stop, TimerMaintain and the listeners use                     *)
(* _start_stop_mutex.                                                      *)
(*                                                                         *)
(* The server listens at one endpoint by TCP, SSL or KCP; the client       *)
(* connects by TCP or SSL to one endpoint for several CONNECT_TYPEs.       *)
(* Threads are the maintenance thread, the IO thread of each session, the  *)
(* one that accepts after a restart, and those of the application.  What a *)
(* session does with its bytes is in MessageStream; whether a session is   *)
(* idle is left open.                                                      *)
(***************************************************************************)
EXTENDS Naturals, FiniteSets

CONSTANTS Sessions,            \* session objects, each used once
          Types,               \* CONNECT_TYPE, also the threads that Connect
          Kinds,               \* "client" and the transports of servers
          MaxConnectionCount,
          None

ASSUME ConnectionsAssumption == MaxConnectionCount \in Nat /\ None \notin Sessions

VARIABLES
    kind,        \* "client", or the transport type of a server
    running,     \* _is_runing
    mutex,       \* _start_stop_mutex: "free" or its holder
    app,         \* where Start or Stop is
    timer,       \* _is_runing of _timer_worker
    listener,    \* "none", "open", "closed" (is_close()), or "deaf": it does not
                 \* listen and is not closed
    acceptor,    \* the thread that the listener's handlers run on
    accepting,   \* where on_accept by TCP is, and its session
    maint,       \* the maintenance thread
    io,          \* the IO threads: where each is with its session
    status,      \* _status
    socket,      \* the socket of a session: "none", "open" or "shut"
    early,       \* the sessions that close() found without an open socket
    closing,     \* the on_closed that a thread runs, and its session
    table,       \* _session_set, or the session in _session_map
    types,       \* _session_type_map
    connecting,  \* where Connect of a type is
    kcp_map,     \* the session of the peer, one conv
    told         \* the sessions given to _connected_callback

ctlVars  == <<kind, running, mutex, app, timer>>
lisVars  == <<listener, acceptor>>
sockVars == <<socket, early>>
tabVars  == <<table, types, connecting, kcp_map, told>>

vars == <<ctlVars, lisVars, accepting, maint, io, status, sockVars, closing, tabVars>>

Server == kind # "client"
Threads == Sessions \cup {"maint", "pool", "user"}
Rest == [pc |-> "rest", left |-> {}]
NoAccept == [pc |-> "rest", s |-> None]
Returned == [pc |-> "no", s |-> None]
Open == {s \in Sessions : socket[s] = "open"}

Init ==
    /\ kind \in Kinds
    /\ running = FALSE /\ mutex = "free" /\ app = "new" /\ timer = FALSE /\ listener = "none"
    /\ maint = Rest /\ acceptor = "maint" /\ accepting = NoAccept
    /\ io = [s \in Sessions |-> "rest"]
    /\ status = [s \in Sessions |-> "none"]
    /\ socket = [s \in Sessions |-> "none"]
    /\ early = {} /\ table = {} /\ told = {}
    /\ closing = [t \in Threads |-> Returned]
    /\ types = [t \in Types |-> None]
    /\ connecting = [t \in Types |-> [pc |-> "no", s |-> None]]
    /\ kcp_map = None

----------------------------------------------------------------------------
(* ByteStream::close and on_closed, on thread t.                           *)

\* A thread runs on_closed to its end before it goes on.
Busy(t) == closing[t].pc # "no"

\* socket.shutdown closes an open socket and does nothing to one that
\* async_connect has not opened yet.
Close(s, t) ==
    /\ status' = [status EXCEPT ![s] = "closed"]
    /\ IF status[s] = "closed" THEN UNCHANGED <<socket, early, closing>>
       ELSE /\ socket' = [socket EXCEPT ![s] = IF @ = "open" THEN "shut" ELSE @]
            /\ early' = IF socket[s] = "none" THEN early \cup {s} ELSE early
            /\ closing' = [closing EXCEPT ![t] = [pc |-> "enter", s |-> s]]

\* OnClosed returns when not running.
EnterOnClosed(t) ==
    /\ closing[t].pc = "enter"
    /\ closing' = [closing EXCEPT ![t] = IF running THEN [pc |-> IF Server THEN "erase" ELSE "map", s |-> @.s]
                                                    ELSE Returned]
    /\ UNCHANGED <<ctlVars, lisVars, accepting, maint, io, status, sockVars, tabVars>>

\* The server's OnClosed after _close_callback.
ServerOnClosed(t) ==
    /\ closing[t].pc = "erase"
    /\ table' = table \ {closing[t].s}
    /\ closing' = [closing EXCEPT ![t] = Returned]
    /\ UNCHANGED <<ctlVars, lisVars, accepting, maint, io, status, sockVars, types, connecting, kcp_map, told>>

\* The client's OnClosed.  It leaves a session that is not closed alone, ...
ClientOnClosed(t) ==
    /\ closing[t].pc = "map"
    /\ IF \E x \in table : status[x] # "closed"
       THEN table' = table /\ closing' = [closing EXCEPT ![t] = Returned]
       ELSE table' = {} /\ closing' = [closing EXCEPT ![t] = [pc |-> "types", s |-> @.s]]
    /\ UNCHANGED <<ctlVars, lisVars, accepting, maint, io, status, sockVars, types, connecting, kcp_map, told>>

\* ... and erases one type of the endpoint, whatever session it has by now.
EraseType(t) ==
    /\ closing[t].pc = "types"
    /\ LET known == {y \in Types : types[y] # None} IN
       IF known = {} THEN types' = types
       ELSE \E y \in known : types' = [types EXCEPT ![y] = None]
    /\ closing' = [closing EXCEPT ![t] = Returned]
    /\ UNCHANGED <<ctlVars, lisVars, accepting, maint, io, status, sockVars, table, connecting, kcp_map, told>>

\* The peer closes, a read or a write fails.
PeerCloses(s) ==
    /\ status[s] = "connected" /\ io[s] = "rest" /\ ~Busy(s)
    /\ app \notin {"joined", "stopped"}
    /\ Close(s, s)
    /\ UNCHANGED <<ctlVars, lisVars, accepting, maint, io, tabVars>>

\* The application closes a session that a callback or GetSession gave it.
AppCloses(s) ==
    /\ s \in told \/ \E t \in Types : types[t] = s
    /\ status[s] # "closed" /\ ~Busy("user")
    /\ Close(s, "user")
    /\ UNCHANGED <<ctlVars, lisVars, accepting, maint, io, tabVars>>

----------------------------------------------------------------------------
(* Start and Stop.                                                         *)

\* Start up to start_listen.
Start(ok) ==
    /\ app = "new" /\ mutex = "free"
    /\ IF ok THEN /\ mutex' = "app" /\ app' = "starting"
                  /\ listener' = IF Server THEN "open" ELSE "none"
                  /\ timer' = TRUE
             ELSE UNCHANGED <<mutex, app, listener, timer>>
    /\ UNCHANGED <<kind, running, acceptor, accepting, maint, io, status, sockVars, closing, tabVars>>

Started ==
    /\ app = "starting"
    /\ running' = TRUE /\ app' = "up" /\ mutex' = "free"
    /\ UNCHANGED <<kind, timer, lisVars, accepting, maint, io, status, sockVars, closing, tabVars>>

Stop ==
    /\ app = "up" /\ mutex = "free"
    /\ mutex' = "app" /\ app' = "stopping"
    /\ running' = FALSE /\ timer' = FALSE
    /\ UNCHANGED <<kind, lisVars, accepting, maint, io, status, sockVars, closing, tabVars>>

StopListener ==
    /\ app = "stopping" /\ app' = "listener closed"
    /\ listener' = IF Server THEN "closed" ELSE "none"
    /\ UNCHANGED <<kind, running, mutex, timer, acceptor, accepting, maint, io, status, sockVars, closing, tabVars>>

\* Mutant: the callbacks take _session_set_mutex again.
StopSessions_Relocks ==
    /\ app = "listener closed" /\ app' = "joining"
    /\ table = {}
    /\ UNCHANGED <<kind, running, mutex, timer, lisVars, accepting, maint, io, status, sockVars, closing, tabVars>>

\* StopSession: the callbacks return at once, _is_runing being false.
StopSessions ==
    /\ app = "listener closed" /\ app' = "joining"
    /\ status' = [s \in Sessions |-> IF s \in table THEN "closed" ELSE status[s]]
    /\ socket' = [s \in Sessions |-> IF s \in table /\ socket[s] = "open" THEN "shut" ELSE socket[s]]
    /\ early' = early \cup {s \in table : status[s] # "closed" /\ socket[s] = "none"}
    /\ UNCHANGED <<kind, running, mutex, timer, lisVars, accepting, maint, io, closing, tabVars>>

\* IoServicePool::GracefulStop joins the IO threads, ...
JoinPool ==
    /\ app = "joining" /\ app' = "joined"
    /\ \A s \in Sessions : io[s] = "rest" /\ ~Busy(s)
    /\ acceptor = "pool" => accepting = NoAccept /\ ~Busy("pool")
    /\ UNCHANGED <<kind, running, mutex, timer, lisVars, accepting, maint, io, status, sockVars, closing, tabVars>>

\* ... GracefulStop of the maintenance thread joins that.
JoinMaintain ==
    /\ app = "joined" /\ app' = "stopped"
    /\ maint = Rest /\ ~Busy("maint") /\ accepting = NoAccept
    /\ table' = {} /\ types' = [t \in Types |-> None]
    /\ mutex' = "free"
    /\ UNCHANGED <<kind, running, timer, lisVars, accepting, maint, io, status, sockVars, closing,
                   connecting, kcp_map, told>>

----------------------------------------------------------------------------
(* The maintenance thread: TimerWorker::on_timeout and TimerMaintain.      *)

\* A thread takes the next handler: the maintenance thread, the accepting one.
Idle == /\ maint = Rest /\ ~Busy("maint") /\ app # "stopped"
        /\ acceptor = "maint" => accepting = NoAccept
CanAccept == IF acceptor = "maint" THEN Idle
             ELSE accepting = NoAccept /\ ~Busy("pool") /\ app \notin {"joined", "stopped"}

OnTimeout ==
    /\ Idle /\ timer /\ app # "starting"
    /\ maint' = [maint EXCEPT !.pc = IF Server THEN "tick" ELSE "copy"]
    /\ UNCHANGED <<ctlVars, lisVars, accepting, io, status, sockVars, closing, tabVars>>

\* A closed listener is replaced when the interval since the last try is over.
TimerMaintain(due) ==
    /\ maint.pc = "tick"
    /\ maint' = [maint EXCEPT !.pc = IF listener = "closed" /\ due THEN "restart" ELSE "copy"]
    /\ UNCHANGED <<ctlVars, lisVars, accepting, io, status, sockVars, closing, tabVars>>

\* A new Listener is not closed, also when its start_listen fails; its handlers
\* run on a thread of the IO pool.
ReStartListen(ok) ==
    /\ maint.pc = "restart" /\ mutex = "free"
    /\ listener' = IF ~running THEN listener
                   ELSE IF ok THEN "open" ELSE IF kind = "KCP" THEN "closed" ELSE "deaf"
    /\ acceptor' = IF running THEN "pool" ELSE acceptor
    /\ maint' = [maint EXCEPT !.pc = "copy"]
    /\ UNCHANGED <<ctlVars, accepting, io, status, sockVars, closing, tabVars>>

\* The sessions are copied, ...
CopySessions ==
    /\ maint.pc = "copy"
    /\ maint' = IF table = {} THEN Rest ELSE [maint EXCEPT !.pc = "sweep", !.left = table]
    /\ UNCHANGED <<ctlVars, lisVars, accepting, io, status, sockVars, closing, tabVars>>

\* ... and each of the copy is closed if it was idle for too long.
SweepSession(s, idle) ==
    /\ maint.pc = "sweep" /\ s \in maint.left /\ ~Busy("maint")
    /\ maint' = IF maint.left = {s} THEN Rest ELSE [maint EXCEPT !.left = @ \ {s}]
    /\ IF idle /\ status[s] # "closed" THEN Close(s, "maint") ELSE UNCHANGED <<status, sockVars, closing>>
    /\ UNCHANGED <<ctlVars, lisVars, accepting, io, tabVars>>

----------------------------------------------------------------------------
(* The server accepts.  By TCP on the thread of the listener; by SSL,      *)
(* after the handshake, and by KCP on the IO thread of the session.        *)

\* on_accept of a new connection.
OnAccept(s) ==
    /\ Server /\ kind # "KCP" /\ listener = "open" /\ CanAccept
    /\ status[s] = "none"
    /\ status' = [status EXCEPT ![s] = "init"] /\ socket' = [socket EXCEPT ![s] = "open"]
    /\ IF kind = "TCP" THEN accepting' = [pc |-> "accept", s |-> s] /\ io' = io
                       ELSE io' = [io EXCEPT ![s] = "handshake"] /\ accepting' = accepting
    /\ UNCHANGED <<ctlVars, lisVars, maint, early, closing, tabVars>>

\* async_handshake ends; with an error nothing is called.
Handshake(s, ok) ==
    /\ io[s] = "handshake"
    /\ io' = [io EXCEPT ![s] = IF ok THEN "accept" ELSE "rest"]
    /\ UNCHANGED <<ctlVars, lisVars, accepting, maint, status, sockVars, closing, tabVars>>

\* on_accept with an error closes the listener.
AcceptFails ==
    /\ Server /\ kind # "KCP" /\ listener = "open" /\ CanAccept
    /\ listener' = "closed"
    /\ UNCHANGED <<ctlVars, acceptor, accepting, maint, io, status, sockVars, closing, tabVars>>

\* A datagram of a conv without a session.
KcpOnReceive(s) ==
    /\ kind = "KCP" /\ listener = "open" /\ CanAccept
    /\ kcp_map = None /\ status[s] = "none"
    /\ kcp_map' = s
    /\ status' = [status EXCEPT ![s] = "init"] /\ socket' = [socket EXCEPT ![s] = "open"]
    /\ io' = [io EXCEPT ![s] = "setup"]
    /\ UNCHANGED <<ctlVars, lisVars, accepting, maint, early, closing, table, types, connecting, told>>

\* One of a conv whose session is closed: it only takes the session out.
KcpForget ==
    /\ kind = "KCP" /\ listener = "open" /\ CanAccept
    /\ kcp_map # None /\ status[kcp_map] = "closed"
    /\ kcp_map' = None
    /\ UNCHANGED <<ctlVars, lisVars, accepting, maint, io, status, sockVars, closing, table, types, connecting, told>>

\* SetupKcp, before the callbacks are set.
SetupKcp(s, ok) ==
    /\ io[s] = "setup"
    /\ io' = [io EXCEPT ![s] = IF ok THEN "accept" ELSE "rest"]
    /\ status' = [status EXCEPT ![s] = IF ok THEN "connected" ELSE "closed"]
    /\ socket' = [socket EXCEPT ![s] = IF ok THEN @ ELSE "shut"]
    /\ UNCHANGED <<early, ctlVars, lisVars, accepting, maint, closing, tabVars>>

\* Where the thread that accepts s is, and its next place.
Thread(s)   == IF kind = "TCP" THEN acceptor ELSE s
At(s, pc)   == IF kind = "TCP" THEN accepting.pc = pc /\ accepting.s = s ELSE io[s] = pc
GoTo(s, pc) == IF kind = "TCP"
               THEN accepting' = (IF pc = "rest" THEN NoAccept ELSE [accepting EXCEPT !.pc = pc]) /\ io' = io
               ELSE io' = [io EXCEPT ![s] = pc] /\ accepting' = accepting

\* Mutant: the limit is compared with one connection more.
OnAccepted_OneMore(s) ==
    /\ At(s, "accept") /\ ~Busy(Thread(s))
    /\ IF running /\ Cardinality(table) <= MaxConnectionCount
       THEN GoTo(s, "insert") /\ UNCHANGED <<status, sockVars, closing>>
       ELSE GoTo(s, "rest") /\ Close(s, Thread(s))
    /\ UNCHANGED <<ctlVars, lisVars, maint, tabVars>>

\* OnAccepted tests _is_runing and the number of connections, ...
OnAccepted(s) ==
    /\ At(s, "accept") /\ ~Busy(Thread(s))
    /\ IF running /\ Cardinality(table) < MaxConnectionCount
       THEN GoTo(s, "insert") /\ UNCHANGED <<status, sockVars, closing>>
       ELSE GoTo(s, "rest") /\ Close(s, Thread(s))
    /\ UNCHANGED <<ctlVars, lisVars, maint, tabVars>>

\* ... inserts the session and calls _connected_callback.
Insert(s) ==
    /\ At(s, "insert")
    /\ table' = table \cup {s} /\ told' = told \cup {s}
    /\ GoTo(s, IF kind = "KCP" THEN "rest" ELSE "test")
    /\ UNCHANGED <<ctlVars, lisVars, maint, status, sockVars, closing, types, connecting, kcp_map>>

\* if (!session->is_closed()) session->set_socket_connected(), ...
TestClosed(s) ==
    /\ At(s, "test")
    /\ GoTo(s, IF status[s] = "closed" THEN "rest" ELSE "connect")
    /\ UNCHANGED <<ctlVars, lisVars, maint, status, sockVars, closing, tabVars>>

\* ... which stores STATUS_CONNECTED over whatever _status is by now.
SetSocketConnected(s) ==
    /\ At(s, "connect")
    /\ status' = [status EXCEPT ![s] = "connected"]
    /\ GoTo(s, "rest")
    /\ UNCHANGED <<ctlVars, lisVars, maint, sockVars, closing, tabVars>>

----------------------------------------------------------------------------
(* The client connects.                                                    *)

New == {s \in Sessions : status[s] = "none"}

\* Mutant: the session of the endpoint is looked up before the lock is taken.
FindOrCreateStream_Unlocked(t) ==
    /\ ~Server /\ app = "up" /\ connecting[t].pc = "no" /\ types[t] = None
    /\ \E s \in New : /\ status' = [status EXCEPT ![s] = "init"]
                      /\ table' = {s}
                      /\ connecting' = [connecting EXCEPT ![t] = [pc |-> "start", s |-> s]]
    /\ UNCHANGED <<ctlVars, lisVars, accepting, maint, io, sockVars, closing, types, kcp_map, told>>

\* The session of the endpoint unless it is closed, or a new one in its place.
FindOrCreateStream(t) ==
    /\ ~Server /\ app = "up" /\ connecting[t].pc = "no" /\ types[t] = None
    /\ \/ /\ \E s \in table : /\ status[s] # "closed"
                              /\ connecting' = [connecting EXCEPT ![t] = [pc |-> "store", s |-> s]]
          /\ UNCHANGED <<status, table>>
       \/ /\ \A s \in table : status[s] = "closed"
          /\ \E s \in New : /\ status' = [status EXCEPT ![s] = "init"]
                            /\ table' = {s}
                            /\ connecting' = [connecting EXCEPT ![t] = [pc |-> "start", s |-> s]]
    /\ UNCHANGED <<ctlVars, lisVars, accepting, maint, io, sockVars, closing, types, kcp_map, told>>

\* async_connect stores STATUS_CONNECTING over whatever _status is by now, ...
StoreConnecting(t) ==
    /\ connecting[t].pc = "start"
    /\ status' = [status EXCEPT ![connecting[t].s] = "connecting"]
    /\ connecting' = [connecting EXCEPT ![t] = [pc |-> "open", s |-> @.s]]
    /\ UNCHANGED <<ctlVars, lisVars, accepting, maint, io, sockVars, closing, table, types, kcp_map, told>>

\* ... and opens the socket, also when the session was closed before.
AsyncConnect(t) ==
    /\ connecting[t].pc = "open"
    /\ socket' = [socket EXCEPT ![connecting[t].s] = "open"]
    /\ io' = [io EXCEPT ![connecting[t].s] = "wait"]
    /\ connecting' = [connecting EXCEPT ![t] = [pc |-> "store", s |-> @.s]]
    /\ UNCHANGED <<ctlVars, lisVars, accepting, maint, status, early, closing, table, types, kcp_map, told>>

\* _session_type_map[type] = session
StoreType(t) ==
    /\ connecting[t].pc = "store"
    /\ types' = [types EXCEPT ![t] = connecting[t].s]
    /\ connecting' = [connecting EXCEPT ![t] = [pc |-> "no", s |-> None]]
    /\ UNCHANGED <<ctlVars, lisVars, accepting, maint, io, status, sockVars, closing, table, kcp_map, told>>

\* on_connect and the connect timeout test is_connecting(); an IO thread that is
\* stopped runs neither.
OnConnect(s, ok) ==
    /\ io[s] = "wait" /\ ~Busy(s)
    /\ IF status[s] # "connecting" \/ app \in {"joined", "stopped"}
       THEN io' = [io EXCEPT ![s] = "rest"] /\ UNCHANGED <<status, sockVars, closing>>
       ELSE IF ok THEN io' = [io EXCEPT ![s] = "connect"] /\ UNCHANGED <<status, sockVars, closing>>
       ELSE io' = [io EXCEPT ![s] = "rest"] /\ Close(s, s)
    /\ UNCHANGED <<ctlVars, lisVars, accepting, maint, tabVars>>

\* set_socket_connected of a client, with _connected_callback.
Connected(s) ==
    /\ ~Server /\ io[s] = "connect"
    /\ status' = [status EXCEPT ![s] = "connected"]
    /\ io' = [io EXCEPT ![s] = "rest"]
    /\ told' = told \cup {s}
    /\ UNCHANGED <<ctlVars, lisVars, accepting, maint, sockVars, closing, table, types, connecting, kcp_map>>

----------------------------------------------------------------------------
OnClosedStep == \E t \in Threads : EnterOnClosed(t) \/ ServerOnClosed(t) \/ ClientOnClosed(t) \/ EraseType(t)
MaintStep == \/ OnTimeout \/ CopySessions
             \/ \E b \in BOOLEAN : TimerMaintain(b) \/ ReStartListen(b) \/ \E s \in Sessions : SweepSession(s, b)
AcceptStep == \E s \in Sessions : \/ OnAccepted(s) \/ Insert(s) \/ TestClosed(s) \/ (Server /\ SetSocketConnected(s))
                                  \/ \E b \in BOOLEAN : Handshake(s, b) \/ SetupKcp(s, b) \/ OnConnect(s, b)
                                  \/ Connected(s)
StopStep == Started \/ StopListener \/ StopSessions \/ JoinPool \/ JoinMaintain
ConnectStep == \E t \in Types : StoreConnecting(t) \/ AsyncConnect(t) \/ StoreType(t)

\* Events from outside: the peers, the application, the operating system.
Event == \/ \E s \in Sessions : PeerCloses(s) \/ AppCloses(s) \/ OnAccept(s) \/ KcpOnReceive(s)
         \/ AcceptFails \/ KcpForget \/ Stop
         \/ \E b \in BOOLEAN : Start(b)
         \/ \E t \in Types : FindOrCreateStream(t)

Next == OnClosedStep \/ MaintStep \/ AcceptStep \/ StopStep \/ ConnectStep \/ Event

\* Threads that can go on do so; the maintenance timer goes off.
Spec == Init /\ [][Next]_vars
        /\ WF_vars(OnClosedStep) /\ WF_vars(MaintStep) /\ WF_vars(AcceptStep)
        /\ WF_vars(StopStep) /\ WF_vars(ConnectStep)

----------------------------------------------------------------------------
\* By TCP the number of sessions of a server stays within max_connection_count:
\* the test and the insertion of OnAccepted run on one thread (server.cpp:310),
\* also when a restart has moved the listener to another.  By SSL and KCP they
\* race on several.
ConnectionsBounded == kind = "TCP" => Cardinality(table) <= MaxConnectionCount

\* Of a server that runs, every session in the set is one whose socket is open
\* or whose on_closed has not come to the erasure yet (server.cpp:349).  A
\* client has at most one open connection to the endpoint, whoever connects at
\* the same time (client.cpp:164), but for the sessions that close() reached
\* before async_connect opened their sockets.
SessionsExact ==
    /\ Server /\ running => \A s \in table : socket[s] = "shut" =>
          \E t \in Threads : closing[t].s = s /\ closing[t].pc \in {"enter", "erase"}
    /\ ~Server => Cardinality(Open \ early) <= 1

\* Stop returns, unless the maintenance thread waits in ReStartListen for the
\* mutex that Stop holds while it joins that thread (server.cpp:104, 226).
StopReturnsUnlessRestart == (app = "stopping") ~> (app = "stopped" \/ maint.pc = "restart")
=============================================================================
