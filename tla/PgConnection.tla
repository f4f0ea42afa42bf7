---------------------------- MODULE PgConnection ----------------------------
(***************************************************************************)
(* gb::PgConnection (src/db/postgres/pg_connection.cpp), as the pg table   *)
(* of Lua uses it (register_postgresql.cpp): one global connection, which  *)
(* pg.AsyncConnect replaces, takes the queries of every worker.  All of    *)
(* libpq runs on the thread of one io_context, in non-blocking mode: an    *)
(* operation is sent, flushed, waited for and its results collected; the   *)
(* others wait in pending_ops_.                                            *)
(*                                                                         *)
(* libpq and the server are external: libpq takes one command at a time    *)
(* and fails every call once the connection is gone.  A wait on the socket *)
(* of a connection that was closed may never end.  What a result becomes   *)
(* for its caller is in PgValues.                                          *)
(***************************************************************************)
EXTENDS Integers, Sequences, FiniteSets

CONSTANTS PgConns,   \* PgConnection objects, one per AsyncConnect, numbered likewise
          Ops        \* queries: AsyncQuery, AsyncExecute, AsyncBegin, ..., numbered
                     \*   in the order in which they are made

\* Numbers from 1: 0 stands for no connection and no operation.
PgConstants == PgConns \subseteq Nat \ {0} /\ Ops \subseteq Nat \ {0}

ASSUME PgAssumption == PgConstants

VARIABLES con,         \* per connection: its fields and the state of libpq
          io,          \* per connection: closures posted to the io_context
          opened,      \* per connection: AsyncConnect is "new", "called", "ok" (the
                       \*   worker has yet to make it global), "failed" or "global"
          g_pg_conn,   \* the global connection, or 0
          result,      \* per operation: "none", "dropped", "posted", "own", "other", "error"
          order        \* history, per connection: its operations as they were posted

pgVars == <<con, io, opened, g_pg_conn, result, order>>

NoOp == 0

PgInit ==
    /\ con = [c \in PgConns |->
                [conn |-> "null", connected |-> FALSE,      \* conn_ with its PQstatus, connected_
                 op_active |-> FALSE, pending_ops |-> <<>>,
                 op |-> NoOp, waits |-> "no",               \* the operation of ContinueOp
                 busy |-> NoOp, replied |-> FALSE,          \* libpq's command, its reply is here
                 up |-> FALSE, failed |-> FALSE,            \* the link; history: it failed or was closed
                 done |-> <<>>]]                            \* callbacks run: operation and result
    /\ io = [c \in PgConns |-> <<>>]
    /\ opened = [c \in PgConns |-> "new"]
    /\ g_pg_conn = 0
    /\ result = [o \in Ops |-> "none"]
    /\ order = [c \in PgConns |-> <<>>]

----------------------------------------------------------------------------
(* The fields s of a connection, transformed on the io thread.             *)

Callback(s, o, res) == [s EXCEPT !.done = Append(@, <<o, res>>)]

\* PQfinish, if there is a connection.
CloseSync(s) ==
    [s EXCEPT !.connected = FALSE, !.conn = "null", !.up = FALSE,
              !.busy = NoOp, !.replied = FALSE, !.failed = TRUE]

ConnectSync(s, ok) ==
    IF ok THEN [s EXCEPT !.conn = "ok", !.connected = TRUE, !.up = TRUE]
          ELSE [s EXCEPT !.conn = "bad", !.connected = FALSE, !.failed = TRUE]

IsConnected(s) == s.conn = "ok" /\ s.connected

\* On a connection that takes no command, StartNext and StartSend call each other
\* until the queue is empty: every operation in it ends with an error, in its turn.
FailPending(s) ==
    [s EXCEPT !.op_active = FALSE, !.pending_ops = <<>>,
              !.done = @ \o [i \in DOMAIN s.pending_ops |-> <<s.pending_ops[i], "error">>]]

\* The connection is lost: libpq finds out when it uses the socket.
Lost(s) == [s EXCEPT !.conn = "bad", !.busy = NoOp, !.replied = FALSE, !.failed = TRUE]

\* StartSend past the test of op_active_.  PQsendQuery fails while libpq has
\* another command; PQflush sends everything, fails, or (full) leaves a rest to
\* send when the socket is writable.
SendNow(s, o, full) ==
    LET a == [s EXCEPT !.op_active = TRUE] IN
    IF s.conn # "ok" \/ s.busy # NoOp THEN FailPending(Callback(a, o, "error"))
    ELSE IF ~s.up THEN FailPending(Callback(Lost(a), o, "error"))
    ELSE [a EXCEPT !.op = o, !.busy = o, !.replied = FALSE,
                   !.waits = IF full THEN "write" ELSE "read"]

\* Mutant: no queue, the operation is sent at once.
StartSend_NoQueue(s, o, full) == SendNow(s, o, full)

\* The operation waits for its turn, or is sent.
StartSend(s, o, full) ==
    IF s.op_active THEN [s EXCEPT !.pending_ops = Append(@, o)] ELSE SendNow(s, o, full)

\* Mutant: the next operation is not taken.
StartNext_Stops(s, full) == [s EXCEPT !.op_active = FALSE]

StartNext(s, full) ==
    IF s.pending_ops = <<>> THEN [s EXCEPT !.op_active = FALSE]
    ELSE SendNow([s EXCEPT !.pending_ops = Tail(@)], Head(s.pending_ops), full)

\* The operation under way ends, and the next one is taken.
Ends(s, res, full) ==
    StartNext([Callback(s, s.op, res) EXCEPT !.op = NoOp, !.waits = "no"], full)

\* The socket is ready: the rest is flushed, then PQconsumeInput and PQisBusy.  A
\* reply is collected with PQgetResult: the last result that is no error.
ContinueOp(s, full) ==
    IF s.conn # "ok" THEN Ends(s, "error", full)
    ELSE IF ~s.up THEN Ends(Lost(s), "error", full)
    ELSE IF s.waits = "write" /\ full THEN s
    ELSE IF s.busy # NoOp /\ ~s.replied THEN [s EXCEPT !.waits = "read"]
    ELSE Ends([s EXCEPT !.busy = NoOp, !.replied = FALSE],
              IF s.busy = s.op THEN "own" ELSE "other", full)

\* The wait on the socket ends with an error.
WaitFailed(s, full) == Ends(s, "error", full)

----------------------------------------------------------------------------
(* Workers: the functions of the pg table.                                 *)

AsyncConnect(c) ==
    /\ opened[c] = "new" /\ \A d \in PgConns : d < c => opened[d] # "new"
    /\ opened' = [opened EXCEPT ![c] = "called"]
    /\ io' = [io EXCEPT ![c] = Append(@, <<"connect", NoOp>>)]
    /\ UNCHANGED <<con, g_pg_conn, result, order>>

\* The closure posted to the worker by the callback of AsyncConnect.
ConnectCallback(c) ==
    /\ opened[c] = "ok"
    /\ opened' = [opened EXCEPT ![c] = "global"]
    /\ g_pg_conn' = c
    /\ UNCHANGED <<con, io, result, order>>

\* Takes the global connection away and closes it.
AsyncClose ==
    /\ g_pg_conn # 0
    /\ g_pg_conn' = 0
    /\ io' = [io EXCEPT ![g_pg_conn] = Append(@, <<"close", NoOp>>)]
    /\ UNCHANGED <<con, opened, result, order>>

\* An operation on the global connection; without one, the callback is dropped.
\* AsyncQuery with and without parameters, AsyncExecute, AsyncBegin, AsyncCommit
\* and AsyncRollback differ only in the text they send and in what they make of
\* the result.
Posts(o) ==
    /\ result[o] = "none" /\ \A p \in Ops : p < o => result[p] # "none"
    /\ \/ /\ g_pg_conn = 0
          /\ result' = [result EXCEPT ![o] = "dropped"]
          /\ UNCHANGED <<io, order>>
       \/ /\ g_pg_conn # 0
          /\ result' = [result EXCEPT ![o] = "posted"]
          /\ io' = [io EXCEPT ![g_pg_conn] = Append(@, <<"send", o>>)]
          /\ order' = [order EXCEPT ![g_pg_conn] = Append(@, o)]
    /\ UNCHANGED <<con, opened, g_pg_conn>>

----------------------------------------------------------------------------
(* The io thread.                                                          *)

Became(c, s) ==
    /\ con' = [con EXCEPT ![c] = [s EXCEPT !.done = <<>>]]
    /\ result' = [o \in Ops |-> IF \E i \in DOMAIN s.done : s.done[i][1] = o
                                THEN s.done[CHOOSE i \in DOMAIN s.done : s.done[i][1] = o][2]
                                ELSE result[o]]

RunConnect(c) ==
    /\ io[c] # <<>> /\ Head(io[c])[1] = "connect"
    /\ io' = [io EXCEPT ![c] = Tail(@)]
    /\ \E ok \in BOOLEAN :
          /\ Became(c, ConnectSync(con[c], ok))
          /\ opened' = [opened EXCEPT ![c] = IF ok THEN "ok" ELSE "failed"]
    /\ UNCHANGED <<g_pg_conn, order>>

RunClose(c) ==
    /\ io[c] # <<>> /\ Head(io[c])[1] = "close"
    /\ io' = [io EXCEPT ![c] = Tail(@)]
    /\ Became(c, CloseSync(con[c]))
    /\ UNCHANGED <<opened, g_pg_conn, order>>

RunSend(c) ==
    /\ io[c] # <<>> /\ Head(io[c])[1] = "send"
    /\ io' = [io EXCEPT ![c] = Tail(@)]
    /\ \E full \in BOOLEAN : Became(c, StartSend(con[c], Head(io[c])[2], full))
    /\ UNCHANGED <<opened, g_pg_conn, order>>

\* The handler of async_wait: the socket is writable, or readable (also when the
\* link is down).
SocketReady(c) ==
    /\ \/ con[c].waits = "write"
       \/ con[c].waits = "read" /\ (con[c].replied \/ ~con[c].up)
    /\ \E full \in BOOLEAN : Became(c, ContinueOp(con[c], full))
    /\ UNCHANGED <<io, opened, g_pg_conn, order>>

SocketError(c) ==
    /\ con[c].waits # "no" /\ ~con[c].up
    /\ \E full \in BOOLEAN : Became(c, WaitFailed([con[c] EXCEPT !.failed = TRUE], full))
    /\ UNCHANGED <<io, opened, g_pg_conn, order>>

----------------------------------------------------------------------------
(* The server.                                                             *)

Replies(c) ==
    /\ con[c].up /\ con[c].busy # NoOp /\ ~con[c].replied
    /\ con' = [con EXCEPT ![c].replied = TRUE]
    /\ UNCHANGED <<io, opened, g_pg_conn, result, order>>

LinkFails(c) ==
    /\ con[c].up
    /\ con' = [con EXCEPT ![c].up = FALSE]
    /\ UNCHANGED <<io, opened, g_pg_conn, result, order>>

PgNext ==
    \/ \E c \in PgConns : \/ AsyncConnect(c) \/ ConnectCallback(c)
                          \/ RunConnect(c) \/ RunClose(c) \/ RunSend(c)
                          \/ SocketReady(c) \/ SocketError(c)
                          \/ Replies(c) \/ LinkFails(c)
    \/ AsyncClose
    \/ \E o \in Ops : Posts(o)

\* The io thread runs what is posted and what is ready, except that a wait on a
\* socket that was closed need not end; the server answers.
PgFairness == \A c \in PgConns :
    /\ WF_pgVars(RunConnect(c) \/ RunClose(c) \/ RunSend(c))
    /\ WF_pgVars(con[c].conn = "ok" /\ SocketReady(c))
    /\ WF_pgVars(Replies(c))

PgSpec == PgInit /\ [][PgNext]_pgVars /\ PgFairness

----------------------------------------------------------------------------
(* Properties.                                                             *)

Ended(o) == result[o] \in {"own", "other", "error"}

\* Although libpq takes one command at a time and operations of several workers
\* arrive in any state of it: an operation gets the result of its own command,
\* or an error when the link failed or the connection was closed, and the
\* operations of a connection end in the order in which they were posted.
ResultsExact ==
    \A c \in PgConns : \A i \in DOMAIN order[c] :
       LET o == order[c][i] IN
       /\ result[o] # "other"
       /\ result[o] = "error" => con[c].failed
       /\ Ended(o) => \A k \in 1 .. i - 1 : Ended(order[c][k])

\* An operation that was posted ends, unless the connection is closed with it.
PostedEnds ==
    \A c \in PgConns, o \in Ops :
       (result[o] = "posted" /\ \E i \in DOMAIN order[c] : order[c][i] = o) ~> (Ended(o) \/ con[c].conn = "null")
=============================================================================
