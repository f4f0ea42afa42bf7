------------------------------- MODULE Redis --------------------------------
(***************************************************************************)
(* RedisConnection and RedisConnectionPool (src/db/redis) over hiredis.    *)
(* Connect posts the start of a handshake to the thread of the io_context  *)
(* and waits for its promise; a command has its callback in the one field  *)
(* pending_cb_ and its reply in the order of hiredis' own queue.  What a   *)
(* callback makes of a reply is in RedisReplies.                           *)
(*                                                                         *)
(* hiredis is external: it runs the callbacks of outstanding commands with *)
(* a null reply and then, if the connection was up, EvDisconnect before it *)
(* frees a context, by itself when the connection breaks.                  *)
(***************************************************************************)
EXTENDS Integers, Sequences, FiniteSets

CONSTANTS PoolSize,    \* config.pool_size: connections 1 .. PoolSize
          Requests,    \* commands of Lua or of coroutines
          DbIndex      \* config.db_index

VARIABLES con,         \* per connection: its fields, and those of its ConnectChain
          io,          \* per connection: closures posted to the io_context
          caller,      \* per connection: Connect is "idle", "waiting" or has returned
          created,     \* connections of the pool so far, or -1 once it is closed
          next_index_,
          request,     \* per request: "none", "sent", "error", "value" or "dropped"
          cause        \* history, per connection: why the handshake had to fail

vars == <<con, io, caller, created, next_index_, request, cause>>

Conns     == 1 .. PoolSize
Handshake == {"PING", "HELLO", "SELECT"}
None      == "none"

Init ==
    /\ con = [c \in Conns |->
                [async_ctx |-> "null", ctx_alive |-> FALSE, connected |-> FALSE,
                 connect_state |-> FALSE, promise |-> "unset", done |-> FALSE, step |-> 0,
                 pending_cb |-> None, sent |-> <<>>, replies |-> {}, crashed |-> FALSE]]
    /\ io = [c \in Conns |-> <<>>]
    /\ caller = [c \in Conns |-> "idle"]
    /\ created = 0
    /\ next_index_ = 0
    /\ request = [r \in Requests |-> "none"]
    /\ cause = [c \in Conns |-> "none"]

----------------------------------------------------------------------------
(* The fields s of a connection, transformed on the io thread.             *)

SetPromise(s, b) ==
    [s EXCEPT !.promise = IF @ = "unset" THEN (IF b THEN "true" ELSE "false") ELSE "twice"]

Finished(s, b) == [SetPromise(s, b) EXCEPT !.done = TRUE]

RECURSIVE OnReply(_, _, _), OnConnectStep(_)

\* The callback runs at once without connection; a command that hiredis refuses
\* (accepted is FALSE) loses it.
PostCommand(s, cmd, accepted) ==
    IF s.async_ctx = "null" \/ ~s.connected THEN OnReply(s, cmd, FALSE)
    ELSE IF accepted THEN [s EXCEPT !.pending_cb = cmd, !.sent = Append(@, cmd)]
                     ELSE [s EXCEPT !.pending_cb = None]

OnConnectStep(s) ==
    IF s.done THEN s
    ELSE CASE s.step = 0 -> PostCommand(s, "PING", TRUE)
           [] s.step = 1 -> PostCommand(s, "HELLO", TRUE)
           [] s.step = 2 -> IF DbIndex > 0 THEN PostCommand(s, "SELECT", TRUE)
                            ELSE [Finished(s, TRUE) EXCEPT !.connected = TRUE]

\* The callbacks: those of the handshake, or that of a request.
OnReply(s, cmd, ok) ==
    CASE cmd = "PING"   -> IF ok THEN OnConnectStep([s EXCEPT !.step = 1]) ELSE Finished(s, FALSE)
      [] cmd = "HELLO"  -> OnConnectStep([s EXCEPT !.step = 2])
      [] cmd = "SELECT" -> IF ok THEN [Finished(s, TRUE) EXCEPT !.connected = TRUE] ELSE Finished(s, FALSE)
      [] OTHER          -> [s EXCEPT !.replies = @ \cup {<<cmd, ok>>}]

\* The reply to the oldest command: the callback in the field runs, and the field
\* is cleared after it.  An empty field throws std::bad_function_call.
CommandCallback(s, ok) ==
    LET rest == [s EXCEPT !.sent = Tail(@)] IN
    IF s.pending_cb = None THEN [rest EXCEPT !.crashed = TRUE]
    ELSE [OnReply(rest, s.pending_cb, ok) EXCEPT !.pending_cb = None]

RECURSIVE ClosedCallbacks(_)
ClosedCallbacks(s) == IF s.sent = <<>> THEN s ELSE ClosedCallbacks(CommandCallback(s, FALSE))

OnDisconnectStatus(s) ==
    LET down == [s EXCEPT !.connected = FALSE, !.ctx_alive = FALSE] IN
    IF s.connect_state /\ ~s.done THEN Finished(down, FALSE) ELSE down

\* redisAsyncFree, also by hiredis itself.  To free twice is undefined.
Freed(s) ==
    CASE s.async_ctx = "open"  -> OnDisconnectStatus(ClosedCallbacks(s))
      [] s.async_ctx = "freed" -> [s EXCEPT !.crashed = TRUE]
      [] OTHER                 -> s

\* The closure of FailConnect.
FailConnect(s) ==
    [Freed(s) EXCEPT !.async_ctx = "null", !.ctx_alive = FALSE, !.connect_state = FALSE]

DisconnectInternal(s) ==
    [Freed(s) EXCEPT !.async_ctx = "null", !.ctx_alive = FALSE, !.connect_state = FALSE, !.connected = FALSE]

----------------------------------------------------------------------------
(* The pool, on a worker.                                                  *)

\* RedisConnectionPool::Init makes and connects one connection after the other.
\* Connect: a context that is alive is disconnected first.
Connect(c) ==
    /\ created = c - 1
    /\ \A d \in 1 .. c - 1 : caller[d] \in {"true", "false"}
    /\ created' = c
    /\ caller' = [caller EXCEPT ![c] = "waiting"]
    /\ con' = [con EXCEPT ![c].connected = FALSE, ![c].connect_state = TRUE]
    /\ io' = [io EXCEPT ![c] = (IF con[c].ctx_alive THEN <<"disconnect">> ELSE <<>>) \o <<"start">>]
    /\ UNCHANGED <<next_index_, request, cause>>

\* The future is ready.
ConnectReturns(c) ==
    /\ caller[c] = "waiting"
    /\ con[c].promise \in {"true", "false"}
    /\ caller' = [caller EXCEPT ![c] = con[c].promise]
    /\ con' = [con EXCEPT ![c].connected = (con[c].promise = "true")]
    /\ UNCHANGED <<io, created, next_index_, request, cause>>

\* It is not ready timeout_ms + 2000 ms later.
ConnectTimeout(c) ==
    /\ caller[c] = "waiting"
    /\ con[c].promise = "unset"
    /\ caller' = [caller EXCEPT ![c] = "false"]
    /\ io' = [io EXCEPT ![c] = Append(@, "fail")]
    /\ cause' = [cause EXCEPT ![c] = "timeout"]
    /\ UNCHANGED <<con, created, next_index_, request>>

\* CloseAll, after the pool is complete: Disconnect of every connection.
CloseAll ==
    /\ created = PoolSize
    /\ \A c \in Conns : caller[c] \in {"true", "false"}
    /\ created' = -1
    /\ con' = [c \in Conns |-> [con[c] EXCEPT !.connected = FALSE]]
    /\ io' = [c \in Conns |-> Append(io[c], "disconnect")]
    /\ UNCHANGED <<caller, next_index_, request, cause>>

\* Round robin, then the first connected one after it; {} is a null pointer.
GetConnection ==
    LET idx == (next_index_ % PoolSize) + 1
        up  == {c \in Conns : con[c].connected}
        dist(c) == (c - idx + PoolSize) % PoolSize IN
    {c \in up : \A d \in up : dist(c) <= dist(d)}

Outcome(s, r) ==
    CASE <<r, TRUE>> \in s.replies  -> "value"
      [] <<r, FALSE>> \in s.replies -> "error"
      [] OTHER -> "sent"

\* redis.AsyncXxx, or redis.Await on a coroutine: without connection it returns
\* and the callback is dropped.
Command(r) ==
    /\ created = PoolSize
    /\ \A c \in Conns : caller[c] \in {"true", "false"}
    /\ request[r] = "none"
    /\ next_index_' = (next_index_ + 1) % PoolSize
    /\ IF GetConnection = {}
          THEN request' = [request EXCEPT ![r] = "dropped"] /\ UNCHANGED con
          ELSE \E c \in GetConnection, accepted \in BOOLEAN :
                  LET s == PostCommand(con[c], r, accepted) IN
                  /\ con' = [con EXCEPT ![c] = s]
                  /\ request' = [request EXCEPT ![r] = Outcome(s, r)]
    /\ UNCHANGED <<io, caller, created, cause>>

----------------------------------------------------------------------------
(* The io thread.                                                          *)

Became(c, s) ==
    /\ con' = [con EXCEPT ![c] = s]
    /\ request' = [r \in Requests |-> IF request[r] = "sent" THEN Outcome(s, r) ELSE request[r]]
    /\ UNCHANGED <<caller, created, next_index_>>

\* redisAsyncConnect gives a context, or none or one with an error.
StartConnectChain(c) ==
    /\ io[c] # <<>> /\ Head(io[c]) = "start"
    /\ io' = [io EXCEPT ![c] = Tail(@)]
    /\ \/ /\ Became(c, [con[c] EXCEPT !.async_ctx = "connecting", !.ctx_alive = TRUE])
          /\ UNCHANGED cause
       \/ \E ctx \in {"null", "failed"} :
             /\ Became(c, SetPromise([con[c] EXCEPT !.async_ctx = ctx], FALSE))
             /\ cause' = [cause EXCEPT ![c] = "refused"]

RunPosted(c) ==
    /\ io[c] # <<>> /\ Head(io[c]) \in {"fail", "disconnect"}
    /\ io' = [io EXCEPT ![c] = Tail(@)]
    /\ Became(c, IF Head(io[c]) = "fail" THEN FailConnect(con[c]) ELSE DisconnectInternal(con[c]))
    /\ UNCHANGED cause

\* The server accepts the connection, or not.
OnConnectStatus(c) ==
    /\ con[c].async_ctx = "connecting"
    /\ \/ /\ LET s == [con[c] EXCEPT !.async_ctx = "open"] IN
             Became(c, IF s.connect_state THEN OnConnectStep(s) ELSE s)
          /\ UNCHANGED cause
       \/ /\ LET s == [con[c] EXCEPT !.async_ctx = "freed"] IN
             Became(c, IF s.connect_state THEN SetPromise(s, FALSE) ELSE s)
          /\ cause' = [cause EXCEPT ![c] = "refused"]
    /\ UNCHANGED io

\* The server answers the oldest command, with a value or with an error.
Answered(c) ==
    /\ con[c].async_ctx = "open" /\ con[c].sent # <<>>
    /\ \E ok \in BOOLEAN :
          /\ Became(c, CommandCallback(con[c], ok))
          /\ cause' = [cause EXCEPT ![c] = IF ok THEN @ ELSE "refused"]
    /\ UNCHANGED io

\* The connection breaks: async_ctx_ keeps the address of the freed context.
Broken(c) ==
    /\ con[c].async_ctx = "open"
    /\ Became(c, [Freed(con[c]) EXCEPT !.async_ctx = "freed"])
    /\ cause' = [cause EXCEPT ![c] = IF con[c].promise = "unset" THEN "closed" ELSE @]
    /\ UNCHANGED io

Next ==
    \/ \E c \in Conns : \/ Connect(c) \/ ConnectReturns(c) \/ ConnectTimeout(c)
                        \/ StartConnectChain(c) \/ RunPosted(c)
                        \/ OnConnectStatus(c) \/ Answered(c) \/ Broken(c)
    \/ CloseAll
    \/ \E r \in Requests : Command(r)

Spec == Init /\ [][Next]_vars

----------------------------------------------------------------------------
(* Properties.                                                             *)

\* Connect returns false only if the server refused the connection or a command
\* of the handshake, the connection broke or the time was up.
ConnectFailsForCause == \A c \in Conns : caller[c] = "false" => cause[c] # "none"
=============================================================================
