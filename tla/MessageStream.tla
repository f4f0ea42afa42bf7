--------------------------- MODULE MessageStream ---------------------------
(***************************************************************************)
(* One connection: gb::MessageStream and ByteStream (message_stream/), the *)
(* FlowController, TcpTransport, and what Listener, ClientImpl and         *)
(* TimerMaintain of Server and Client do to it.                            *)
(*                                                                         *)
(* The completion handlers of a connection run on one IO thread.  Worker   *)
(* threads send; the maintenance thread accepts (on a server; a thread of  *)
(* the pool does after a restart of listening), recharges the quotas and   *)
(* starts what had none; anybody may close.  All of them                   *)
(* call try_start_send and try_start_receive, which _send_token and        *)
(* _receive_token protect without a lock: each access to shared state in   *)
(* them is a step.                                                         *)
(*                                                                         *)
(* A thread's position is the sequence of the steps it has still to take.  *)
(* Sizes are counted in messages (a queue) and in units (a message on its  *)
(* way out); what comes in is a sequence of bytes.                         *)
(***************************************************************************)
EXTENDS Integers, Sequences

CONSTANTS Producers,    \* threads that send
          Io, Maint,    \* the IO thread of the connection, the maintenance thread
          Pool,         \* the IO thread that accepts for a listener that was restarted
          Acceptors,    \* which of the three accept: by SSL it is Io
          Messages,     \* messages to be sent
          NoMsg,        \* nullptr
          Units,        \* how many units a message has
          MaxPending,   \* _max_pending_buffer_size, in messages
          SliceQuota,   \* what TimerMaintain adds to a quota
          ReadCost,     \* _receiving_size: the quota a read asks for
          Header,       \* sizeof(MessageHeader)
          MaxShutDown,  \* bound: nobody calls ShutDown after so many closes
          Configs       \* connections: net_type, limited, inbound, and the quota that
                        \* the other connections of the flow controller leave at first

ASSUME StreamAssumption ==
    /\ NoMsg \notin Messages
    /\ Io # Maint /\ Pool \notin {Io, Maint} /\ Producers \cap {Io, Maint, Pool} = {}
    /\ Acceptors \subseteq {Io, Maint, Pool}
    /\ Units \in Nat \ {0} /\ Header \in Nat \ {0}
    /\ MaxPending \in Nat /\ SliceQuota \in Nat /\ ReadCost \in Nat /\ MaxShutDown \in Nat
    /\ \A c \in Configs :
          /\ c.net_type \in {"NT_SERVER", "NT_CLIENT"}
          /\ c.limited \subseteq {"in", "out"} /\ c.quota \in Int
          /\ c.inbound \in Seq([size : Nat, magic : BOOLEAN])

Threads == Producers \cup {Io, Maint, Pool}

VARIABLES net_type,           \* _net_type
          limited,            \* directions in which the server or client has a slice quota
          inbound,            \* what the peer sends: sizes, and whether the magic number is right
          status,             \* _status
          link,               \* the socket
          closes,             \* how often on_closed has been called
          send_token, receive_token,              \* TRUE for TOKEN_LOCK
          write_quota_token, read_quota_token,
          write_quota, read_quota,                \* of the flow controller
          pending, swapped,   \* _pending_calls, _swapped_calls
          sending,            \* _sending_message
          left,               \* units of it that are not written yet
          writing, reading,   \* outstanding async_write_some, async_read_some
          pc,                 \* the steps a thread has still to take
          arg,                \* a thread's local: the message, the quota, a sum
          pos,                \* bytes of the peer's stream that have been read
          frame,              \* _receiving_header, _receiving_message, ...
          items,              \* received_message, local to on_read_some
          delivered,          \* messages given to on_received
          accepted,           \* messages in the order of put_into_pending_queue
          wire,               \* messages in the order of on_sent
          failed              \* messages given to on_send_failed

tokenVars == <<send_token, receive_token>>
quotaVars == <<write_quota_token, read_quota_token, write_quota, read_quota>>
queueVars == <<pending, swapped, sending>>
outVars   == <<left, writing>>
inVars    == <<reading, pos, frame, items, delivered>>
connVars  == <<status, link, closes>>
logVars   == <<accepted, wire, failed>>
confVars  == <<net_type, limited, inbound>>
vars      == <<confVars, connVars, tokenVars, quotaVars, queueVars, outVars, inVars, pc, arg, logVars>>

----------------------------------------------------------------------------
(* What the peer sends: byte k of message i is <<i, k>>.                   *)

BytesOf(i) == [k \in 1 .. Header + inbound[i].size |-> <<i, k>>]
BodyOf(i)  == [k \in 1 .. inbound[i].size |-> <<i, Header + k>>]

\* The bytes of the first n messages.
Stream[n \in 0 .. Len(inbound)] == IF n = 0 THEN <<>> ELSE Stream[n - 1] \o BytesOf(n)

Peer == Stream[Len(inbound)]

(* split_and_process_message.                                              *)

NewFrame == [header |-> <<>>, known |-> FALSE, body |-> <<>>]

\* CheckMagicString of the header read so far, and its message_size.
CheckMagicString(h) ==
    \E i \in DOMAIN inbound : inbound[i].magic /\ h = SubSeq(BytesOf(i), 1, Header)
MessageSize(h) == inbound[h[1][1]].size

\* The end of a turn: with a known header, data goes to the message.
Body(s) ==
    LET need == MessageSize(s.frame.header) - Len(s.frame.body)
    IN  IF Len(s.data) < need
        THEN [s EXCEPT !.frame.body = @ \o s.data, !.data = <<>>, !.state = "wait"]
        ELSE [s EXCEPT !.out = Append(@, s.frame.body \o SubSeq(s.data, 1, need)),
                       !.frame = NewFrame,
                       !.data = SubSeq(@, need + 1, Len(@))]

\* identify_message_header and the beginning of a turn.
HeaderPart(s) ==
    LET want == Header - Len(s.frame.header)
        take == IF Len(s.data) < want THEN Len(s.data) ELSE want
    IN  [s EXCEPT !.frame.header = @ \o SubSeq(s.data, 1, take),
                  !.frame.known = (take = want),
                  !.data = SubSeq(@, take + 1, Len(@))]

\* A turn that waits for more data after any header at the end of the data.
TurnWaitsForEmpty(s) ==
    LET h == HeaderPart(s)
    IN  IF s.frame.known THEN Body(s)
        ELSE IF ~h.frame.known THEN [h EXCEPT !.state = "wait"]
        ELSE IF ~CheckMagicString(h.frame.header) THEN [h EXCEPT !.state = "broken"]
        ELSE IF h.data = <<>> THEN [h EXCEPT !.state = "wait"]
        ELSE Body(h)

\* One turn of the loop.
Turn(s) ==
    LET h == HeaderPart(s)
    IN  IF s.frame.known THEN Body(s)
        ELSE IF ~h.frame.known THEN [h EXCEPT !.state = "wait"]
        ELSE IF ~CheckMagicString(h.frame.header) THEN [h EXCEPT !.state = "broken"]
        ELSE IF h.data = <<>> /\ MessageSize(h.frame.header) > 0 THEN [h EXCEPT !.state = "wait"]
        ELSE Body(h)

\* The loop after each of its turns.
Turns(f, data) ==
    LET after[k \in 0 .. Len(data)] ==
            IF k = 0 THEN [frame |-> f, data |-> data, out |-> <<>>, state |-> "run"]
            ELSE LET s == after[k - 1]
                 IN  IF s.state = "run" /\ s.data # <<>> THEN Turn(s) ELSE s
    IN  after

\* The loop: a turn consumes at least one byte.
Split(f, data) == Turns(f, data)[Len(data)]

----------------------------------------------------------------------------
Label == {"put", "send", "write_quota", "connected", "lock", "get", "store",
          "unlock", "release", "recheck",
          "recv", "read_quota", "backlog", "backlog_pending", "backlog_swapped", "rconnected",
          "rlock", "rstore", "runlock", "deliver",
          "accepted", "set_connected", "trigger_receive", "trigger_send",
          "recharge_read", "test_read", "recharge_write", "test_write"}

StreamTypeOK ==
    /\ \E c \in Configs : net_type = c.net_type /\ limited = c.limited /\ inbound = c.inbound
    /\ status \in {"INIT", "CONNECTING", "CONNECTED", "CLOSED"}
    /\ link \in {"new", "connecting", "up", "shut", "gone"} /\ closes \in 0 .. MaxShutDown + 1
    /\ send_token \in BOOLEAN /\ receive_token \in BOOLEAN
    /\ write_quota_token \in Int /\ read_quota_token \in Int
    /\ write_quota \in Int /\ read_quota \in Int
    /\ pending \in Seq(Messages) /\ swapped \in Seq(Messages)
    /\ sending \in Messages \cup {NoMsg}
    /\ left \in 0 .. Units
    /\ writing \in 0 .. 1 /\ reading \in 0 .. 1
    /\ \A t \in Threads : \A i \in DOMAIN pc[t] : pc[t][i] \in Label
    /\ pos \in Nat
    /\ accepted \in Seq(Messages) /\ wire \in Seq(Messages)
    /\ failed \subseteq Messages

\* The constructors, and set_flow_controller.
Init ==
    /\ \E c \in Configs :
          /\ net_type = c.net_type /\ limited = c.limited /\ inbound = c.inbound
          /\ write_quota = c.quota /\ read_quota = c.quota
    /\ status = "INIT" /\ link = "new" /\ closes = 0
    /\ send_token = FALSE /\ receive_token = FALSE
    /\ write_quota_token = 1 /\ read_quota_token = 1
    /\ pending = <<>> /\ swapped = <<>> /\ sending = NoMsg
    /\ left = 0 /\ writing = 0 /\ reading = 0
    /\ pc = [t \in Threads |-> <<>>]
    /\ arg = [t \in Threads |-> 0]
    /\ pos = 0 /\ frame = NewFrame /\ items = <<>> /\ delivered = <<>>
    /\ accepted = <<>> /\ wire = <<>> /\ failed = {}

Idle(t)    == pc[t] = <<>>
At(t, l)   == ~Idle(t) /\ Head(pc[t]) = l
\* The step at the head is done, and s comes instead of it.
Then(t, s) == pc' = [pc EXCEPT ![t] = s \o Tail(@)]

----------------------------------------------------------------------------
(* ByteStream and its transport.                                           *)

\* close(): a second one finds the status and does nothing.  Shutting down a
\* socket that is not connected has no effect.
Close ==
    /\ status' = "CLOSED"
    /\ link' = IF status # "CLOSED" /\ link = "up" THEN "shut" ELSE link
    /\ closes' = IF status = "CLOSED" THEN closes ELSE closes + 1

\* Other threads know the session: a server's once it has been accepted, a
\* client's from the moment FindOrCreateStream puts it into its map.
Known == net_type = "NT_CLIENT" \/ link # "new"

\* Session::ShutDown, and the keep-alive limit of TimerMaintain.
ShutDown ==
    /\ Known /\ status # "CLOSED" /\ closes < MaxShutDown
    /\ Close
    /\ UNCHANGED <<confVars, tokenVars, quotaVars, queueVars, outVars, inVars, pc, arg, logVars>>

\* What set_socket_connected has to do.
Opening == <<"set_connected", "trigger_receive", "recv", "trigger_send", "send">>

\* async_connect stores the status, whatever it was.
AsyncConnect ==
    /\ net_type = "NT_CLIENT" /\ link = "new"
    /\ link' = "connecting"
    /\ status' = "CONNECTING"
    /\ UNCHANGED <<confVars, closes, tokenVars, quotaVars, queueVars, outVars, inVars, pc, arg, logVars>>

\* TcpTransport::on_connect.
OnConnect ==
    /\ link = "connecting" /\ Idle(Io)
    /\ \/ /\ status # "CONNECTING"
          /\ link' = "gone"
          /\ UNCHANGED <<status, closes, pc>>
       \/ /\ status = "CONNECTING"
          /\ link' = "gone" /\ status' = "CLOSED" /\ closes' = closes + 1
          /\ UNCHANGED pc
       \/ /\ status = "CONNECTING"
          /\ link' = "up"
          /\ pc' = [pc EXCEPT ![Io] = Opening]
          /\ UNCHANGED <<status, closes>>
    /\ UNCHANGED <<confVars, tokenVars, quotaVars, queueVars, outVars, inVars, arg, logVars>>

OnConnectTimeout ==
    /\ link = "connecting" /\ Idle(Io) /\ status = "CONNECTING"
    /\ Close
    /\ UNCHANGED <<confVars, tokenVars, quotaVars, queueVars, outVars, inVars, pc, arg, logVars>>

\* Listener::on_accept calls OnAccepted, and then, unless the session has been
\* closed meanwhile, set_socket_connected: on the maintenance thread, after a
\* restart of the listener on a thread of the pool, by SSL on the session's own.
OnAccept ==
    /\ net_type = "NT_SERVER" /\ link = "new"
    /\ link' = "up"
    /\ \E t \in Acceptors : Idle(t) /\ pc' = [pc EXCEPT ![t] = <<"accepted">>]
    /\ UNCHANGED <<confVars, status, closes, tokenVars, quotaVars, queueVars, outVars, inVars, arg, logVars>>

Accepted(t) ==
    /\ At(t, "accepted")
    /\ Then(t, IF status = "CLOSED" THEN <<>> ELSE Opening)
    /\ UNCHANGED <<confVars, connVars, tokenVars, quotaVars, queueVars, outVars, inVars, arg, logVars>>

\* set_socket_connected: with set_connected_options, which closes when it fails;
\* then on_connected, and the status is stored, whatever it was.
SetSocketConnected(t) ==
    /\ At(t, "set_connected")
    /\ \/ /\ Close
          /\ pc' = [pc EXCEPT ![t] = <<>>]
          /\ UNCHANGED frame
       \/ /\ status' = "CONNECTED"
          /\ frame' = NewFrame
          /\ Then(t, <<>>)
          /\ UNCHANGED <<link, closes>>
    /\ UNCHANGED <<confVars, tokenVars, quotaVars, queueVars, outVars>>
    /\ UNCHANGED <<reading, pos, items, delivered, arg, logVars>>

\* trigger_receive and trigger_send: the stores before try_start_...
Trigger(t) ==
    /\ \/ At(t, "trigger_receive") /\ read_quota_token' = 1 /\ UNCHANGED write_quota_token
       \/ At(t, "trigger_send") /\ write_quota_token' = 1 /\ UNCHANGED read_quota_token
    /\ Then(t, <<>>)
    /\ UNCHANGED <<confVars, connVars, tokenVars, write_quota, read_quota, queueVars, outVars, inVars, arg, logVars>>

----------------------------------------------------------------------------
(* Sending.                                                                *)

\* Messages that nobody has sent yet.  They differ in name only.
Fresh == {m \in Messages : /\ m \notin failed /\ \A p \in Producers : arg[p] # m
                           /\ \A i \in DOMAIN accepted : accepted[i] # m}

\* async_send_message up to the test of the status.
AsyncSendMessage(p) ==
    LET m == CHOOSE x \in Fresh : TRUE IN
    /\ Known /\ Idle(p) /\ Fresh # {}
    /\ \/ /\ status = "CLOSED"
          /\ failed' = failed \cup {m}
          /\ UNCHANGED <<pc, arg>>
       \/ /\ status # "CLOSED"
          /\ pc' = [pc EXCEPT ![p] = <<"put", "send">>]
          /\ arg' = [arg EXCEPT ![p] = m]
          /\ UNCHANGED failed
    /\ UNCHANGED <<confVars, connVars, tokenVars, quotaVars, queueVars, outVars, inVars, accepted, wire>>

PutIntoPendingQueue(t) ==
    /\ At(t, "put")
    /\ pending' = Append(pending, arg[t])
    /\ accepted' = Append(accepted, arg[t])
    /\ arg' = [arg EXCEPT ![t] = 0]
    /\ Then(t, <<>>)
    /\ UNCHANGED <<confVars, connVars, tokenVars, quotaVars, swapped, sending, outVars, inVars, wire, failed>>

\* try_start_send: the three tests before the token is taken.
TestSend(t) ==
    /\ \/ At(t, "send") /\ Then(t, IF send_token THEN <<>> ELSE <<"write_quota">>)
       \/ At(t, "write_quota") /\ Then(t, IF write_quota_token <= 0 THEN <<>> ELSE <<"connected">>)
       \/ At(t, "connected") /\ Then(t, IF status = "CONNECTED" THEN <<"lock">> ELSE <<>>)
    /\ UNCHANGED <<confVars, connVars, tokenVars, quotaVars, queueVars, outVars, inVars, arg, logVars>>

LockSend(t) ==
    /\ At(t, "lock")
    /\ send_token' = TRUE
    /\ Then(t, IF send_token THEN <<>> ELSE <<"get">>)
    /\ UNCHANGED <<confVars, connVars, receive_token, quotaVars, queueVars, outVars, inVars, arg, logVars>>

\* What acquire_..._quota leaves of a quota and what recharge_... makes of it.
Acquired(quota, n)  == IF quota > 0 THEN quota - n ELSE quota - 1
Recharged(quota, n) == IF quota > 0 THEN n ELSE quota + n

\* acquire_write_quota, whose result is the quota before.
AcquireWriteQuota(t) ==
    /\ arg' = [arg EXCEPT ![t] = IF "out" \in limited THEN write_quota ELSE 1]
    /\ write_quota' = IF "out" \in limited THEN Acquired(write_quota, Units) ELSE write_quota
    /\ UNCHANGED <<write_quota_token, read_quota_token, read_quota>>

\* get_from_pending_queue: from _swapped_calls, which belongs to the holder of
\* the token, after exchanging it for _pending_calls when it is empty.  Quota is
\* acquired in the same step: nothing else looks at both.
GetFromPendingQueue(t) ==
    /\ At(t, "get")
    /\ \/ /\ swapped # <<>>
          /\ sending' = Head(swapped) /\ swapped' = Tail(swapped)
          /\ AcquireWriteQuota(t) /\ Then(t, <<"store">>)
          /\ UNCHANGED pending
       \/ /\ swapped = <<>> /\ pending # <<>>
          /\ sending' = Head(pending) /\ swapped' = Tail(pending) /\ pending' = <<>>
          /\ AcquireWriteQuota(t) /\ Then(t, <<"store">>)
       \/ /\ swapped = <<>> /\ pending = <<>>
          /\ Then(t, <<"release">>)
          /\ UNCHANGED <<pending, swapped, sending, quotaVars, arg>>
    /\ UNCHANGED <<confVars, connVars, tokenVars, outVars, inVars, logVars>>

\* A message without quota that goes back to the wrong end of the queue.
StartWriteReinsertsLast(t) ==
    /\ At(t, "store")
    /\ write_quota_token' = arg[t]
    /\ arg' = [arg EXCEPT ![t] = 0]
    /\ \/ /\ arg[t] <= 0
          /\ swapped' = Append(swapped, sending) /\ sending' = NoMsg
          /\ Then(t, <<"unlock">>)
          /\ UNCHANGED outVars
       \/ /\ arg[t] > 0
          /\ left' = Units /\ writing' = writing + 1
          /\ Then(t, <<>>)
          /\ UNCHANGED <<swapped, sending>>
    /\ UNCHANGED <<confVars, connVars, tokenVars, read_quota_token, write_quota, read_quota, pending, inVars, logVars>>

\* The result is stored; without quota the message goes back to the front of the
\* queue, with it the first async_write_some is started.
StartWrite(t) ==
    /\ At(t, "store")
    /\ write_quota_token' = arg[t]
    /\ arg' = [arg EXCEPT ![t] = 0]
    /\ \/ /\ arg[t] <= 0
          /\ swapped' = <<sending>> \o swapped /\ sending' = NoMsg
          /\ Then(t, <<"unlock">>)
          /\ UNCHANGED outVars
       \/ /\ arg[t] > 0
          /\ left' = Units /\ writing' = writing + 1
          /\ Then(t, <<>>)
          /\ UNCHANGED <<swapped, sending>>
    /\ UNCHANGED <<confVars, connVars, tokenVars, read_quota_token, write_quota, read_quota, pending, inVars, logVars>>

\* The token is given back: at the end, or because the queue was empty.
UnlockSend(t) ==
    /\ \/ At(t, "unlock") /\ Then(t, <<>>)
       \/ At(t, "release") /\ Then(t, <<"recheck">>)
    /\ send_token' = FALSE
    /\ UNCHANGED <<confVars, connVars, receive_token, quotaVars, queueVars, outVars, inVars, arg, logVars>>

\* A loop that ends as soon as the queue has been found empty.
RecheckSkipped(t) ==
    /\ At(t, "recheck")
    /\ Then(t, <<>>)
    /\ UNCHANGED <<confVars, connVars, tokenVars, quotaVars, queueVars, outVars, inVars, arg, logVars>>

\* if (_pending_message_count == 0) break;
Recheck(t) ==
    /\ At(t, "recheck")
    /\ Then(t, IF pending = <<>> THEN <<>> ELSE <<"connected">>)
    /\ UNCHANGED <<confVars, connVars, tokenVars, quotaVars, queueVars, outVars, inVars, arg, logVars>>

\* A completion whose handler finds the connection closed: nothing is undone.
OnWriteIgnored ==
    /\ Idle(Io) /\ writing > 0 /\ status # "CONNECTED"
    /\ writing' = writing - 1
    /\ UNCHANGED <<confVars, connVars, tokenVars, quotaVars, queueVars, left, inVars, pc, arg, logVars>>

OnWriteError ==
    /\ Idle(Io) /\ writing > 0 /\ status = "CONNECTED"
    /\ writing' = writing - 1
    /\ failed' = failed \cup {sending}
    /\ sending' = NoMsg /\ left' = 0
    /\ Close
    /\ UNCHANGED <<confVars, tokenVars, quotaVars, pending, swapped, inVars, pc, arg, accepted, wire>>

\* A handler that does not ask for the rest of a message.
OnWritePartStops ==
    /\ Idle(Io) /\ writing > 0 /\ status = "CONNECTED" /\ link = "up"
    /\ \E n \in 1 .. left - 1 : left' = left - n
    /\ writing' = writing - 1
    /\ UNCHANGED <<confVars, connVars, tokenVars, quotaVars, queueVars, inVars, pc, arg, logVars>>

\* Part of the message, or a whole block of it, has been written: on_write_some
\* starts the next async_write_some.
OnWritePart ==
    /\ Idle(Io) /\ writing > 0 /\ status = "CONNECTED" /\ link = "up"
    /\ \E n \in 1 .. left - 1 : left' = left - n
    /\ UNCHANGED <<confVars, connVars, tokenVars, quotaVars, queueVars, writing, inVars, pc, arg, logVars>>

\* The rest has been written.  (_sending_message is not read again before the
\* next holder of the token assigns it.)
OnWriteLast ==
    /\ Idle(Io) /\ writing > 0 /\ status = "CONNECTED" /\ link = "up"
    /\ writing' = writing - 1 /\ left' = 0
    /\ wire' = Append(wire, sending) /\ sending' = NoMsg
    /\ pc' = [pc EXCEPT ![Io] = <<"unlock", "send">> \o
                                IF net_type = "NT_SERVER" THEN <<"recv">> ELSE <<>>]
    /\ UNCHANGED <<confVars, connVars, tokenVars, quotaVars, pending, swapped, inVars, arg, accepted, failed>>

----------------------------------------------------------------------------
(* Receiving.                                                              *)

\* try_start_receive: the tests before the token is taken.  A server with too
\* much to send does not receive; the two summands of pending_buffer_size() are
\* read in either order, without a lock.
TestReceive(t) ==
    /\ \/ /\ At(t, "recv")
          /\ Then(t, IF receive_token THEN <<>> ELSE <<"read_quota">>)
          /\ UNCHANGED arg
       \/ /\ At(t, "read_quota")
          /\ Then(t, IF read_quota_token <= 0 THEN <<>>
                     ELSE IF net_type = "NT_SERVER" THEN <<"backlog">> ELSE <<"rconnected">>)
          /\ UNCHANGED arg
       \/ /\ At(t, "backlog")
          /\ arg' = [arg EXCEPT ![t] = Len(pending)]
          /\ Then(t, <<"backlog_swapped">>)
       \/ /\ At(t, "backlog")
          /\ arg' = [arg EXCEPT ![t] = Len(swapped)]
          /\ Then(t, <<"backlog_pending">>)
       \/ /\ At(t, "backlog_swapped")
          /\ arg' = [arg EXCEPT ![t] = 0]
          /\ Then(t, IF arg[t] + Len(swapped) > MaxPending THEN <<>> ELSE <<"rconnected">>)
       \/ /\ At(t, "backlog_pending")
          /\ arg' = [arg EXCEPT ![t] = 0]
          /\ Then(t, IF arg[t] + Len(pending) > MaxPending THEN <<>> ELSE <<"rconnected">>)
       \/ /\ At(t, "rconnected")
          /\ Then(t, IF status = "CONNECTED" THEN <<"rlock">> ELSE <<>>)
          /\ UNCHANGED arg
    /\ UNCHANGED <<confVars, connVars, tokenVars, quotaVars, queueVars, outVars, inVars, logVars>>

\* acquire_read_quota, whose result is the quota before.
AcquireReadQuota(t) ==
    /\ arg' = [arg EXCEPT ![t] = IF "in" \in limited THEN read_quota ELSE 1]
    /\ read_quota' = IF "in" \in limited THEN Acquired(read_quota, ReadCost) ELSE read_quota
    /\ UNCHANGED <<write_quota_token, read_quota_token, write_quota>>

\* The token is taken and quota acquired.
LockReceive(t) ==
    /\ At(t, "rlock")
    /\ receive_token' = TRUE
    /\ \/ /\ receive_token
          /\ Then(t, <<>>)
          /\ UNCHANGED <<arg, quotaVars>>
       \/ /\ ~receive_token
          /\ AcquireReadQuota(t) /\ Then(t, <<"rstore">>)
    /\ UNCHANGED <<confVars, connVars, send_token, queueVars, outVars, inVars, logVars>>

StartRead(t) ==
    /\ At(t, "rstore")
    /\ read_quota_token' = arg[t]
    /\ arg' = [arg EXCEPT ![t] = 0]
    /\ reading' = IF arg[t] > 0 THEN reading + 1 ELSE reading
    /\ Then(t, IF arg[t] > 0 THEN <<>> ELSE <<"runlock">>)
    /\ UNCHANGED <<confVars, connVars, tokenVars, write_quota_token, write_quota, read_quota>>
    /\ UNCHANGED <<queueVars, outVars, pos, frame, items, delivered, logVars>>

UnlockReceive(t) ==
    /\ At(t, "runlock")
    /\ receive_token' = FALSE
    /\ Then(t, <<>>)
    /\ UNCHANGED <<confVars, connVars, send_token, quotaVars, queueVars, outVars, inVars, arg, logVars>>

OnReadIgnored ==
    /\ Idle(Io) /\ reading > 0 /\ status # "CONNECTED"
    /\ reading' = reading - 1
    /\ UNCHANGED <<confVars, connVars, tokenVars, quotaVars, queueVars, outVars>>
    /\ UNCHANGED <<pos, frame, items, delivered, pc, arg, logVars>>

\* An error, or the end of the stream.
OnReadError ==
    /\ Idle(Io) /\ reading > 0 /\ status = "CONNECTED"
    /\ reading' = reading - 1
    /\ Close
    /\ UNCHANGED <<confVars, tokenVars, quotaVars, queueVars, outVars>>
    /\ UNCHANGED <<pos, frame, items, delivered, pc, arg, logVars>>

\* Some more bytes: they are split into messages, the token is given back and the
\* next read started; then on_received is called for each message.
OnReadSome ==
    /\ Idle(Io) /\ reading > 0 /\ status = "CONNECTED"
    /\ reading' = reading - 1
    /\ \E n \in 1 .. Len(Peer) - pos :
          LET s == Split(frame, SubSeq(Peer, pos + 1, pos + n)) IN
          /\ pos' = pos + n
          /\ frame' = s.frame
          /\ \/ /\ s.state = "broken"
                /\ Close
                /\ UNCHANGED <<items, pc>>
             \/ /\ s.state # "broken"
                /\ items' = s.out
                /\ pc' = [pc EXCEPT ![Io] = <<"runlock", "recv", "deliver">>]
                /\ UNCHANGED connVars
    /\ UNCHANGED <<confVars, tokenVars, quotaVars, queueVars, outVars, delivered, arg, logVars>>

\* while (!is_closed() && !received_message.empty())
OnReceived(t) ==
    /\ At(t, "deliver")
    /\ \/ /\ status # "CLOSED" /\ items # <<>>
          /\ delivered' = Append(delivered, Head(items)) /\ items' = Tail(items)
          /\ UNCHANGED pc
       \/ /\ status = "CLOSED" \/ items = <<>>
          /\ items' = <<>>
          /\ Then(t, <<>>)
          /\ UNCHANGED delivered
    /\ UNCHANGED <<confVars, connVars, tokenVars, quotaVars, queueVars, outVars, reading, pos, frame, arg, logVars>>

----------------------------------------------------------------------------
(* TimerMaintain of the server or client, as far as quotas go.             *)

TimerMaintain ==
    /\ limited # {} /\ Known /\ Idle(Maint)
    /\ pc' = [pc EXCEPT ![Maint] =
                 (IF "in" \in limited THEN <<"recharge_read", "test_read">> ELSE <<>>) \o
                 (IF "out" \in limited THEN <<"recharge_write", "test_write">> ELSE <<>>)]
    /\ UNCHANGED <<confVars, connVars, tokenVars, quotaVars, queueVars, outVars, inVars, arg, logVars>>

Recharge(t) ==
    /\ \/ /\ At(t, "recharge_read")
          /\ read_quota' = Recharged(read_quota, SliceQuota) /\ UNCHANGED write_quota
       \/ /\ At(t, "recharge_write")
          /\ write_quota' = Recharged(write_quota, SliceQuota) /\ UNCHANGED read_quota
    /\ Then(t, <<>>)
    /\ UNCHANGED <<confVars, connVars, tokenVars, write_quota_token, read_quota_token>>
    /\ UNCHANGED <<queueVars, outVars, inVars, arg, logVars>>

\* Only sessions whose token says that they had no quota are triggered.
TestToken(t) ==
    /\ \/ /\ At(t, "test_read")
          /\ Then(t, IF status # "CLOSED" /\ read_quota_token <= 0
                         THEN <<"trigger_receive", "recv">> ELSE <<>>)
       \/ /\ At(t, "test_write")
          /\ Then(t, IF status # "CLOSED" /\ write_quota_token <= 0
                         THEN <<"trigger_send", "send">> ELSE <<>>)
    /\ UNCHANGED <<confVars, connVars, tokenVars, quotaVars, queueVars, outVars, inVars, arg, logVars>>

----------------------------------------------------------------------------
\* A thread goes on in what it has begun.
Step(t) ==
    \/ Accepted(t) \/ SetSocketConnected(t) \/ Trigger(t)
    \/ PutIntoPendingQueue(t) \/ TestSend(t) \/ LockSend(t) \/ GetFromPendingQueue(t)
    \/ StartWrite(t) \/ UnlockSend(t) \/ Recheck(t)
    \/ TestReceive(t) \/ LockReceive(t) \/ StartRead(t) \/ UnlockReceive(t) \/ OnReceived(t)
    \/ Recharge(t) \/ TestToken(t)

OnWriteSome == OnWriteIgnored \/ OnWritePart \/ OnWriteLast \/ OnWriteError
OnRead      == OnReadIgnored \/ OnReadSome \/ OnReadError
Connecting  == AsyncConnect \/ OnConnect \/ OnConnectTimeout \/ OnAccept

Next ==
    \/ \E t \in Threads : Step(t)
    \/ \E p \in Producers : AsyncSendMessage(p)
    \/ Connecting \/ ShutDown
    \/ OnWriteSome \/ OnRead
    \/ TimerMaintain

Spec == Init /\ [][Next]_vars

\* Threads go on, connecting ends, and what is written to a connection that is
\* up arrives.  Nobody has to send or close, and the peer may be silent.
Fairness ==
    /\ \A t \in Threads : WF_vars(Step(t))
    /\ WF_vars(Connecting) /\ WF_vars(OnWriteSome)

FairSpec == Spec /\ Fairness

----------------------------------------------------------------------------
(* Properties.                                                             *)

InFlight == IF sending = NoMsg THEN <<>> ELSE <<sending>>

\* Until the connection is first closed, what has been sent, what is being sent
\* and the two queues are, in this order, what was accepted: no message is lost,
\* doubled or overtaken, whoever holds _send_token and however often a message
\* goes back for want of quota.
QueueExact ==
    /\ StreamTypeOK
    /\ closes = 0 => accepted = wire \o InFlight \o swapped \o pending

Quiet == \A t \in Threads : Idle(t)

\* No lost wake-up: when no thread is in try_start_send any more, a connected
\* stream without a write quota that has a message to send is sending, which is
\* what the test after giving back _send_token is for.  Nor does a stream stop
\* receiving: at rest it reads, or it is a server's that had too much to send,
\* and then a write is under way whose end restarts it, or waits for quota.
NoLostWakeup ==
    Quiet /\ status = "CONNECTED" =>
        /\ "out" \notin limited /\ swapped \o pending # <<>> => writing = 1
        /\ closes = 0 /\ "in" \notin limited =>
              \/ reading = 1
              \/ net_type = "NT_SERVER" /\ (writing = 1 \/ "out" \in limited)

\* However the bytes are cut into reads, on_received gets the messages of the
\* peer, each whole and in order, as soon as their last byte has been read.
FramesExact ==
    LET got == delivered \o items IN
    /\ \A i \in DOMAIN got : got[i] = BodyOf(i)
    /\ closes = 0 => Len(got) = CHOOSE n \in 0 .. Len(inbound) :
                        /\ Len(Stream[n]) <= pos
                        /\ n < Len(inbound) => Len(Stream[n + 1]) > pos

\* A message that a stream without a write quota has accepted is sent, or the stream is
\* closed or never gets a connection.
AcceptedIsSent ==
    \A m \in Messages :
        ("out" \notin limited /\ \E i \in DOMAIN accepted : accepted[i] = m)
            ~> (closes > 0 \/ link = "new" \/ \E i \in DOMAIN wire : wire[i] = m)
============================================================================
