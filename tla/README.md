# Verification of gb_server

TLA+ models of the framework under `src/src/` (the C++ game server framework
gb_server), the TLC configurations that check them on small instances, and
proofs checked by TLAPS. Paths below are relative to `src/src/`.

## 1. The system

A process has one main thread, a number of *normal workers* with a thread each,
a pool of IO threads (asio), and a pool of threads for heavy computation.
Whoever wants a worker to do something posts a closure to its queue; a worker's
own data (pending RPC calls, timers, Lua state) is meant to be touched by its
thread alone and has no locks. The hard parts are the places where two kinds of
threads meet.

| Component | State | Operations | Meets |
|---|---|---|---|
| `worker/` Worker, WorkerManager | queue, `runing_`, `shutting_down_`, pending RPC map, sequence counter | Post, Run, ProcessFrame, Stop, EnterShutdownMode, CleanupInWorkerThread | every thread posts |
| `network/rpc/` RpcCall, RpcTimerPool | `state_`, timer handle, callback; per-thread free handles | SetSession, Call, Done, Cancel, StartTimer, StopTimer | IO threads run the timer, the worker runs the rest |
| `network/manager/` NetworkManager | handler maps and their frozen copies | CallImpl, Dispatch, Freeze | IO threads dispatch, workers register |
| `network/router/` Router, tables | entity ranges (pending, current, retired), worker lists, policy | Bind, Unbind, Freeze, Lookup, GetExecutor | main thread writes, IO threads read without locks |
| `async/` ThreadPool, ThreadPoolScheduler | queue, `pending_`, `running_`; per await two flags | Execute, Dispatch, Schedule, Stop | workers submit, pool threads post back |
| `async/` ShutdownManager, SignalHandler; `app/` | phase, request and re-entrance flags | Shutdown, AdvancePhase, ForceShutdown, WaitForShutdown, four phase callbacks | main thread, signal handlers, all workers |
| `db/postgres/` DbConnectionPool | idle queue, waiters, three counters | Start, Stop, Acquire, Release, heartbeat | one IO thread, client coroutines |
| `db/postgres/` PgConnection | `pending_ops_`, `op_active_`, the libpq handle | Async and coroutine queries, transactions, Close | one IO thread, every worker posts |
| `db/redis/` connection and pool | hiredis context, `pending_cb_`, `connected_`; round robin over connections | Connect with its handshake, commands, Disconnect | one IO thread; Connect waits on another |
| `message_stream/` | state machine of a connection, send queue and tokens, receive buffers, quotas | connect, close, async_send, read and write handlers | IO threads, senders |
| `network/io/` Server, Client, Listener, KcpListener | session set, session maps, listeners, maintenance thread | Start, Stop, accept, restart, keep-alive, FindOrCreateStream | IO threads, maintenance thread, application |
| `network/nats/` | per worker: handlers, outstanding requests, inbox counter; subscriptions | Publish, Subscribe, Request, Disconnect | NATS threads, workers |
| `timer/` TimerManager | two queues, all timers, a flag | Register, UnRegister, Update, EnterShutdownMode | its worker; the shutdown driver |
| `buffer/`, `msgpack/`, `network/io/session.cpp`, `network/rpc/rpc_function.hpp` | none that outlives a message | packing, compressing, framing and their inverses | sender and receiver |

What makes the parts correct: a call's callback runs exactly once with the right
outcome; work given to the pool comes back once; the phases of the shutdown run
once, in order and to the end; routing follows the bindings; a connection of a
pool is in one place and counted; a timer fires when due and never after it was
cancelled; a request over NATS ends once; an operation on a database gets its own
result; what is packed comes back; nothing accepted is lost silently.
`PROJECT.json` lists the components with their status and the hazards at their
lines.

## 2. Modules

| Module | Models | Composes |
|---|---|---|
| `Worker` | a worker's queue and flags, a post in its two steps, the loop | |
| `ThreadPool` | Execute, the loop, the drain, Stop | |
| `Rpc` | the life of RPC calls, handles, timers, responses | `Worker` |
| `Scheduler` | jobs that go to the pool and come back, by callback or by coroutine | `Worker`, `ThreadPool` |
| `Shutdown` | the end of the process | `Worker`, `ThreadPool` |
| `Router` | entity table, static table, executors, handler maps, dispatch | |
| `DbPool` | the PostgreSQL pool | |
| `MessageStream` | one connection: tokens, queues, quotas, framing, connect and close | |
| `Timers` | a TimerManager | refines `TimerSpec` |
| `TimerSpec` | what a TimerManager promises, abstractly | |
| `Nats` | subscriptions, requests, inboxes, timeouts, Disconnect | |
| `NatsSubjects` | matching a subject with a pattern | used by `Nats`, `Codec` |
| `PgConnection` | the queue of operations of a connection over libpq | |
| `Redis` | Connect, commands and disconnects over hiredis, the pool | |
| `Connections` | sessions of a server or client, Start, Stop, maintenance | |
| `RedisReplies`, `PgValues` | conversion of replies, parameters and results | |
| `MsgPack` | the serializer, byte by byte | |
| `Buffers`, `Compressed`, `Messages` | blocks, compressing streams, a message from `Send` to its handler | `Messages` uses the other two |
| `Codec` | applies the conversions to an input and compares | `NatsSubjects`, `RedisReplies`, `PgValues`, `MsgPack`, `Messages` |
| `RpcProofs`, `RouterProofs`, `TimersProofs`, `DbPoolProofs`, `SchedulerProofs`, `NatsProofs`, `ConnectionsProofs`, `MessageStreamProofs` | theorems | each extends the module it is named after; `TimersProofs` extends `Shutdown`, too, and `DbPoolProofs` `PgConnection` |
| `MC*` | instances for TLC | `MCDatabase` runs `DbPool`, `PgConnection` and `Codec` in one run: they share no state, and its variable `part` says which of them the behaviour is about; `MCCodec` has the inputs of `Codec` |

Names follow the source (without the trailing underscore); each definition is
tied to its lines in `PROJECT.json`, "map". Definitions that come just before
another one with a longer name (`TimerHandlerNoCas`, ...) are plausible bugs;
each property is checked to fail with one of them in place of the original.
Newer ones have the original's name with a suffix (`Fire_Cancelled`).
The specifications of `Shutdown`, `PgConnection` and `Codec` are called `ShutdownSpec`,
`PgSpec` and `CodecSpec`, so that a module can extend them beside another one.

### Worker
`runing`, `shutting_down`, `events` are the members; `events` is a set, for the
concurrent queue orders only the posts of one producer and no property depends
on it. `EnqueueTask` tests the flags (`PostCheck`) and enqueues later
(`PostEnqueue`): what happens in between is the source of several hazards. `loop` is the position
of the worker's thread.

### ThreadPool
`pend` is `pending_`, and an `Execute` is two steps, the test with the increment
and the enqueue. A thread may test `running_` (`LoopHead`), dequeue, run, drain
or end. The wait on the condition variable has a timeout of 100 ms and is
therefore a stutter.

### Rpc
A call is configured (`SetSession`, `SetCallBack`, `Cancel`, in any order) and then
issued on its worker; it gets a sequence number, enters the pending map
and arms its timer. `withdrawn` are the calls whose callback a `Cancel` has run
before they were issued; `callbacks` counts from `CallImpl` on, which opens such a
call again. `CallbackRuns` adds the two. A call object is issued once, always with a callback, which is not
replaced afterwards. IO threads expire timers (external: asio), try the
compare-exchange on `state_` and post; responses, up to `MaxReplies` per request
and in any order, are posted to the worker encoded in the sequence number. The
worker runs the closures. A timer that has expired cannot be cancelled any more
(`ready`). An IO thread that is stopped (`GracefulStop`) runs no more handlers.

### Scheduler
A job is a `Dispatch` with a callback or a coroutine's `Schedule`. The coroutine's
suspension is two steps (`SuspendStore`, `SuspendLoad`) that interleave with the
two of `NotifyCompleted`. `went_on` are the coroutines that `await_suspend` did not
suspend, `handed_back` those that the pool thread posted a resumption for.

### Shutdown
`pc` says where each thread that may drive the shutdown is; `AdvancePhase` is cut
at each atomic operation, and the callbacks at each worker they visit. The
messages, jobs and tasks are there to be lost. `App::io_service_pool_` is never
assigned, so phase 1 stops no IO thread and they go on posting to the end.

### Router
Ids range over `0 .. Wrap - 1` and `id + 1` wraps, as `uint64_t` does. A table is
a set of disjoint entries: the code sorts it before it publishes it. `bound` and
`frozen_bound` are the reference: the binding of each id, as a function. A reader
holds the table it loaded for several steps; two publications later the table is
deleted and what the reader finds is arbitrary. The handler maps are `handlers`
until `Freeze` moves them into `snapshot` and stores that (`frozen`); `known`
is the reference.

### DbPool
All handlers run on the pool's one io_context, so each is a step. `alive` are
the connections for which `IsConnected()` holds; breaking one is external. The
counters are arithmetic modulo `SizeMod`.

### MessageStream
A thread's position `pc` is the sequence of steps it still has to take, so that
`try_start_send` called from a write handler, from `trigger_send` or by a sender
is the same steps; each test, compare-and-swap and store of shared state is one.
Acquiring quota is joined to the step before it, which touches nothing that a
recharge reads. `accepted` and `wire` record the order in which messages
were queued and written. The peer's bytes are `<<message, index>>`, reads cut
them anywhere, and `Split` is the loop of `split_and_process_message`, each turn
of which consumes a byte. Quotas are separate for the two directions; the
other connections that share the flow controller appear only in what they leave
of the quota at first. A session is accepted on the maintenance thread, which also
maintains; once a listener has been restarted, on a thread of the IO pool (`Pool`),
and by SSL on the session's own (`Acceptors`). A connection's
status is stored unconditionally by `async_connect` and `set_socket_connected`,
so a stream closed just before comes back; the properties about order and
receiving therefore speak of the time before the first close.

### Timers
A priority queue is the set of its elements, `Top` the first by the code's
comparison. `Update` takes one timer per step; while a callback runs (`cur`) it
may register and unregister, and so may tasks. `RegisterTimer` tests
`shutting_down_` and inserts later (`reg`), for `EnterShutdownMode` marks timers
from another thread. Time is relative to now and stops at `Floor`, below which
no comparison changes. The clock moves at most once per `Update` and durations are
positive, so a loop whose callbacks take longer than its period, which would keep
`Update` busy and other timers from firing, does not occur: `ArmedTimerFires` speaks
of workers whose callbacks keep up. `Mode` maps a timer to what `TimerSpec` knows of it.

### Nats
A thread has its handlers (`subs`), its outstanding requests (`pending`) and its
inbox counter; `bus` are the subscriptions at the server, `wire` the messages on
their way, `events` the closures posted to a worker. A closure carries the
subject and looks the handler up again. Processes share the bus. Timers behave
as `TimerSpec` says.

### PgConnection and Redis
All of an operation's steps run on the thread of one io_context: `StartSend`,
flushing, waiting, `CollectResults`, `StartNext`. `StartNext` and `StartSend` call
each other; on a connection that takes no command they run through the queue and
fail all of it, which is `FailPending`. libpq and hiredis are external:
one command at a time, callbacks with a null reply before a context is freed.
`result` records whose result an operation got.

### Connections
`closing` is where a thread is in `on_closed`, and of which session: the IO thread
of each session, the maintenance thread, the application's, and the one that accepts
after a restart. `accepting` is where `on_accept` by TCP is; its thread, `acceptor`, is the
maintenance thread until `ReStartListen` makes a listener on the IO pool. `maint` is
where the maintenance thread is, `app` where `Stop` is; `_start_stop_mutex` and
`_session_set_mutex` are the guards of the steps that take them. The status of a
session is stored unconditionally where the code does so. `socket` is the session's
socket: `Close` shuts an open one and does nothing to one that `async_connect` has
not opened yet (`early` remembers those), so `AsyncConnect` opens it later all the
same. The swap of the status and the shutdown are one step of `Close`. The client is
one by TCP or SSL; by KCP a closed transport stays closed. That the destructor of the
last reference closes a socket is left out.

### Codec and what it applies
An input is chosen, the code's conversion is applied, and the output is compared
with a reference definition in `Codec` (tokens for subjects, the meaning of an
answer for Redis, the value itself for parameters, arguments and messages).
The answers of Redis include that a key or member is absent, and ranges with and
without scores.
`MsgPack` keeps words of 8 bytes, so that each width has its boundaries.
A message goes from `Session::Send` (bytes, protobuf, RPC, Lua, heartbeat) to its
handler in three steps, received in two blocks that meet at any byte.

## 3. Runs

| Run | Result | Instance |
|---|---|---|
| `rpc` | holds, 888 056 states | 1 worker that may stop, 1 IO thread, 2 calls, 2 handles, 2 sequence numbers, 2 replies per call |
| `scheduler` | holds, 75 584 states | 2 workers (one may stop), 1 pool thread, a callback job and an await |
| `pool_once` | violated | 1 worker, 1 pool thread, an await |
| `shutdown` | holds, 169 213 states | main thread, a signal thread, main worker and one normal worker, 1 message, 1 job |
| `router` | holds, 1 952 576 states | 4 ids, 1 worker, indices 1 (valid) and 4 (no such worker), 2 bindings, 1 reader, both handler maps |
| `message_stream` | holds, 384 895 states | 1 sender, 2 messages of 2 units, headers of 2 bytes; a server's connection without quotas that receives an empty message, a client's that receives an empty one, one with a body and a broken one, a client's that starts without read quota and a server's without write quota; one `ShutDown`; accepted on the session's own IO thread or on the maintenance thread (on another thread of the pool: by the proofs) |
| `timers` | holds, 138 128 states | 2 timers of 1 or 2 ticks, once or looping, in either queue |
| `nats` | holds, 67 129 states | 2 workers of one process, 2 requests (a callback, a coroutine), a subject, an exact and a wildcard pattern |
| `database` | holds, 71 952 states | the pool: 3 clients, 3 connections, sizes 1 to 2. A connection: 2 connections (the global one is replaced once), 3 operations. Conversions: all patterns and subjects of up to 5 characters; every Redis command with each kind of answer in RESP2 and RESP3; parameters, statement lists; integers, strings and containers at the limits of their formats; messages of up to 5 bytes with blocks of 2, cut at every byte, for each compression |
| `connections` | holds, 1 146 787 states | 2 sessions, 2 connect types (both symmetric); client and servers by TCP, SSL and KCP; 1 connection allowed |
| `connections_stop` | holds, 527 342 states | the same with 1 connect type |
| `redis_connect` | violated | 2 connections, 2 commands |

What they ask is said in `PROJECT.json`, and of each property in the comment
before it. Where the code has a gap, the property is stated with exactly that
gap as an exception, so that the rest is checked and the exception is visible.

Why the bounds are enough to be interesting. Two calls with two handles make a
handle change hands while a wait is armed, two replies make a duplicate; that the
same sequence number on two workers means two calls is left to the proof. Four ids are the fewest for
which a range can be split in the middle at both neighbours and the largest id
wraps; two bindings overlap in every way two ranges can. Three clients on two
connections make one wait while another is handed a
connection. One job of each kind meets every interleaving of the two flags; two
drivers meet in every step of `AdvancePhase`. A sender, the IO thread and the
maintenance thread are all the kinds of threads that call `try_start_send`; two
messages make one wait in the queue while the other is refused or in flight, and
`MaxPending` of 0 makes a server stop receiving as soon as one waits. Two timers
are a callback's own and another, in front of it or behind it. Two requests on
two workers make inboxes differ in the index alone. Three operations are one
under way, one waiting and one posted after a failure. Two sessions are one in
the set and one that is accepted or connected while the first closes.

`shutdown`, `message_stream`, `database`, those of `Connections` and
`redis_connect` do not check for deadlock: the process, the connection, the
server or the conversion ends, a closed PostgreSQL connection leaves its
operations unanswered, and a client that asks a stopped pool whose database
cannot be reached waits forever (`DoAcquire` does not look at `running_`).

### Fairness
Weak fairness, of steps a thread takes by itself once it can: IO threads run
ready handlers, timers expire, posts finish, workers run the tasks in their
queue at every frame, pool threads loop, the driver of a shutdown goes on. Nothing is
assumed of peers, users, signals or the moment the main loop ends. Of the pool in `database`,
a client gives back what it holds. In `message_stream` a connection attempt ends
and a write completes, with success or with an error; nobody has to send, to
close or to answer. In `timers` the worker thread goes on with its frames and
the clock moves; nobody has to register. In `nats` a worker runs its queue and
its due timers; no message has to arrive. Of the connection in `database`, the io_context runs its
handlers and the server answers or the link fails. In `connections_stop` each thread
that can go on does, and the maintenance timer goes off; peers need do nothing.
`router`, `connections` and the violated runs, and the conversions of `database`, are
about invariants and steps only.

### What the violated runs show
Each states what a comment, a usage or the README of the repository says; the
findings in `PROJECT.json` quote it.

- `pool_once`: the pool thread finishes between the store and the load of
  `FinishSuspend` (`async/thread_pool_scheduler.h:246-275`). It posts a resumption, and
  `await_suspend` does not suspend: the coroutine is continued twice.
- `redis_connect`: `OnConnectStep` sends the first command of the handshake through
  `PostCommand`, which refuses commands while `connected_` is false, and `connected_`
  is set at the end of the handshake (`db/redis/redis_connection.cpp:1010, 1259,
  1297`). So `Connect` returns false although nothing went wrong. What `Redis` models
  beyond that point (commands, replies, disconnects) is reached by no behaviour of
  this code, and no other run is made of it.

### Gaps met while modelling
Those with a sentence of the repository against them are "findings" in
`PROJECT.json`. In short:

- A coroutine that awaits the pool may be continued twice (`pool_once`);
  `ReturnAfterResult` excepts exactly the coroutine that both sides continued.
- `SetCallBack`, `Cancel`, `Call`: the callback is told `Cancel`, then `Call` stores
  Pending over Cancelled (`network/rpc/rpc_call.cpp:52`), finds that the timer handle is
  gone and runs the callback again with `InvalidRequest`. `CallbackAtMostOnce` allows
  the second run to exactly the calls issued after a `Cancel` that ran their callback.
- Phases 2 and 4 of the shutdown run a worker's frame and cleanup on the driver's
  thread beside the worker's own (`app/app.cpp:155-163`, `app/server_app.cpp:96-104`).
- The phase is stored and announced without the waiter's mutex: `WaitForShutdown`
  may sleep through Done (`async/shutdown.cpp:143-146`); `ShutdownCompletes`
  promises its return to a thread that was asleep already.
- A message that cannot be routed is handled on the IO thread instead of dropped
  (`network/rpc/executor.h:127-131`).
- `active_count_` is not incremented for a waiter that is handed a connection
  (`db/postgres/db_pool.cpp:197-198`); `PoolExact` is silent about it.
- `trigger_send` may overwrite a refusal another thread has just stored; the
  message waits with a token that hides it from `TimerMaintain`
  (`message_stream/message_stream.cpp:93-103`, `network/io/server.cpp:438-454`);
  `NoLostWakeup` therefore speaks of streams without a write quota.
- A task whose `Execute` has tested `running_` before `Stop` may be enqueued after
  the drain (`async/thread_pool.h:75-101`); excepted in `PendingCountExact` and
  `JobReturns`.
- `Freeze` empties a handler map before it stores the copy; a message dispatched
  in between finds no handler (excepted in `HandlerFound`).
- `EnterShutdownMode` of the timers misses a timer that is just being registered
  and a loop that has expired; such a loop runs on (`ShutdownDrainsTimers`).
- NATS: inboxes are unique per process only; a `Subscribe` that is repeated and
  fails erases the first handler; of overlapping exact and wildcard subscriptions
  the exact handler gets the message twice; a request off a worker carries the
  index 0 and has no timeout; `nats.Await` takes a timeout argument for the
  callback's place; callbacks run on the subscribing worker, not on the main one.
- Redis: the Lua callback of `AsyncExists` always gets true, that of `Expire`
  no value; an absent member has rank 0, as the first has, and score 0; a range with
  its scores has other strings in RESP2 ("3") than in RESP3 ("3.000000";
  `db/redis/redis_connection.cpp:46-67`), as `RepliesExact` says; a second command overwrites `pending_cb_`; a command hiredis refuses,
  and one asked of an empty pool, drop their callbacks; `redis.Connect` reports
  success whatever the pool's health.
- PostgreSQL: `Close` while an operation is under way leaves `op_active_` set and
  its callback unanswered (`PostedEnds`); all workers share one connection, so
  their transactions interleave; the coroutine forms of Begin, Commit and Rollback
  hide a failure, and `pg.AsyncExecute` without parameters reports it as 0 rows
  and no error (`db/postgres/register_postgresql.cpp:424`; `SqlComesBack` claims nothing
  of that case); of several errors the last is kept, not the first.
- MessagePack: lengths above the short formats are read with the wrong width, and
  -32 has the byte of `format_t::table` (`ArgsComeBack` says what comes back).
- Messages: the meta must lie in one block; bytes compressed with LZ4 are sent
  before the stream is trimmed; a handler with a protobuf argument does not
  decompress it (`network/io/session.cpp:179`, `network/rpc/rpc_function.hpp:76`;
  `MessageComesBack` excepts exactly these); the Lua callback of a call reads a null
  buffer on timeout and cancel.
- Connections: `Stop` deadlocks with `ReStartListen` (`StopReturnsUnlessRestart`);
  by SSL and KCP the limit may be exceeded (`ConnectionsBounded`);
  `set_socket_connected` and `async_connect` store over a CLOSED status, so a
  closed session may stay in the maps as connected, and one that
  the sweep or the application closes after it is in the map and before its socket is
  open connects all the same, outside of the maps, so that the next `Connect` makes a
  second connection to the endpoint (`message_stream/transport/tcp_transport.cpp:45`,
  `message_stream/byte_stream.cpp:107`, `network/io/client.cpp:201`; excepted in
  `SessionsExact`); a listener whose restart fails counts as
  open; a datagram for a closed KCP session is dropped.

## 4. Proofs

`RpcProofs` proves, for any sets of workers, IO threads, calls and handles and
any bounds, that `Rpc` keeps its type, calls back at most once (but for a call
issued after a `Cancel` that ran its callback), keeps the outcome, delivers a response to its own call, keeps the pending maps exact and
gives every handle one owner. The assumption is `RpcAssumption` (the null values are none of
the real ones; the bounds are natural numbers). None of these invariants is
inductive. The strengthening `IInv` adds: what an unissued call, cancelled or not, has
not touched (`UnissuedInv`); that worker and sequence number identify a call and numbers
at or above the counter are unused (`IdentityInv`); what the map holds
(`PendingInv`); which phase of its life a call is in and what state, callback
count and outcome that means (`PhaseInv`); that a timeout closure exists, in a
queue or on its way there, only for a call the timer has won and that nobody has
called back (`TimeoutInv`); that a response closure carries the number of the
call it answers (`ResponseInv`); and `HandleExclusive`. The proof has one step per
action.

`RouterProofs` proves, for every size of the id space, every set of worker
indices and any number of readers, that the table is exact and routes are those
of the published bindings (from `RouterAssumption`). The work is in lemmas about
the operators: cutting a range out of an entry yields pieces that cover exactly
the rest (`CutPart`, `CutSides`, `CutCovers`), so that binding and unbinding keep the table exact
(`BindExact`, `UnbindExact`), publishing merges adjacent entries without changing
what they denote (`SnapshotSame`), and the binary search's result is the entry that covers the id
(`LookupExact`). The invariant holds the exactness of both the table being built
and the published one. For the handler maps it adds `MapsExact`: until `Freeze`
takes a map, the map means its reference; from then on the copy does; and what
is stored has been taken. From it `HandlerFound` follows step by step.

`TimersProofs` proves, for any number of timers and any positive durations
(`MaxTimersNat`, `DurationsPositive`), that no queue holds a pointer to an erased
timer, and that `Timers` implements `TimerSpec` under the mapping `Mode`. The
invariant adds to `QueuesExact` that a callback runs exactly while `Update` has a
timer in hand, which is then in no queue, and that ids are given out in order
(`ControlInv`). Each step maps to one of `TimerSpec` or to a stutter
(`InsertArms`, `MarkDisarms`, `FireFires`, `ReturnedReturns`, `DropStutters`,
`TickStutters`): the point is that a cancelled timer stays in its queue and is
dropped later without firing.

`DbPoolProofs` proves `PoolExact` for any finite sets of clients and connections
and any sizes below `SizeMod` (`DbAssumption`). The counters are arithmetic modulo
`SizeMod`; lemmas on cardinalities show that they never wrap (`PlusMinus`,
`RemovePart`, `AddPart`) and what giving, taking and passing on does to the set
of connections in use (`GiveHeld`, `TakeHeld`, `PassHeld`). The invariant adds
that a client waits at most once and holds nothing meanwhile (`WaitInv`), without
which handing over a connection could lose one, and that nothing exists before
`Start` (`NewInv`).

`SchedulerProofs` proves, for any sets of workers, pool threads and jobs, that
`pending_` is exact and that a job returns only after its result
(`PendingCountExact`, `ReturnAfterResult`). `SchedulerAssumption` asks for at least
one pool thread, which the constructor of the pool guarantees
(`async/thread_pool.h:54-57`): without one nothing would run the drain that
`PendingCountExact` speaks of. The invariant follows a job: a submitter's job is its
own (`SubmitInv`), a queued one has not run (`QueueInv`), a thread's is nobody
else's and its position says whether it has run (`ThreadInv`, `PostInv`), a thread
that ended has seen the queue empty (`StopInv`), `pending_` is at least queue
plus submitters, and equal until `Stop` (`CountInv`: the drain does not count down),
and a return that is still to be handed over, or in the worker's queue, has not
happened (`ReturnInv`). A coroutine returns early only as one of `went_on` and through
the queue only as one of `handed_back` (`HandInv`), so it returns twice only as one of both.

`NatsProofs` proves, for any processes, threads, requests and subscriptions, that
the request tables are exact, that a result is final (an action property) and that
what arrives reaches the one it is for. The invariant ties an entry of the
table to its waiting caller and to a number that `GenInbox` has given out
(`EntryInv`), a waiting caller to its entry and timer (`WaitInv`), and a
subscription to an inbox to its entry (`InboxInv`). `Delivered` needs more about
messages on their way, and the hypothesis `UniqueIndices`: an inbox carries no more
than the index of a worker, so the theorem cannot hold for two processes, or
for a caller off a worker, which passes for index 0 (`Name`). `MCNats` assumes it
of its instance; the finding on inboxes says what is without it.

`ConnectionsProofs` proves, for any number of sessions and types and each kind of
server and client, `ConnectionsBounded` and `SessionsExact`
(`ConnectionsAssumption`: the limit is a natural number, the null value no session).
The invariant says which threads take part for which kind (`KindInv`), that a closed
status means a socket that is shut or was not open yet (`StatusInv`; not conversely,
for `set_socket_connected` and `async_connect` overwrite it), that nobody but the
accepting thread knows a session before its insertion (`AcceptInv`), and that a
client's open sockets, and those about to be opened, belong to the session in its
table or to ones closed early (`ClientInv`).

`MessageStreamProofs` proves, for any number of senders and messages, any quotas
and either side, that the queues are exact and that no wake-up is lost
(`StreamAssumption`). A position is a sequence of labels; the proof sees the label
a thread is at (`Now`) and the set of those to come (`Later`), and lemmas say what
replacing and dropping a label does to them (`Goes`, `Drops`). The invariant:
what a position promises of later ones (`PcInv`); `set_socket_connected` happens
once, nothing is held before it and the stream is connected or closed after it
(`OpenInv`), without which a token taken early could meet a second holder; each
token has one holder, a thread or an outstanding operation (`SendTokenInv`,
`RecvTokenInv`); `_sending_message` belongs to the holder and the chain of messages
is what was accepted (`QueueInv`); and if there is something to send, a write is
under way or some thread will look at that queue again, at both or, while it has
yet to test `_pending_message_count`, at the pending one (`SendWakeInv`,
`RecvWakeInv`). The last two carry the argument for the lock-free protocol: who
finds the token taken may leave because its holder still has to look.

The proof corrected a property. `NoLostWakeup` used to say that a server that
does not read has a write under way; a server with a write quota may instead have a
message that waits for it. The run's instance had no such server; it has one now.

The last theorem of that module is `FramesExact`: for every sequence of messages,
every header size and however reads cut the bytes, the splitter hands out what
the peer sent. The peer's stream (`Stream`) and the loop over one read (`Turns`) are
recursive functions. Their equations are proved from the library's facts on
recursive functions, and induction over numbers goes through least elements
(`LeastNat` from `WFMin`; `SetInduction`), for the library's induction rules take a
predicate as parameter. `EndsGrow` and `PeerBytes` say where a message lies in the
stream. `HeaderPartGoes`, `BodyGoes` and `TurnGoes` say what one turn makes of a
frame that agrees with the first `p` bytes: it consumes at least one byte and
agrees with more of them, has handed out the next body, or has met the broken
header; `SplitGoes` is the loop. The inductive invariant `FrameInv` says that
the messages split are a prefix of the peer's, that the frame under construction
holds what has been read of the next one (`Parsed`) unless the stream is closed, that
nothing has been read before the opening, and that the IO thread is about to hand out
what it has split. Without the last, a second read would overwrite it.

The second part of `TimersProofs` is about `Shutdown`. `PhasesInOrder` and
`PoolBeforeMode` hold for any number of threads that may drive the shutdown, of
workers, pool threads, messages and jobs, from `ShutdownAssumption` (the drivers are
no worker threads, IO threads are no pool threads, `NoJob` is no job, and the jobs are
finitely many). The invariant `ShutdownInv`: one thread at a time
drives the phases, and only after a request (`DriverInv`); the callbacks that ran
are the first phases, and `current_phase_` is one ahead of them, or two between its
store and the callback, unless `ForceShutdown` has stored Done (`OrderInv`), without
which a forced Done could not be told from one that was reached; a driver that runs a
worker's code has it at the head of its list (`VisitInv`); a pool thread posts from
inside a job only, and a joined one has none (`PoolThreadInv`); a driver is at closing
the queues, and a worker's queue is closed, only when the pool has been joined
(`ModeInv`); a job's worker is known from `Execute` on (`OwnerInv`), and `pending_` does
not fall below the jobs queued or about to be (`PendInv`).

The second part of `DbPoolProofs` is about `PgConnection`: `PgResultsExact`, for any
number of connections and operations, from `PgAssumption` (0 is neither). `PgInv`
counts: of the operations of a connection, in the order of the posts, the first have
ended (`EndedCount`), the next is under way and, while the link is up, libpq's
command, then come `pending_ops_` and the closures still to run (`ConnInv`). Results
are those of that first part (`ResultInv`); a connection is closed at most once, by
its last closure, and gets operations only while it is the global one (`OpenInv`);
and an operation is posted once (`PostedOnce`). The failure of a whole queue in
one handler is one concatenation (`FailPending`), so no induction is needed.

Only model-checked: liveness (`EveryCallEnds`, `JobReturns`, `ShutdownCompletes`,
`WorkersExit`, `WaiterServed`, `AcceptedIsSent`, `ArmedTimerFires`,
`ShutdownDrainsTimers`, `WorkerRequestEnds`, `PostedEnds`,
`StopReturnsUnlessRestart`), which is out of the prover's reach; the conversions
of `Codec` (`SubjectMatchExact`, `RepliesExact`, `SqlComesBack`, `ArgsComeBack`,
`MessageComesBack`; strings of up to 256 bytes and containers of up to 20 items, so the
limits at 65535 are not met), whose modules are recursive; for `SubjectMatchExact` it is the
reference, which cuts names into tokens, that is out of reach. Every other invariant
of the runs is proved.

## 5. Not modelled

- Third-party code: HTTP (Simple-Web-Server), LZ4 and MD5, ikcp, asio, libpq,
  hiredis, cnats, sol2, protobuf. They appear as the code uses them.
- Lua: scripts, their loading and reloading, the registration of functions. The
  bindings of timers, Redis, PostgreSQL, NATS and RPC are modelled with them.
- `rpc_coro.h`: its two flags are those of the pool's awaiter, but one thread
  alone touches them.
- Log, configuration, resources, the example servers, statistics and options.
- Memory orders weaker than sequential consistency: the atomics the models meet
  are used with acquire and release, or the default order. With acquire and release
  the store and the load of `FinishSuspend` may be reordered, so that neither side
  sees the other and the coroutine sleeps on; `JobReturns` does not show it.
- A signal handled on a pool or worker thread (which makes that thread join, or
  wait for, itself), and a worker stopped before its `OnStart`.
- Exhausted memory; of SSL and KCP all but the moment a connection is reported.

## 6. Plan

1. An abstract specification of an asynchronous call (accepted, then answered
   at most once) that `Rpc`, `Nats` and `PgConnection` refine.
2. `DbPool` composed with `PgConnection`, and `Nats` with `Timers` in the place
   of what `TimerSpec` promises.
3. A signal delivered to a pool thread; two processes on one NATS server.
