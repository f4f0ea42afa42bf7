-------------------------------- MODULE Rpc --------------------------------
(***************************************************************************)
(* The client side of an RPC: RpcCall (network/rpc/rpc_call.cpp), the      *)
(* pending map of the calling Worker, the response branch of               *)
(* NetworkManager::Dispatch and the pool of timer handles                  *)
(* (network/rpc/rpc_timer_pool.cpp), composed with Worker.                 *)
(*                                                                         *)
(* A call is prepared and issued on a worker thread.  It is then raced by  *)
(* four things: the response, which an IO thread decodes and posts to the  *)
(* worker; duplicates of it; the timer, whose handler runs on an IO        *)
(* thread and posts the timeout to the worker; and Cancel on the worker    *)
(* thread.  state_ is the atomic they compete for.                         *)
(***************************************************************************)
EXTENDS Naturals, FiniteSets

CONSTANTS Workers,     \* worker indices
          Stoppable,   \* workers the application may shut down meanwhile
          IoThreads,   \* threads of the IoServicePool
          Calls,       \* RpcCall objects
          Handles,     \* RpcTimerPool::TimerHandle objects
          NoCall,      \* nullptr
          NoHandle,    \* timer_handle_ == nullptr
          NoWorker,    \* the call has not touched a worker yet
          MaxSeq,      \* bound: calls one worker issues (2^32 - 1 in the code)
          MaxReplies   \* bound: responses that arrive, duplicates included

ASSUME RpcAssumption ==
    /\ MaxSeq \in Nat \ {0}
    /\ MaxReplies \in Nat
    /\ NoCall \notin Calls
    /\ NoHandle \notin Handles
    /\ NoWorker \notin Workers
    /\ Stoppable \subseteq Workers

Seqs == 1 .. MaxSeq

\* The two closures posted to a worker: the response to call `of` (the n-th to
\* arrive), carrying the sequence number it was sent with, and the timeout of a call.
ResponseTask == [kind : {"response"}, of : Calls, seq : Seqs, n : 1 .. MaxReplies]
TimeoutTask  == [kind : {"timeout"}, of : Calls]
Tasks == ResponseTask \cup TimeoutTask

TimeoutOf(c) == [kind |-> "timeout", of |-> c]
ResponseTo(c, s, n) == [kind |-> "response", of |-> c, seq |-> s, n |-> n]

VARIABLES runing, shutting_down, events, posting, loop   \* see Worker

VARIABLES state,       \* state_ of each call
          issued,      \* NetworkManager::CallImpl has been called with it
          home,        \* worker_index_: the worker the call lives on
          seq,         \* local_seq_ (0 until issued)
          session,     \* session_ != nullptr
          bound,       \* result_callback_ is set
          handle,      \* timer_handle_
          pending,     \* pending_rpcs_ of each worker
          next_seq,    \* rpc_seq_counter_ of each worker
          armed,       \* per handle: the call whose async_wait is outstanding
          ready,       \* calls whose wait completed: the handler is queued
          available,   \* available_ of each worker thread's RpcTimerPool
          sent,        \* calls whose request was given to the session
          replies,     \* responses received so far
          io_stopped,  \* IoServicePool::GracefulStop has run
          callbacks,   \* times result_callback_ was invoked since the call was issued
          outcome,     \* the RpcErrorCode of the last of these
          answer,      \* the call whose response it carried
          withdrawn    \* a Cancel before CallImpl invoked result_callback_

W == INSTANCE Worker WITH Posters <- IoThreads

workVars  == <<runing, shutting_down, events, posting, loop>>
callVars  == <<state, issued, home, seq, session, bound, sent, replies>>
timerVars == <<handle, armed, ready, available>>
ownerVars == <<pending, next_seq>>
userVars  == <<callbacks, outcome, answer, withdrawn>>
rpcVars   == <<callVars, timerVars, ownerVars, userVars, io_stopped>>
vars      == <<workVars, rpcVars>>

RpcState == {"Pending", "Completed", "Timeout", "Cancelled", "InvalidRequest"}
RpcErrorCode == {"None", "Timeout", "Cancel", "InvalidRequest"}

\* RpcCall::ErrorCode.
ErrorCode(st) ==
    CASE st = "Timeout"        -> "Timeout"
      [] st = "Cancelled"      -> "Cancel"
      [] st = "InvalidRequest" -> "InvalidRequest"
      [] OTHER                 -> "None"

RpcTypeOK ==
    /\ W!WorkerTypeOK
    /\ state \in [Calls -> RpcState]
    /\ issued \in [Calls -> BOOLEAN]
    /\ home \in [Calls -> Workers \cup {NoWorker}]
    /\ seq \in [Calls -> 0 .. MaxSeq]
    /\ session \in [Calls -> BOOLEAN]
    /\ bound \in [Calls -> BOOLEAN]
    /\ handle \in [Calls -> Handles \cup {NoHandle}]
    /\ pending \in [Workers -> [Seqs -> Calls \cup {NoCall}]]
    /\ next_seq \in [Workers -> 1 .. MaxSeq + 1]
    /\ armed \in [Handles -> Calls \cup {NoCall}]
    /\ ready \in SUBSET Calls
    /\ available \in [Workers -> SUBSET Handles]
    /\ sent \in SUBSET Calls
    /\ replies \in 0 .. MaxReplies
    /\ io_stopped \in BOOLEAN
    /\ callbacks \in [Calls -> Nat]
    /\ outcome \in [Calls -> RpcErrorCode]
    /\ answer \in [Calls -> Calls \cup {NoCall}]
    /\ withdrawn \in [Calls -> BOOLEAN]

\* CreateWorker has returned and the worker threads have passed OnStart: before
\* that no code runs on them that could issue a call.
Init ==
    /\ runing = [w \in Workers |-> TRUE]
    /\ shutting_down = [w \in Workers |-> FALSE]
    /\ events = [w \in Workers |-> {}]
    /\ posting = [p \in IoThreads |-> W!Idle]
    /\ loop = [w \in Workers |-> "run"]
    /\ state = [c \in Calls |-> "Pending"]
    /\ issued = [c \in Calls |-> FALSE]
    /\ home = [c \in Calls |-> NoWorker]
    /\ seq = [c \in Calls |-> 0]
    /\ session = [c \in Calls |-> FALSE]
    /\ bound = [c \in Calls |-> FALSE]
    /\ handle = [c \in Calls |-> NoHandle]
    /\ pending = [w \in Workers |-> [s \in Seqs |-> NoCall]]
    /\ next_seq = [w \in Workers |-> 1]
    /\ armed = [h \in Handles |-> NoCall]
    /\ ready = {}
    /\ available = [w \in Workers |-> {}]
    /\ sent = {}
    /\ replies = 0
    /\ io_stopped = FALSE
    /\ callbacks = [c \in Calls |-> 0]
    /\ outcome = [c \in Calls |-> "None"]
    /\ answer = [c \in Calls |-> NoCall]
    /\ withdrawn = [c \in Calls |-> FALSE]

----------------------------------------------------------------------------
(* RpcTimerPool and the parts of RpcCall that use it.                      *)

\* Handles that exist: held by a call or resting in a pool.
Created == {handle[c] : c \in Calls} \cup UNION {available[w] : w \in Workers}

\* RpcTimerPool::Acquire on worker thread w: a resting handle if the thread's
\* pool has one (its timer is destroyed and constructed again, which aborts an
\* outstanding wait), otherwise a new one.
Acquire(w, c) ==
    \E h \in IF available[w] # {} THEN available[w] ELSE Handles \ Created :
        /\ handle' = [handle EXCEPT ![c] = h]
        /\ available' = [available EXCEPT ![w] = @ \ {h}]
        /\ armed' = [armed EXCEPT ![h] = NoCall]
        /\ UNCHANGED ready

\* A StopTimer that forgets timer_handle_.reset().
StopTimerKeepsHandle(w, c) ==
    /\ armed' = [h \in Handles |-> IF h = handle[c] THEN NoCall ELSE armed[h]]
    /\ available' = IF handle[c] = NoHandle THEN available
                    ELSE [available EXCEPT ![w] = @ \cup {handle[c]}]
    /\ UNCHANGED <<handle, ready>>

\* RpcCall::StopTimer: cancel the wait and give the handle to the pool of the
\* calling thread.  A handler that is already queued (ready) is not recalled.
StopTimer(w, c) ==
    /\ armed' = [h \in Handles |-> IF h = handle[c] THEN NoCall ELSE armed[h]]
    /\ available' = IF handle[c] = NoHandle THEN available
                    ELSE [available EXCEPT ![w] = @ \cup {handle[c]}]
    /\ handle' = [handle EXCEPT ![c] = NoHandle]
    /\ UNCHANGED ready

----------------------------------------------------------------------------
(* The caller's side, on a worker thread.                                  *)

\* A rpc_seq_counter_ that is read without being incremented.
AllocRpcSeqStuck(w) == UNCHANGED next_seq

\* Worker::AllocRpcSeq hands out next_seq[w].
AllocRpcSeq(w) == next_seq' = [next_seq EXCEPT ![w] = @ + 1]

\* Worker::TakePendingRpc.
TakePendingRpc(w, s) == pending' = [pending EXCEPT ![w][s] = NoCall]

\* result_callback_(code, ...), carrying the response of call `of`.
Callback(c, code, of) ==
    /\ callbacks' = [callbacks EXCEPT ![c] = @ + 1]
    /\ outcome' = [outcome EXCEPT ![c] = code]
    /\ answer' = [answer EXCEPT ![c] = of]
    /\ UNCHANGED withdrawn

\* The call is still being configured, on the thread of worker w.
Configures(w, c) == loop[w] = "run" /\ ~issued[c] /\ home[c] \in {NoWorker, w}

\* RpcCall::SetSession with a live session: a handle is acquired if there is none,
\* at first or after a Cancel (where SetTimeout acquires one too).
SetSession(w, c) ==
    /\ Configures(w, c)
    /\ handle[c] = NoHandle
    /\ home' = [home EXCEPT ![c] = w]
    /\ session' = [session EXCEPT ![c] = TRUE]
    /\ Acquire(w, c)
    /\ UNCHANGED <<state, issued, seq, bound, sent, replies>>
    /\ UNCHANGED <<workVars, ownerVars, userVars, io_stopped>>

\* RpcCall::SetCallBack, before or after SetSession and Cancel.
SetCallBack(w, c) ==
    /\ Configures(w, c)
    /\ ~bound[c]
    /\ home' = [home EXCEPT ![c] = w]
    /\ bound' = [bound EXCEPT ![c] = TRUE]
    /\ UNCHANGED <<state, issued, seq, session, sent, replies>>
    /\ UNCHANGED <<workVars, timerVars, ownerVars, userVars, io_stopped>>

\* NetworkManager::CallImpl and RpcCall::Call on the thread of worker w, with the
\* callback every caller installs first.  A Cancel that came before is forgotten:
\* state_ is Pending again.  Without a session or a timer handle (the Cancel gave
\* it away) StartTimer fails the call at once; the request is sent whenever there
\* is a session.
CallImpl(w, c) ==
    /\ Configures(w, c)
    /\ bound[c]
    /\ next_seq[w] <= MaxSeq
    /\ issued' = [issued EXCEPT ![c] = TRUE]
    /\ home' = [home EXCEPT ![c] = w]
    /\ seq' = [seq EXCEPT ![c] = next_seq[w]]
    /\ AllocRpcSeq(w)
    /\ sent' = IF session[c] THEN sent \cup {c} ELSE sent
    /\ \/ /\ session[c] /\ handle[c] # NoHandle
          /\ state' = [state EXCEPT ![c] = "Pending"]
          /\ pending' = [pending EXCEPT ![w][next_seq[w]] = c]
          /\ armed' = [armed EXCEPT ![handle[c]] = c]
          /\ UNCHANGED <<handle, ready, available, userVars>>
       \/ /\ ~(session[c] /\ handle[c] # NoHandle)
          /\ state' = [state EXCEPT ![c] = "InvalidRequest"]
          /\ TakePendingRpc(w, next_seq[w])
          /\ StopTimer(w, c)
          /\ Callback(c, "InvalidRequest", NoCall)
    /\ UNCHANGED <<session, bound, replies>>
    /\ UNCHANGED <<workVars, io_stopped>>

\* RpcCall::Cancel on the call's worker thread, before or after CallImpl.  Before
\* it TakePendingRpc is given number 0, which no entry has; the callback runs if
\* it is already installed.
Cancel(w, c) ==
    /\ loop[w] = "run"
    /\ home[c] = w
    /\ state[c] = "Pending"
    /\ state' = [state EXCEPT ![c] = "Cancelled"]
    /\ StopTimer(w, c)
    /\ \/ /\ issued[c]
          /\ TakePendingRpc(w, seq[c])
          /\ Callback(c, "Cancel", NoCall)
       \/ /\ ~issued[c]
          /\ withdrawn' = [withdrawn EXCEPT ![c] = bound[c]]
          /\ UNCHANGED <<pending, callbacks, outcome, answer>>
    /\ UNCHANGED <<issued, home, seq, session, bound, sent, replies>>
    /\ UNCHANGED <<workVars, next_seq, io_stopped>>

----------------------------------------------------------------------------
(* IO threads.                                                             *)

\* The clock reaches the expiry of an outstanding wait: asio queues its handler.
TimerExpire(h) ==
    /\ ~io_stopped
    /\ armed[h] # NoCall
    /\ ready' = ready \cup {armed[h]}
    /\ armed' = [armed EXCEPT ![h] = NoCall]
    /\ UNCHANGED <<callVars, handle, available, workVars, ownerVars, userVars, io_stopped>>

\* A handler that times out whatever state the call is in.
TimerHandlerNoCas(p, c) ==
    /\ ~io_stopped
    /\ c \in ready
    /\ ready' = ready \ {c}
    /\ state' = [state EXCEPT ![c] = "Timeout"]
    /\ W!BeginPost(p, home[c], TimeoutOf(c))
    /\ UNCHANGED <<issued, home, seq, session, bound, sent, replies>>
    /\ UNCHANGED <<runing, shutting_down, events, loop>>
    /\ UNCHANGED <<handle, armed, available, ownerVars, userVars, io_stopped>>

\* A handler that claims the call and returns without posting to the worker.
TimerHandlerNoPost(p, c) ==
    /\ ~io_stopped
    /\ c \in ready
    /\ ready' = ready \ {c}
    /\ state' = [state EXCEPT ![c] = IF @ = "Pending" THEN "Timeout" ELSE @]
    /\ UNCHANGED <<issued, home, seq, session, bound, sent, replies>>
    /\ UNCHANGED <<workVars, handle, armed, available, ownerVars, userVars, io_stopped>>

\* The lambda of StartTimer: claim the call, then post the rest to its worker.
TimerHandler(p, c) ==
    /\ ~io_stopped
    /\ c \in ready
    /\ posting[p] = W!Idle
    /\ ready' = ready \ {c}
    /\ \/ /\ state[c] = "Pending"
          /\ state' = [state EXCEPT ![c] = "Timeout"]
          /\ W!BeginPost(p, home[c], TimeoutOf(c))
       \/ /\ state[c] # "Pending"
          /\ UNCHANGED <<state, posting>>
    /\ UNCHANGED <<issued, home, seq, session, bound, sent, replies>>
    /\ UNCHANGED <<runing, shutting_down, events, loop>>
    /\ UNCHANGED <<handle, armed, available, ownerVars, userVars, io_stopped>>

\* A response of the peer arrives (late, more than once, or never): Dispatch
\* decodes worker index and sequence number and posts to that worker.
DispatchResponse(p, c) ==
    /\ ~io_stopped
    /\ c \in sent
    /\ replies < MaxReplies
    /\ replies' = replies + 1
    /\ W!BeginPost(p, home[c], ResponseTo(c, seq[c], replies + 1))
    /\ UNCHANGED <<state, issued, home, seq, session, bound, sent>>
    /\ UNCHANGED <<runing, shutting_down, events, loop>>
    /\ UNCHANGED <<timerVars, ownerVars, userVars, io_stopped>>

\* IoServicePool::GracefulStop: the io_contexts stop, queued handlers never run.
GracefulStop ==
    /\ io_stopped' = TRUE
    /\ UNCHANGED <<callVars, timerVars, ownerVars, userVars, workVars>>

----------------------------------------------------------------------------
(* Tasks on the worker thread.                                             *)

\* A Done without the compare-exchange.
RunResponseNoCas(w, t) ==
    /\ t.kind = "response"
    /\ W!Dequeue(w, t)
    /\ TakePendingRpc(w, t.seq)
    /\ LET c == pending[w][t.seq] IN
       \/ /\ c # NoCall
          /\ state' = [state EXCEPT ![c] = "Completed"]
          /\ StopTimer(w, c)
          /\ Callback(c, "None", t.of)
       \/ /\ c = NoCall
          /\ UNCHANGED <<state, timerVars, userVars>>
    /\ UNCHANGED <<issued, home, seq, session, bound, sent, replies, next_seq, io_stopped>>

\* A response that leaves its call in the pending map.
RunResponseKeepsPending(w, t) ==
    /\ t.kind = "response"
    /\ W!Dequeue(w, t)
    /\ UNCHANGED pending
    /\ LET c == pending[w][t.seq] IN
       \/ /\ c # NoCall /\ state[c] = "Pending"
          /\ state' = [state EXCEPT ![c] = "Completed"]
          /\ StopTimer(w, c)
          /\ Callback(c, "None", t.of)
       \/ /\ ~(c # NoCall /\ state[c] = "Pending")
          /\ UNCHANGED <<state, timerVars, userVars>>
    /\ UNCHANGED <<issued, home, seq, session, bound, sent, replies, next_seq, io_stopped>>

\* The closure posted by Dispatch: TakePendingRpc, then RpcCall::Done.
RunResponse(w, t) ==
    /\ t.kind = "response"
    /\ W!Dequeue(w, t)
    /\ TakePendingRpc(w, t.seq)
    /\ LET c == pending[w][t.seq] IN
       \/ /\ c # NoCall /\ state[c] = "Pending"
          /\ state' = [state EXCEPT ![c] = "Completed"]
          /\ StopTimer(w, c)
          /\ Callback(c, "None", t.of)
       \/ /\ ~(c # NoCall /\ state[c] = "Pending")
          /\ UNCHANGED <<state, timerVars, userVars>>
    /\ UNCHANGED <<issued, home, seq, session, bound, sent, replies, next_seq, io_stopped>>

\* The closure posted by the timer handler.
RunTimeout(w, t) ==
    /\ t.kind = "timeout"
    /\ W!Dequeue(w, t)
    /\ TakePendingRpc(w, seq[t.of])
    /\ StopTimer(w, t.of)
    /\ Callback(t.of, "Timeout", NoCall)
    /\ UNCHANGED <<callVars, next_seq, io_stopped>>

----------------------------------------------------------------------------
WorkerStep ==
    /\ \/ \E w \in Stoppable : W!EnterShutdownMode(w) \/ W!Stop(w)
       \/ \E w \in Workers : W!ExitLoop(w)
       \/ \E p \in IoThreads : W!PostCheck(p) \/ W!PostEnqueue(p)
    /\ UNCHANGED rpcVars

CallerStep ==
    \E w \in Workers, c \in Calls :
        SetSession(w, c) \/ SetCallBack(w, c) \/ CallImpl(w, c) \/ Cancel(w, c)

IoStep ==
    \/ \E h \in Handles : TimerExpire(h)
    \/ \E p \in IoThreads, c \in Calls : TimerHandler(p, c) \/ DispatchResponse(p, c)
    \/ GracefulStop

TaskStep ==
    \E w \in Workers : \E t \in events[w] : RunResponse(w, t) \/ RunTimeout(w, t)

Next == WorkerStep \/ CallerStep \/ IoStep \/ TaskStep

Spec == Init /\ [][Next]_vars

\* IO threads run their completion handlers, posts finish, timers expire, and
\* every frame drains the queue.  Nothing obliges a peer to answer, a user to
\* cancel, or the application to stop.
Fairness ==
    /\ \A h \in Handles : WF_vars(TimerExpire(h))
    /\ \A c \in Calls : WF_vars(\E p \in IoThreads : TimerHandler(p, c))
    /\ \A p \in IoThreads : WF_vars((W!PostCheck(p) \/ W!PostEnqueue(p)) /\ UNCHANGED rpcVars)
    /\ \A w \in Workers : WF_vars(\E t \in events[w] : RunResponse(w, t) \/ RunTimeout(w, t))

FairSpec == Spec /\ Fairness

----------------------------------------------------------------------------
(* Properties.                                                             *)

\* Every run of result_callback_, before RpcCall::Call and from then on.
CallbackRuns(c) == callbacks[c] + (IF withdrawn[c] THEN 1 ELSE 0)

\* However response, duplicates, timeout, cancel and an invalid request race,
\* result_callback_ runs at most once: the compare-exchange on state_ and the
\* posted timeout task leave one winner (rpc_call.cpp).  The one exception is a
\* call that was cancelled while it was being configured, with its callback set,
\* and issued nevertheless: RpcCall::Call stores Pending over Cancelled, and the
\* callback that has reported the Cancel runs once more.
CallbackAtMostOnce ==
    \A c \in Calls : CallbackRuns(c) <= (IF withdrawn[c] /\ issued[c] THEN 2 ELSE 1)

\* When the callback has run, ErrorCode() still reports the code it was given:
\* no later response, timer or Cancel overwrites state_ (rpc_call.cpp).
OutcomeMatchesState ==
    \A c \in Calls : callbacks[c] > 0 => ErrorCode(state[c]) = outcome[c]

\* A call that ends without error was completed by the response to its own
\* request, not by one that another call or another worker was waiting for:
\* the sequence number and worker index identify the call (CallImpl, Dispatch).
ResponseReachesItsCall ==
    \A c \in Calls : callbacks[c] > 0 /\ outcome[c] = "None" => answer[c] = c

\* A worker's pending map holds exactly the calls that are still open there: an
\* issued call stays under its sequence number until something claims it, and
\* once its callback has run no entry refers to it (no leak of the RpcCall).
PendingMapExact ==
    \A c \in Calls :
        /\ issued[c] /\ state[c] = "Pending" => pending[home[c]][seq[c]] = c
        /\ callbacks[c] > 0 => \A w \in Workers : \A s \in Seqs : pending[w][s] # c

\* A timer handle has one owner: no two calls hold it, a pool that holds it
\* shares it with no call and no other pool, and an outstanding wait belongs to
\* the call that holds the handle (otherwise reusing it would abort the wait of
\* another call, whose timeout would then never come).
HandleExclusive ==
    /\ \A c, d \in Calls : c # d /\ handle[c] # NoHandle => handle[c] # handle[d]
    /\ \A c \in Calls, w \in Workers : handle[c] \notin available[w]
    /\ \A v, w \in Workers : v # w => available[v] \cap available[w] = {}
    /\ \A h \in Handles : armed[h] # NoCall => handle[armed[h]] = h

\* Every issued call gets its callback, unless the IO threads or its worker are
\* being shut down: then posts are dropped and nothing reports the failure.
EveryCallEnds ==
    \A c \in Calls :
        issued[c] ~> \/ callbacks[c] > 0
                     \/ io_stopped
                     \/ \E w \in Workers : home[c] = w /\ ~W!Accepts(w)
============================================================================
