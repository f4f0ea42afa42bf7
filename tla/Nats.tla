-------------------------------- MODULE Nats --------------------------------
(***************************************************************************)
(* gb::NatsManager (src/network/nats): publish and subscribe, and requests *)
(* whose answers come to an inbox of their own.  The handler tables and    *)
(* the table of outstanding requests are thread_local; a message arrives   *)
(* on a thread of nats.c, which posts a closure to the worker whose index  *)
(* is in the subscription or in the name of the inbox.                     *)
(*                                                                         *)
(* The NATS server delivers a message to every subscription that matches,  *)
(* in any order and at most once: nothing forces a message on the wire to  *)
(* arrive.  Timers behave as TimerSpec promises.  The queue of a worker is *)
(* a set of closures (see Worker).                                         *)
(***************************************************************************)
EXTENDS Integers, FiniteSets, NatsSubjects

CONSTANTS Threads,        \* threads that use NATS
          Workers,        \* those that are workers: GetCurWorker is not null
          Subscribers,    \* those that call Subscribe and Publish
          Processes,
          ProcessOf, IndexOf,   \* per thread; IndexOf is GetIndex of the worker, or 0
          Requests,       \* calls of AsyncRequest or RequestRaw
          Callbacks,      \* those made with AsyncRequest
          CallerOf,       \* per request: the thread that makes it
          Subjects, Patterns,
          MaxCalls        \* bound on the number of Subscribe and Publish calls

ASSUME ThreadAssumption ==
    /\ Workers \subseteq Threads
    /\ Subscribers \subseteq Threads
    /\ ProcessOf \in [Threads -> Processes]
    /\ IndexOf \in [Threads -> Nat]
    /\ CallerOf \in [Requests -> Threads]
    /\ Callbacks \subseteq Requests
    /\ MaxCalls \in Nat

\* The index that a thread writes into the names of its inboxes.
Name(t) == IF t \in Workers THEN IndexOf[t] ELSE 0

\* A worker that makes requests shares its index with no other thread that does,
\* and a thread that subscribes shares its own with no other worker.  InitMainWorker
\* and CreateWorker give the workers of a process different indices; two processes
\* at one server, or a thread that is no worker beside the main worker, break it.
UniqueIndices ==
    /\ \A r, q \in Requests :
          CallerOf[r] \in Workers /\ Name(CallerOf[r]) = Name(CallerOf[q])
             => CallerOf[r] = CallerOf[q]
    /\ \A t \in Workers, u \in Subscribers :
          ProcessOf[t] = ProcessOf[u] /\ IndexOf[t] = IndexOf[u] => t = u

VARIABLES connected,   \* per process: connected_
          bus,         \* subscriptions that the server knows
          wire,        \* messages on their way to a subscription
          subs,        \* per thread: the keys of tls.subs
          pending,     \* per thread: tls.pending
          inbox_seq,   \* per thread
          events,      \* per worker: closures posted and not yet run
          timer,       \* per request: its timeout timer
          tmShut,      \* per process: the timer managers have entered shutdown mode
          result,      \* per request: the error code its caller got, or "none"
          answer,      \* per request: the request whose answer it got
          made,        \* Subscribe and Publish calls so far
          refused      \* history: subscriptions whose repetition failed

vars == <<connected, bus, wire, subs, pending, inbox_seq, events, timer, tmShut, result,
          answer, made, refused>>

NoReply == [w |-> -1, n |-> -1]
Inboxes == [w : Nat, n : Nat]
Errors  == {"OK", "Timeout", "Disconnected", "SubscribeFailed", "RequestFailed"}

\* A subscription of the server: a subject with the worker index of its
\* NatsSubCtx, or the inbox of a request.
SubjectSub(p, i, pat, k) == [kind |-> "subject", p |-> p, w |-> i, pat |-> pat, k |-> k]
InboxSub(p, inbox, r)    == [kind |-> "inbox", p |-> p, inbox |-> inbox, r |-> r]

NatsTypeOK ==
    /\ connected \in [Processes -> BOOLEAN]
    /\ \A s \in bus : s.p \in Processes
    /\ \A d \in wire : d.sub.p \in Processes
    /\ subs \in [Threads -> SUBSET Patterns]
    /\ \A t \in Threads : \A e \in pending[t] : e.inbox \in Inboxes /\ e.r \in Requests
    /\ inbox_seq \in [Threads -> Nat]
    /\ DOMAIN events = Workers
    /\ timer \in [Requests -> {"unused", "armed", "off"}]
    /\ tmShut \in [Processes -> BOOLEAN]
    /\ result \in [Requests -> Errors \cup {"none", "waiting"}]
    /\ answer \in [Requests -> Requests \cup {0}]
    /\ made \in 0 .. MaxCalls

Init ==
    /\ connected = [p \in Processes |-> FALSE]
    /\ bus = {}
    /\ wire = {}
    /\ subs = [t \in Threads |-> {}]
    /\ pending = [t \in Threads |-> {}]
    /\ inbox_seq = [t \in Threads |-> 0]
    /\ events = [t \in Workers |-> {}]
    /\ timer = [r \in Requests |-> "unused"]
    /\ tmShut = [p \in Processes |-> FALSE]
    /\ result = [r \in Requests |-> "none"]
    /\ answer = [r \in Requests |-> 0]
    /\ made = 0
    /\ refused = {}

\* WorkerManager::GetWorker(index) in process p.
WorkerAt(p, i) == {t \in Workers : ProcessOf[t] = p /\ IndexOf[t] = i}

----------------------------------------------------------------------------
(* Connection.                                                             *)

Connect(p) ==
    /\ ~connected[p]
    /\ connected' = [connected EXCEPT ![p] = TRUE]
    /\ UNCHANGED <<bus, wire, subs, pending, inbox_seq, events, timer, tmShut, result, answer, made, refused>>

\* Closes the connection: its subscriptions are gone and nothing arrives any
\* more.  The handler tables and the outstanding requests are not touched.
Disconnect(p) ==
    /\ connected[p]
    /\ connected' = [connected EXCEPT ![p] = FALSE]
    /\ bus' = {s \in bus : s.p # p}
    /\ wire' = {d \in wire : d.sub.p # p}
    /\ UNCHANGED <<subs, pending, inbox_seq, events, timer, tmShut, result, answer, made, refused>>

----------------------------------------------------------------------------
(* The server.                                                             *)

\* What natsConnection_Publish puts on the way, given the subscriptions b.
Deliveries(b, subject, reply, r) ==
    {[sub |-> s, subject |-> subject, reply |-> reply, r |-> r] :
        s \in {u \in b : u.kind = "subject" /\ MatchSub(u.pat, subject)}}

ReplyDeliveries(inbox, r) ==
    {[sub |-> s, subject |-> <<>>, reply |-> inbox, r |-> r] :
        s \in {u \in bus : u.kind = "inbox" /\ u.inbox = inbox}}

----------------------------------------------------------------------------
(* Subscribe and Publish, on thread t.                                     *)

Subscribe(t, pat) ==
    LET p == ProcessOf[t] IN
    /\ connected[p]
    /\ made < MaxCalls
    /\ made' = made + 1
    /\ \/ /\ bus' = bus \cup {SubjectSub(p, IndexOf[t], pat, made)}
          /\ subs' = [subs EXCEPT ![t] = @ \cup {pat}]
          /\ UNCHANGED refused
       \/ /\ subs' = [subs EXCEPT ![t] = @ \ {pat}]      \* natsConnection_Subscribe failed
          /\ refused' = refused \cup {<<t, pat>>}
          /\ UNCHANGED bus
    /\ UNCHANGED <<connected, wire, pending, inbox_seq, events, timer, tmShut, result, answer>>

\* Publish without reply subject.  A failure is only logged.
Publish(t, subject) ==
    /\ connected[ProcessOf[t]]
    /\ made < MaxCalls
    /\ made' = made + 1
    /\ wire' = wire \cup Deliveries(bus, subject, NoReply, 0)
    /\ UNCHANGED <<connected, bus, subs, pending, inbox_seq, events, timer, tmShut, result, answer, refused>>

----------------------------------------------------------------------------
(* Requests.                                                               *)

\* Mutant: the index of the first worker in every name.
GenInbox_FirstWorker(t) == [w |-> 1, n |-> inbox_seq[t]]

\* GenInbox: the worker's index (0 off a worker) and the thread's counter.
GenInbox(t) == [w |-> Name(t), n |-> inbox_seq[t]]

Ended(r, code) == result' = [result EXCEPT ![r] = code]

NotConnected(t, r) ==
    /\ ~connected[ProcessOf[t]]
    /\ Ended(r, "Disconnected")
    /\ UNCHANGED <<bus, wire, pending, inbox_seq, timer>>

\* The subscription to the inbox, or PublishRequest, fails: nothing stays.
RequestRefused(t, r) ==
    /\ connected[ProcessOf[t]]
    /\ \E code \in {"SubscribeFailed", "RequestFailed"} : Ended(r, code)
    /\ inbox_seq' = [inbox_seq EXCEPT ![t] = @ + 1]
    /\ UNCHANGED <<bus, wire, pending, timer>>

\* Mutant: no timer.
RequestSent_NoTimer(t, r, subject) ==
    /\ connected[ProcessOf[t]]
    /\ inbox_seq' = [inbox_seq EXCEPT ![t] = @ + 1]
    /\ bus' = bus \cup {InboxSub(ProcessOf[t], GenInbox(t), r)}
    /\ pending' = [pending EXCEPT ![t] = @ \cup {[inbox |-> GenInbox(t), r |-> r]}]
    /\ wire' = wire \cup Deliveries(bus, subject, GenInbox(t), r)
    /\ Ended(r, "waiting")
    /\ UNCHANGED timer

\* Subscribe to the inbox, enter the request, publish, and arm the timeout on
\* the worker's TimerManager; RegisterTimer refuses in shutdown mode.
RequestSent(t, r, subject) ==
    LET p     == ProcessOf[t]
        inbox == GenInbox(t)
        mine  == InboxSub(p, inbox, r)
        timed == t \in Workers /\ ~tmShut[p] IN
    /\ connected[p]
    /\ inbox_seq' = [inbox_seq EXCEPT ![t] = @ + 1]
    /\ bus' = bus \cup {mine}
    /\ pending' = [pending EXCEPT ![t] = @ \cup {[inbox |-> inbox, r |-> r]}]
    /\ wire' = wire \cup Deliveries(bus, subject, inbox, r)
    /\ timer' = [timer EXCEPT ![r] = IF timed THEN "armed" ELSE @]
    /\ Ended(r, "waiting")

StartRequest(t, r, subject) ==
    /\ result[r] = "none"
    /\ NotConnected(t, r) \/ RequestRefused(t, r) \/ RequestSent(t, r, subject)
    /\ UNCHANGED <<connected, subs, events, tmShut, answer, made, refused>>

\* The callback form, which nats.AsyncRequest and nats.Await of Lua use, and the
\* coroutine form: the same steps, with a callback or a promise in the entry.
AsyncRequest(t, r, subject) == StartRequest(t, r, subject)
RequestRaw(t, r, subject)   == StartRequest(t, r, subject)

Entries(t, inbox) == {e \in pending[t] : e.inbox = inbox}

\* Mutant: the entry stays in the table.
Finish_KeepsEntry(t, e, code, from) ==
    /\ bus' = bus \ {InboxSub(ProcessOf[t], e.inbox, e.r)}
    /\ Ended(e.r, code)
    /\ answer' = [answer EXCEPT ![e.r] = from]
    /\ UNCHANGED pending

\* The entry is taken out, its subscription destroyed, its caller answered.
Finish(t, e, code, from) ==
    /\ pending' = [pending EXCEPT ![t] = @ \ {e}]
    /\ bus' = bus \ {InboxSub(ProcessOf[t], e.inbox, e.r)}
    /\ Ended(e.r, code)
    /\ answer' = [answer EXCEPT ![e.r] = from]

\* The closure of the timer, run by TimerManager::Update of the worker.
RequestTimeout(t, r) ==
    /\ t \in Workers
    /\ timer[r] = "armed"
    /\ timer' = [timer EXCEPT ![r] = "off"]
    /\ \E e \in pending[t] : e.r = r /\ Finish(t, e, "Timeout", 0)
    /\ UNCHANGED <<connected, wire, subs, inbox_seq, events, tmShut, made, refused>>

----------------------------------------------------------------------------
(* Messages.                                                               *)

\* OnNatsSubMsg and OnNatsInboxMsg, on a thread of nats.c: the closure goes to
\* the worker of the index, if there is one.  An inbox subscription takes one
\* message (AutoUnsubscribe).
ParseInboxWorkerIndex(inbox) == inbox.w

Posted(p, i, e) ==
    events' = [t \in Workers |-> IF t \in WorkerAt(p, i) THEN events[t] \cup {e} ELSE events[t]]

OnNatsSubMsg(d) ==
    /\ d \in wire
    /\ d.sub.kind = "subject"
    /\ wire' = wire \ {d}
    /\ Posted(d.sub.p, d.sub.w, d)
    /\ UNCHANGED <<connected, bus, subs, pending, inbox_seq, timer, tmShut, result, answer, made, refused>>

OnNatsInboxMsg(d) ==
    /\ d \in wire
    /\ d.sub.kind = "inbox"
    /\ wire' = {x \in wire : x.sub # d.sub}
    /\ bus' = bus \ {d.sub}
    /\ Posted(d.sub.p, ParseInboxWorkerIndex(d.sub.inbox), d)
    /\ UNCHANGED <<connected, subs, pending, inbox_seq, timer, tmShut, result, answer, made, refused>>

\* Reply(reply_to, ...), in the handler of a message.
Reply(t, d) ==
    IF connected[ProcessOf[t]] THEN wire' = wire \cup ReplyDeliveries(d.reply, d.r)
                               ELSE UNCHANGED wire

\* The handlers that a message can reach: the one of its subject, or the first
\* in the table that matches.
Handlers(t, subject) ==
    IF subject \in subs[t] THEN {subject} ELSE {pat \in subs[t] : MatchSub(pat, subject)}

\* The worker runs the closure of a message to a subscription; the handler may
\* reply to a request.
RunSubMsg(t, d) ==
    /\ d \in events[t]
    /\ d.sub.kind = "subject"
    /\ events' = [events EXCEPT ![t] = @ \ {d}]
    /\ IF Handlers(t, d.subject) = {} \/ d.reply = NoReply
          THEN UNCHANGED wire
          ELSE Reply(t, d) \/ UNCHANGED wire
    /\ UNCHANGED <<connected, bus, subs, pending, inbox_seq, timer, tmShut, result, answer, made, refused>>

\* Mutant: the timer of an answered request stays armed.
RunInboxMsg_KeepsTimer(t, d) ==
    /\ d \in events[t]
    /\ d.sub.kind = "inbox"
    /\ events' = [events EXCEPT ![t] = @ \ {d}]
    /\ IF Entries(t, d.sub.inbox) = {}
          THEN UNCHANGED <<pending, bus, result, answer>>
          ELSE \E e \in Entries(t, d.sub.inbox) : Finish(t, e, "OK", d.r)
    /\ UNCHANGED <<connected, wire, subs, inbox_seq, timer, tmShut, made, refused>>

\* The worker runs the closure of an answer.
RunInboxMsg(t, d) ==
    /\ d \in events[t]
    /\ d.sub.kind = "inbox"
    /\ events' = [events EXCEPT ![t] = @ \ {d}]
    /\ IF Entries(t, d.sub.inbox) = {}
          THEN UNCHANGED <<pending, bus, timer, result, answer>>
          ELSE \E e \in Entries(t, d.sub.inbox) :
                  /\ Finish(t, e, "OK", d.r)
                  /\ timer' = [timer EXCEPT ![e.r] = IF @ = "armed" THEN "off" ELSE @]
    /\ UNCHANGED <<connected, wire, subs, inbox_seq, tmShut, made, refused>>

\* Phase 2 of the shutdown: EnterShutdownMode of the timer managers cancels the
\* timers that have not expired.
TimersShutDown(p) ==
    /\ ~tmShut[p]
    /\ tmShut' = [tmShut EXCEPT ![p] = TRUE]
    /\ timer' = [r \in Requests |->
                   IF timer[r] = "armed" /\ \E t \in Threads : ProcessOf[t] = p /\ \E e \in pending[t] : e.r = r
                   THEN "off" ELSE timer[r]]
    /\ UNCHANGED <<connected, bus, wire, subs, pending, inbox_seq, events, result, answer, made, refused>>

Next ==
    \/ \E p \in Processes : Connect(p) \/ Disconnect(p) \/ TimersShutDown(p)
    \/ \E s \in Subjects :
          \/ \E t \in Subscribers : Publish(t, s)
          \/ \E r \in Callbacks : AsyncRequest(CallerOf[r], r, s)
          \/ \E r \in Requests \ Callbacks : RequestRaw(CallerOf[r], r, s)
    \/ \E t \in Subscribers, pat \in Patterns : Subscribe(t, pat)
    \/ \E t \in Workers : \/ \E r \in Requests : RequestTimeout(t, r)
                          \/ \E d \in events[t] : RunSubMsg(t, d) \/ RunInboxMsg(t, d)
    \/ \E d \in wire : OnNatsSubMsg(d) \/ OnNatsInboxMsg(d)

\* Workers run frames: their timers fire and their closures run.
Fairness == \A t \in Workers :
    /\ \A r \in Requests : WF_vars(RequestTimeout(t, r))
    /\ WF_vars(\E d \in events[t] : RunSubMsg(t, d) \/ RunInboxMsg(t, d))

Spec == Init /\ [][Next]_vars /\ Fairness

----------------------------------------------------------------------------
(* Properties.                                                             *)

\* The table of outstanding requests, the callers that wait, the timers and the
\* subscriptions agree: a caller waits exactly while its entry is in one
\* table; on a worker the entry has an armed timer unless the timers are shut
\* down, and a request that ended leaves neither a timer nor a subscription.
RequestTablesExact ==
    /\ NatsTypeOK
    /\ \A r \in Requests :
         LET entries == {e \in UNION {pending[t] : t \in Threads} : e.r = r} IN
         /\ result[r] = "waiting" <=> entries # {}
         /\ timer[r] = "armed" => result[r] = "waiting"
         /\ \A t \in Workers : (\E e \in pending[t] : e.r = r) /\ ~tmShut[ProcessOf[t]] => timer[r] = "armed"
         /\ \A s \in bus : s.kind = "inbox" /\ s.r = r => result[r] = "waiting"

\* What arrives reaches the one it is for, although subscriptions and inboxes
\* carry only the index of a worker: a request is completed by the answer to it,
\* and a message posted to a worker finds a handler there, although handlers are
\* looked up again by subject on the worker; except when a repeated Subscribe
\* failed, which removes the handler of the first.
DeliveredToOwner ==
    /\ \A r \in Requests : result[r] = "OK" => answer[r] = r
    /\ \A t \in Workers : \A d \in events[t] :
          d.sub.kind = "subject" => Handlers(t, d.subject) # {} \/ <<t, d.sub.pat>> \in refused

\* The result of a request is final: the timeout and late answers find the
\* entry gone.
ResultOnce == [][\A r \in Requests : result[r] \in Errors => result'[r] = result[r]]_vars

\* A request that a worker sent ends, with an answer or by timeout, whatever is
\* lost and even if the connection is closed, unless the timers are shut down.
WorkerRequestEnds ==
    \A r \in Requests : \A t \in Workers :
       (\E e \in pending[t] : e.r = r) ~> (result[r] \in Errors \/ tmShut[ProcessOf[t]])
============================================================================
