----------------------------- MODULE RpcProofs -----------------------------
(***************************************************************************)
(* Safety of Rpc for every number of workers, IO threads, calls, handles   *)
(* and responses.  The inductive invariant says where a call can be found  *)
(* in each state: in the pending map, in a posted timeout, or nowhere.     *)
(***************************************************************************)
EXTENDS Rpc, TLAPS

\* A poster that is inside EnqueueTask with task t for worker w.
Posts(p, w, t) == posting[p].pc # "idle" /\ posting[p].w = w /\ posting[p].t = t

\* Before CallImpl a call has no trace outside itself.
UnissuedInv ==
    \A c \in Calls : ~issued[c] =>
        /\ callbacks[c] = 0
        /\ state[c] \in {"Pending", "Cancelled"}
        /\ c \notin ready
        /\ c \notin sent
        /\ \A h \in Handles : armed[h] # c

\* Worker and sequence number identify an issued call.
IdentityInv ==
    /\ \A c \in Calls : issued[c] =>
          home[c] \in Workers /\ seq[c] \in Seqs /\ seq[c] < next_seq[home[c]]
    /\ \A c, d \in Calls : issued[c] /\ issued[d] /\ home[c] = home[d] /\ seq[c] = seq[d]
                              => c = d

\* An entry of a pending map is the issued call of that worker and number.
PendingInv ==
    \A w \in Workers, s \in Seqs : pending[w][s] # NoCall =>
        /\ issued[pending[w][s]]
        /\ home[pending[w][s]] = w
        /\ seq[pending[w][s]] = s

\* What has happened to an issued call in each state.
PhaseOf(c) ==
    /\ state[c] = "Pending" => callbacks[c] = 0 /\ pending[home[c]][seq[c]] = c
    /\ state[c] \in {"Completed", "Cancelled", "InvalidRequest"} => callbacks[c] = 1
    /\ callbacks[c] \in {0, 1}
    /\ callbacks[c] = 1 => /\ outcome[c] = ErrorCode(state[c])
                           /\ pending[home[c]][seq[c]] # c
                           /\ outcome[c] = "None" => answer[c] = c

PhaseInv == \A c \in Calls : issued[c] => PhaseOf(c)

\* A posted timeout is the only claim on a call in state Timeout.
TimeoutInv ==
    \A c \in Calls, w \in Workers :
        /\ TimeoutOf(c) \in events[w] =>
              issued[c] /\ state[c] = "Timeout" /\ callbacks[c] = 0 /\ home[c] = w
        /\ \A p \in IoThreads : Posts(p, w, TimeoutOf(c)) =>
              /\ issued[c] /\ state[c] = "Timeout" /\ callbacks[c] = 0 /\ home[c] = w
              /\ TimeoutOf(c) \notin events[w]
              /\ \A q \in IoThreads : Posts(q, w, TimeoutOf(c)) => p = q

\* A posted response carries the identity of an issued call.
ResponseInv ==
    \A t \in ResponseTask, w \in Workers :
        (t \in events[w] \/ \E p \in IoThreads : Posts(p, w, t)) =>
            issued[t.of] /\ home[t.of] = w /\ seq[t.of] = t.seq

IInv ==
    /\ RpcTypeOK
    /\ UnissuedInv
    /\ IdentityInv
    /\ PendingInv
    /\ PhaseInv
    /\ TimeoutInv
    /\ ResponseInv
    /\ HandleExclusive

----------------------------------------------------------------------------
\* The two kinds of posted closure are disjoint and determine their call.
LEMMA TaskFacts ==
    /\ \A c \in Calls : TimeoutOf(c) \in Tasks /\ TimeoutOf(c).kind = "timeout"
                        /\ TimeoutOf(c).of = c
    /\ \A c, d \in Calls : TimeoutOf(c) = TimeoutOf(d) => c = d
    /\ \A c \in Calls : TimeoutOf(c) \notin ResponseTask
    /\ \A t \in ResponseTask : t \in Tasks /\ t.kind = "response" /\ t.of \in Calls
                               /\ t.seq \in Seqs
    /\ \A t \in Tasks : t.kind = "timeout" => t.of \in Calls /\ t = TimeoutOf(t.of)
    /\ \A t \in Tasks : t.kind = "response" => t \in ResponseTask
    /\ \A c \in Calls, s \in Seqs, n \in 1 .. MaxReplies :
          /\ ResponseTo(c, s, n) \in ResponseTask
          /\ ResponseTo(c, s, n).of = c /\ ResponseTo(c, s, n).seq = s
          /\ \A d \in Calls : TimeoutOf(d) # ResponseTo(c, s, n)
BY DEF TimeoutOf, ResponseTo, Tasks, ResponseTask, TimeoutTask

\* What a thread inside EnqueueTask can be carrying.
LEMMA PostFacts ==
    ASSUME W!WorkerTypeOK, NEW p \in IoThreads
    PROVE  /\ posting[p].pc = "idle" <=> posting[p] = W!Idle
           /\ posting[p].pc # "idle" =>
                 /\ posting[p].pc \in {"check", "enqueue"}
                 /\ posting[p].w \in Workers
                 /\ posting[p].t \in Tasks
BY DEF W!WorkerTypeOK, W!PostState, W!Idle

\* StopTimer keeps the types of the timer variables.
LEMMA StopTimerType ==
    ASSUME RpcTypeOK, NEW w \in Workers, NEW c \in Calls, StopTimer(w, c)
    PROVE  /\ handle' \in [Calls -> Handles \cup {NoHandle}]
           /\ armed' \in [Handles -> Calls \cup {NoCall}]
           /\ ready' \in SUBSET Calls
           /\ available' \in [Workers -> SUBSET Handles]
BY DEF RpcTypeOK, StopTimer

\* StopTimer moves a handle from a call to one pool: ownership stays exclusive.
LEMMA StopTimerExclusive ==
    ASSUME RpcTypeOK, HandleExclusive, NEW w \in Workers, NEW c \in Calls, StopTimer(w, c)
    PROVE  HandleExclusive'
BY RpcAssumption DEF RpcTypeOK, HandleExclusive, StopTimer

\* The callback keeps the types of the user's variables.
LEMMA CallbackType ==
    ASSUME RpcTypeOK, NEW c \in Calls, NEW code \in RpcErrorCode,
           NEW d \in Calls \cup {NoCall}, Callback(c, code, d)
    PROVE  /\ callbacks' \in [Calls -> Nat]
           /\ outcome' \in [Calls -> RpcErrorCode]
           /\ answer' \in [Calls -> Calls \cup {NoCall}]
           /\ withdrawn' \in [Calls -> BOOLEAN]
BY DEF RpcTypeOK, Callback

\* One entry of one pending map changes, and nothing else in it.
LEMMA PendingUpdate ==
    ASSUME RpcTypeOK, NEW w \in Workers, NEW s \in Seqs, NEW x \in Calls \cup {NoCall},
           pending' = [pending EXCEPT ![w][s] = x]
    PROVE  /\ pending' \in [Workers -> [Seqs -> Calls \cup {NoCall}]]
           /\ \A v \in Workers, r \in Seqs :
                 pending'[v][r] = IF v = w /\ r = s THEN x ELSE pending[v][r]
BY DEF RpcTypeOK

\* The invariant holds when the workers have started.
LEMMA InitEstablishes == Init => IInv
<1> SUFFICES ASSUME Init PROVE IInv
    OBVIOUS
<1> USE RpcAssumption
<1>1. W!WorkerTypeOK
    BY DEF Init, W!WorkerTypeOK, W!PostState
<1>2. RpcTypeOK
    <2>1. 0 \in 0 .. MaxSeq /\ 1 \in 1 .. MaxSeq + 1 /\ 0 \in 0 .. MaxReplies
        OBVIOUS
    <2> QED
        BY <1>1, <2>1 DEF Init, RpcTypeOK, RpcState, RpcErrorCode
<1>3. UnissuedInv /\ IdentityInv /\ PendingInv /\ PhaseInv
    BY DEF Init, UnissuedInv, IdentityInv, PendingInv, PhaseInv
<1>4. TimeoutInv /\ ResponseInv
    BY DEF Init, TimeoutInv, ResponseInv, Posts, W!Idle
<1>5. HandleExclusive
    BY DEF Init, HandleExclusive
<1> QED
    BY <1>2, <1>3, <1>4, <1>5 DEF IInv

\* Preparing a call keeps the invariant.
LEMMA SetSessionPreserves ==
    ASSUME IInv, NEW w \in Workers, NEW c \in Calls, SetSession(w, c)
    PROVE  IInv'
<1> USE RpcAssumption DEF IInv, SetSession, Acquire, Created, Configures
<1> USE DEF workVars, callVars, timerVars, ownerVars, userVars
<1>t. UNCHANGED <<events, posting>>
    OBVIOUS
<1>0. W!WorkerTypeOK'
    BY DEF RpcTypeOK, W!WorkerTypeOK
<1>1. RpcTypeOK'
    BY <1>0 DEF RpcTypeOK, RpcState, RpcErrorCode, Seqs
<1>2. UnissuedInv'
    BY <1>t DEF UnissuedInv, IdentityInv, PendingInv, PhaseInv, PhaseOf, RpcTypeOK, Seqs
<1>3. IdentityInv'
    BY <1>t DEF UnissuedInv, IdentityInv, PendingInv, PhaseInv, PhaseOf, RpcTypeOK, Seqs
<1>4. PendingInv'
    BY <1>t DEF UnissuedInv, IdentityInv, PendingInv, PhaseInv, PhaseOf, RpcTypeOK, Seqs
<1>5. PhaseInv'
    BY <1>t DEF UnissuedInv, IdentityInv, PendingInv, PhaseInv, PhaseOf, RpcTypeOK, Seqs, ErrorCode
<1>6. TimeoutInv'
    BY <1>t, TaskFacts, PostFacts DEF TimeoutInv, Posts, UnissuedInv, PhaseInv, PhaseOf, RpcTypeOK
<1>7. ResponseInv'
    BY <1>t, TaskFacts, PostFacts DEF ResponseInv, Posts, RpcTypeOK
<1>8. HandleExclusive'
    BY <1>t DEF HandleExclusive, UnissuedInv, IdentityInv, PendingInv, PhaseInv, PhaseOf, RpcTypeOK, Seqs
<1> QED
    BY <1>1, <1>2, <1>3, <1>4, <1>5, <1>6, <1>7, <1>8

\* Installing the callback keeps the invariant.
LEMMA SetCallBackPreserves ==
    ASSUME IInv, NEW w \in Workers, NEW c \in Calls, SetCallBack(w, c)
    PROVE  IInv'
<1> USE DEF IInv, SetCallBack, Configures
<1> USE DEF workVars, callVars, timerVars, ownerVars, userVars
<1>0. W!WorkerTypeOK'
    BY DEF RpcTypeOK, W!WorkerTypeOK
<1>1. RpcTypeOK'
    BY <1>0 DEF RpcTypeOK
<1>2. \A d \in Calls : d # c => home'[d] = home[d]
    BY DEF RpcTypeOK
<1>3. UnissuedInv' /\ IdentityInv' /\ PendingInv'
    BY <1>2 DEF UnissuedInv, IdentityInv, PendingInv, RpcTypeOK
<1>4. PhaseInv'
    BY <1>2 DEF PhaseInv, PhaseOf
<1>5. TimeoutInv' /\ ResponseInv'
    BY <1>2, TaskFacts DEF TimeoutInv, ResponseInv, Posts
<1>6. HandleExclusive'
    BY DEF HandleExclusive
<1> QED
    BY <1>1, <1>3, <1>4, <1>5, <1>6

\* Issuing a call, and failing it at once, keeps the invariant.
LEMMA CallImplPreserves ==
    ASSUME IInv, NEW w \in Workers, NEW c \in Calls, CallImpl(w, c)
    PROVE  IInv'
<1> USE RpcAssumption DEF IInv, CallImpl, Configures, AllocRpcSeq, TakePendingRpc
<1> USE DEF workVars, callVars, timerVars, ownerVars, userVars
<1>t. UNCHANGED <<events, posting>>
    OBVIOUS
<1>0. W!WorkerTypeOK'
    BY DEF RpcTypeOK, W!WorkerTypeOK
<1>1. RpcTypeOK'
    <2> DEFINE ok == session[c] /\ handle[c] # NoHandle
    <2>0. next_seq[w] \in Seqs /\ next_seq[w] + 1 \in 1 .. MaxSeq + 1 /\ Seqs \subseteq 0 .. MaxSeq
        BY DEF RpcTypeOK, Seqs
    <2>1. pending' = [pending EXCEPT ![w][next_seq[w]] = IF ok THEN c ELSE NoCall]
        OBVIOUS
    <2>2. pending' \in [Workers -> [Seqs -> Calls \cup {NoCall}]]
        BY <2>0, <2>1, PendingUpdate
    <2>3. seq' \in [Calls -> 0 .. MaxSeq] /\ next_seq' \in [Workers -> 1 .. MaxSeq + 1]
        BY <2>0 DEF RpcTypeOK
    <2>4. CASE ok
        <3>1. armed' \in [Handles -> Calls \cup {NoCall}]
            BY <2>4, SMTT(30) DEF RpcTypeOK
        <3>2. /\ state' \in [Calls -> RpcState]
              /\ issued' \in [Calls -> BOOLEAN]
              /\ home' \in [Calls -> Workers \cup {NoWorker}]
              /\ sent' \in SUBSET Calls
            BY <2>4 DEF RpcTypeOK, RpcState
        <3>3. UNCHANGED <<handle, ready, available, userVars, session, bound, replies, io_stopped>>
            BY <2>4
        <3> HIDE DEF CallImpl, AllocRpcSeq, TakePendingRpc
        <3> QED
            BY <1>0, <2>2, <2>3, <3>1, <3>2, <3>3 DEF RpcTypeOK
    <2>5. CASE ~ok
        BY <1>0, <2>2, <2>3, <2>5, StopTimerType, CallbackType
        DEF RpcTypeOK, RpcState, RpcErrorCode
    <2> QED
        BY <2>4, <2>5
<1>2. UnissuedInv'
    BY <1>t DEF UnissuedInv, IdentityInv, PendingInv, PhaseInv, PhaseOf, RpcTypeOK, Seqs, StopTimer, Callback
<1>3. IdentityInv'
    BY <1>t DEF UnissuedInv, IdentityInv, PendingInv, PhaseInv, PhaseOf, RpcTypeOK, Seqs, StopTimer, Callback
<1>4. PendingInv'
    <2> DEFINE ok == session[c] /\ handle[c] # NoHandle
    <2>0. next_seq[w] \in Seqs /\ next_seq[w] + 1 \in 1 .. MaxSeq + 1 /\ Seqs \subseteq 0 .. MaxSeq
        BY DEF RpcTypeOK, Seqs
    <2>1. pending' = [pending EXCEPT ![w][next_seq[w]] = IF ok THEN c ELSE NoCall]
        OBVIOUS
    <2>2. \A v \in Workers, r \in Seqs :
              pending'[v][r] = IF v = w /\ r = next_seq[w]
                               THEN (IF ok THEN c ELSE NoCall) ELSE pending[v][r]
        <3>1. CASE ok
            <4>1. pending' = [pending EXCEPT ![w][next_seq[w]] = c]
                BY <3>1, <2>1
            <4>2. \A v \in Workers, r \in Seqs :
                      pending'[v][r] = IF v = w /\ r = next_seq[w] THEN c ELSE pending[v][r]
                BY <2>0, <4>1, PendingUpdate DEF RpcTypeOK
            <4> QED
                BY <3>1, <4>2
        <3>2. CASE ~ok
            <4>1. pending' = [pending EXCEPT ![w][next_seq[w]] = NoCall]
                BY <3>2, <2>1
            <4>2. \A v \in Workers, r \in Seqs :
                      pending'[v][r] = IF v = w /\ r = next_seq[w] THEN NoCall ELSE pending[v][r]
                BY <2>0, <4>1, PendingUpdate DEF RpcTypeOK
            <4> QED
                BY <3>2, <4>2
        <3> QED
            BY <3>1, <3>2
    <2>3. \A v \in Workers, r \in Seqs : pending[v][r] # c
        BY DEF PendingInv
    <2> QED
        BY <2>0, <2>2, <2>3 DEF PendingInv, RpcTypeOK
<1>5. PhaseInv'
    BY <1>t, SMTT(30) DEF UnissuedInv, IdentityInv, PendingInv, PhaseInv, PhaseOf, RpcTypeOK, Seqs, StopTimer, Callback, ErrorCode
<1>6. TimeoutInv'
    BY <1>t, TaskFacts, PostFacts DEF TimeoutInv, Posts, UnissuedInv, PhaseInv, PhaseOf, RpcTypeOK, Callback
<1>7. ResponseInv'
    BY <1>t, TaskFacts, PostFacts DEF ResponseInv, Posts, RpcTypeOK
<1>8. HandleExclusive'
    <2>1. CASE session[c] /\ handle[c] # NoHandle
        <3>1. /\ handle[c] \in Handles
              /\ armed' = [armed EXCEPT ![handle[c]] = c]
              /\ handle' = handle /\ available' = available
            BY <2>1 DEF RpcTypeOK
        <3>2. \A h \in Handles : armed'[h] # NoCall => handle[armed'[h]] = h
            BY <3>1 DEF HandleExclusive, RpcTypeOK
        <3> QED
            BY <3>1, <3>2 DEF HandleExclusive
    <2>2. CASE ~(session[c] /\ handle[c] # NoHandle)
        BY <2>2, StopTimerExclusive
    <2> QED
        BY <2>1, <2>2
<1> QED
    BY <1>1, <1>2, <1>3, <1>4, <1>5, <1>6, <1>7, <1>8

\* Cancel keeps the invariant, before CallImpl and after it.
LEMMA CancelPreserves ==
    ASSUME IInv, NEW w \in Workers, NEW c \in Calls, Cancel(w, c)
    PROVE  IInv'
<1> USE RpcAssumption DEF IInv, Cancel, TakePendingRpc
<1> USE DEF workVars, callVars, timerVars, ownerVars, userVars
<1>t. UNCHANGED <<events, posting>>
    OBVIOUS
<1>0. W!WorkerTypeOK'
    BY DEF RpcTypeOK, W!WorkerTypeOK
<1>1. RpcTypeOK'
    <2>1. CASE issued[c]
        <3>1. pending' \in [Workers -> [Seqs -> Calls \cup {NoCall}]]
            BY <2>1, PendingUpdate DEF IdentityInv
        <3>2. /\ callbacks' \in [Calls -> Nat]
              /\ outcome' \in [Calls -> RpcErrorCode]
              /\ answer' \in [Calls -> Calls \cup {NoCall}]
              /\ withdrawn' \in [Calls -> BOOLEAN]
            BY <2>1, CallbackType DEF RpcErrorCode
        <3> QED
            BY <1>0, <3>1, <3>2, StopTimerType DEF RpcTypeOK, RpcState
    <2>2. CASE ~issued[c]
        BY <1>0, <2>2, StopTimerType DEF RpcTypeOK, RpcState
    <2> QED
        BY <2>1, <2>2
<1>2. UnissuedInv'
    BY <1>t DEF UnissuedInv, IdentityInv, PendingInv, PhaseInv, PhaseOf, RpcTypeOK, Seqs, StopTimer, Callback
<1>3. IdentityInv'
    BY <1>t DEF UnissuedInv, IdentityInv, PendingInv, PhaseInv, PhaseOf, RpcTypeOK, Seqs, StopTimer, Callback
<1>4. PendingInv'
    <2>1. CASE issued[c]
        BY <2>1, PendingUpdate DEF PendingInv, IdentityInv
    <2>2. CASE ~issued[c]
        BY <2>2 DEF PendingInv
    <2> QED
        BY <2>1, <2>2
<1>5. PhaseInv'
    <2> SUFFICES ASSUME NEW d \in Calls, issued[d]
                 PROVE  PhaseOf(d)'
        BY DEF PhaseInv
    <2>1. CASE issued[c] /\ d # c
        <3>1. /\ home[d] \in Workers /\ seq[d] \in Seqs /\ home[c] \in Workers /\ seq[c] \in Seqs
              /\ ~(home[d] = home[c] /\ seq[d] = seq[c])
            BY <2>1 DEF IdentityInv
        <3>2. pending'[home[d]][seq[d]] = pending[home[d]][seq[d]]
            BY <2>1, <3>1, PendingUpdate
        <3> QED
            BY <2>1, <3>2 DEF PhaseInv, PhaseOf, RpcTypeOK, Callback
    <2>2. CASE issued[c] /\ d = c
        BY <2>2, PendingUpdate DEF PhaseInv, PhaseOf, IdentityInv, RpcTypeOK, ErrorCode, Callback
    <2>3. CASE ~issued[c]
        BY <2>3 DEF PhaseInv, PhaseOf, RpcTypeOK
    <2> QED
        BY <2>1, <2>2, <2>3
<1>6. TimeoutInv'
    BY <1>t, TaskFacts, PostFacts DEF TimeoutInv, Posts, UnissuedInv, PhaseInv, PhaseOf, RpcTypeOK, Callback
<1>7. ResponseInv'
    BY <1>t, TaskFacts, PostFacts DEF ResponseInv, Posts, RpcTypeOK
<1>8. HandleExclusive'
    BY <1>t DEF HandleExclusive, UnissuedInv, IdentityInv, PendingInv, PhaseInv, PhaseOf, RpcTypeOK, Seqs, StopTimer, Callback
<1> QED
    BY <1>1, <1>2, <1>3, <1>4, <1>5, <1>6, <1>7, <1>8

\* The expiry of a wait keeps the invariant.
LEMMA TimerExpirePreserves ==
    ASSUME IInv, NEW h \in Handles, TimerExpire(h)
    PROVE  IInv'
<1> USE RpcAssumption DEF IInv, TimerExpire
<1> USE DEF workVars, callVars, timerVars, ownerVars, userVars
<1>t. UNCHANGED <<events, posting>>
    OBVIOUS
<1>0. W!WorkerTypeOK'
    BY DEF RpcTypeOK, W!WorkerTypeOK
<1>1. RpcTypeOK'
    BY <1>0 DEF RpcTypeOK, RpcState, RpcErrorCode, Seqs
<1>2. UnissuedInv'
    BY <1>t DEF UnissuedInv, IdentityInv, PendingInv, PhaseInv, PhaseOf, RpcTypeOK, Seqs
<1>3. IdentityInv'
    BY <1>t DEF UnissuedInv, IdentityInv, PendingInv, PhaseInv, PhaseOf, RpcTypeOK, Seqs
<1>4. PendingInv'
    BY <1>t DEF UnissuedInv, IdentityInv, PendingInv, PhaseInv, PhaseOf, RpcTypeOK, Seqs
<1>5. PhaseInv'
    BY <1>t DEF UnissuedInv, IdentityInv, PendingInv, PhaseInv, PhaseOf, RpcTypeOK, Seqs, ErrorCode
<1>6. TimeoutInv'
    BY <1>t, TaskFacts, PostFacts DEF TimeoutInv, Posts, UnissuedInv, PhaseInv, PhaseOf, RpcTypeOK
<1>7. ResponseInv'
    BY <1>t, TaskFacts, PostFacts DEF ResponseInv, Posts, RpcTypeOK
<1>8. HandleExclusive'
    BY <1>t DEF HandleExclusive, UnissuedInv, IdentityInv, PendingInv, PhaseInv, PhaseOf, RpcTypeOK, Seqs
<1> QED
    BY <1>1, <1>2, <1>3, <1>4, <1>5, <1>6, <1>7, <1>8

\* The timer handler claims the call and becomes its only timeout poster.
LEMMA TimerHandlerPreserves ==
    ASSUME IInv, NEW p \in IoThreads, NEW c \in Calls, TimerHandler(p, c)
    PROVE  IInv'
<1> USE RpcAssumption DEF IInv, TimerHandler, W!BeginPost
<1> USE DEF workVars, callVars, timerVars, ownerVars, userVars
<1>t. issued[c] /\ home[c] \in Workers /\ TimeoutOf(c) \in Tasks
    BY TaskFacts DEF UnissuedInv, IdentityInv
<1>0. W!WorkerTypeOK'
    BY <1>t DEF RpcTypeOK, W!WorkerTypeOK, W!PostState
<1>1. RpcTypeOK'
    BY <1>0 DEF RpcTypeOK, RpcState, RpcErrorCode, Seqs
<1>2. UnissuedInv'
    BY <1>t DEF UnissuedInv, IdentityInv, PendingInv, PhaseInv, PhaseOf, RpcTypeOK, Seqs
<1>3. IdentityInv'
    BY <1>t DEF UnissuedInv, IdentityInv, PendingInv, PhaseInv, PhaseOf, RpcTypeOK, Seqs
<1>4. PendingInv'
    BY <1>t DEF UnissuedInv, IdentityInv, PendingInv, PhaseInv, PhaseOf, RpcTypeOK, Seqs
<1>5. PhaseInv'
    BY <1>t DEF UnissuedInv, IdentityInv, PendingInv, PhaseInv, PhaseOf, RpcTypeOK, Seqs, ErrorCode
<1>6. TimeoutInv'
    <2>1. CASE state[c] # "Pending"
        BY <2>1, <1>t DEF TimeoutInv, Posts
    <2>2. CASE state[c] = "Pending"
        <3>1. \A d \in Calls, q \in IoThreads, w \in Workers :
                  Posts(q, w, TimeoutOf(d))' =>
                     \/ q = p /\ d = c /\ w = home[c]
                     \/ q # p /\ d # c /\ Posts(q, w, TimeoutOf(d))
            BY <2>2, <1>t, TaskFacts, PostFacts DEF Posts, TimeoutInv, RpcTypeOK, W!WorkerTypeOK
        <3>2. \A w \in Workers : TimeoutOf(c) \notin events[w]
            BY <2>2 DEF TimeoutInv
        <3>3. callbacks[c] = 0
            BY <2>2, <1>t DEF PhaseInv, PhaseOf
        <3> QED
            BY <2>2, <3>1, <3>2, <3>3, <1>t DEF TimeoutInv, RpcTypeOK
    <2> QED
        BY <2>1, <2>2
<1>7. ResponseInv'
    <2>1. CASE state[c] # "Pending"
        BY <2>1 DEF ResponseInv, Posts
    <2>2. CASE state[c] = "Pending"
        <3>1. \A t \in ResponseTask, w \in Workers, q \in IoThreads :
                  Posts(q, w, t)' => Posts(q, w, t)
            <4> SUFFICES ASSUME NEW t \in ResponseTask, NEW w \in Workers, NEW q \in IoThreads,
                                Posts(q, w, t)'
                         PROVE  Posts(q, w, t)
                OBVIOUS
            <4>1. posting' = [posting EXCEPT ![p] =
                                 [pc |-> "check", w |-> home[c], t |-> TimeoutOf(c)]]
                BY <2>2
            <4>2. CASE q = p
                <5>1. posting'[p].t = TimeoutOf(c)
                    BY <4>1 DEF RpcTypeOK, W!WorkerTypeOK
                <5> QED
                    BY <4>2, <5>1, TaskFacts DEF Posts
            <4>3. CASE q # p
                BY <4>1, <4>3 DEF Posts, RpcTypeOK, W!WorkerTypeOK
            <4> QED
                BY <4>2, <4>3
        <3> QED
            BY <2>2, <3>1 DEF ResponseInv
    <2> QED
        BY <2>1, <2>2
<1>8. HandleExclusive'
    BY <1>t DEF HandleExclusive, UnissuedInv, IdentityInv, PendingInv, PhaseInv, PhaseOf, RpcTypeOK, Seqs
<1> QED
    BY <1>1, <1>2, <1>3, <1>4, <1>5, <1>6, <1>7, <1>8

\* Posting a response keeps the invariant: it names an issued call.
LEMMA DispatchResponsePreserves ==
    ASSUME IInv, NEW p \in IoThreads, NEW c \in Calls, DispatchResponse(p, c)
    PROVE  IInv'
<1> USE RpcAssumption DEF IInv, DispatchResponse, W!BeginPost
<1> USE DEF workVars, callVars, timerVars, ownerVars, userVars
<1>t. /\ issued[c] /\ home[c] \in Workers /\ seq[c] \in Seqs
      /\ ResponseTo(c, seq[c], replies + 1) \in ResponseTask
      /\ ResponseTo(c, seq[c], replies + 1) \in Tasks
    BY TaskFacts DEF UnissuedInv, IdentityInv, RpcTypeOK
<1>0. W!WorkerTypeOK'
    BY <1>t DEF RpcTypeOK, W!WorkerTypeOK, W!PostState
<1>1. RpcTypeOK'
    BY <1>0 DEF RpcTypeOK, RpcState, RpcErrorCode, Seqs
<1>2. UnissuedInv'
    BY <1>t DEF UnissuedInv, IdentityInv, PendingInv, PhaseInv, PhaseOf, RpcTypeOK, Seqs
<1>3. IdentityInv'
    BY <1>t DEF UnissuedInv, IdentityInv, PendingInv, PhaseInv, PhaseOf, RpcTypeOK, Seqs
<1>4. PendingInv'
    BY <1>t DEF UnissuedInv, IdentityInv, PendingInv, PhaseInv, PhaseOf, RpcTypeOK, Seqs
<1>5. PhaseInv'
    BY <1>t DEF UnissuedInv, IdentityInv, PendingInv, PhaseInv, PhaseOf, RpcTypeOK, Seqs, ErrorCode
<1>6. TimeoutInv'
    BY <1>t, TaskFacts, PostFacts DEF TimeoutInv, Posts, UnissuedInv, PhaseInv, PhaseOf, RpcTypeOK
<1>7. ResponseInv'
    BY <1>t, TaskFacts, PostFacts DEF ResponseInv, Posts, RpcTypeOK
<1>8. HandleExclusive'
    BY <1>t DEF HandleExclusive, UnissuedInv, IdentityInv, PendingInv, PhaseInv, PhaseOf, RpcTypeOK, Seqs
<1> QED
    BY <1>1, <1>2, <1>3, <1>4, <1>5, <1>6, <1>7, <1>8

\* Running a response, the first, a duplicate or a late one, keeps the invariant.
LEMMA RunResponsePreserves ==
    ASSUME IInv, NEW w \in Workers, NEW t \in events[w], RunResponse(w, t)
    PROVE  IInv'
<1> USE RpcAssumption DEF IInv, RunResponse, W!Dequeue, W!Take, TakePendingRpc
<1> USE DEF workVars, callVars, timerVars, ownerVars, userVars
<1>t. t \in ResponseTask /\ t.of \in Calls /\ t.seq \in Seqs
    BY TaskFacts DEF RpcTypeOK, W!WorkerTypeOK
<1>0. W!WorkerTypeOK'
    BY DEF RpcTypeOK, W!WorkerTypeOK
<1>1. RpcTypeOK'
    <2>1. pending' \in [Workers -> [Seqs -> Calls \cup {NoCall}]]
        BY <1>t, PendingUpdate DEF RpcTypeOK
    <2> DEFINE c == pending[w][t.seq]
    <2>2. c \in Calls \cup {NoCall}
        BY <1>t DEF RpcTypeOK
    <2>3. CASE c # NoCall /\ state[c] = "Pending"
        BY <1>0, <1>t, <2>1, <2>2, <2>3, StopTimerType, CallbackType
        DEF RpcTypeOK, RpcState, RpcErrorCode
    <2>4. CASE ~(c # NoCall /\ state[c] = "Pending")
        BY <1>0, <2>1, <2>4 DEF RpcTypeOK
    <2> QED
        BY <2>3, <2>4
<1>2. UnissuedInv'
    BY <1>t, SMTT(40) DEF UnissuedInv, IdentityInv, PendingInv, PhaseInv, PhaseOf, RpcTypeOK, Seqs, StopTimer, Callback
<1>3. IdentityInv'
    BY <1>t DEF UnissuedInv, IdentityInv, PendingInv, PhaseInv, PhaseOf, RpcTypeOK, Seqs, StopTimer, Callback
<1>4. PendingInv'
    BY <1>t DEF UnissuedInv, IdentityInv, PendingInv, PhaseInv, PhaseOf, RpcTypeOK, Seqs, StopTimer, Callback
<1>5. PhaseInv'
    <2> DEFINE c == pending[w][t.seq]
    <2> SUFFICES ASSUME NEW d \in Calls, issued[d]
                 PROVE  PhaseOf(d)'
        BY DEF PhaseInv
    <2>1. issued[t.of] /\ home[t.of] = w /\ seq[t.of] = t.seq
        BY <1>t DEF ResponseInv
    <2>2. c # NoCall => c = t.of
        BY <1>t, <2>1 DEF PendingInv, IdentityInv, RpcTypeOK
    <2>3. CASE c # NoCall /\ state[c] = "Pending"
        <3>1. c \in Calls /\ issued[c] /\ callbacks[c] = 0
            BY <1>t, <2>1, <2>2, <2>3 DEF PhaseInv, PhaseOf
        <3>2. CASE d = c
            <4>1. /\ state'[d] = "Completed" /\ callbacks'[d] = 1
                  /\ outcome'[d] = "None" /\ answer'[d] = d
                BY <2>2, <2>3, <3>1, <3>2 DEF RpcTypeOK, Callback
            <4>2. home'[d] = w /\ seq'[d] = t.seq /\ pending'[w][t.seq] # d
                BY <1>t, <2>1, <2>2, <2>3, <3>1, <3>2, PendingUpdate DEF RpcTypeOK
            <4> QED
                BY <4>1, <4>2 DEF PhaseOf, ErrorCode
        <3>3. CASE d # c
            BY <1>t, <2>1, <2>2, <2>3, <3>1, <3>3, PendingUpdate
            DEF PhaseInv, PhaseOf, IdentityInv, RpcTypeOK, Callback
        <3> QED
            BY <3>2, <3>3
    <2>4. CASE ~(c # NoCall /\ state[c] = "Pending")
        BY <1>t, <2>1, <2>2, <2>4, PendingUpdate DEF PhaseInv, PhaseOf, IdentityInv, RpcTypeOK
    <2> QED
        BY <2>3, <2>4
<1>6. TimeoutInv'
    BY <1>t, TaskFacts, PostFacts DEF TimeoutInv, Posts, UnissuedInv, PhaseInv, PhaseOf, RpcTypeOK, Callback
<1>7. ResponseInv'
    BY <1>t, TaskFacts, PostFacts DEF ResponseInv, Posts, RpcTypeOK
<1>8. HandleExclusive'
    <2> DEFINE c == pending[w][t.seq]
    <2>1. CASE c # NoCall /\ state[c] = "Pending"
        BY <1>t, <2>1, StopTimerExclusive DEF RpcTypeOK
    <2>2. CASE ~(c # NoCall /\ state[c] = "Pending")
        BY <2>2 DEF HandleExclusive
    <2> QED
        BY <2>1, <2>2
<1> QED
    BY <1>1, <1>2, <1>3, <1>4, <1>5, <1>6, <1>7, <1>8

\* Running a posted timeout keeps the invariant: it is consumed exactly once.
LEMMA RunTimeoutPreserves ==
    ASSUME IInv, NEW w \in Workers, NEW t \in events[w], RunTimeout(w, t)
    PROVE  IInv'
<1> USE RpcAssumption DEF IInv, RunTimeout, W!Dequeue, W!Take, TakePendingRpc
<1> USE DEF workVars, callVars, timerVars, ownerVars, userVars
<1>t. /\ t.of \in Calls /\ t = TimeoutOf(t.of)
      /\ issued[t.of] /\ state[t.of] = "Timeout" /\ callbacks[t.of] = 0 /\ home[t.of] = w
      /\ seq[t.of] \in Seqs
    BY TaskFacts DEF RpcTypeOK, W!WorkerTypeOK, TimeoutInv, IdentityInv
<1>0. W!WorkerTypeOK'
    BY DEF RpcTypeOK, W!WorkerTypeOK
<1>1. RpcTypeOK'
    BY <1>0, <1>t, StopTimerType, CallbackType, PendingUpdate DEF RpcTypeOK, RpcErrorCode
<1>2. UnissuedInv'
    BY <1>t DEF UnissuedInv, IdentityInv, PendingInv, PhaseInv, PhaseOf, RpcTypeOK, Seqs, StopTimer, Callback
<1>3. IdentityInv'
    BY <1>t DEF UnissuedInv, IdentityInv, PendingInv, PhaseInv, PhaseOf, RpcTypeOK, Seqs, StopTimer, Callback
<1>4. PendingInv'
    BY <1>t DEF UnissuedInv, IdentityInv, PendingInv, PhaseInv, PhaseOf, RpcTypeOK, Seqs, StopTimer, Callback
<1>5. PhaseInv'
    BY <1>t DEF UnissuedInv, IdentityInv, PendingInv, PhaseInv, PhaseOf, RpcTypeOK, Seqs, StopTimer, Callback, ErrorCode
<1>6. TimeoutInv'
    <2>1. \A d \in Calls, v \in Workers :
              TimeoutOf(d) \in events'[v] => d # t.of /\ TimeoutOf(d) \in events[v]
        BY <1>t, TaskFacts DEF TimeoutInv, RpcTypeOK, W!WorkerTypeOK
    <2>2. \A d \in Calls, v \in Workers, q \in IoThreads :
              Posts(q, v, TimeoutOf(d))' => d # t.of /\ Posts(q, v, TimeoutOf(d))
        BY <1>t DEF TimeoutInv, Posts
    <2> QED
        BY <1>t, <2>1, <2>2 DEF TimeoutInv, RpcTypeOK, Callback
<1>7. ResponseInv'
    BY <1>t, TaskFacts, PostFacts DEF ResponseInv, Posts, RpcTypeOK
<1>8. HandleExclusive'
    BY <1>t DEF HandleExclusive, UnissuedInv, IdentityInv, PendingInv, PhaseInv, PhaseOf, RpcTypeOK, Seqs, StopTimer, Callback
<1> QED
    BY <1>1, <1>2, <1>3, <1>4, <1>5, <1>6, <1>7, <1>8

\* Only flags of workers, the loop and posting change in these steps; the calls
\* themselves do not.  A dropped post removes a claim and never adds one.
LEMMA PostCheckPreserves ==
    ASSUME IInv, NEW p \in IoThreads, W!PostCheck(p), UNCHANGED rpcVars
    PROVE  IInv'
<1> USE DEF IInv, W!PostCheck, rpcVars, callVars, timerVars, ownerVars, userVars
<1>0. posting[p].pc # "idle" /\ posting[p].w \in Workers /\ posting[p].t \in Tasks
    BY PostFacts DEF RpcTypeOK
<1>1. \/ posting' = [posting EXCEPT ![p] = W!Idle]
      \/ posting' = [posting EXCEPT ![p].pc = "enqueue"]
    OBVIOUS
<1>2. W!WorkerTypeOK'
    <2>1. CASE posting' = [posting EXCEPT ![p] = W!Idle]
        BY <2>1 DEF RpcTypeOK, W!WorkerTypeOK, W!PostState
    <2>2. CASE posting' = [posting EXCEPT ![p].pc = "enqueue"]
        <3>1. posting[p] \in [pc : {"check", "enqueue"}, w : Workers, t : Tasks]
            BY <1>0 DEF RpcTypeOK, W!WorkerTypeOK, W!PostState, W!Idle
        <3>2. posting'[p] \in [pc : {"check", "enqueue"}, w : Workers, t : Tasks]
            BY <2>2, <3>1, ZenonT(40) DEF RpcTypeOK, W!WorkerTypeOK
        <3>3. posting' \in [IoThreads -> W!PostState]
            BY <2>2, <3>2 DEF RpcTypeOK, W!WorkerTypeOK, W!PostState
        <3> QED
            BY <3>3 DEF RpcTypeOK, W!WorkerTypeOK
    <2> QED
        BY <1>1, <2>1, <2>2
<1>3. \A q \in IoThreads, w \in Workers, t \in Tasks : Posts(q, w, t)' => Posts(q, w, t)
    <2>1. CASE posting' = [posting EXCEPT ![p] = W!Idle]
        BY <2>1 DEF Posts, RpcTypeOK, W!WorkerTypeOK, W!Idle
    <2>2. CASE posting' = [posting EXCEPT ![p].pc = "enqueue"]
        <3>1. \A q \in IoThreads : posting'[q].w = posting[q].w /\ posting'[q].t = posting[q].t
            BY <1>0, <2>2 DEF RpcTypeOK, W!WorkerTypeOK, W!PostState, W!Idle
        <3>2. \A q \in IoThreads : q # p => posting'[q] = posting[q]
            BY <2>2 DEF RpcTypeOK, W!WorkerTypeOK
        <3> QED
            BY <1>0, <3>1, <3>2 DEF Posts
    <2> QED
        BY <1>1, <2>1, <2>2
<1>4. RpcTypeOK'
    BY <1>2 DEF RpcTypeOK
<1>5. UnissuedInv' /\ IdentityInv' /\ PendingInv'
    BY DEF UnissuedInv, IdentityInv, PendingInv
<1>6. PhaseInv'
    BY DEF PhaseInv, PhaseOf
<1>7. TimeoutInv'
    BY <1>3, TaskFacts DEF TimeoutInv
<1>8. ResponseInv'
    BY <1>3, TaskFacts DEF ResponseInv
<1>9. HandleExclusive'
    BY DEF HandleExclusive
<1> QED
    BY <1>4, <1>5, <1>6, <1>7, <1>8, <1>9

\* The poster's task moves to the queue: still one claim on the call.
LEMMA PostEnqueuePreserves ==
    ASSUME IInv, NEW p \in IoThreads, W!PostEnqueue(p), UNCHANGED rpcVars
    PROVE  IInv'
<1> USE DEF IInv, W!PostEnqueue, rpcVars, callVars, timerVars, ownerVars, userVars
<1> DEFINE v == posting[p].w
<1> DEFINE u == posting[p].t
<1>0. posting[p].pc # "idle" /\ v \in Workers /\ u \in Tasks
    BY PostFacts DEF RpcTypeOK
<1>1. W!WorkerTypeOK'
    BY <1>0 DEF RpcTypeOK, W!WorkerTypeOK, W!PostState
<1>2. \A q \in IoThreads, w \in Workers, t \in Tasks :
          Posts(q, w, t)' => q # p /\ Posts(q, w, t)
    BY DEF Posts, RpcTypeOK, W!WorkerTypeOK, W!Idle
<1>3. \A w \in Workers, t \in Tasks :
          t \in events'[w] => t \in events[w] \/ Posts(p, w, t)
    BY <1>0 DEF Posts, RpcTypeOK, W!WorkerTypeOK
<1>4. RpcTypeOK'
    BY <1>1 DEF RpcTypeOK
<1>5. UnissuedInv' /\ IdentityInv' /\ PendingInv'
    BY DEF UnissuedInv, IdentityInv, PendingInv
<1>6. PhaseInv'
    BY DEF PhaseInv, PhaseOf
<1>7. TimeoutInv'
    BY <1>2, <1>3, TaskFacts DEF TimeoutInv
<1>8. ResponseInv'
    BY <1>2, <1>3, TaskFacts DEF ResponseInv
<1>9. HandleExclusive'
    BY DEF HandleExclusive
<1> QED
    BY <1>4, <1>5, <1>6, <1>7, <1>8, <1>9

\* Flags, the end of a loop and the stop of the IO threads touch no call, and
\* neither do stuttering steps.
LEMMA FrameworkPreserves ==
    ASSUME IInv,
           UNCHANGED <<events, posting, callVars, timerVars, ownerVars, userVars>>,
           W!WorkerTypeOK', io_stopped' \in BOOLEAN
    PROVE  IInv'
<1> USE DEF IInv, callVars, timerVars, ownerVars, userVars
<1>1. RpcTypeOK'
    BY DEF RpcTypeOK
<1>2. UnissuedInv' /\ IdentityInv' /\ PendingInv'
    BY DEF UnissuedInv, IdentityInv, PendingInv
<1>3. PhaseInv'
    BY DEF PhaseInv, PhaseOf
<1>4. TimeoutInv' /\ ResponseInv'
    BY DEF TimeoutInv, ResponseInv, Posts
<1>5. HandleExclusive'
    BY DEF HandleExclusive
<1> QED
    BY <1>1, <1>2, <1>3, <1>4, <1>5

\* Every step of the system, and every stuttering step, keeps the invariant.
LEMMA NextPreserves == IInv /\ [Next]_vars => IInv'
<1> SUFFICES ASSUME IInv, [Next]_vars PROVE IInv'
    OBVIOUS
<1> USE RpcAssumption
<1>1. CASE WorkerStep
    <2>1. ASSUME NEW w \in Workers, W!EnterShutdownMode(w) \/ W!Stop(w) \/ W!ExitLoop(w),
                 UNCHANGED rpcVars
          PROVE  IInv'
        <3>1. W!WorkerTypeOK'
            BY <2>1 DEF IInv, RpcTypeOK, W!WorkerTypeOK, W!EnterShutdownMode, W!Stop, W!ExitLoop
        <3>2. UNCHANGED <<events, posting, callVars, timerVars, ownerVars, userVars>>
            BY <2>1 DEF W!EnterShutdownMode, W!Stop, W!ExitLoop, rpcVars
        <3>3. io_stopped' \in BOOLEAN
            BY <2>1 DEF IInv, RpcTypeOK, rpcVars
        <3> QED
            BY <3>1, <3>2, <3>3, FrameworkPreserves
    <2> QED
        BY <1>1, <2>1, PostCheckPreserves, PostEnqueuePreserves DEF WorkerStep
<1>2. CASE CallerStep
    BY <1>2, SetSessionPreserves, SetCallBackPreserves, CallImplPreserves, CancelPreserves
    DEF CallerStep
<1>3. CASE IoStep
    <2>1. CASE GracefulStop
        <3>1. W!WorkerTypeOK' /\ io_stopped' \in BOOLEAN
            BY <2>1 DEF GracefulStop, IInv, RpcTypeOK, W!WorkerTypeOK, workVars
        <3> QED
            BY <2>1, <3>1, FrameworkPreserves DEF GracefulStop, workVars
    <2> QED
        BY <1>3, <2>1, TimerExpirePreserves, TimerHandlerPreserves, DispatchResponsePreserves
        DEF IoStep
<1>4. CASE TaskStep
    BY <1>4, RunResponsePreserves, RunTimeoutPreserves DEF TaskStep
<1>5. CASE UNCHANGED vars
    <2>1. W!WorkerTypeOK' /\ io_stopped' \in BOOLEAN
        BY <1>5 DEF vars, workVars, rpcVars, IInv, RpcTypeOK, W!WorkerTypeOK
    <2> QED
        BY <1>5, <2>1, FrameworkPreserves DEF vars, workVars, rpcVars
<1> QED
    BY <1>1, <1>2, <1>3, <1>4, <1>5 DEF Next

----------------------------------------------------------------------------
\* The inductive invariant holds in every reachable state of the RPC client.
THEOREM Invariance == Spec => []IInv
BY InitEstablishes, NextPreserves, PTL DEF Spec

\* Type correctness: every field of RpcCall, Worker and RpcTimerPool keeps its
\* range for any number of workers, IO threads, calls and handles.
THEOREM TypeCorrect == Spec => []RpcTypeOK
<1>1. IInv => RpcTypeOK
    BY DEF IInv
<1> QED
    BY <1>1, Invariance, PTL

\* result_callback_ is invoked at most once, whatever number of IO threads,
\* duplicated responses and workers race over state_, and a second time only where
\* the call was issued after a Cancel that had invoked it (rpc_call.cpp).
THEOREM CallbackOnce == Spec => []CallbackAtMostOnce
<1>1. IInv => CallbackAtMostOnce
    BY DEF IInv, CallbackAtMostOnce, CallbackRuns, PhaseInv, PhaseOf, UnissuedInv, RpcTypeOK
<1> QED
    BY <1>1, Invariance, PTL

\* The code handed to the callback is the one ErrorCode() reports from then on:
\* the state that won the race is final (rpc_call.cpp).
THEOREM OutcomeFinal == Spec => []OutcomeMatchesState
<1>1. IInv => OutcomeMatchesState
    BY DEF IInv, OutcomeMatchesState, PhaseInv, PhaseOf, UnissuedInv
<1> QED
    BY <1>1, Invariance, PTL

\* A call completes with the response to its own request: worker index and
\* sequence number never lead Dispatch to another call (network_manager.cpp).
THEOREM ResponseCorrect == Spec => []ResponseReachesItsCall
<1>1. IInv => ResponseReachesItsCall
    BY DEF IInv, ResponseReachesItsCall, PhaseInv, PhaseOf, UnissuedInv
<1> QED
    BY <1>1, Invariance, PTL

\* pending_rpcs_ holds every open call under its number and none whose callback
\* has run (worker.cpp).
THEOREM PendingExact == Spec => []PendingMapExact
<1>1. IInv => PendingMapExact
    <2> SUFFICES ASSUME IInv, NEW c \in Calls
                 PROVE  /\ issued[c] /\ state[c] = "Pending" => pending[home[c]][seq[c]] = c
                        /\ callbacks[c] > 0 =>
                              \A w \in Workers : \A s \in Seqs : pending[w][s] # c
        BY DEF PendingMapExact
    <2> QED
        BY RpcAssumption DEF IInv, PhaseInv, PhaseOf, UnissuedInv, PendingInv
<1> QED
    BY <1>1, Invariance, PTL

\* A timer handle has one owner at any time, so reusing it never aborts the wait
\* of another call (rpc_timer_pool.cpp).
THEOREM HandlesExclusive == Spec => []HandleExclusive
<1>1. IInv => HandleExclusive
    BY DEF IInv
<1> QED
    BY <1>1, Invariance, PTL
============================================================================
