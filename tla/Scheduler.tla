----------------------------- MODULE Scheduler -----------------------------
(***************************************************************************)
(* gb::ThreadPoolScheduler (async/thread_pool_scheduler.h): heavy jobs     *)
(* leave a worker thread for the pool and come back to it by Worker::Post, *)
(* as a callback (Dispatch) or as the resumption of the coroutine that     *)
(* awaits them (Schedule).  Composes ThreadPool and Worker.                *)
(*                                                                         *)
(* The coroutine handshake has two atomics: await_suspend submits the job, *)
(* stores suspend_finished_ and then loads completed_; the pool thread     *)
(* sets completed_ and then loads suspend_finished_.                       *)
(***************************************************************************)
EXTENDS Naturals, FiniteSets

CONSTANTS Workers, Stoppable, PoolThreads,
          Callbacks,   \* jobs given to Dispatch
          Awaits,      \* jobs given to Schedule: one awaiting coroutine each
          NoJob,
          NoWorker     \* the job has not been submitted

ASSUME SchedulerAssumption ==
    /\ Callbacks \cap Awaits = {}
    /\ NoJob \notin Callbacks \cup Awaits
    /\ NoWorker \notin Workers
    /\ Stoppable \subseteq Workers
    /\ IsFiniteSet(Workers) /\ IsFiniteSet(Callbacks \cup Awaits)
    /\ PoolThreads # {}   \* Init of the pool starts at least one thread

Jobs == Callbacks \cup Awaits

VARIABLES runing, shutting_down, events, posting, loop                 \* see Worker
VARIABLES running, pend, queue, submitting, thread, job, stopping      \* see ThreadPool

VARIABLES owner,             \* worker_: the worker that submitted the job
          stage,             \* where the submitting call is, see below
          suspend_finished,  \* suspend_finished_ of each awaiting coroutine
          completed,         \* completed_: the job's result is there
          work,              \* per pool thread: where it is inside its job
          went_on,           \* coroutines that await_suspend did not suspend
          handed_back,       \* coroutines whose resumption NotifyCompleted posts
          returns,           \* times the callback ran or the coroutine went on
          discarded,         \* jobs Execute discarded
          late               \* jobs enqueued after running_ was cleared

W == INSTANCE Worker WITH Posters <- PoolThreads, Tasks <- Jobs
P == INSTANCE ThreadPool WITH Submitters <- Workers

workerVars == <<runing, shutting_down, events, posting, loop>>
poolVars   == <<running, pend, queue, submitting, thread, job, stopping>>
returnVars == <<went_on, handed_back, returns>>
jobVars    == <<owner, stage, suspend_finished, completed, work, returnVars, discarded, late>>
vars       == <<workerVars, poolVars, jobVars>>

\* "none" before the call, "submit" inside Execute; then, for a coroutine,
\* "store" and "load", the two halves of FinishSuspend; "away" once the call
\* has returned to the worker's frame.
Stage == {"none", "submit", "store", "load", "away"}

SchedulerTypeOK ==
    /\ W!WorkerTypeOK
    /\ P!PoolTypeOK
    /\ owner \in [Jobs -> Workers \cup {NoWorker}]
    /\ stage \in [Jobs -> Stage]
    /\ suspend_finished \in [Awaits -> BOOLEAN]
    /\ completed \in [Jobs -> BOOLEAN]
    /\ work \in [PoolThreads -> {"task", "notify", "post"}]
    /\ went_on \in SUBSET Awaits
    /\ handed_back \in SUBSET Awaits
    /\ returns \in [Jobs -> Nat]
    /\ discarded \in SUBSET Jobs
    /\ late \in SUBSET Jobs

\* App::Init has started the pool and the workers are in their frame loops.
Init ==
    /\ runing = [w \in Workers |-> TRUE]
    /\ shutting_down = [w \in Workers |-> FALSE]
    /\ events = [w \in Workers |-> {}]
    /\ posting = [p \in PoolThreads |-> W!Idle]
    /\ loop = [w \in Workers |-> "run"]
    /\ P!PoolInit
    /\ owner = [j \in Jobs |-> NoWorker]
    /\ stage = [j \in Jobs |-> "none"]
    /\ suspend_finished = [j \in Awaits |-> FALSE]
    /\ completed = [j \in Jobs |-> FALSE]
    /\ work = [t \in PoolThreads |-> "task"]
    /\ went_on = {}
    /\ handed_back = {}
    /\ returns = [j \in Jobs |-> 0]
    /\ discarded = {}
    /\ late = {}

----------------------------------------------------------------------------
(* The submitting worker thread.                                           *)

\* The thread is between tasks: not inside Execute or await_suspend.
Free(w) ==
    /\ loop[w] = "run"
    /\ submitting[w] = P!Outside
    /\ \A j \in Jobs : owner[j] = w => stage[j] \notin {"store", "load"}

\* The stage after Execute has returned.
AfterExecute(j) == IF j \in Awaits THEN "store" ELSE "away"

\* Dispatch, or await_suspend up to its call of Execute, on worker thread w.
Submit(w, j) ==
    /\ Free(w)
    /\ stage[j] = "none"
    /\ P!BeginExecute(w, j)
    /\ owner' = [owner EXCEPT ![j] = w]
    /\ stage' = [stage EXCEPT ![j] = "submit"]
    /\ UNCHANGED <<running, pend, queue, thread, job, stopping>>
    /\ UNCHANGED <<workerVars, suspend_finished, completed, work, returnVars, discarded, late>>

SubmitCheck(w) ==
    /\ P!ExecuteCheck(w)
    /\ LET j == submitting[w].j IN
       \/ /\ running
          /\ UNCHANGED <<stage, discarded>>
       \/ /\ ~running
          /\ stage' = [stage EXCEPT ![j] = AfterExecute(j)]
          /\ discarded' = discarded \cup {j}
    /\ UNCHANGED <<workerVars, owner, suspend_finished, completed, work, returnVars, late>>

SubmitEnqueue(w) ==
    /\ P!ExecuteEnqueue(w)
    /\ LET j == submitting[w].j IN
       /\ stage' = [stage EXCEPT ![j] = AfterExecute(j)]
       /\ late' = IF running THEN late ELSE late \cup {j}
    /\ UNCHANGED <<workerVars, owner, suspend_finished, completed, work, returnVars, discarded>>

\* FinishSuspend: suspend_finished_.store(true).
SuspendStore(j) ==
    /\ stage[j] = "store"
    /\ suspend_finished' = [suspend_finished EXCEPT ![j] = TRUE]
    /\ stage' = [stage EXCEPT ![j] = "load"]
    /\ UNCHANGED <<workerVars, poolVars, owner, completed, work, returnVars, discarded, late>>

\* A FinishSuspend that always reports that the coroutine must suspend.
SuspendLoadAlways(j) ==
    /\ stage[j] = "load"
    /\ stage' = [stage EXCEPT ![j] = "away"]
    /\ UNCHANGED <<workerVars, poolVars, owner, suspend_finished, completed, work>>
    /\ UNCHANGED <<returnVars, discarded, late>>

\* A FinishSuspend that never suspends.
SuspendLoadNever(j) ==
    /\ stage[j] = "load"
    /\ stage' = [stage EXCEPT ![j] = "away"]
    /\ went_on' = went_on \cup {j}
    /\ returns' = [returns EXCEPT ![j] = @ + 1]
    /\ UNCHANGED <<workerVars, poolVars, owner, suspend_finished, completed, work>>
    /\ UNCHANGED <<handed_back, discarded, late>>

\* FinishSuspend: load completed_.  If the job is done await_suspend returns
\* false and the coroutine goes on at once.
SuspendLoad(j) ==
    /\ stage[j] = "load"
    /\ stage' = [stage EXCEPT ![j] = "away"]
    /\ \/ /\ completed[j]
          /\ went_on' = went_on \cup {j}
          /\ returns' = [returns EXCEPT ![j] = @ + 1]
       \/ /\ ~completed[j]
          /\ UNCHANGED <<went_on, returns>>
    /\ UNCHANGED <<workerVars, poolVars, owner, suspend_finished, completed, work>>
    /\ UNCHANGED <<handed_back, discarded, late>>

----------------------------------------------------------------------------
(* The pool thread.                                                        *)

PoolLoop(t) ==
    /\ P!LoopHead(t) \/ P!TryDequeue(t) \/ P!Drain(t)
    /\ UNCHANGED <<workerVars, jobVars>>

\* The closure of Dispatch: task(), then worker->Post(callback).
RunDispatched(t) ==
    /\ job[t] \in Callbacks
    /\ work[t] = "task"
    /\ completed' = [completed EXCEPT ![job[t]] = TRUE]
    /\ W!BeginPost(t, owner[job[t]], job[t])
    /\ work' = [work EXCEPT ![t] = "post"]
    /\ UNCHANGED <<runing, shutting_down, events, loop>>
    /\ UNCHANGED <<poolVars, owner, stage, suspend_finished, returnVars, discarded, late>>

\* ExecuteOnPool: task() stores a result or an exception, then the exchange on
\* completed_ in NotifyCompleted.
ExecuteOnPool(t) ==
    /\ job[t] \in Awaits
    /\ work[t] = "task"
    /\ completed' = [completed EXCEPT ![job[t]] = TRUE]
    /\ work' = [work EXCEPT ![t] = "notify"]
    /\ UNCHANGED <<workerVars, poolVars, owner, stage, suspend_finished, returnVars, discarded, late>>

\* The rest of NotifyCompleted: post the resumption if the coroutine suspended.
NotifyCompleted(t) ==
    /\ work[t] = "notify"
    /\ work' = [work EXCEPT ![t] = "post"]
    /\ \/ /\ suspend_finished[job[t]]
          /\ W!BeginPost(t, owner[job[t]], job[t])
          /\ handed_back' = handed_back \cup {job[t]}
       \/ /\ ~suspend_finished[job[t]]
          /\ UNCHANGED <<posting, handed_back>>
    /\ UNCHANGED <<runing, shutting_down, events, loop>>
    /\ UNCHANGED <<poolVars, owner, stage, suspend_finished, completed, went_on, returns>>
    /\ UNCHANGED <<discarded, late>>

PostStep(t) ==
    /\ W!PostCheck(t) \/ W!PostEnqueue(t)
    /\ UNCHANGED <<poolVars, jobVars>>

JobDone(t) ==
    /\ work[t] = "post"
    /\ posting[t] = W!Idle
    /\ P!FinishJob(t)
    /\ work' = [work EXCEPT ![t] = "task"]
    /\ UNCHANGED <<workerVars, owner, stage, suspend_finished, completed, returnVars, discarded, late>>

----------------------------------------------------------------------------
\* The posted closure on the worker thread: cb(result), or handle.resume().
RunTask(w, j) ==
    /\ Free(w)
    /\ W!Dequeue(w, j)
    /\ returns' = [returns EXCEPT ![j] = @ + 1]
    /\ UNCHANGED <<poolVars, owner, stage, suspend_finished, completed, work>>
    /\ UNCHANGED <<went_on, handed_back, discarded, late>>

\* The shutdown of workers and of the pool, in any order.
StopStep ==
    \/ /\ \/ \E w \in Stoppable : W!EnterShutdownMode(w) \/ W!Stop(w)
          \/ \E w \in Workers : Free(w) /\ W!ExitLoop(w)
       /\ UNCHANGED <<poolVars, jobVars>>
    \/ /\ P!StopBegin \/ P!StopJoined
       /\ UNCHANGED <<workerVars, jobVars>>

SubmitStep ==
    \/ \E w \in Workers : SubmitCheck(w) \/ SubmitEnqueue(w)
    \/ \E j \in Awaits : SuspendStore(j) \/ SuspendLoad(j)

PoolStep(t) ==
    PoolLoop(t) \/ RunDispatched(t) \/ ExecuteOnPool(t) \/ NotifyCompleted(t)
                \/ PostStep(t) \/ JobDone(t)

Next ==
    \/ \E w \in Workers, j \in Jobs : Submit(w, j)
    \/ SubmitStep
    \/ \E t \in PoolThreads : PoolStep(t)
    \/ \E w \in Workers : \E j \in events[w] : RunTask(w, j)
    \/ StopStep

Spec == Init /\ [][Next]_vars

\* A call that has begun goes on, pool threads run, frames run.  Nobody has to
\* submit a job or to stop anything.
Fairness ==
    /\ \A w \in Workers : WF_vars(SubmitCheck(w) \/ SubmitEnqueue(w))
    /\ \A j \in Awaits : WF_vars(SuspendStore(j) \/ SuspendLoad(j))
    /\ \A t \in PoolThreads : WF_vars(PoolStep(t))
    /\ \A w \in Workers : WF_vars(\E j \in events[w] : RunTask(w, j))

FairSpec == Spec /\ Fairness

----------------------------------------------------------------------------
(* Properties.                                                             *)

\* While the pool runs, pending_ counts exactly the jobs that are queued or
\* past the check of Execute, however submitters and threads interleave: it
\* never underflows and never keeps an idle thread awake.  When Stop has joined
\* the threads, whatever is still queued was enqueued after Stop cleared
\* running_: every earlier job has been taken and run.
PendingCountExact ==
    /\ SchedulerTypeOK
    /\ running => pend = Cardinality(queue)
                           + Cardinality({w \in Workers : submitting[w].pc = "enqueue"})
    /\ stopping = "joined" => queue \subseteq late /\ \A t \in PoolThreads : job[t] = NoJob

\* A callback or coroutine gets control back only after its job has produced
\* its result, so TakeResult never finds result_ empty; and it gets it once, unless
\* await_suspend saw the result and the pool thread saw the suspension of the same
\* coroutine (the case that ContinuedOnce is about).
ReturnAfterResult ==
    \A j \in Jobs : /\ returns[j] > 0 => completed[j]
                    /\ returns[j] > 1 => j \in went_on \cap handed_back

\* What the comments of ThreadPoolAwaitState and NotifyCompleted say: the pool
\* resumes a coroutine that has suspended, and otherwise await_suspend finds the
\* job done and does not suspend it; one of the two continues it, once
\* (thread_pool_scheduler.h).
ContinuedOnce == \A j \in Awaits : returns[j] <= 1

\* A submitted job comes back to its worker, unless Execute discarded it, it was
\* enqueued behind a stopping pool, or the worker no longer accepts tasks.
JobReturns ==
    \A j \in Jobs :
        stage[j] # "none" ~> \/ returns[j] > 0
                             \/ j \in discarded \cup late
                             \/ \E w \in Workers : owner[j] = w /\ ~W!Accepts(w)
============================================================================
