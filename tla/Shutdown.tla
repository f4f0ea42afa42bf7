------------------------------ MODULE Shutdown ------------------------------
(***************************************************************************)
(* The end of the process: ShutdownManager (async/shutdown.cpp), the four  *)
(* phase callbacks and Run of App (app/app.cpp), OnCleanup of ServerApp,   *)
(* CleanupInWorkerThread and the destructor of WorkerManager, composed     *)
(* with Worker and ThreadPool.                                             *)
(*                                                                         *)
(* One thread drives the phases: the main thread, or the thread on which   *)
(* the signal handler happens to run.  Meanwhile IO threads keep posting   *)
(* (App::io_service_pool_ is assigned nowhere, so phase 1 stops nothing),  *)
(* pool threads finish jobs and post their callbacks, and workers run.     *)
(*                                                                         *)
(* What the main loop reads to leave (runding_, IsSignalReceived, the      *)
(* results of OnUpdate and OnTick) is left out: it may leave at any time.  *)
(***************************************************************************)
EXTENDS Naturals, Sequences, FiniteSets

CONSTANTS MainWorker,     \* main_worker_, whose frames the main thread runs
          NormalSeq,      \* workers: the other workers, in the order of creation
          Main,           \* the main thread
          SignalThreads,  \* threads on which a signal may be handled
          IoThreads, PoolThreads,
          Messages,       \* closures that IO threads post
          Jobs,           \* pool jobs; each posts its callback to its worker
          Cleanup,        \* the closure of CleanupInWorkerThread
          NoJob, Nobody,
          Forcing         \* whether ForceShutdown may be called

Normals == {NormalSeq[i] : i \in 1 .. Len(NormalSeq)}
Workers == {MainWorker} \cup Normals
Order   == <<MainWorker>> \o NormalSeq
Drivers == {Main} \cup SignalThreads
Threads == Drivers \cup Normals
Tasks   == Messages \cup Jobs \cup {Cleanup}

\* The drivers are no worker threads, IO threads and pool threads are different
\* threads, and NoJob is no job.
ShutdownConstants ==
    /\ NormalSeq \in Seq(Normals)
    /\ Drivers \cap Normals = {}
    /\ IoThreads \cap PoolThreads = {}
    /\ NoJob \notin Jobs
    /\ IsFiniteSet(Jobs)

ASSUME ShutdownAssumption == ShutdownConstants

Phases == <<"Normal", "StoppingIO", "CompletingTimers", "ProcessingTasks", "Cleaning", "Done">>
ShutdownPhase == {Phases[i] : i \in 1 .. 6}

VARIABLES runing, shutting_down, events, posting, loop              \* see Worker
VARIABLES running, pend, queue, submitting, thread, job, stopping   \* see ThreadPool

VARIABLES app,              \* which OnCleanup the application has
          phase,            \* current_phase_
          requested,        \* shutdown_requested_
          advancing,        \* is_advancing_
          pending_advance,  \* pending_advance_
          pc,               \* where a driver, or the main thread, is
          current,          \* the local of that name in AdvancePhase
          todo,             \* workers the phase callback has still to visit
          ran,              \* phases whose callback has been called
          forced,           \* ForceShutdown has been called
          handler,          \* the signal handlers are installed
          exec,             \* per thread: the worker whose code it is running
          doing,            \* per worker thread: the task it is running
          cleaned,          \* workers whose cleanup promise is set
          owner,            \* the worker that submitted a job
          done,             \* jobs that have run
          posted            \* messages that an IO thread has posted

W == INSTANCE Worker WITH Posters <- IoThreads \cup PoolThreads
P == INSTANCE ThreadPool WITH Submitters <- Normals

workerVars   == <<runing, shutting_down, events, posting, loop>>
poolVars     == <<running, pend, queue, submitting, thread, job, stopping>>
mgrVars      == <<phase, requested, advancing, pending_advance, forced>>
drvVars      == <<pc, current, todo, ran, handler>>
runVars      == <<exec, doing, cleaned, owner, done, posted>>
shutdownVars == <<workerVars, poolVars, app, mgrVars, drvVars, runVars>>

PC == {"out", "cas", "advance", "load", "store", "notify", "frame", "poolstop", "pooljoin",
       "mode", "poll", "own", "clean", "await", "uninit", "next", "more", "leave",
       "loop", "exit", "pred", "block", "blocked", "returned", "joining", "joined"}

ShutdownTypeOK ==
    /\ W!WorkerTypeOK
    /\ P!PoolTypeOK
    /\ app \in {"ServerApp", "App"}
    /\ phase \in ShutdownPhase
    /\ requested \in BOOLEAN /\ advancing \in BOOLEAN /\ pending_advance \in BOOLEAN
    /\ forced \in BOOLEAN /\ handler \in BOOLEAN
    /\ pc \in [Drivers -> PC]
    /\ current \in [Drivers -> ShutdownPhase]
    /\ todo \in Seq(Workers)
    /\ ran \in Seq(ShutdownPhase)
    /\ exec \in [Threads -> Workers \cup {Nobody}]
    /\ doing \in [Normals -> Tasks \cup {Nobody}]
    /\ cleaned \in SUBSET Normals
    /\ owner \in [Jobs -> Normals \cup {Nobody}]
    /\ done \in SUBSET Jobs
    /\ posted \in SUBSET Messages

\* App::Init has returned; the worker threads may not have reached OnStart yet.
ShutdownInit ==
    /\ runing = [w \in Workers |-> w = MainWorker]
    /\ shutting_down = [w \in Workers |-> FALSE]
    /\ events = [w \in Workers |-> {}]
    /\ posting = [p \in IoThreads \cup PoolThreads |-> W!Idle]
    /\ loop = [w \in Workers |-> IF w = MainWorker THEN "run" ELSE "init"]
    /\ P!PoolInit
    /\ app \in {"ServerApp", "App"}
    /\ phase = "Normal"
    /\ requested = FALSE /\ advancing = FALSE /\ pending_advance = FALSE
    /\ forced = FALSE /\ handler = TRUE
    /\ pc = [t \in Drivers |-> IF t = Main THEN "loop" ELSE "out"]
    /\ current = [t \in Drivers |-> "Normal"]
    /\ todo = <<>>
    /\ ran = <<>>
    /\ exec = [t \in Threads |-> Nobody]
    /\ doing = [w \in Normals |-> Nobody]
    /\ cleaned = {}
    /\ owner = [j \in Jobs |-> Nobody]
    /\ done = {}
    /\ posted = {}

----------------------------------------------------------------------------
(* ShutdownManager.                                                        *)

Goto(t, l) == pc' = [pc EXCEPT ![t] = l]

\* Where a driver goes on when Shutdown has returned: the main thread calls
\* WaitForShutdown, the signal handler is finished.
Return(t) == IF t = Main THEN "pred" ELSE "out"

\* HandleSignal calls the callback of App::Init on the thread it interrupted.
Signal(s) ==
    /\ handler
    /\ pc[s] = "out"
    /\ Goto(s, "cas")
    /\ UNCHANGED <<workerVars, poolVars, app, mgrVars, current, todo, ran, handler, runVars>>

\* Shutdown: the compare-exchange on shutdown_requested_.
ShutdownCas(t) ==
    /\ pc[t] = "cas"
    /\ requested' = TRUE
    /\ Goto(t, IF requested THEN Return(t) ELSE "advance")
    /\ UNCHANGED <<workerVars, poolVars, app, phase, advancing, pending_advance, forced>>
    /\ UNCHANGED <<current, todo, ran, handler, runVars>>

\* AdvancePhase up to the guard, called by Shutdown or, from a callback, by
\* NextPhase: a call that finds another one under way only leaves a request.
EnterAdvance(t) ==
    /\ pc[t] \in {"advance", "next"}
    /\ advancing' = TRUE
    /\ pending_advance' = (pending_advance \/ advancing)
    /\ Goto(t, CASE ~advancing       -> "load"
                 [] pc[t] = "next"   -> "more"
                 [] OTHER            -> Return(t))
    /\ UNCHANGED <<workerVars, poolVars, app, phase, requested, forced>>
    /\ UNCHANGED <<current, todo, ran, handler, runVars>>

\* A loop that reads current_phase_ only once, before its first turn.
LoadPhaseHoisted(t) ==
    /\ pc[t] = "load"
    /\ Goto(t, "store")
    /\ UNCHANGED <<workerVars, poolVars, app, mgrVars, current, todo, ran, handler, runVars>>

\* current = current_phase_.load() at the head of the loop.
LoadPhase(t) ==
    /\ pc[t] = "load"
    /\ current' = [current EXCEPT ![t] = phase]
    /\ Goto(t, IF phase = "Done" THEN "leave" ELSE "store")
    /\ UNCHANGED <<workerVars, poolVars, app, mgrVars, todo, ran, handler, runVars>>

Succ(p) == Phases[1 + CHOOSE i \in 1 .. 5 : Phases[i] = p]

StorePhase(t) ==
    /\ pc[t] = "store"
    /\ phase' = Succ(current[t])
    /\ Goto(t, "notify")
    /\ UNCHANGED <<workerVars, poolVars, app, requested, advancing, pending_advance, forced>>
    /\ UNCHANGED <<current, todo, ran, handler, runVars>>

\* The callback of the phase entered from p starts at this label, and visits
\* these workers.  Without an io_service_pool_ phase 1 goes straight to NextPhase.
CallbackOf(p) ==
    CASE p = "Normal"           -> "next"
      [] p = "StoppingIO"       -> "frame"
      [] p = "CompletingTimers" -> "poolstop"
      [] p = "ProcessingTasks"  -> "own"
      [] OTHER                  -> "more"

Visits(p) ==
    CASE p = "StoppingIO"      -> Order
      [] p = "ProcessingTasks" -> IF app = "ServerApp" THEN NormalSeq ELSE <<>>
      [] OTHER                 -> <<>>

\* phase_cv_.notify_all(), without phase_mutex_: wakes the main thread if it is
\* blocked by then.  Then the callback of the phase is called.
Notify(t) ==
    /\ pc[t] = "notify"
    /\ pc' = [u \in Drivers |->
                 CASE u = t                            -> CallbackOf(current[t])
                   [] u # t /\ pc[u] = "blocked"       -> "pred"
                   [] OTHER                            -> pc[u]]
    /\ todo' = Visits(current[t])
    /\ ran' = IF current[t] = "Cleaning" THEN ran ELSE Append(ran, Succ(current[t]))
    /\ UNCHANGED <<workerVars, poolVars, app, mgrVars, current, handler, runVars>>

\* A loop that ends without looking at pending_advance_.
CheckPendingNever(t) ==
    /\ pc[t] = "more"
    /\ pending_advance' = FALSE
    /\ Goto(t, "leave")
    /\ UNCHANGED <<workerVars, poolVars, app, phase, requested, advancing, forced>>
    /\ UNCHANGED <<current, todo, ran, handler, runVars>>

\* has_pending = pending_advance_.exchange(false)
CheckPending(t) ==
    /\ pc[t] = "more"
    /\ pending_advance' = FALSE
    /\ Goto(t, IF pending_advance THEN "load" ELSE "leave")
    /\ UNCHANGED <<workerVars, poolVars, app, phase, requested, advancing, forced>>
    /\ UNCHANGED <<current, todo, ran, handler, runVars>>

\* The destructor of ResetGuard.
LeaveAdvance(t) ==
    /\ pc[t] = "leave"
    /\ advancing' = FALSE
    /\ pending_advance' = FALSE
    /\ Goto(t, Return(t))
    /\ UNCHANGED <<workerVars, poolVars, app, phase, requested, forced>>
    /\ UNCHANGED <<current, todo, ran, handler, runVars>>

\* ForceShutdown on any thread.  It stores under phase_mutex_, which the main
\* thread holds from its test of the predicate until it blocks.
ForceShutdown ==
    /\ Forcing /\ ~forced
    /\ pc[Main] # "block"
    /\ phase' = "Done"
    /\ forced' = TRUE
    /\ pc' = [pc EXCEPT ![Main] = IF @ = "blocked" THEN "pred" ELSE @]
    /\ UNCHANGED <<workerVars, poolVars, app, requested, advancing, pending_advance>>
    /\ UNCHANGED <<current, todo, ran, handler, runVars>>

ManagerStep(t) ==
    ShutdownCas(t) \/ EnterAdvance(t) \/ LoadPhase(t) \/ StorePhase(t) \/ Notify(t)
                   \/ CheckPending(t) \/ LeaveAdvance(t)

----------------------------------------------------------------------------
(* OnPhaseCompletingTimers: ProcessFrame of every worker, on this thread.  *)

FrameBegin(t) ==
    /\ pc[t] = "frame" /\ exec[t] = Nobody
    /\ \/ /\ todo # <<>>
          /\ exec' = [exec EXCEPT ![t] = Head(todo)]
          /\ UNCHANGED pc
       \/ /\ todo = <<>>
          /\ Goto(t, "next")
          /\ UNCHANGED exec
    /\ UNCHANGED <<workerVars, poolVars, app, mgrVars, current, todo, ran, handler>>
    /\ UNCHANGED <<doing, cleaned, owner, done, posted>>

FrameTask(t) ==
    /\ pc[t] = "frame" /\ exec[t] # Nobody
    /\ \E x \in events[exec[t]] : W!Take(exec[t], x)
    /\ UNCHANGED <<poolVars, app, mgrVars, drvVars, runVars>>

FrameEnd(t) ==
    /\ pc[t] = "frame" /\ exec[t] # Nobody
    /\ events[exec[t]] = {}
    /\ exec' = [exec EXCEPT ![t] = Nobody]
    /\ todo' = Tail(todo)
    /\ UNCHANGED <<workerVars, poolVars, app, mgrVars, pc, current, ran, handler>>
    /\ UNCHANGED <<doing, cleaned, owner, done, posted>>

(* OnPhaseProcessingTasks: stop the pool, then close the workers' queues.  *)

StopPool(t) ==
    /\ pc[t] = "poolstop"
    /\ P!StopBegin
    /\ Goto(t, "pooljoin")
    /\ UNCHANGED <<workerVars, app, mgrVars, current, todo, ran, handler, runVars>>

\* A Stop that detaches the pool's threads.
JoinPoolSkipped(t) ==
    /\ pc[t] = "pooljoin"
    /\ Goto(t, "mode")
    /\ todo' = Order
    /\ UNCHANGED <<workerVars, poolVars, app, mgrVars, current, ran, handler, runVars>>

JoinPool(t) ==
    /\ pc[t] = "pooljoin"
    /\ P!StopJoined
    /\ Goto(t, "mode")
    /\ todo' = Order
    /\ UNCHANGED <<workerVars, app, mgrVars, current, ran, handler, runVars>>

ShutdownMode(t) ==
    /\ pc[t] = "mode"
    /\ \/ /\ todo # <<>>
          /\ W!EnterShutdownMode(Head(todo))
          /\ todo' = Tail(todo)
          /\ UNCHANGED pc
       \/ /\ todo = <<>>
          /\ Goto(t, "poll")
          /\ UNCHANGED <<workerVars, todo>>
    /\ UNCHANGED <<poolVars, app, mgrVars, current, ran, handler, runVars>>

\* The polling loop ends when the queues are empty, or after 5 seconds.
PollEnds(t) ==
    /\ pc[t] = "poll"
    /\ Goto(t, "next")
    /\ UNCHANGED <<workerVars, poolVars, app, mgrVars, current, todo, ran, handler, runVars>>

(* OnPhaseCleanup.                                                         *)

\* ServerApp::OnCleanup: OnCleanup of every worker, on this thread.  An App
\* without it visits nobody.
OwnBegin(t) ==
    /\ pc[t] = "own" /\ exec[t] = Nobody
    /\ \/ /\ todo # <<>>
          /\ exec' = [exec EXCEPT ![t] = Head(todo)]
          /\ UNCHANGED <<pc, todo>>
       \/ /\ todo = <<>>
          /\ Goto(t, "clean")
          /\ todo' = NormalSeq
          /\ UNCHANGED exec
    /\ UNCHANGED <<workerVars, poolVars, app, mgrVars, current, ran, handler>>
    /\ UNCHANGED <<doing, cleaned, owner, done, posted>>

OwnEnd(t) ==
    /\ pc[t] = "own" /\ exec[t] # Nobody
    /\ W!Stop(exec[t])
    /\ exec' = [exec EXCEPT ![t] = Nobody]
    /\ todo' = Tail(todo)
    /\ UNCHANGED <<poolVars, app, mgrVars, pc, current, ran, handler>>
    /\ UNCHANGED <<doing, cleaned, owner, done, posted>>

\* CleanupInWorkerThread(5000) of the next worker: nothing to do when it is not
\* running, otherwise its queue takes the cleanup task even in shutdown mode.
CleanWorker(t) ==
    /\ pc[t] = "clean"
    /\ \/ /\ todo # <<>> /\ runing[Head(todo)]
          /\ events' = [events EXCEPT ![Head(todo)] = @ \cup {Cleanup}]
          /\ Goto(t, "await")
          /\ UNCHANGED <<runing, shutting_down, posting, loop, todo>>
       \/ /\ todo # <<>> /\ ~runing[Head(todo)]
          /\ todo' = Tail(todo)
          /\ UNCHANGED <<workerVars, pc>>
       \/ /\ todo = <<>>
          /\ Goto(t, "uninit")
          /\ UNCHANGED <<workerVars, todo>>
    /\ UNCHANGED <<poolVars, app, mgrVars, current, ran, handler, runVars>>

\* future.wait_for returns: the promise is set, or 5 seconds have passed and the
\* worker is stopped without its cleanup.
CleanWait(t) ==
    /\ pc[t] = "await"
    /\ \/ /\ Head(todo) \in cleaned
          /\ UNCHANGED workerVars
       \/ /\ Head(todo) \notin cleaned
          /\ W!Stop(Head(todo))
    /\ todo' = Tail(todo)
    /\ Goto(t, "clean")
    /\ UNCHANGED <<poolVars, app, mgrVars, current, ran, handler, runVars>>

\* main_worker->OnCleanup(), OnUnInit() and SignalHandler::Cleanup.
UnInit(t) ==
    /\ pc[t] = "uninit"
    /\ W!Stop(MainWorker)
    /\ handler' = FALSE
    /\ Goto(t, "next")
    /\ UNCHANGED <<poolVars, app, mgrVars, current, todo, ran, runVars>>

PhaseStep(t) ==
    FrameBegin(t) \/ FrameTask(t) \/ FrameEnd(t) \/ StopPool(t) \/ JoinPool(t)
                  \/ ShutdownMode(t) \/ PollEnds(t) \/ OwnBegin(t) \/ OwnEnd(t)
                  \/ CleanWorker(t) \/ CleanWait(t) \/ UnInit(t)

----------------------------------------------------------------------------
(* The main thread.                                                        *)

\* A frame of App::Run takes a task of main_worker_.
MainTask ==
    /\ pc[Main] = "loop"
    /\ \E x \in events[MainWorker] : W!Dequeue(MainWorker, x)
    /\ UNCHANGED <<poolVars, app, mgrVars, drvVars, runVars>>

\* App::Run leaves its loop: no frame of main_worker_ runs there any more.
MainLeaves ==
    /\ pc[Main] = "loop"
    /\ loop' = [loop EXCEPT ![MainWorker] = "exited"]
    /\ Goto(Main, "exit")
    /\ UNCHANGED <<runing, shutting_down, events, posting>>
    /\ UNCHANGED <<poolVars, app, mgrVars, current, todo, ran, handler, runVars>>

MainShutdown ==
    /\ pc[Main] = "exit"
    /\ Goto(Main, IF requested THEN "pred" ELSE "cas")
    /\ UNCHANGED <<workerVars, poolVars, app, mgrVars, current, todo, ran, handler, runVars>>

\* WaitForShutdown tests the predicate with phase_mutex_ held, and then blocks.
WaitPredicate ==
    /\ pc[Main] = "pred"
    /\ Goto(Main, IF phase = "Done" THEN "returned" ELSE "block")
    /\ UNCHANGED <<workerVars, poolVars, app, mgrVars, current, todo, ran, handler, runVars>>

WaitBlock ==
    /\ pc[Main] = "block"
    /\ Goto(Main, "blocked")
    /\ UNCHANGED <<workerVars, poolVars, app, mgrVars, current, todo, ran, handler, runVars>>

\* ~WorkerManager: Stop every worker, then join its thread.
StopWorkers ==
    /\ pc[Main] = "returned"
    /\ runing' = [w \in Workers |-> FALSE]
    /\ Goto(Main, "joining")
    /\ UNCHANGED <<shutting_down, events, posting, loop>>
    /\ UNCHANGED <<poolVars, app, mgrVars, current, todo, ran, handler, runVars>>

JoinWorkers ==
    /\ pc[Main] = "joining"
    /\ \A w \in Normals : loop[w] = "exited"
    /\ Goto(Main, "joined")
    /\ UNCHANGED <<workerVars, poolVars, app, mgrVars, current, todo, ran, handler, runVars>>

MainStep ==
    MainTask \/ MainShutdown \/ WaitPredicate \/ WaitBlock \/ StopWorkers \/ JoinWorkers

----------------------------------------------------------------------------
(* Worker threads, pool threads and IO threads.                            *)

TaskBegin(w) ==
    /\ doing[w] = Nobody
    /\ \E x \in events[w] : W!Dequeue(w, x) /\ doing' = [doing EXCEPT ![w] = x]
    /\ exec' = [exec EXCEPT ![w] = w]
    /\ UNCHANGED <<poolVars, app, mgrVars, drvVars, cleaned, owner, done, posted>>

\* A running task gives a job to the pool.
TaskSubmit(w, j) ==
    /\ doing[w] # Nobody
    /\ owner[j] = Nobody
    /\ P!BeginExecute(w, j)
    /\ owner' = [owner EXCEPT ![j] = w]
    /\ UNCHANGED <<running, pend, queue, thread, job, stopping>>
    /\ UNCHANGED <<workerVars, app, mgrVars, drvVars, exec, doing, cleaned, done, posted>>

\* A Worker::OnCleanup that forgets its Stop().
TaskEndNoStop(w) ==
    /\ doing[w] # Nobody
    /\ submitting[w] = P!Outside
    /\ cleaned' = IF doing[w] = Cleanup THEN cleaned \cup {w} ELSE cleaned
    /\ exec' = [exec EXCEPT ![w] = Nobody]
    /\ doing' = [doing EXCEPT ![w] = Nobody]
    /\ UNCHANGED <<workerVars, poolVars, app, mgrVars, drvVars, owner, done, posted>>

\* The task returns; the cleanup task has called OnCleanup and set its promise.
TaskEnd(w) ==
    /\ doing[w] # Nobody
    /\ submitting[w] = P!Outside
    /\ \/ /\ doing[w] = Cleanup
          /\ W!Stop(w)
          /\ cleaned' = cleaned \cup {w}
       \/ /\ doing[w] # Cleanup
          /\ UNCHANGED <<workerVars, cleaned>>
    /\ exec' = [exec EXCEPT ![w] = Nobody]
    /\ doing' = [doing EXCEPT ![w] = Nobody]
    /\ UNCHANGED <<poolVars, app, mgrVars, drvVars, owner, done, posted>>

WorkerLoop(w) ==
    /\ W!OnStart(w) \/ (doing[w] = Nobody /\ W!ExitLoop(w))
    /\ UNCHANGED <<poolVars, app, mgrVars, drvVars, runVars>>

Executing(w) ==
    /\ P!ExecuteCheck(w) \/ P!ExecuteEnqueue(w)
    /\ UNCHANGED <<workerVars, app, mgrVars, drvVars, runVars>>

PoolLoop(t) ==
    /\ P!LoopHead(t) \/ P!TryDequeue(t) \/ P!Drain(t)
    /\ UNCHANGED <<workerVars, app, mgrVars, drvVars, runVars>>

\* The job runs and posts its callback to the worker that submitted it.
RunJob(t) ==
    /\ job[t] # NoJob /\ job[t] \notin done
    /\ done' = done \cup {job[t]}
    /\ W!BeginPost(t, owner[job[t]], job[t])
    /\ UNCHANGED <<runing, shutting_down, events, loop>>
    /\ UNCHANGED <<poolVars, app, mgrVars, drvVars, exec, doing, cleaned, owner, posted>>

JobDone(t) ==
    /\ job[t] \in done
    /\ posting[t] = W!Idle
    /\ P!FinishJob(t)
    /\ UNCHANGED <<workerVars, app, mgrVars, drvVars, runVars>>

\* An IO thread dispatches a message to a worker.
IoPost(p, w, x) ==
    /\ x \notin posted
    /\ posted' = posted \cup {x}
    /\ W!BeginPost(p, w, x)
    /\ UNCHANGED <<runing, shutting_down, events, loop>>
    /\ UNCHANGED <<poolVars, app, mgrVars, drvVars, exec, doing, cleaned, owner, done>>

Posting(p) ==
    /\ W!PostCheck(p) \/ W!PostEnqueue(p)
    /\ UNCHANGED <<poolVars, app, mgrVars, drvVars, runVars>>

----------------------------------------------------------------------------
WorkerStep(w) == TaskBegin(w) \/ TaskEnd(w) \/ WorkerLoop(w) \/ Executing(w)
PoolStep(t)   == PoolLoop(t) \/ RunJob(t) \/ JobDone(t)

ShutdownNext ==
    \/ \E s \in SignalThreads : Signal(s)
    \/ \E t \in Drivers : ManagerStep(t) \/ PhaseStep(t)
    \/ ForceShutdown
    \/ MainStep \/ MainLeaves
    \/ \E w \in Normals : WorkerStep(w) \/ \E j \in Jobs : TaskSubmit(w, j)
    \/ \E t \in PoolThreads : PoolStep(t)
    \/ \E p \in IoThreads, w \in Workers, x \in Messages : IoPost(p, w, x)
    \/ \E p \in IoThreads \cup PoolThreads : Posting(p)

ShutdownSpec == ShutdownInit /\ [][ShutdownNext]_shutdownVars

\* Every thread that can go on does; signals, messages, jobs, a forced shutdown
\* and the end of the main loop are up to the environment.
ShutdownFairness ==
    /\ \A t \in Drivers : WF_shutdownVars(ManagerStep(t) \/ PhaseStep(t))
    /\ WF_shutdownVars(MainStep)
    /\ \A w \in Normals : WF_shutdownVars(WorkerStep(w))
    /\ \A t \in PoolThreads : WF_shutdownVars(PoolStep(t))
    /\ \A p \in IoThreads \cup PoolThreads : WF_shutdownVars(Posting(p))

FairShutdown == ShutdownSpec /\ ShutdownFairness

----------------------------------------------------------------------------
(* Properties.                                                             *)

\* Whichever of the main thread and the signal handlers ask for it, and however
\* NextPhase is called from inside a callback, the phase callbacks run once each
\* and in the documented order (Shutdown, AdvancePhase).
PhasesOnceInOrder ==
    /\ ShutdownTypeOK
    /\ \A i \in 1 .. Len(ran) : i < Len(Phases) /\ ran[i] = Phases[i + 1]

\* A job that the pool finishes during the shutdown still reaches its worker's
\* queue: no worker is in shutdown mode while a pool thread is posting, because
\* the pool is joined first (OnPhaseProcessingTasks).
PoolPostsBeforeMode ==
    \A t \in PoolThreads : posting[t] # W!Idle => \A w \in Workers : ~shutting_down[w]

\* A shutdown that has been asked for runs to its end, in spite of tasks that do
\* not drain, workers that have not started and cleanups that time out, and a
\* main thread that sleeps in WaitForShutdown when Done is announced returns (one
\* between its test and its sleep misses the announcement).
ShutdownCompletes ==
    /\ requested ~> phase = "Done"
    /\ \A t \in Drivers :
          (phase = "Done" /\ pc[t] = "notify" /\ pc[Main] = "blocked") ~> pc[Main] = "joining"

\* A worker that was running when the shutdown began leaves its loop, unless the
\* shutdown was forced (CleanupInWorkerThread, its timeout, ServerApp::OnCleanup).
WorkersExit ==
    \A w \in Normals :
        (requested /\ phase = "Normal" /\ loop[w] = "run") ~> (loop[w] = "exited" \/ forced)
============================================================================
