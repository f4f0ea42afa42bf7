------------------------------- MODULE Worker -------------------------------
(***************************************************************************)
(* gb::Worker (src/worker/worker.cpp) and the part of WorkerManager that   *)
(* starts and joins worker threads: a thread with a task queue, the two    *)
(* flags that decide whether a task is accepted, and the frame loop that   *)
(* runs tasks until the flag runing_ is cleared and the queue is empty.    *)
(*                                                                         *)
(* moodycamel::ConcurrentQueue keeps the order of one producer's items     *)
(* only, and no property below depends on that order: events is a set of   *)
(* tasks and the loop may take any of them.                                *)
(*                                                                         *)
(* EnqueueTask is not atomic: it reads the flags, and enqueues later.  A   *)
(* thread inside it is recorded in posting.                                *)
(***************************************************************************)
CONSTANTS Workers,   \* worker indices
          Posters,   \* threads that call Worker::Post from outside the worker
          Tasks      \* closures that can be posted

VARIABLES runing,         \* runing_
          shutting_down,  \* shutting_down_
          events,         \* events_: tasks enqueued and not yet dequeued
          posting,        \* per poster: where it is inside EnqueueTask
          loop            \* the worker thread: "init", "run" or "exited"

workerVars == <<runing, shutting_down, events, posting, loop>>

Idle == [pc |-> "idle"]

\* A poster is outside EnqueueTask, about to read the flags, or past them.
PostState == {Idle} \cup [pc : {"check", "enqueue"}, w : Workers, t : Tasks]

WorkerTypeOK ==
    /\ runing \in [Workers -> BOOLEAN]
    /\ shutting_down \in [Workers -> BOOLEAN]
    /\ events \in [Workers -> SUBSET Tasks]
    /\ posting \in [Posters -> PostState]
    /\ loop \in [Workers -> {"init", "run", "exited"}]

\* The thread body of CreateWorker: Init, OnStart, then Run.  OnStart stores
\* TRUE into runing_ whatever it held.
OnStart(w) ==
    /\ loop[w] = "init"
    /\ loop' = [loop EXCEPT ![w] = "run"]
    /\ runing' = [runing EXCEPT ![w] = TRUE]
    /\ UNCHANGED <<shutting_down, events, posting>>

EnterShutdownMode(w) ==
    /\ shutting_down' = [shutting_down EXCEPT ![w] = TRUE]
    /\ UNCHANGED <<runing, events, posting, loop>>

Stop(w) ==
    /\ runing' = [runing EXCEPT ![w] = FALSE]
    /\ UNCHANGED <<shutting_down, events, posting, loop>>

----------------------------------------------------------------------------
(* Posting.  Post discards EnqueueTask's result: the poster never learns   *)
(* that its task was dropped.                                              *)

\* What a caller of worker->Post(t) does to posting; the rest of EnqueueTask
\* is PostCheck and PostEnqueue.
BeginPost(p, w, t) ==
    /\ posting[p] = Idle
    /\ posting' = [posting EXCEPT ![p] = [pc |-> "check", w |-> w, t |-> t]]

Accepts(w) == ~shutting_down[w] /\ runing[w]

\* Reads shutting_down_ and runing_: the task is dropped, or will be enqueued.
PostCheck(p) ==
    /\ posting[p].pc = "check"
    /\ posting' = [posting EXCEPT ![p] =
                      IF Accepts(posting[p].w) THEN [@ EXCEPT !.pc = "enqueue"]
                                               ELSE Idle]
    /\ UNCHANGED <<runing, shutting_down, events, loop>>

PostEnqueue(p) ==
    /\ posting[p].pc = "enqueue"
    /\ events' = [events EXCEPT ![posting[p].w] = @ \cup {posting[p].t}]
    /\ posting' = [posting EXCEPT ![p] = Idle]
    /\ UNCHANGED <<runing, shutting_down, loop>>

----------------------------------------------------------------------------
(* The frame loop.                                                         *)

\* try_dequeue, in OnUpdate on whatever thread calls ProcessFrame.  What the
\* task does is the caller's.
Take(w, t) ==
    /\ t \in events[w]
    /\ events' = [events EXCEPT ![w] = @ \ {t}]
    /\ UNCHANGED <<runing, shutting_down, posting, loop>>

\* The worker thread takes a task, in a frame or in the drain that Run does once
\* runing_ is clear.
Dequeue(w, t) == loop[w] = "run" /\ Take(w, t)

\* Run breaks when runing_ is clear and the queue is empty.
ExitLoop(w) ==
    /\ loop[w] = "run"
    /\ ~runing[w]
    /\ events[w] = {}
    /\ loop' = [loop EXCEPT ![w] = "exited"]
    /\ UNCHANGED <<runing, shutting_down, events, posting>>
============================================================================
