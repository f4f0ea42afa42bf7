----------------------------- MODULE ThreadPool -----------------------------
(***************************************************************************)
(* gb::ThreadPool (async/thread_pool.h): threads that take jobs from a     *)
(* queue, Execute, which reads running_ and enqueues later, and Stop,      *)
(* which clears running_ and joins the threads after they drained the      *)
(* queue.                                                                  *)
(*                                                                         *)
(* WaitForTask ends after 100 ms at the latest whether or not it was       *)
(* notified, so a thread that finds the queue empty just looks again.      *)
(***************************************************************************)
EXTENDS Naturals, FiniteSets

CONSTANTS PoolThreads,  \* threads_
          Submitters,   \* threads that call Execute
          Jobs,         \* closures given to Execute
          NoJob

VARIABLES running,      \* running_
          pend,         \* pending_
          queue,        \* queue_: jobs enqueued and not yet dequeued
          submitting,   \* per submitter: where it is inside Execute
          thread,       \* per pool thread: where it is inside WorkerLoop
          job,          \* per pool thread: the job it is running
          stopping      \* the caller of Stop: "no", "joining" or "joined"

poolVars == <<running, pend, queue, submitting, thread, job, stopping>>

Outside == [pc |-> "out", j |-> NoJob]

PoolTypeOK ==
    /\ running \in BOOLEAN
    /\ pend \in Nat
    /\ queue \in SUBSET Jobs
    /\ submitting \in [Submitters -> {Outside} \cup [pc : {"check", "enqueue"}, j : Jobs]]
    /\ thread \in [PoolThreads -> {"head", "try", "busy", "drain", "draining", "exited"}]
    /\ job \in [PoolThreads -> Jobs \cup {NoJob}]
    /\ stopping \in {"no", "joining", "joined"}

\* After Init.
PoolInit ==
    /\ running = TRUE
    /\ pend = 0
    /\ queue = {}
    /\ submitting = [s \in Submitters |-> Outside]
    /\ thread = [t \in PoolThreads |-> "head"]
    /\ job = [t \in PoolThreads |-> NoJob]
    /\ stopping = "no"

----------------------------------------------------------------------------
(* Execute.                                                                *)

\* What a caller of Execute(j) does to submitting.
BeginExecute(s, j) ==
    /\ submitting[s] = Outside
    /\ submitting' = [submitting EXCEPT ![s] = [pc |-> "check", j |-> j]]

\* Reads running_: the job is discarded, or counted and enqueued later.
ExecuteCheck(s) ==
    /\ submitting[s].pc = "check"
    /\ \/ /\ running
          /\ pend' = pend + 1
          /\ submitting' = [submitting EXCEPT ![s].pc = "enqueue"]
       \/ /\ ~running
          /\ submitting' = [submitting EXCEPT ![s] = Outside]
          /\ UNCHANGED pend
    /\ UNCHANGED <<running, queue, thread, job, stopping>>

ExecuteEnqueue(s) ==
    /\ submitting[s].pc = "enqueue"
    /\ queue' = queue \cup {submitting[s].j}
    /\ submitting' = [submitting EXCEPT ![s] = Outside]
    /\ UNCHANGED <<running, pend, thread, job, stopping>>

----------------------------------------------------------------------------
(* WorkerLoop.                                                             *)

\* while (running_)
LoopHead(t) ==
    /\ thread[t] = "head"
    /\ thread' = [thread EXCEPT ![t] = IF running THEN "try" ELSE "drain"]
    /\ UNCHANGED <<running, pend, queue, submitting, job, stopping>>

\* A loop that forgets pending_.fetch_sub.
TryDequeueNoCount(t) ==
    /\ thread[t] = "try"
    /\ \/ \E j \in queue :
             /\ queue' = queue \ {j}
             /\ job' = [job EXCEPT ![t] = j]
             /\ thread' = [thread EXCEPT ![t] = "busy"]
             /\ UNCHANGED pend
       \/ /\ queue = {}
          /\ thread' = [thread EXCEPT ![t] = "head"]
          /\ UNCHANGED <<pend, queue, job>>
    /\ UNCHANGED <<running, submitting, stopping>>

\* try_dequeue in the loop; on an empty queue the thread waits and looks again.
TryDequeue(t) ==
    /\ thread[t] = "try"
    /\ \/ \E j \in queue :
             /\ queue' = queue \ {j}
             /\ job' = [job EXCEPT ![t] = j]
             /\ thread' = [thread EXCEPT ![t] = "busy"]
             /\ pend' = pend - 1
       \/ /\ queue = {}
          /\ thread' = [thread EXCEPT ![t] = "head"]
          /\ UNCHANGED <<pend, queue, job>>
    /\ UNCHANGED <<running, submitting, stopping>>

\* try_dequeue after the loop, which counts nothing; empty: the thread ends.
Drain(t) ==
    /\ thread[t] = "drain"
    /\ \/ \E j \in queue :
             /\ queue' = queue \ {j}
             /\ job' = [job EXCEPT ![t] = j]
             /\ thread' = [thread EXCEPT ![t] = "draining"]
       \/ /\ queue = {}
          /\ thread' = [thread EXCEPT ![t] = "exited"]
          /\ UNCHANGED <<queue, job>>
    /\ UNCHANGED <<running, pend, submitting, stopping>>

\* task() returns.  What it did is the caller's.
FinishJob(t) ==
    /\ job[t] # NoJob
    /\ job' = [job EXCEPT ![t] = NoJob]
    /\ thread' = [thread EXCEPT ![t] = IF @ = "busy" THEN "head" ELSE "drain"]
    /\ UNCHANGED <<running, pend, queue, submitting, stopping>>

----------------------------------------------------------------------------
(* Stop.                                                                   *)

\* Clears running_ and starts to join.  A second Stop returns at once.
StopBegin ==
    /\ running
    /\ running' = FALSE
    /\ stopping' = "joining"
    /\ UNCHANGED <<pend, queue, submitting, thread, job>>

StopJoined ==
    /\ stopping = "joining"
    /\ \A t \in PoolThreads : thread[t] = "exited"
    /\ stopping' = "joined"
    /\ UNCHANGED <<running, pend, queue, submitting, thread, job>>
============================================================================
