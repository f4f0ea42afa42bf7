-------------------------- MODULE SchedulerProofs --------------------------
(***************************************************************************)
(* For any number of workers, pool threads and jobs, and wherever Stop     *)
(* falls: the pool counts its jobs exactly and leaves none behind, and a   *)
(* job returns to its worker after its result, and once unless each side   *)
(* of the handshake took the other's part.                                 *)
(***************************************************************************)
EXTENDS Scheduler, FiniteSetTheorems, TLAPS

\* The submitters between pending_.fetch_add and the enqueue.
Entering == {w \in Workers : submitting[w].pc = "enqueue"}

\* Neither queued nor taken nor run.
Fresh(j) ==
    /\ j \notin queue
    /\ \A t \in PoolThreads : job[t] # j
    /\ ~completed[j]

\* A submitter is inside Execute with a job of its own that nobody else has.
SubmitInv ==
    /\ \A w \in Workers : submitting[w].pc # "out" =>
           LET j == submitting[w].j IN stage[j] = "submit" /\ owner[j] = w /\ Fresh(j)
    /\ \A j \in Jobs : stage[j] = "none" => Fresh(j)

\* A queued job has not run, and its worker is known.
QueueInv == \A j \in queue : ~completed[j] /\ owner[j] \in Workers

\* A thread runs one job, which no other thread has and the queue has not.
ThreadInv ==
    \A t \in PoolThreads :
        /\ thread[t] \in {"busy", "draining"} <=> job[t] # NoJob
        /\ job[t] = NoJob => work[t] = "task"
        /\ job[t] # NoJob => /\ job[t] \notin queue
                             /\ owner[job[t]] \in Workers
                             /\ completed[job[t]] <=> work[t] # "task"
                             /\ \A u \in PoolThreads : job[u] = job[t] => u = t
        /\ work[t] = "notify" => job[t] \in Awaits

\* Only a thread that has run its job posts, and it posts that job's return.
PostInv ==
    \A t \in PoolThreads :
        posting[t] # W!Idle => /\ work[t] = "post"
                               /\ posting[t].t = job[t]
                               /\ posting[t].w = owner[job[t]]

\* Threads leave the loop after Stop only, and one that ended has seen the queue
\* empty: what was queued since came late.
StopInv ==
    /\ running <=> stopping = "no"
    /\ \A t \in PoolThreads : thread[t] \in {"drain", "draining", "exited"} => ~running
    /\ \A t \in PoolThreads : thread[t] = "exited" => queue \subseteq late
    /\ stopping = "joined" => \A t \in PoolThreads : thread[t] = "exited"

\* The drain takes jobs without counting them, so after Stop pending_ may stay
\* above the jobs there are; it never falls below.
CountInv ==
    /\ pend >= Cardinality(queue) + Cardinality(Entering)
    /\ running => pend = Cardinality(queue) + Cardinality(Entering)

\* 1 once await_suspend has let the coroutine go on.
Early(j) == IF j \in went_on THEN 1 ELSE 0

\* The thread that has run j has not handed its return over yet.
Unposted(j) ==
    \E t \in PoolThreads : job[t] = j /\ (work[t] = "notify" \/ posting[t] # W!Idle)

\* A return is posted once: until it is handed over, and while it is in the
\* worker's queue, it has not run.
ReturnInv ==
    \A j \in Jobs :
        /\ returns[j] <= Early(j) + 1
        /\ ~completed[j] => returns[j] = 0
        /\ Unposted(j) => returns[j] <= Early(j) /\ \A w \in Workers : j \notin events[w]
        /\ \A w \in Workers : j \in events[w] =>
               completed[j] /\ owner[j] = w /\ returns[j] <= Early(j)

\* A coroutine that NotifyCompleted does not hand back has no posted return.
HandInv ==
    /\ \A j \in went_on : stage[j] = "away"
    /\ \A j \in Awaits \ handed_back :
           returns[j] <= Early(j) /\ \A w \in Workers : j \notin events[w]
    /\ \A t \in PoolThreads :
           posting[t] # W!Idle /\ job[t] \in Awaits => job[t] \in handed_back

IInv ==
    /\ SchedulerTypeOK
    /\ SubmitInv /\ QueueInv /\ ThreadInv /\ PostInv
    /\ StopInv /\ CountInv /\ ReturnInv /\ HandInv

----------------------------------------------------------------------------
(* Facts used by every step.                                               *)

\* A poster is idle or has a record with a worker and a task.
LEMMA PostStates ==
    ASSUME NEW x \in W!PostState
    PROVE  /\ x = W!Idle <=> x.pc = "idle"
           /\ x.pc \in {"idle", "check", "enqueue"}
           /\ x # W!Idle => x.w \in Workers /\ x.t \in Jobs
  BY DEF W!PostState, W!Idle

\* A submitter is outside Execute or has a record with a job.
LEMMA SubmitStates ==
    ASSUME NEW x \in {P!Outside} \cup [pc : {"check", "enqueue"}, j : Jobs]
    PROVE  /\ x = P!Outside <=> x.pc = "out"
           /\ x.pc \in {"out", "check", "enqueue"}
           /\ x # P!Outside => x.j \in Jobs
  BY DEF P!Outside

\* The sets that pending_ counts are finite.
LEMMA Counted ==
    ASSUME SchedulerTypeOK
    PROVE  /\ IsFiniteSet(queue) /\ IsFiniteSet(Entering)
           /\ Cardinality(queue) \in Nat /\ Cardinality(Entering) \in Nat
  <1>1. queue \subseteq Jobs /\ Entering \subseteq Workers
    BY DEF SchedulerTypeOK, P!PoolTypeOK, Entering
  <1>2. IsFiniteSet(queue) /\ IsFiniteSet(Entering)
    BY <1>1, SchedulerAssumption, FS_Subset DEF Jobs
  <1>3. QED BY <1>2, FS_CardinalityType

LEMMA InitIInv == Init => IInv
  <1> SUFFICES ASSUME Init PROVE IInv
    OBVIOUS
  <1> USE DEF Init, P!PoolInit
  <1>1. SchedulerTypeOK
    BY DEF SchedulerTypeOK, W!WorkerTypeOK, P!PoolTypeOK, W!PostState, Stage
  <1>2. queue = {} /\ Entering = {} /\ Cardinality({}) = 0
    BY FS_EmptySet DEF Entering, P!Outside
  <1>3. SubmitInv
    BY SchedulerAssumption DEF SubmitInv, Fresh, P!Outside, Jobs
  <1>4. QueueInv /\ StopInv /\ CountInv
    BY <1>2 DEF QueueInv, StopInv, CountInv
  <1>5. ThreadInv
    BY DEF ThreadInv
  <1>6. PostInv
    BY DEF PostInv
  <1>7. ReturnInv /\ HandInv
    BY DEF ReturnInv, HandInv, Unposted, Early, Jobs
  <1>8. QED BY <1>1, <1>3, <1>4, <1>5, <1>6, <1>7 DEF IInv

----------------------------------------------------------------------------
(* The submitting worker thread.                                           *)

LEMMA SubmitKeeps ==
    ASSUME IInv, NEW w \in Workers, NEW j \in Jobs, Submit(w, j)
    PROVE  IInv'
  <1> USE DEF IInv, Submit, P!BeginExecute, workerVars, returnVars
  <1>1. SchedulerTypeOK'
    BY DEF SchedulerTypeOK, W!WorkerTypeOK, P!PoolTypeOK, Stage
  <1>2. Entering' = Entering
    BY DEF Entering, SchedulerTypeOK, P!PoolTypeOK, P!Outside
  <1>3. Fresh(j) /\ \A i \in Jobs : Fresh(i)' <=> Fresh(i)
    BY DEF SubmitInv, Fresh
  <1>4. SubmitInv'
    BY <1>3, SubmitStates DEF SubmitInv, SchedulerTypeOK, P!PoolTypeOK
  <1>5. QueueInv'
    BY <1>3 DEF QueueInv, Fresh, SchedulerTypeOK, P!PoolTypeOK
  <1>6. ThreadInv'
    BY <1>3 DEF ThreadInv, Fresh, SchedulerTypeOK, P!PoolTypeOK
  <1>7. PostInv'
    BY <1>3, PostStates DEF PostInv, ThreadInv, Fresh, SchedulerTypeOK, W!WorkerTypeOK
  <1>8. StopInv' /\ CountInv'
    BY <1>2 DEF StopInv, CountInv
  <1>9. ReturnInv'
    <2>1. \A i \in Jobs : Early(i)' = Early(i) /\ (Unposted(i)' <=> Unposted(i))
      BY DEF Early, Unposted, SchedulerTypeOK
    <2>2. QED BY <1>3, <2>1 DEF ReturnInv, Fresh, SchedulerTypeOK
  <1>10. HandInv'
    BY DEF HandInv, Early, SchedulerTypeOK, Jobs
  <1>11. QED BY <1>1, <1>4, <1>5, <1>6, <1>7, <1>8, <1>9, <1>10

LEMMA SubmitCheckKeeps ==
    ASSUME IInv, NEW w \in Workers, SubmitCheck(w)
    PROVE  IInv'
  <1> DEFINE j == submitting[w].j
  <1> USE DEF IInv, SubmitCheck, P!ExecuteCheck, workerVars, returnVars
  <1>0. /\ j \in Jobs /\ stage[j] = "submit" /\ owner[j] = w /\ Fresh(j)
        /\ w \notin Entering
    BY SubmitStates DEF SubmitInv, SchedulerTypeOK, P!PoolTypeOK, Entering
  <1>1. SchedulerTypeOK'
    <2>1. submitting' \in [Workers -> {P!Outside} \cup [pc : {"check", "enqueue"}, j : Jobs]]
      <3>1. [submitting[w] EXCEPT !.pc = "enqueue"] \in [pc : {"check", "enqueue"}, j : Jobs]
        BY <1>0, SubmitStates DEF SchedulerTypeOK, P!PoolTypeOK, P!Outside
      <3>2. QED BY <3>1 DEF SchedulerTypeOK, P!PoolTypeOK
    <2>2. stage' \in [Jobs -> Stage] /\ discarded' \in SUBSET Jobs
      BY <1>0 DEF SchedulerTypeOK, Stage, AfterExecute
    <2>3. P!PoolTypeOK'
      BY <2>1 DEF SchedulerTypeOK, P!PoolTypeOK
    <2>4. QED BY <2>2, <2>3 DEF SchedulerTypeOK, W!WorkerTypeOK
  <1>2. \A i \in Jobs : Fresh(i)' <=> Fresh(i)
    BY DEF Fresh
  <1>3. SubmitInv'
    <2>1. \A i \in Jobs : stage'[i] # stage[i] => i = j /\ ~running /\ stage'[i] # "none"
      BY <1>0 DEF SchedulerTypeOK, AfterExecute
    <2>2. \A v \in Workers : submitting'[v].pc # "out" =>
             /\ submitting[v].pc # "out" /\ submitting'[v].j = submitting[v].j
             /\ v = w => running
      BY DEF SchedulerTypeOK, P!PoolTypeOK, P!Outside
    <2>3. QED BY <1>0, <1>2, <2>1, <2>2, SubmitStates DEF SubmitInv, SchedulerTypeOK, P!PoolTypeOK
  <1>4. QueueInv' /\ StopInv'
    BY DEF QueueInv, StopInv
  <1>5. ThreadInv' /\ PostInv'
    BY DEF ThreadInv, PostInv
  <1>6. CountInv'
    <2>1. CASE running
      <3>1. Entering' = Entering \cup {w}
        <4>1. submitting'[w].pc = "enqueue"
          BY <2>1, <1>0, SubmitStates DEF SchedulerTypeOK, P!PoolTypeOK
        <4>2. \A v \in Workers : v # w => submitting'[v] = submitting[v]
          BY <2>1 DEF SchedulerTypeOK, P!PoolTypeOK
        <4>3. QED BY <4>1, <4>2 DEF Entering
      <3>2. Cardinality(Entering') = Cardinality(Entering) + 1
        BY <1>0, <3>1, Counted, FS_AddElement
      <3>3. QED BY <2>1, <3>2, Counted DEF CountInv, SchedulerTypeOK, P!PoolTypeOK
    <2>2. CASE ~running
      <3>1. Entering' = Entering
        BY <2>2 DEF Entering, SchedulerTypeOK, P!PoolTypeOK, P!Outside
      <3>2. QED BY <2>2, <3>1 DEF CountInv
    <2>3. QED BY <2>1, <2>2
  <1>7. ReturnInv'
    <2>1. \A i \in Jobs : Early(i)' = Early(i) /\ (Unposted(i)' <=> Unposted(i))
      BY DEF Early, Unposted
    <2>2. QED BY <2>1 DEF ReturnInv
  <1>8. HandInv'
    <2>1. \A i \in went_on : i \in Jobs /\ i # j /\ stage'[i] = stage[i]
      BY <1>0 DEF HandInv, SchedulerTypeOK, Jobs
    <2>2. QED BY <2>1 DEF HandInv, Early
  <1>9. QED BY <1>1, <1>3, <1>4, <1>5, <1>6, <1>7, <1>8

LEMMA SubmitEnqueueKeeps ==
    ASSUME IInv, NEW w \in Workers, SubmitEnqueue(w)
    PROVE  IInv'
  <1> DEFINE j == submitting[w].j
  <1> USE DEF IInv, SubmitEnqueue, P!ExecuteEnqueue, workerVars, returnVars
  <1>0. /\ j \in Jobs /\ stage[j] = "submit" /\ owner[j] = w /\ Fresh(j)
        /\ w \in Entering
    BY SubmitStates DEF SubmitInv, SchedulerTypeOK, P!PoolTypeOK, Entering
  <1>1. SchedulerTypeOK'
    BY <1>0 DEF SchedulerTypeOK, W!WorkerTypeOK, P!PoolTypeOK, Stage, AfterExecute
  <1>2. \A i \in Jobs : i # j => (Fresh(i)' <=> Fresh(i))
    BY DEF Fresh
  <1>3. SubmitInv'
    <2>1. \A i \in Jobs : stage'[i] # stage[i] => i = j
      BY <1>0 DEF SchedulerTypeOK
    <2>2. stage'[j] # "none"
      BY <1>0 DEF SchedulerTypeOK, AfterExecute
    <2>3. \A v \in Workers : submitting'[v].pc # "out" =>
             v # w /\ submitting'[v] = submitting[v] /\ submitting[v].j # j
      BY <1>0 DEF SchedulerTypeOK, P!PoolTypeOK, P!Outside, SubmitInv
    <2>4. QED BY <1>2, <2>1, <2>2, <2>3, SubmitStates DEF SubmitInv, SchedulerTypeOK, P!PoolTypeOK
  <1>4. QueueInv'
    BY <1>0 DEF QueueInv, Fresh
  <1>5. StopInv'
    BY DEF StopInv
  <1>6. ThreadInv' /\ PostInv'
    BY <1>0 DEF ThreadInv, PostInv, Fresh
  <1>7. CountInv'
    <2>1. Entering' = Entering \ {w}
      BY DEF Entering, SchedulerTypeOK, P!PoolTypeOK, P!Outside
    <2>2. Cardinality(Entering') = Cardinality(Entering) - 1
      BY <1>0, <2>1, Counted, FS_RemoveElement
    <2>3. Cardinality(queue') = Cardinality(queue) + 1
      BY <1>0, Counted, FS_AddElement DEF Fresh
    <2>4. QED BY <2>2, <2>3, Counted DEF CountInv, SchedulerTypeOK, P!PoolTypeOK
  <1>8. ReturnInv'
    <2>1. \A i \in Jobs : Early(i)' = Early(i) /\ (Unposted(i)' <=> Unposted(i))
      BY DEF Early, Unposted
    <2>2. QED BY <2>1 DEF ReturnInv
  <1>9. HandInv'
    <2>1. \A i \in went_on : i \in Jobs /\ i # j /\ stage'[i] = stage[i]
      BY <1>0 DEF HandInv, SchedulerTypeOK, Jobs
    <2>2. QED BY <2>1 DEF HandInv, Early
  <1>10. QED BY <1>1, <1>3, <1>4, <1>5, <1>6, <1>7, <1>8, <1>9

\* FinishSuspend touches the stage of its own coroutine, and lets it go on only
\* when the job is done.
LEMMA SuspendKeeps ==
    ASSUME IInv, NEW j \in Awaits, SuspendStore(j) \/ SuspendLoad(j)
    PROVE  IInv'
  <1> USE DEF IInv, SuspendStore, SuspendLoad, workerVars, poolVars, returnVars
  <1>0. j \in Jobs /\ stage[j] \in {"store", "load"}
    BY DEF Jobs
  <1>1. SchedulerTypeOK'
    <2>1. stage' \in [Jobs -> Stage] /\ suspend_finished' \in [Awaits -> BOOLEAN]
      BY <1>0 DEF SchedulerTypeOK, Stage
    <2>2. returns' \in [Jobs -> Nat] /\ went_on' \in SUBSET Awaits /\ handed_back' = handed_back
      BY <1>0 DEF SchedulerTypeOK
    <2>3. W!WorkerTypeOK' /\ P!PoolTypeOK'
      BY DEF SchedulerTypeOK, W!WorkerTypeOK, P!PoolTypeOK
    <2>4. QED BY <2>1, <2>2, <2>3 DEF SchedulerTypeOK
  <1>2. \A i \in Jobs : Fresh(i)' <=> Fresh(i)
    BY DEF Fresh
  <1>3. \A i \in Jobs : stage'[i] # stage[i] => i = j /\ stage'[i] \in {"load", "away"}
    BY <1>0 DEF SchedulerTypeOK
  <1>4. SubmitInv'
    BY <1>0, <1>2, <1>3, SubmitStates DEF SubmitInv, SchedulerTypeOK, P!PoolTypeOK
  <1>5. QueueInv' /\ StopInv'
    BY DEF QueueInv, StopInv
  <1>6. ThreadInv' /\ PostInv'
    BY DEF ThreadInv, PostInv
  <1>7. CountInv'
    <2>1. Entering' = Entering
      BY DEF Entering
    <2>2. QED BY <2>1 DEF CountInv
  <1>8. ReturnInv'
    <2>1. \A i \in Jobs : /\ Unposted(i)' <=> Unposted(i)
                          /\ i # j => Early(i)' = Early(i) /\ returns'[i] = returns[i]
      BY <1>0, <1>3 DEF Early, Unposted, SchedulerTypeOK
    <2>2. /\ Early(j) = 0 /\ Early(j)' \in {0, 1}
          /\ returns'[j] - Early(j)' <= returns[j]
          /\ returns'[j] \in Nat /\ returns[j] \in Nat
          /\ returns'[j] = returns[j] \/ completed[j]
      BY <1>0, <1>1 DEF Early, SchedulerTypeOK, HandInv
    <2>3. QED BY <1>0, <2>1, <2>2 DEF ReturnInv, SchedulerTypeOK
  <1>9. HandInv'
    <2>1. CASE SuspendStore(j)
      <3>1. \A i \in went_on : i \in Jobs /\ i # j /\ stage'[i] = stage[i]
        BY <1>0, <2>1 DEF HandInv, SchedulerTypeOK, Jobs
      <3>2. QED BY <2>1, <3>1 DEF HandInv, Early
    <2>2. CASE SuspendLoad(j)
      <3>1. j \notin went_on /\ went_on \subseteq Jobs
        BY <1>0 DEF HandInv, SchedulerTypeOK, Jobs
      <3>2. \A i \in went_on' : stage'[i] = "away"
        BY <1>0, <2>2, <3>1 DEF HandInv, SchedulerTypeOK
      <3>3. \A i \in Awaits : returns[i] <= Early(i) => returns'[i] <= Early(i)'
        BY <1>0, <2>2, <3>1 DEF Early, SchedulerTypeOK, Jobs
      <3>4. QED BY <2>2, <3>2, <3>3 DEF HandInv
    <2>3. QED BY <2>1, <2>2
  <1>10. QED BY <1>1, <1>4, <1>5, <1>6, <1>7, <1>8, <1>9

----------------------------------------------------------------------------
(* The pool thread.                                                        *)

\* A thread takes j, in the loop or in the drain.
LEMMA TakeKeeps ==
    ASSUME IInv, NEW t \in PoolThreads, NEW j \in queue,
           queue' = queue \ {j}, job' = [job EXCEPT ![t] = j],
           \/ /\ thread[t] = "try" /\ thread' = [thread EXCEPT ![t] = "busy"]
              /\ pend' = pend - 1
           \/ /\ thread[t] = "drain" /\ thread' = [thread EXCEPT ![t] = "draining"]
              /\ pend' = pend,
           UNCHANGED <<running, submitting, stopping, workerVars, jobVars>>
    PROVE  IInv'
  <1> USE DEF IInv, workerVars, jobVars, returnVars
  <1>0. /\ j \in Jobs /\ j # NoJob /\ ~completed[j] /\ owner[j] \in Workers
        /\ job[t] = NoJob /\ work[t] = "task" /\ posting[t] = W!Idle
        /\ \A u \in PoolThreads : job[u] # j
        /\ \A u \in PoolThreads : u # t => job'[u] = job[u] /\ thread'[u] = thread[u]
        /\ job'[t] = j
    BY SchedulerAssumption
       DEF Jobs, SchedulerTypeOK, P!PoolTypeOK, QueueInv, ThreadInv, PostInv
  <1>1. CountInv' /\ pend' \in Nat
    <2>1. Cardinality(queue') = Cardinality(queue) - 1
      BY Counted, FS_RemoveElement
    <2>2. Entering' = Entering
      BY DEF Entering
    <2>3. Cardinality(queue') \in Nat
      BY Counted, FS_RemoveElement, FS_CardinalityType
    <2>4. /\ pend \in Nat /\ Cardinality(queue) \in Nat /\ Cardinality(Entering) \in Nat
          /\ running' = running /\ thread[t] = "drain" => ~running
          /\ pend >= Cardinality(queue) + Cardinality(Entering)
          /\ running => pend = Cardinality(queue) + Cardinality(Entering)
      BY Counted DEF CountInv, StopInv, SchedulerTypeOK, P!PoolTypeOK
    <2>5. pend' \in {pend, pend - 1} /\ (running => pend' = pend - 1)
      BY <2>4
    <2>6. QED BY <2>1, <2>2, <2>3, <2>4, <2>5 DEF CountInv
  <1>2. SchedulerTypeOK'
    BY <1>0, <1>1 DEF SchedulerTypeOK, W!WorkerTypeOK, P!PoolTypeOK
  <1>3. \A i \in Jobs : Fresh(i) => Fresh(i)'
    BY <1>0 DEF Fresh, SchedulerTypeOK, P!PoolTypeOK
  <1>4. SubmitInv'
    BY <1>3, SubmitStates DEF SubmitInv, SchedulerTypeOK, P!PoolTypeOK
  <1>5. QueueInv'
    BY DEF QueueInv
  <1>6. StopInv'
    BY DEF StopInv, SchedulerTypeOK, P!PoolTypeOK
  <1>7. ThreadInv'
    <2>1. thread'[t] \in {"busy", "draining"}
      BY DEF SchedulerTypeOK, P!PoolTypeOK
    <2>2. QED BY <1>0, <2>1 DEF ThreadInv
  <1>8. PostInv'
    BY <1>0 DEF PostInv
  <1>9. ReturnInv'
    <2>1. \A i \in Jobs : Early(i)' = Early(i) /\ (Unposted(i)' => Unposted(i))
      BY <1>0 DEF Early, Unposted
    <2>2. QED BY <2>1 DEF ReturnInv
  <1>10. HandInv'
    BY <1>0 DEF HandInv, Early
  <1>11. QED BY <1>1, <1>2, <1>4, <1>5, <1>6, <1>7, <1>8, <1>9, <1>10

\* A thread moves on without a job.
LEMMA MoveKeeps ==
    ASSUME IInv, NEW t \in PoolThreads, NEW l \in {"try", "head", "drain", "exited"},
           job[t] = NoJob, thread[t] # "exited",
           thread' = [thread EXCEPT ![t] = l],
           l \in {"drain", "exited"} => ~running,
           l = "exited" => queue = {},
           UNCHANGED <<running, pend, queue, submitting, job, stopping, workerVars, jobVars>>
    PROVE  IInv'
  <1> USE DEF IInv, workerVars, jobVars, returnVars
  <1>1. SchedulerTypeOK'
    BY DEF SchedulerTypeOK, W!WorkerTypeOK, P!PoolTypeOK
  <1>2. SubmitInv' /\ QueueInv' /\ PostInv'
    BY DEF SubmitInv, Fresh, QueueInv, PostInv
  <1>3. ThreadInv'
    BY DEF ThreadInv, SchedulerTypeOK, P!PoolTypeOK
  <1>4. StopInv'
    BY DEF StopInv, SchedulerTypeOK, P!PoolTypeOK
  <1>5. CountInv' /\ ReturnInv' /\ HandInv'
    BY DEF CountInv, Entering, ReturnInv, HandInv, Early, Unposted
  <1>6. QED BY <1>1, <1>2, <1>3, <1>4, <1>5

LEMMA PoolLoopKeeps ==
    ASSUME IInv, NEW t \in PoolThreads, PoolLoop(t)
    PROVE  IInv'
  <1>0. thread[t] \notin {"busy", "draining"} => job[t] = NoJob
    BY DEF IInv, ThreadInv
  <1>1. CASE P!LoopHead(t)
    BY <1>0, <1>1, MoveKeeps DEF P!LoopHead, PoolLoop
  <1>2. CASE P!TryDequeue(t)
    BY <1>0, <1>2, MoveKeeps, TakeKeeps DEF P!TryDequeue, PoolLoop
  <1>3. CASE P!Drain(t)
    <2>1. ~running
      BY <1>3 DEF P!Drain, IInv, StopInv
    <2>2. QED BY <1>0, <1>3, <2>1, MoveKeeps, TakeKeeps DEF P!Drain, PoolLoop
  <1>4. QED BY <1>1, <1>2, <1>3 DEF PoolLoop

\* A thread produces the result of its job and, for a callback, begins to post.
LEMMA RunJobKeeps ==
    ASSUME IInv, NEW t \in PoolThreads, RunDispatched(t) \/ ExecuteOnPool(t)
    PROVE  IInv'
  <1> DEFINE j == job[t]
  <1> USE DEF IInv, RunDispatched, ExecuteOnPool, W!BeginPost, workerVars, poolVars, returnVars
  <1>0. /\ j \in Jobs /\ j # NoJob /\ j \notin queue /\ ~completed[j] /\ owner[j] \in Workers
        /\ work[t] = "task" /\ posting[t] = W!Idle
        /\ \A u \in PoolThreads : job[u] = j => u = t
    BY SchedulerAssumption DEF Jobs, ThreadInv, PostInv
  <1>1. /\ work'[t] \in {"notify", "post"} /\ (work'[t] = "notify" => j \in Awaits)
        /\ \A u \in PoolThreads : u # t => work'[u] = work[u] /\ posting'[u] = posting[u]
        /\ \A i \in Jobs : completed'[i] <=> (completed[i] \/ i = j)
    BY <1>0 DEF SchedulerTypeOK, W!WorkerTypeOK
  <1>2. \/ posting'[t] = W!Idle
        \/ work'[t] = "post" /\ posting'[t] = [pc |-> "check", w |-> owner[j], t |-> j]
    BY <1>0 DEF SchedulerTypeOK, W!WorkerTypeOK
  <1>3. SchedulerTypeOK'
    <2>1. [pc |-> "check", w |-> owner[j], t |-> j] \in W!PostState
      BY <1>0 DEF W!PostState
    <2>2. W!WorkerTypeOK'
      BY <2>1 DEF SchedulerTypeOK, W!WorkerTypeOK
    <2>3. P!PoolTypeOK'
      BY DEF SchedulerTypeOK, P!PoolTypeOK
    <2>4. QED BY <1>0, <2>2, <2>3 DEF SchedulerTypeOK
  <1>4. SubmitInv'
    <2>1. \A i \in Jobs : Fresh(i) => Fresh(i)'
      BY <1>1 DEF Fresh
    <2>2. QED BY <2>1, SubmitStates DEF SubmitInv, SchedulerTypeOK, P!PoolTypeOK
  <1>5. QueueInv' /\ StopInv'
    BY <1>0, <1>1 DEF QueueInv, StopInv, SchedulerTypeOK, P!PoolTypeOK
  <1>6. ThreadInv'
    BY <1>0, <1>1 DEF ThreadInv, SchedulerTypeOK, P!PoolTypeOK
  <1>7. PostInv'
    BY <1>0, <1>1, <1>2 DEF PostInv
  <1>8. CountInv'
    <2>1. Entering' = Entering
      BY DEF Entering
    <2>2. QED BY <2>1 DEF CountInv
  <1>9. ReturnInv'
    <2>1. \A i \in Jobs : Early(i)' = Early(i) /\ Early(i) \in {0, 1}
      BY DEF Early
    <2>2. \A i \in Jobs : i # j => (Unposted(i)' <=> Unposted(i))
      BY <1>0, <1>1 DEF Unposted
    <2>3. returns[j] = 0 /\ \A w \in Workers : j \notin events[w]
      BY <1>0 DEF ReturnInv
    <2>4. QED BY <1>0, <1>1, <2>1, <2>2, <2>3 DEF ReturnInv
  <1>10. HandInv'
    <2>1. posting'[t] # W!Idle => j \notin Awaits
      BY <1>0, SchedulerAssumption DEF SchedulerTypeOK, W!WorkerTypeOK
    <2>2. QED BY <1>1, <2>1 DEF HandInv, Early
  <1>11. QED BY <1>3, <1>4, <1>5, <1>6, <1>7, <1>8, <1>9, <1>10

\* The thread goes on inside its job: it is past the result and begins, goes on
\* with or gives up the post of its own job, whose place does not change.
LEMMA AfterResultKeeps ==
    ASSUME IInv, NEW t \in PoolThreads, job[t] # NoJob, work[t] # "task",
           work[t] = "notify" \/ posting[t] # W!Idle,
           work' = [work EXCEPT ![t] = "post"],
           NEW x \in W!PostState,
           posting' = [posting EXCEPT ![t] = x],
           x # W!Idle => x.t = job[t] /\ x.w = owner[job[t]],
           handed_back' \in SUBSET Awaits, handed_back \subseteq handed_back',
           x # W!Idle /\ job[t] \in Awaits => job[t] \in handed_back',
           UNCHANGED <<runing, shutting_down, events, loop, poolVars, owner, stage,
                       suspend_finished, completed, went_on, returns, discarded, late>>
    PROVE  IInv'
  <1> USE DEF IInv, poolVars
  <1>0. /\ job[t] \in Jobs
        /\ \A u \in PoolThreads : job[u] = job[t] => u = t
    BY DEF SchedulerTypeOK, P!PoolTypeOK, ThreadInv
  <1>1. /\ work'[t] = "post" /\ posting'[t] = x
        /\ \A u \in PoolThreads : u # t => work'[u] = work[u] /\ posting'[u] = posting[u]
    BY DEF SchedulerTypeOK, W!WorkerTypeOK
  <1>2. SchedulerTypeOK'
    BY DEF SchedulerTypeOK, W!WorkerTypeOK, P!PoolTypeOK
  <1>3. SubmitInv' /\ QueueInv' /\ StopInv'
    BY DEF SubmitInv, Fresh, QueueInv, StopInv
  <1>4. ThreadInv'
    BY <1>1 DEF ThreadInv
  <1>5. PostInv'
    BY <1>1 DEF PostInv
  <1>6. CountInv'
    <2>1. Entering' = Entering
      BY DEF Entering
    <2>2. QED BY <2>1 DEF CountInv
  <1>7. ReturnInv'
    <2>1. \A i \in Jobs : Early(i)' = Early(i) /\ (Unposted(i)' => Unposted(i))
      BY <1>0, <1>1 DEF Early, Unposted
    <2>2. QED BY <2>1 DEF ReturnInv
  <1>8. HandInv'
    BY <1>1 DEF HandInv, Early
  <1>9. QED BY <1>2, <1>3, <1>4, <1>5, <1>6, <1>7, <1>8

LEMMA NotifyCompletedKeeps ==
    ASSUME IInv, NEW t \in PoolThreads, NotifyCompleted(t)
    PROVE  IInv'
  <1> USE DEF IInv, NotifyCompleted, W!BeginPost
  <1>1. /\ job[t] \in Jobs /\ job[t] # NoJob /\ work[t] = "notify"
        /\ owner[job[t]] \in Workers /\ posting[t] = W!Idle /\ job[t] \in Awaits
    BY SchedulerAssumption DEF Jobs, ThreadInv, PostInv
  <1>2. CASE suspend_finished[job[t]]
    <2>1. [pc |-> "check", w |-> owner[job[t]], t |-> job[t]] \in W!PostState
      BY <1>1 DEF W!PostState
    <2>2. handed_back' \in SUBSET Awaits
      BY <1>1 DEF SchedulerTypeOK
    <2>3. QED BY <1>1, <1>2, <2>1, <2>2, AfterResultKeeps
  <1>3. CASE ~suspend_finished[job[t]]
    <2>1. posting' = [posting EXCEPT ![t] = W!Idle]
      BY <1>1, <1>3 DEF SchedulerTypeOK, W!WorkerTypeOK
    <2>2. W!Idle \in W!PostState
      BY DEF W!PostState
    <2>3. handed_back' \in SUBSET Awaits /\ handed_back \subseteq handed_back'
      BY <1>1, <1>3 DEF SchedulerTypeOK
    <2>4. QED BY <1>1, <2>1, <2>2, <2>3, AfterResultKeeps
  <1>4. QED BY <1>2, <1>3

LEMMA PostCheckKeeps ==
    ASSUME IInv, NEW t \in PoolThreads, W!PostCheck(t), UNCHANGED <<poolVars, jobVars>>
    PROVE  IInv'
  <1> USE DEF IInv, W!PostCheck, jobVars, returnVars
  <1>1. /\ posting[t] \in W!PostState /\ posting[t] # W!Idle
        /\ posting[t].pc = "check" /\ posting[t].w \in Workers /\ posting[t].t \in Jobs
    BY PostStates DEF SchedulerTypeOK, W!WorkerTypeOK
  <1>2. /\ work[t] = "post" /\ job[t] # NoJob
        /\ posting[t].t = job[t] /\ posting[t].w = owner[job[t]]
    BY <1>1 DEF PostInv, ThreadInv
  <1>3. work' = [work EXCEPT ![t] = "post"]
    BY <1>2 DEF SchedulerTypeOK
  <1>4. PICK x \in {W!Idle, [posting[t] EXCEPT !.pc = "enqueue"]} :
             posting' = [posting EXCEPT ![t] = x]
    OBVIOUS
  <1>5. x \in W!PostState /\ (x # W!Idle => x.t = job[t] /\ x.w = owner[job[t]])
    BY <1>1, <1>2, <1>4 DEF W!PostState, W!Idle
  <1>6. /\ handed_back' \in SUBSET Awaits /\ handed_back' = handed_back
        /\ job[t] \in Awaits => job[t] \in handed_back
    BY <1>1 DEF SchedulerTypeOK, HandInv
  <1>7. QED BY <1>1, <1>2, <1>3, <1>4, <1>5, <1>6, AfterResultKeeps

\* The return of t's job enters the queue of the worker that owns the job.
LEMMA PostEnqueueKeeps ==
    ASSUME IInv, NEW t \in PoolThreads, W!PostEnqueue(t), UNCHANGED <<poolVars, jobVars>>
    PROVE  IInv'
  <1> DEFINE j == job[t]
  <1> USE DEF IInv, W!PostEnqueue, jobVars, poolVars, returnVars
  <1>1. posting[t] # W!Idle /\ posting[t].w \in Workers /\ posting[t].t \in Jobs
    BY PostStates DEF SchedulerTypeOK, W!WorkerTypeOK, W!Idle
  <1>2. /\ j \in Jobs /\ j # NoJob /\ work[t] = "post" /\ completed[j] /\ Unposted(j)
        /\ posting[t].t = j /\ posting[t].w = owner[j]
        /\ \A u \in PoolThreads : job[u] = j => u = t
    BY <1>1 DEF PostInv, ThreadInv, Unposted
  <1>3. /\ posting'[t] = W!Idle
        /\ \A u \in PoolThreads : u # t => posting'[u] = posting[u]
        /\ \A w \in Workers, i \in Jobs :
               i \in events'[w] <=> i \in events[w] \/ (i = j /\ w = owner[j])
    BY <1>1, <1>2 DEF SchedulerTypeOK, W!WorkerTypeOK
  <1>4. SchedulerTypeOK'
    BY <1>1 DEF SchedulerTypeOK, W!WorkerTypeOK, P!PoolTypeOK, W!PostState
  <1>5. SubmitInv' /\ QueueInv' /\ StopInv'
    BY DEF SubmitInv, Fresh, QueueInv, StopInv
  <1>6. ThreadInv'
    BY DEF ThreadInv
  <1>7. PostInv'
    BY <1>3 DEF PostInv
  <1>8. CountInv'
    <2>1. Entering' = Entering
      BY DEF Entering
    <2>2. QED BY <2>1 DEF CountInv
  <1>9. ReturnInv'
    <2>1. \A i \in Jobs : Early(i)' = Early(i) /\ (Unposted(i)' => Unposted(i) /\ i # j)
      BY <1>2, <1>3 DEF Early, Unposted
    <2>2. QED BY <1>2, <1>3, <2>1 DEF ReturnInv
  <1>10. HandInv'
    <2>1. j \in Awaits => j \in handed_back
      BY <1>1 DEF HandInv
    <2>2. QED BY <1>3, <2>1 DEF HandInv, Early, Jobs
  <1>11. QED BY <1>4, <1>5, <1>6, <1>7, <1>8, <1>9, <1>10

LEMMA JobDoneKeeps ==
    ASSUME IInv, NEW t \in PoolThreads, JobDone(t)
    PROVE  IInv'
  <1> USE DEF IInv, JobDone, P!FinishJob, workerVars, returnVars
  <1>1. /\ job[t] \in Jobs /\ completed[job[t]] /\ thread[t] \in {"busy", "draining"}
        /\ posting[t] = W!Idle /\ NoJob \notin Jobs
    BY SchedulerAssumption DEF Jobs, ThreadInv, SchedulerTypeOK, P!PoolTypeOK
  <1>2. /\ job'[t] = NoJob /\ work'[t] = "task"
        /\ thread'[t] = IF thread[t] = "busy" THEN "head" ELSE "drain"
        /\ \A u \in PoolThreads : u # t => /\ job'[u] = job[u] /\ work'[u] = work[u]
                                           /\ thread'[u] = thread[u]
    BY DEF SchedulerTypeOK, P!PoolTypeOK
  <1>3. SchedulerTypeOK'
    BY DEF SchedulerTypeOK, W!WorkerTypeOK, P!PoolTypeOK
  <1>4. SubmitInv'
    <2>1. \A i \in Jobs : Fresh(i) => Fresh(i)'
      BY <1>1, <1>2 DEF Fresh
    <2>2. QED BY <2>1, SubmitStates DEF SubmitInv, SchedulerTypeOK, P!PoolTypeOK
  <1>5. QueueInv'
    BY DEF QueueInv
  <1>6. StopInv'
    BY <1>1, <1>2 DEF StopInv
  <1>7. ThreadInv'
    BY <1>1, <1>2 DEF ThreadInv
  <1>8. PostInv'
    BY <1>1, <1>2 DEF PostInv
  <1>9. CountInv'
    <2>1. Entering' = Entering
      BY DEF Entering
    <2>2. QED BY <2>1 DEF CountInv
  <1>10. ReturnInv'
    <2>1. \A i \in Jobs : Early(i)' = Early(i) /\ (Unposted(i)' => Unposted(i))
      BY <1>1, <1>2 DEF Early, Unposted
    <2>2. QED BY <2>1 DEF ReturnInv
  <1>11. HandInv'
    BY <1>1, <1>2 DEF HandInv, Early
  <1>12. QED BY <1>3, <1>4, <1>5, <1>6, <1>7, <1>8, <1>9, <1>10, <1>11

----------------------------------------------------------------------------
(* The worker's frame and the shutdown.                                    *)

LEMMA RunTaskKeeps ==
    ASSUME IInv, NEW w \in Workers, NEW j \in events[w], RunTask(w, j)
    PROVE  IInv'
  <1> USE DEF IInv, RunTask, W!Dequeue, W!Take, poolVars
  <1>1. j \in Jobs
    BY DEF SchedulerTypeOK, W!WorkerTypeOK
  <1>2. /\ returns'[j] = returns[j] + 1
        /\ \A i \in Jobs : i # j => returns'[i] = returns[i]
        /\ \A v \in Workers, i \in Jobs :
               i \in events'[v] <=> i \in events[v] /\ ~(i = j /\ v = w)
    BY <1>1 DEF SchedulerTypeOK, W!WorkerTypeOK
  <1>3. SchedulerTypeOK'
    BY <1>1 DEF SchedulerTypeOK, W!WorkerTypeOK, P!PoolTypeOK
  <1>4. SubmitInv' /\ QueueInv' /\ StopInv'
    BY DEF SubmitInv, Fresh, QueueInv, StopInv
  <1>5. ThreadInv' /\ PostInv'
    BY DEF ThreadInv, PostInv
  <1>6. CountInv'
    <2>1. Entering' = Entering
      BY DEF Entering
    <2>2. QED BY <2>1 DEF CountInv
  <1>7. ReturnInv'
    <2>1. \A i \in Jobs : /\ Early(i)' = Early(i) /\ (Unposted(i)' <=> Unposted(i))
                          /\ Early(i) \in {0, 1} /\ returns[i] \in Nat
      BY DEF Early, Unposted, SchedulerTypeOK
    <2>2. /\ completed[j] /\ owner[j] = w /\ returns[j] <= Early(j) /\ ~Unposted(j)
          /\ \A v \in Workers : j \notin events'[v]
      BY <1>1, <1>2 DEF ReturnInv
    <2>3. QED BY <1>1, <1>2, <2>1, <2>2 DEF ReturnInv
  <1>8. HandInv'
    <2>1. j \in Awaits => j \in handed_back
      BY DEF HandInv
    <2>2. \A i \in Awaits \ handed_back : i \in Jobs /\ returns'[i] = returns[i]
      BY <1>2, <2>1 DEF Jobs
    <2>3. QED BY <1>2, <2>2 DEF HandInv, Early
  <1>9. QED BY <1>3, <1>4, <1>5, <1>6, <1>7, <1>8

LEMMA StopStepKeeps ==
    ASSUME IInv, StopStep
    PROVE  IInv'
  <1> USE DEF IInv
  <1>1. CASE /\ UNCHANGED <<poolVars, jobVars, events, posting>>
             /\ W!WorkerTypeOK'
    BY <1>1 DEF poolVars, jobVars, SchedulerTypeOK, P!PoolTypeOK, SubmitInv, Fresh, QueueInv,
                ThreadInv, PostInv, StopInv, CountInv, Entering, ReturnInv, HandInv, Early,
                Unposted, returnVars
  <1>2. CASE /\ P!StopBegin \/ P!StopJoined
             /\ UNCHANGED <<workerVars, jobVars>>
    <2> USE <1>2 DEF workerVars, jobVars, returnVars, P!StopBegin, P!StopJoined
    <2>1. SchedulerTypeOK'
      BY DEF SchedulerTypeOK, W!WorkerTypeOK, P!PoolTypeOK
    <2>2. SubmitInv' /\ QueueInv' /\ ThreadInv' /\ PostInv'
      BY DEF SubmitInv, Fresh, QueueInv, ThreadInv, PostInv
    <2>3. StopInv'
      BY DEF StopInv
    <2>4. UNCHANGED Entering /\ \A j \in Jobs : UNCHANGED <<Early(j), Unposted(j)>>
      BY DEF Entering, Early, Unposted
    <2>5. CountInv'
      BY <2>4 DEF CountInv
    <2>6. ReturnInv' /\ HandInv'
      BY <2>4 DEF ReturnInv, HandInv, Jobs
    <2>7. QED BY <2>1, <2>2, <2>3, <2>5, <2>6
  <1>3. ASSUME NEW w \in Workers,
               W!EnterShutdownMode(w) \/ W!Stop(w) \/ W!ExitLoop(w)
        PROVE  UNCHANGED <<events, posting>> /\ W!WorkerTypeOK'
    BY <1>3 DEF SchedulerTypeOK, W!WorkerTypeOK, W!EnterShutdownMode, W!Stop, W!ExitLoop
  <1>4. Stoppable \subseteq Workers
    BY SchedulerAssumption
  <1>5. QED BY <1>1, <1>2, <1>3, <1>4 DEF StopStep

----------------------------------------------------------------------------
LEMMA NextKeeps == IInv /\ [Next]_vars => IInv'
  <1> SUFFICES ASSUME IInv, [Next]_vars PROVE IInv'
    OBVIOUS
  <1>1. ASSUME NEW w \in Workers, NEW j \in Jobs, Submit(w, j) PROVE IInv'
    BY <1>1, SubmitKeeps
  <1>2. CASE SubmitStep
    BY <1>2, SubmitCheckKeeps, SubmitEnqueueKeeps, SuspendKeeps DEF SubmitStep
  <1>3. ASSUME NEW t \in PoolThreads, PoolStep(t) PROVE IInv'
    BY <1>3, PoolLoopKeeps, RunJobKeeps, NotifyCompletedKeeps, PostCheckKeeps,
       PostEnqueueKeeps, JobDoneKeeps DEF PoolStep, PostStep
  <1>4. ASSUME NEW w \in Workers, NEW j \in events[w], RunTask(w, j) PROVE IInv'
    BY <1>4, RunTaskKeeps
  <1>5. CASE StopStep
    BY <1>5, StopStepKeeps
  <1>6. CASE UNCHANGED vars
    BY <1>6 DEF vars, workerVars, poolVars, jobVars, IInv, SchedulerTypeOK, W!WorkerTypeOK,
                P!PoolTypeOK, SubmitInv, Fresh, QueueInv, ThreadInv, PostInv, StopInv,
                CountInv, Entering, ReturnInv, HandInv, Early, Unposted, returnVars
  <1>7. QED BY <1>1, <1>2, <1>3, <1>4, <1>5, <1>6 DEF Next

\* The inductive invariant of the scheduler: where a job is on its way through
\* Execute, the queue, a pool thread and the post back (thread_pool.h and
\* thread_pool_scheduler.h), and what each of them may do with it.
THEOREM Invariance == Spec => []IInv
  <1>1. QED BY InitIInv, NextKeeps, PTL DEF Spec

\* For any number of submitters and pool threads, while the pool runs pending_
\* is exactly the number of jobs queued or about to be, and once Stop has joined
\* the threads only jobs enqueued after running_ was cleared are left.
THEOREM PendingExact == Spec => []PendingCountExact
  <1>1. IInv => PendingCountExact
    <2> SUFFICES ASSUME IInv PROVE PendingCountExact
      OBVIOUS
    <2>1. stopping = "joined" => queue \subseteq late /\ \A t \in PoolThreads : job[t] = NoJob
      BY SchedulerAssumption DEF IInv, StopInv, ThreadInv
    <2>2. QED BY <2>1 DEF IInv, CountInv, Entering, PendingCountExact
  <1>2. QED BY <1>1, Invariance, PTL

\* A callback or a coroutine gets control back after its job's result only, and
\* once: a coroutine twice only when FinishSuspend saw completed_ and
\* NotifyCompleted saw suspend_finished_, the hole between the two tests.
THEOREM ReturnCorrect == Spec => []ReturnAfterResult
  <1>1. IInv => ReturnAfterResult
    <2> SUFFICES ASSUME IInv, NEW j \in Jobs
                 PROVE  /\ returns[j] > 0 => completed[j]
                        /\ returns[j] > 1 => j \in went_on \cap handed_back
      BY DEF ReturnAfterResult
    <2>1. /\ returns[j] \in Nat /\ Early(j) \in {0, 1} /\ (Early(j) = 1 => j \in went_on)
          /\ returns[j] <= Early(j) + 1 /\ (~completed[j] => returns[j] = 0)
          /\ j \in went_on \ handed_back => returns[j] <= Early(j)
      BY DEF IInv, SchedulerTypeOK, ReturnInv, HandInv, Early
    <2>2. QED BY <2>1
  <1>2. QED BY <1>1, Invariance, PTL
============================================================================
