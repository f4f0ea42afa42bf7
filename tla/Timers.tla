------------------------------- MODULE Timers -------------------------------
(***************************************************************************)
(* gb::TimerManager (src/timer): the timers of one worker.  The worker     *)
(* thread calls Update once per frame (Worker::OnUpdate), and registers    *)
(* and unregisters timers, from tasks or from the callbacks that Update    *)
(* runs.  EnterShutdownMode is called by the thread that drives the        *)
(* shutdown (app.cpp:147), while the worker thread goes on.                *)
(*                                                                         *)
(* Time is kept relative: left is end_time_point_ - now in ticks of one    *)
(* millisecond, and stops at Floor.  A priority_queue is the set of its    *)
(* elements; top is the one that the comparison puts first.                *)
(***************************************************************************)
EXTENDS Integers, FiniteSets

CONSTANTS MaxTimers,   \* bound on the number of registrations
          Durations    \* durations in ticks that callers ask for

\* A callback that is slower than the period of a loop timer, or a system loop
\* of 0 ms, keeps Update in its loop for ever.
ASSUME DurationsPositive == Durations \subseteq (Nat \ {0}) /\ Durations # {}
ASSUME MaxTimersNat == MaxTimers \in Nat

Ids     == 1 .. MaxTimers
Nothing == 0
Floor   == -1
Queues  == {"steady", "system"}

VARIABLES generated,   \* generate_timer_id_
          all,         \* the keys of all_timers_
          timer,       \* the Timer objects
          queued,      \* per queue: the timers in steady_timers_, system_timers_
          shutting,    \* shutting_down_
          place,       \* the worker thread: "frame", "steady", "system" or "call"
          cur,         \* the timer in hand: popped by Update
          ticked,      \* the clock has moved during this Update
          reg,         \* a registration past its test of shutting_down_
          sweep,       \* timers that EnterShutdownMode has still to visit
          exempt       \* history: timers that it found expired, or did not see

vars == <<generated, all, timer, queued, shutting, place, cur, ticked, reg, sweep, exempt>>

NoReg == [q |-> "none"]
Regs  == [q : Queues, d : Durations, loop : BOOLEAN]
TimerObjects == [q : Queues, d : Durations, loop : BOOLEAN,
                 active : BOOLEAN, left : Int]

TimersTypeOK ==
    /\ generated \in 0 .. MaxTimers
    /\ all \subseteq Ids
    /\ timer \in [all -> TimerObjects]
    /\ queued \in [Queues -> SUBSET Ids]
    /\ shutting \in BOOLEAN
    /\ place \in {"frame", "steady", "system", "call"}
    /\ cur \in Ids \cup {Nothing}
    /\ ticked \in BOOLEAN
    /\ reg \in Regs \cup {NoReg}
    /\ sweep \subseteq Ids
    /\ exempt \subseteq Ids

Init ==
    /\ generated = 0
    /\ all = {}
    /\ timer = [t \in {} |-> NoReg]
    /\ queued = [q \in Queues |-> {}]
    /\ shutting = FALSE
    /\ place = "frame"
    /\ cur = Nothing
    /\ ticked = FALSE
    /\ reg = NoReg
    /\ sweep = {}
    /\ exempt = {}

\* SteadyTimer::IsExpired is now > end, SystemTimer::IsExpired is now >= end.
IsExpired(t) == IF timer[t].q = "steady" THEN timer[t].left < 0 ELSE timer[t].left <= 0

\* SteadyCompare and SystemCompare: by end time, then by id.  Among timers that
\* reached Floor the order of their end times is no longer known.
IsTop(q, t) ==
    /\ t \in queued[q]
    /\ \A u \in queued[q] :
          \/ timer[t].left < timer[u].left
          \/ timer[t].left = timer[u].left /\ (timer[t].left = Floor \/ t <= u)

Without(t) == [u \in all \ {t} |-> timer[u]]

----------------------------------------------------------------------------
(* Registration, on the worker thread: in a task of the frame or in a      *)
(* callback.  Between its test and its insertion the driver may act.       *)

InUserCode == place \in {"frame", "call"} /\ reg = NoReg

\* Mutant: registers during the shutdown too.
RegisterTimer_InShutdown(q, d, lp) ==
    /\ InUserCode
    /\ generated < MaxTimers
    /\ reg' = [q |-> q, d |-> d, loop |-> lp]
    /\ UNCHANGED <<generated, all, timer, queued, shutting, place, cur, ticked, sweep, exempt>>

\* RegisterTimer and RegisterSystemTimer: the test of shutting_down_.
RegisterTimer(q, d, lp) ==
    /\ InUserCode
    /\ generated < MaxTimers
    /\ reg' = IF shutting THEN NoReg ELSE [q |-> q, d |-> d, loop |-> lp]
    /\ UNCHANGED <<generated, all, timer, queued, shutting, place, cur, ticked, sweep, exempt>>

\* ... and its rest: the constructor reads the clock, then push and emplace.  A
\* loop over all_timers_ that is under way may meet the new entry or not.
Insert ==
    LET id == generated + 1 IN
    /\ reg # NoReg
    /\ generated' = id
    /\ all' = all \cup {id}
    /\ timer' = [t \in all' |-> IF t = id THEN [q |-> reg.q, d |-> reg.d, loop |-> reg.loop,
                                                active |-> TRUE, left |-> reg.d]
                                          ELSE timer[t]]
    /\ queued' = [queued EXCEPT ![reg.q] = @ \cup {id}]
    /\ reg' = NoReg
    /\ sweep' \in {sweep, IF sweep = {} THEN {} ELSE sweep \cup {id}}
    /\ UNCHANGED <<shutting, place, cur, ticked, exempt>>

\* timer.Register and timer.RegisterSystem of Lua, whose callbacks run under
\* the same Update; without a current worker they register nothing.
LuaRegister(d, lp)       == RegisterTimer("steady", d, lp)
LuaRegisterSystem(d, lp) == RegisterTimer("system", d, lp)

\* Mutant: the entry is erased at once, and its pointer stays in the queue.
UnRegisterTimer_Erases(t) ==
    /\ InUserCode
    /\ t \in all
    /\ all' = all \ {t}
    /\ timer' = Without(t)
    /\ UNCHANGED <<generated, queued, shutting, place, cur, ticked, reg, sweep, exempt>>

\* Marks the timer; Update removes it when it comes to the top.
UnRegisterTimer(t) ==
    /\ InUserCode
    /\ t \in all
    /\ timer' = [timer EXCEPT ![t].active = FALSE]
    /\ UNCHANGED <<generated, all, queued, shutting, place, cur, ticked, reg, sweep, exempt>>

LuaUnRegister(t) == UnRegisterTimer(t)

----------------------------------------------------------------------------
(* Update.                                                                 *)

BeginUpdate ==
    /\ place = "frame"
    /\ reg = NoReg
    /\ place' = "steady"
    /\ ticked' = FALSE
    /\ UNCHANGED <<generated, all, timer, queued, shutting, cur, reg, sweep, exempt>>

\* The top is inactive: popped and erased.
DropInactive(q, t) ==
    /\ place = q
    /\ IsTop(q, t)
    /\ ~timer[t].active
    /\ queued' = [queued EXCEPT ![q] = @ \ {t}]
    /\ all' = all \ {t}
    /\ timer' = Without(t)
    /\ UNCHANGED <<generated, shutting, place, cur, ticked, reg, sweep, exempt>>

\* Mutant: active_ is not looked at.
Fire_Cancelled(q, t) ==
    /\ place = q
    /\ IsTop(q, t)
    /\ IsExpired(t)
    /\ queued' = [queued EXCEPT ![q] = @ \ {t}]
    /\ cur' = t
    /\ place' = "call"
    /\ UNCHANGED <<generated, all, timer, shutting, ticked, reg, sweep, exempt>>

\* The top is active and has expired: popped, and its callback is called.
Fire(q, t) ==
    /\ place = q
    /\ IsTop(q, t)
    /\ timer[t].active
    /\ IsExpired(t)
    /\ queued' = [queued EXCEPT ![q] = @ \ {t}]
    /\ cur' = t
    /\ place' = "call"
    /\ UNCHANGED <<generated, all, timer, shutting, ticked, reg, sweep, exempt>>

\* Mutant: a loop is reset and not pushed again.
Returned_NotPushed ==
    /\ place = "call"
    /\ reg = NoReg
    /\ place' = timer[cur].q
    /\ cur' = Nothing
    /\ IF timer[cur].loop
          THEN /\ timer' = [timer EXCEPT ![cur].left = timer[cur].d]
               /\ UNCHANGED <<all, queued>>
          ELSE /\ all' = all \ {cur}
               /\ timer' = Without(cur)
               /\ UNCHANGED queued
    /\ UNCHANGED <<generated, shutting, ticked, reg, sweep, exempt>>

\* The callback returns: a loop is reset and pushed, a one-shot erased.
Returned ==
    /\ place = "call"
    /\ reg = NoReg
    /\ place' = timer[cur].q
    /\ cur' = Nothing
    /\ IF timer[cur].loop
          THEN /\ timer' = [timer EXCEPT ![cur].left = timer[cur].d]
               /\ queued' = [queued EXCEPT ![timer[cur].q] = @ \cup {cur}]
               /\ UNCHANGED all
          ELSE /\ all' = all \ {cur}
               /\ timer' = Without(cur)
               /\ UNCHANGED queued
    /\ UNCHANGED <<generated, shutting, ticked, reg, sweep, exempt>>

\* The queue is empty, or its top has not expired: the next loop, or the end.
LeaveQueue(q) ==
    /\ place = q
    /\ \A t \in queued[q] : IsTop(q, t) => timer[t].active /\ ~IsExpired(t)
    /\ place' = IF q = "steady" THEN "system" ELSE "frame"
    /\ UNCHANGED <<generated, all, timer, queued, shutting, cur, ticked, reg, sweep, exempt>>

Update == \/ BeginUpdate
          \/ \E q \in Queues : \/ \E t \in Ids : DropInactive(q, t) \/ Fire(q, t)
                               \/ LeaveQueue(q)
          \/ Returned

----------------------------------------------------------------------------
(* The driver of the shutdown, and the clock.                              *)

EnterShutdownMode ==
    /\ ~shutting
    /\ shutting' = TRUE
    /\ sweep' = all
    /\ exempt' = IF reg = NoReg THEN {} ELSE {generated + 1}
    /\ UNCHANGED <<generated, all, timer, queued, place, cur, ticked, reg>>

\* One iteration of its loop over all_timers_.
Visit(t) ==
    /\ t \in sweep
    /\ sweep' = sweep \ {t}
    /\ IF t \in all /\ ~IsExpired(t)
          THEN timer' = [timer EXCEPT ![t].active = FALSE] /\ UNCHANGED exempt
          ELSE exempt' = exempt \cup {t} /\ UNCHANGED timer
    /\ UNCHANGED <<generated, all, queued, shutting, place, cur, ticked, reg>>

\* Within one Update the clock moves by less than the shortest period.
Tick ==
    /\ place = "frame" \/ ~ticked
    /\ \E t \in all : timer[t].left > Floor
    /\ ticked' = (place # "frame")
    /\ timer' = [t \in all |-> [timer[t] EXCEPT !.left = IF @ > Floor THEN @ - 1 ELSE @]]
    /\ UNCHANGED <<generated, all, queued, shutting, place, cur, reg, sweep, exempt>>

Next ==
    \/ \E d \in Durations, lp \in BOOLEAN : LuaRegister(d, lp) \/ LuaRegisterSystem(d, lp)
    \/ Insert
    \/ \E t \in Ids : LuaUnRegister(t) \/ Visit(t)
    \/ Update
    \/ EnterShutdownMode
    \/ Tick

\* The worker thread runs frames, callbacks return, EnterShutdownMode goes
\* through its loop, and time passes.
Fairness == /\ WF_vars(Update) /\ WF_vars(Insert)
            /\ WF_vars(\E t \in Ids : Visit(t))
            /\ SF_vars(Tick)

Spec == Init /\ [][Next]_vars /\ Fairness

----------------------------------------------------------------------------
(* Properties.                                                             *)

\* What the manager looks like to its users.
Mode(t) ==
    IF t > generated THEN "unused"
    ELSE IF t \notin all \/ (t = cur /\ ~timer[t].loop) THEN "off"
    ELSE IF ~timer[t].active THEN "off"
    ELSE IF timer[t].loop THEN "loop" ELSE "once"

Abstract == INSTANCE TimerSpec WITH mode <- [t \in Ids |-> Mode(t)], running <- cur

\* Timers implements TimerSpec: whatever callbacks register and unregister while
\* Update walks its queues and the driver cancels, an unregistered timer never
\* runs again, a one-shot runs at most once and callbacks do not overlap.
ImplementsTimerSpec == Abstract!Spec

\* The queues hold raw pointers into all_timers_: every queued timer is alive,
\* is in the queue of its kind only, and none is left behind when it is popped.
QueuesExact ==
    /\ queued["steady"] \cap queued["system"] = {}
    /\ all = queued["steady"] \cup queued["system"] \cup ({cur} \ {Nothing})
    /\ \A q \in Queues : \A t \in queued[q] : t # cur /\ timer[t].q = q

\* An armed timer is not forgotten: Update reaches it, in whichever queue and
\* whatever is in front of it, unless it is unregistered first.
ArmedTimerFires ==
    \A t \in Ids : (Mode(t) \in {"once", "loop"}) ~> (cur = t \/ Mode(t) = "off")

\* After EnterShutdownMode the timers drain: what stays registered for ever is
\* a loop that had expired when it was visited or was just being registered.
ShutdownDrainsTimers ==
    <>shutting => <>[](\A t \in all : timer[t].loop /\ t \in exempt)
============================================================================
