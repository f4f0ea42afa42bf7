----------------------------- MODULE TimerSpec ------------------------------
(***************************************************************************)
(* What a TimerManager (src/timer) promises the code that registers timers *)
(* with it, without its queues: a timer is armed once, only an armed timer *)
(* runs its callback, one that is not a loop runs it at most once, one     *)
(* that was switched off never runs again, and callbacks do not overlap.   *)
(* Timers implements it.                                                   *)
(***************************************************************************)
CONSTANTS Ids,        \* timer ids
          Nothing     \* no timer

VARIABLES mode,       \* per timer: "unused", "once", "loop" (armed), or "off"
          running     \* the timer whose callback is running, or Nothing

specVars == <<mode, running>>

Init ==
    /\ mode = [t \in Ids |-> "unused"]
    /\ running = Nothing

Arm(t, m) ==
    /\ mode[t] = "unused"
    /\ mode' = [mode EXCEPT ![t] = m]
    /\ UNCHANGED running

\* UnRegisterTimer, or the sweep of EnterShutdownMode.
Disarm(t) ==
    /\ mode[t] \in {"once", "loop"}
    /\ mode' = [mode EXCEPT ![t] = "off"]
    /\ UNCHANGED running

\* The callback starts.  A one-shot is over with it.
Fire(t) ==
    /\ running = Nothing
    /\ mode[t] \in {"once", "loop"}
    /\ mode' = [mode EXCEPT ![t] = IF @ = "once" THEN "off" ELSE @]
    /\ running' = t

Return(t) ==
    /\ running = t
    /\ running' = Nothing
    /\ UNCHANGED mode

Next == \E t \in Ids : \/ \E m \in {"once", "loop"} : Arm(t, m)
                       \/ Disarm(t)
                       \/ Fire(t)
                       \/ Return(t)

Spec == Init /\ [][Next]_specVars
============================================================================
