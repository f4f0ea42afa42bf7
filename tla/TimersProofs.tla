---------------------------- MODULE TimersProofs ----------------------------
(***************************************************************************)
(* For any number of timers and any durations: the raw pointers in the two *)
(* queues of TimerManager are to timers that are alive, and the manager    *)
(* implements TimerSpec.  The second part is about the end of the process, *)
(* of which EnterShutdownMode of the timers is a step: its phases run once *)
(* and in order, and no worker closes its queue before the pool's threads  *)
(* have posted their last result.                                          *)
(***************************************************************************)
EXTENDS Timers, Shutdown, FiniteSetTheorems, TLAPS

\* A callback runs exactly while Update has a timer in hand; a registration past
\* its test is in user code and has an id left; ids are given out in order.
ControlInv ==
    /\ place = "call" <=> cur # Nothing
    /\ reg # NoReg => place \in {"frame", "call"} /\ generated < MaxTimers
    /\ all \subseteq 1 .. generated

IInv == TimersTypeOK /\ QueuesExact /\ ControlInv

\* A registration that is under way has all of its fields.
LEMMA RegFields ==
    ASSUME reg \in Regs \cup {NoReg}, reg # NoReg
    PROVE  reg.q \in Queues /\ reg.d \in Durations /\ reg.d \in Int /\ reg.loop \in BOOLEAN
  <1>1. \A d \in Durations : d \in Int
    BY DurationsPositive
  <1>2. reg \in Regs
    OBVIOUS
  <1>3. QED BY <1>1, <1>2 DEF Regs

LEMMA InitIInv == Init => IInv
  <1> SUFFICES ASSUME Init PROVE IInv
    OBVIOUS
  <1>1. TimersTypeOK
    <2>1. timer \in [all -> TimerObjects]
      BY DEF Init
    <2>2. generated \in 0 .. MaxTimers
      BY MaxTimersNat DEF Init
    <2>3. QED BY <2>1, <2>2 DEF Init, TimersTypeOK
  <1>2. QueuesExact /\ ControlInv
    BY DEF Init, QueuesExact, ControlInv, Queues, Nothing
  <1>3. QED BY <1>1, <1>2 DEF IInv

\* Registration and its two halves.
LEMMA RegisterPreserves ==
    ASSUME IInv, NEW q \in Queues, NEW d \in Durations, NEW lp \in BOOLEAN,
           RegisterTimer(q, d, lp)
    PROVE  IInv'
  <1>1. reg' \in Regs \cup {NoReg}
    BY DEF RegisterTimer, Regs
  <1>2. QED BY <1>1 DEF IInv, TimersTypeOK, QueuesExact, ControlInv, RegisterTimer, InUserCode

LEMMA InsertPreserves ==
    ASSUME IInv, Insert
    PROVE  IInv'
  <1> DEFINE id == generated + 1
  <1>0. /\ generated \in 0 .. MaxTimers /\ generated < MaxTimers /\ MaxTimers \in Nat
        /\ all \subseteq Ids /\ all \subseteq 1 .. generated
        /\ timer \in [all -> TimerObjects]
        /\ queued \in [Queues -> SUBSET Ids]
    BY MaxTimersNat DEF IInv, TimersTypeOK, ControlInv, Insert
  <1>1. id \in Ids /\ id \notin all /\ id # cur /\ id # Nothing /\ id \in 1 .. id
    BY <1>0 DEF IInv, QueuesExact, Ids, Nothing
  <1>2. reg.q \in Queues /\ reg.d \in Durations /\ reg.d \in Int /\ reg.loop \in BOOLEAN
    BY RegFields DEF Insert, IInv, TimersTypeOK
  <1>3. /\ generated' = id /\ all' = all \cup {id} /\ reg' = NoReg /\ cur' = cur /\ place' = place
        /\ queued' = [queued EXCEPT ![reg.q] = @ \cup {id}]
        /\ shutting' = shutting /\ ticked' = ticked /\ exempt' = exempt
        /\ timer' = [t \in all' |-> IF t = id THEN [q |-> reg.q, d |-> reg.d, loop |-> reg.loop,
                                                    active |-> TRUE, left |-> reg.d]
                                              ELSE timer[t]]
    BY DEF Insert
  <1>4. timer' \in [all' -> TimerObjects]
    BY <1>0, <1>2, <1>3 DEF TimerObjects
  <1>5. sweep' \subseteq Ids
    BY <1>1 DEF Insert, IInv, TimersTypeOK
  <1>6. TimersTypeOK'
    <2>1. generated' \in 0 .. MaxTimers /\ all' \subseteq Ids
      BY <1>0, <1>1, <1>3
    <2>2. queued' \in [Queues -> SUBSET Ids]
      BY <1>0, <1>1, <1>2, <1>3
    <2>3. QED BY <1>3, <1>4, <1>5, <2>1, <2>2 DEF IInv, TimersTypeOK
  <1>7. QueuesExact'
    BY <1>0, <1>1, <1>2, <1>3 DEF IInv, QueuesExact, Queues
  <1>8. ControlInv'
    BY <1>0, <1>3 DEF IInv, ControlInv
  <1>9. QED BY <1>6, <1>7, <1>8 DEF IInv

\* Marking a timer inactive, by UnRegisterTimer or in the sweep.
LEMMA MarkPreserves ==
    ASSUME IInv, NEW t \in all,
           timer' = [timer EXCEPT ![t].active = FALSE],
           sweep' \subseteq Ids, exempt' \subseteq Ids,
           UNCHANGED <<generated, all, queued, shutting, place, cur, ticked, reg>>
    PROVE  IInv'
  <1>1. timer' \in [all -> TimerObjects]
    BY DEF IInv, TimersTypeOK, TimerObjects
  <1>2. \A u \in all : timer'[u].q = timer[u].q
    BY DEF IInv, TimersTypeOK, TimerObjects
  <1>3. \A q \in Queues : queued[q] \subseteq all
    BY DEF IInv, QueuesExact, Queues
  <1>4. QED BY <1>1, <1>2, <1>3 DEF IInv, TimersTypeOK, QueuesExact, ControlInv

\* One element of a queue is popped, and erased or taken in hand.
LEMMA PopPreserves ==
    ASSUME IInv, NEW q \in Queues, NEW t \in Ids, DropInactive(q, t) \/ Fire(q, t)
    PROVE  IInv'
  <1>0. /\ timer \in [all -> TimerObjects] /\ all \subseteq Ids
        /\ queued \in [Queues -> SUBSET Ids]
        /\ t \in queued[q] /\ place = q /\ cur = Nothing /\ reg = NoReg /\ t # Nothing
    BY DEF DropInactive, Fire, IsTop, IInv, TimersTypeOK, ControlInv, Queues, Ids, Nothing
  <1>1. t \in all /\ \A p \in Queues : p # q => t \notin queued[p]
    BY <1>0 DEF IInv, QueuesExact, Queues
  <1>2. CASE DropInactive(q, t)
    <2>1. timer' \in [all' -> TimerObjects] /\ \A u \in all' : timer'[u] = timer[u]
      BY <1>0, <1>2 DEF DropInactive, Without
    <2>2. TimersTypeOK'
      BY <1>0, <1>2, <2>1 DEF DropInactive, IInv, TimersTypeOK
    <2>3. QueuesExact'
      BY <1>0, <1>1, <1>2, <2>1 DEF DropInactive, IInv, QueuesExact, Queues
    <2>4. ControlInv'
      BY <1>0, <1>2 DEF DropInactive, IInv, ControlInv
    <2>5. QED BY <2>2, <2>3, <2>4 DEF IInv
  <1>3. CASE Fire(q, t)
    <2>1. TimersTypeOK'
      BY <1>0, <1>3 DEF Fire, IInv, TimersTypeOK
    <2>2. QueuesExact'
      BY <1>0, <1>1, <1>3 DEF Fire, IInv, QueuesExact, Queues
    <2>3. ControlInv'
      BY <1>0, <1>3 DEF Fire, IInv, ControlInv
    <2>4. QED BY <2>1, <2>2, <2>3 DEF IInv
  <1>4. QED BY <1>2, <1>3

\* The callback returns: the loop goes back into its queue, the one-shot goes.
LEMMA ReturnedPreserves ==
    ASSUME IInv, Returned
    PROVE  IInv'
  <1>0. /\ timer \in [all -> TimerObjects] /\ all \subseteq Ids
        /\ queued \in [Queues -> SUBSET Ids]
        /\ cur \in all /\ cur # Nothing /\ reg = NoReg
        /\ \A p \in Queues : cur \notin queued[p]
        /\ timer[cur].q \in Queues /\ timer[cur].d \in Int
    BY DurationsPositive
       DEF Returned, IInv, TimersTypeOK, ControlInv, QueuesExact, Queues, TimerObjects
  <1>1. CASE timer[cur].loop
    <2>1. /\ timer' = [timer EXCEPT ![cur].left = timer[cur].d]
          /\ queued' = [queued EXCEPT ![timer[cur].q] = @ \cup {cur}]
          /\ all' = all
      BY <1>1 DEF Returned
    <2>2. timer' \in [all -> TimerObjects] /\ \A u \in all : timer'[u].q = timer[u].q
      BY <1>0, <2>1 DEF TimerObjects
    <2>3. TimersTypeOK'
      BY <1>0, <2>1, <2>2 DEF Returned, IInv, TimersTypeOK, Queues
    <2>4. QueuesExact'
      BY <1>0, <2>1, <2>2 DEF Returned, IInv, QueuesExact, Queues, Nothing, Ids
    <2>5. ControlInv'
      BY <1>0, <2>1 DEF Returned, IInv, ControlInv, Queues
    <2>6. QED BY <2>3, <2>4, <2>5 DEF IInv
  <1>2. CASE ~timer[cur].loop
    <2>1. timer' = Without(cur) /\ queued' = queued /\ all' = all \ {cur}
      BY <1>2 DEF Returned
    <2>2. timer' \in [all' -> TimerObjects] /\ \A u \in all' : timer'[u] = timer[u]
      BY <1>0, <2>1 DEF Without
    <2>3. TimersTypeOK'
      BY <1>0, <2>1, <2>2 DEF Returned, IInv, TimersTypeOK, Queues
    <2>4. QueuesExact'
      BY <1>0, <2>1, <2>2 DEF Returned, IInv, QueuesExact, Queues, Nothing, Ids
    <2>5. ControlInv'
      BY <1>0, <2>1 DEF Returned, IInv, ControlInv, Queues
    <2>6. QED BY <2>3, <2>4, <2>5 DEF IInv
  <1>3. QED BY <1>1, <1>2

\* The clock moves every end time and nothing else.
LEMMA TickPreserves ==
    ASSUME IInv, Tick
    PROVE  IInv'
  <1>1. timer' \in [all -> TimerObjects]
    BY DEF Tick, IInv, TimersTypeOK, TimerObjects, Floor
  <1>2. \A u \in all : timer'[u].q = timer[u].q
    BY DEF Tick, IInv, TimersTypeOK, TimerObjects
  <1>3. \A q \in Queues : queued[q] \subseteq all
    BY DEF IInv, QueuesExact, Queues
  <1>4. QED BY <1>1, <1>2, <1>3 DEF Tick, IInv, TimersTypeOK, QueuesExact, ControlInv

LEMMA NextIInv == IInv /\ [Next]_vars => IInv'
  <1> SUFFICES ASSUME IInv, [Next]_vars PROVE IInv'
    OBVIOUS
  <1>1. CASE \E d \in Durations, lp \in BOOLEAN : LuaRegister(d, lp) \/ LuaRegisterSystem(d, lp)
    BY <1>1, RegisterPreserves DEF LuaRegister, LuaRegisterSystem, Queues
  <1>2. CASE Insert
    BY <1>2, InsertPreserves
  <1>3. ASSUME NEW t \in Ids, LuaUnRegister(t) PROVE IInv'
    BY <1>3, MarkPreserves DEF LuaUnRegister, UnRegisterTimer, IInv, TimersTypeOK
  <1>4. ASSUME NEW t \in Ids, Visit(t) PROVE IInv'
    <2>1. CASE t \in all /\ ~IsExpired(t)
      <3>1. sweep' \subseteq Ids /\ exempt' \subseteq Ids
        BY <1>4, <2>1 DEF Visit, IInv, TimersTypeOK
      <3>2. QED BY <1>4, <2>1, <3>1, MarkPreserves DEF Visit
    <2>2. CASE ~(t \in all /\ ~IsExpired(t))
      BY <1>4, <2>2 DEF Visit, IInv, TimersTypeOK, QueuesExact, ControlInv
    <2>3. QED BY <2>1, <2>2
  <1>5. CASE Update
    <2>1. CASE BeginUpdate
      BY <2>1 DEF BeginUpdate, IInv, TimersTypeOK, QueuesExact, ControlInv
    <2>2. ASSUME NEW q \in Queues, NEW t \in Ids, DropInactive(q, t) \/ Fire(q, t) PROVE IInv'
      BY <2>2, PopPreserves
    <2>3. ASSUME NEW q \in Queues, LeaveQueue(q) PROVE IInv'
      BY <2>3 DEF LeaveQueue, IInv, TimersTypeOK, QueuesExact, ControlInv, Queues
    <2>4. CASE Returned
      BY <2>4, ReturnedPreserves
    <2>5. QED BY <1>5, <2>1, <2>2, <2>3, <2>4 DEF Update
  <1>6. CASE EnterShutdownMode
    <2>1. exempt' \subseteq Ids
      BY <1>6, MaxTimersNat DEF EnterShutdownMode, IInv, TimersTypeOK, ControlInv, Ids
    <2>2. QED BY <1>6, <2>1 DEF EnterShutdownMode, IInv, TimersTypeOK, QueuesExact, ControlInv
  <1>7. CASE Tick
    BY <1>7, TickPreserves
  <1>8. CASE UNCHANGED vars
    BY <1>8 DEF vars, IInv, TimersTypeOK, QueuesExact, ControlInv
  <1>9. QED BY <1>1, <1>2, <1>3, <1>4, <1>5, <1>6, <1>7, <1>8 DEF Next

\* The invariant holds in every reachable state.
THEOREM Invariance == Spec => []IInv
  BY InitIInv, NextIInv, PTL DEF Spec

\* No queue ever holds a pointer to a timer that has been erased, and no timer
\* is forgotten, whatever callbacks and the shutdown do.
THEOREM QueuesAlwaysExact == Spec => []QueuesExact
  <1>1. IInv => QueuesExact
    BY DEF IInv
  <1>2. QED BY Invariance, <1>1, PTL

----------------------------------------------------------------------------
(* Timers implements TimerSpec.                                            *)

\* A step that changes the mode of no timer and does not start or end a callback
\* is a stutter of TimerSpec.
LEMMA SameModes ==
    ASSUME \A t \in Ids : Mode(t)' = Mode(t), cur' = cur
    PROVE  UNCHANGED Abstract!specVars
  BY DEF Abstract!specVars

\* A step that changes one mode.
LEMMA OneMode ==
    ASSUME NEW t \in Ids, NEW m, Mode(t)' = m, \A u \in Ids : u # t => Mode(u)' = Mode(u)
    PROVE  [u \in Ids |-> Mode(u)]' = [[u \in Ids |-> Mode(u)] EXCEPT ![t] = m]
  OBVIOUS

\* An insertion arms a timer.
LEMMA InsertArms ==
    ASSUME IInv, Insert
    PROVE  Abstract!Next
  <1>id. PICK id : id = generated + 1
    OBVIOUS
  <1>m. PICK m : m = IF reg.loop THEN "loop" ELSE "once"
    OBVIOUS
  <1>0. /\ generated \in 0 .. MaxTimers /\ generated < MaxTimers /\ MaxTimers \in Nat
        /\ all \subseteq 1 .. generated /\ Ids = 1 .. MaxTimers
        /\ cur \in all \cup {Nothing} /\ Nothing = 0
        /\ timer \in [all -> TimerObjects]
    BY MaxTimersNat DEF IInv, TimersTypeOK, ControlInv, QueuesExact, Insert, Ids, Nothing
  <1>1. id \in Ids /\ id # cur /\ id \notin all /\ Mode(id) = "unused"
    BY <1>0, <1>id DEF Mode
  <1>2. /\ generated' = id /\ all' = all \cup {id} /\ cur' = cur
        /\ timer'[id].loop = reg.loop /\ timer'[id].active = TRUE
        /\ \A u \in all : timer'[u] = timer[u]
    BY <1>1, <1>id DEF Insert
  <1>3. Mode(id)' = m
    BY <1>0, <1>1, <1>2, <1>id, <1>m DEF Mode
  <1>4. \A u \in Ids : u # id => Mode(u)' = Mode(u)
    BY <1>0, <1>2, <1>id DEF Mode
  <1>5. m \in {"once", "loop"}
    BY <1>m
  <1>6. Abstract!Arm(id, m)
    BY <1>1, <1>2, <1>3, <1>4, OneMode DEF Abstract!Arm
  <1>7. QED BY <1>1, <1>5, <1>6 DEF Abstract!Next

\* Marking a timer inactive disarms it, or it was off already.
LEMMA MarkDisarms ==
    ASSUME IInv, NEW t \in all,
           timer' = [timer EXCEPT ![t].active = FALSE],
           UNCHANGED <<generated, all, cur>>
    PROVE  [Abstract!Next]_Abstract!specVars
  <1>0. t \in Ids /\ timer \in [all -> TimerObjects] /\ t <= generated
        /\ generated \in Int /\ t \in Int
    BY MaxTimersNat DEF IInv, TimersTypeOK, ControlInv, Ids
  <1>1. \A u \in all : u # t => timer'[u] = timer[u]
    BY <1>0
  <1>2. timer'[t].active = FALSE /\ timer'[t].loop = timer[t].loop
    BY <1>0 DEF TimerObjects
  <1>3. Mode(t)' = "off" /\ Mode(t) \in {"off", "once", "loop"}
    BY <1>0, <1>2 DEF Mode
  <1>4. \A u \in Ids : u # t => Mode(u)' = Mode(u)
    BY <1>1 DEF Mode
  <1>5. CASE Mode(t) = "off"
    BY <1>3, <1>4, <1>5, SameModes
  <1>6. CASE Mode(t) \in {"once", "loop"}
    <2>1. Abstract!Disarm(t)
      BY <1>0, <1>3, <1>4, <1>6, OneMode DEF Abstract!Disarm
    <2>2. QED BY <1>0, <2>1 DEF Abstract!Next
  <1>7. QED BY <1>3, <1>5, <1>6

\* Dropping an inactive timer changes nothing for its user.
LEMMA DropStutters ==
    ASSUME IInv, NEW q \in Queues, NEW t \in Ids, DropInactive(q, t)
    PROVE  UNCHANGED Abstract!specVars
  <1>0. /\ timer \in [all -> TimerObjects] /\ t \in all /\ t <= generated
        /\ generated \in Int /\ t \in Int
    BY MaxTimersNat
       DEF DropInactive, IsTop, IInv, TimersTypeOK, QueuesExact, ControlInv, Queues, Ids
  <1>1. all' = all \ {t} /\ generated' = generated /\ cur' = cur /\ ~timer[t].active
        /\ \A u \in all' : timer'[u] = timer[u]
    BY DEF DropInactive, Without
  <1>2. \A u \in Ids : Mode(u)' = Mode(u)
    BY <1>0, <1>1 DEF Mode
  <1>3. QED BY <1>1, <1>2, SameModes

\* Update calls a callback only of a timer that is armed, and one at a time.
LEMMA FireFires ==
    ASSUME IInv, NEW q \in Queues, NEW t \in Ids, Fire(q, t)
    PROVE  Abstract!Next
  <1>0. /\ timer \in [all -> TimerObjects] /\ t \in all /\ t <= generated
        /\ generated \in Int /\ t \in Int /\ cur = Nothing /\ t # Nothing
        /\ all \subseteq Ids /\ Nothing \notin Ids
    BY MaxTimersNat
       DEF Fire, IsTop, IInv, TimersTypeOK, QueuesExact, ControlInv, Queues, Ids, Nothing
  <1>1. cur' = t /\ timer' = timer /\ all' = all /\ generated' = generated /\ timer[t].active
    BY DEF Fire
  <1>2. Mode(t) = IF timer[t].loop THEN "loop" ELSE "once"
    BY <1>0, <1>1 DEF Mode
  <1>3. Mode(t)' = IF Mode(t) = "once" THEN "off" ELSE Mode(t)
    BY <1>0, <1>1, <1>2 DEF Mode
  <1>4. \A u \in Ids : u # t => Mode(u)' = Mode(u)
    BY <1>0, <1>1 DEF Mode
  <1>5. Abstract!Fire(t)
    BY <1>0, <1>1, <1>2, <1>3, <1>4, OneMode DEF Abstract!Fire
  <1>6. QED BY <1>5 DEF Abstract!Next

\* What happens after a callback is its end, and nothing else.
LEMMA ReturnedReturns ==
    ASSUME IInv, Returned
    PROVE  Abstract!Next
  <1>0. /\ timer \in [all -> TimerObjects] /\ cur \in all /\ cur \in Ids /\ cur <= generated
        /\ cur # Nothing /\ Nothing \notin Ids /\ all \subseteq Ids
        /\ generated \in Int /\ cur \in Int
    BY MaxTimersNat
       DEF Returned, IInv, TimersTypeOK, QueuesExact, ControlInv, Queues, Ids, Nothing
  <1>1. cur' = Nothing /\ generated' = generated
    BY DEF Returned
  <1>2. \A u \in Ids : Mode(u)' = Mode(u)
    <2>1. CASE timer[cur].loop
      <3>1. all' = all /\ timer' = [timer EXCEPT ![cur].left = timer[cur].d]
        BY <2>1 DEF Returned
      <3>2. \A u \in all : timer'[u].loop = timer[u].loop /\ timer'[u].active = timer[u].active
        BY <1>0, <3>1 DEF TimerObjects
      <3>3. QED BY <1>0, <1>1, <2>1, <3>1, <3>2 DEF Mode
    <2>2. CASE ~timer[cur].loop
      <3>1. all' = all \ {cur} /\ \A u \in all' : timer'[u] = timer[u]
        BY <2>2 DEF Returned, Without
      <3>2. QED BY <1>0, <1>1, <2>2, <3>1 DEF Mode
    <2>3. QED BY <2>1, <2>2
  <1>3. Abstract!Return(cur)
    BY <1>1, <1>2 DEF Abstract!Return
  <1>4. QED BY <1>0, <1>3 DEF Abstract!Next

LEMMA TickStutters ==
    ASSUME IInv, Tick
    PROVE  UNCHANGED Abstract!specVars
  <1>1. /\ all' = all /\ generated' = generated /\ cur' = cur
        /\ \A u \in all : timer'[u].loop = timer[u].loop /\ timer'[u].active = timer[u].active
    BY DEF Tick, IInv, TimersTypeOK, TimerObjects
  <1>2. \A u \in Ids : Mode(u)' = Mode(u)
    BY <1>1 DEF Mode
  <1>3. QED BY <1>1, <1>2, SameModes

LEMMA NextRefines == IInv /\ [Next]_vars => [Abstract!Next]_Abstract!specVars
  <1> SUFFICES ASSUME IInv, [Next]_vars PROVE [Abstract!Next]_Abstract!specVars
    OBVIOUS
  <1> DEFINE Same == UNCHANGED <<generated, all, timer, cur>>
  <1>0. ASSUME Same PROVE UNCHANGED Abstract!specVars
    <2>1. \A u \in Ids : Mode(u)' = Mode(u)
      BY <1>0 DEF Mode
    <2>2. QED BY <1>0, <2>1, SameModes
  <1>1. CASE \E d \in Durations, lp \in BOOLEAN : LuaRegister(d, lp) \/ LuaRegisterSystem(d, lp)
    BY <1>0, <1>1 DEF LuaRegister, LuaRegisterSystem, RegisterTimer
  <1>2. CASE Insert
    BY <1>2, InsertArms
  <1>3. ASSUME NEW t \in Ids, LuaUnRegister(t) PROVE [Abstract!Next]_Abstract!specVars
    BY <1>3, MarkDisarms DEF LuaUnRegister, UnRegisterTimer
  <1>4. ASSUME NEW t \in Ids, Visit(t) PROVE [Abstract!Next]_Abstract!specVars
    <2>1. CASE t \in all /\ ~IsExpired(t)
      BY <1>4, <2>1, MarkDisarms DEF Visit
    <2>2. CASE ~(t \in all /\ ~IsExpired(t))
      BY <1>0, <1>4, <2>2 DEF Visit
    <2>3. QED BY <2>1, <2>2
  <1>5. CASE Update
    <2>1. CASE BeginUpdate
      BY <1>0, <2>1 DEF BeginUpdate
    <2>2. ASSUME NEW q \in Queues, NEW t \in Ids, DropInactive(q, t) \/ Fire(q, t)
          PROVE  [Abstract!Next]_Abstract!specVars
      BY <2>2, DropStutters, FireFires
    <2>3. ASSUME NEW q \in Queues, LeaveQueue(q) PROVE [Abstract!Next]_Abstract!specVars
      BY <1>0, <2>3 DEF LeaveQueue
    <2>4. CASE Returned
      BY <2>4, ReturnedReturns
    <2>5. QED BY <1>5, <2>1, <2>2, <2>3, <2>4 DEF Update
  <1>6. CASE EnterShutdownMode
    BY <1>0, <1>6 DEF EnterShutdownMode
  <1>7. CASE Tick
    BY <1>7, TickStutters
  <1>8. CASE UNCHANGED vars
    BY <1>0, <1>8 DEF vars
  <1>9. QED BY <1>1, <1>2, <1>3, <1>4, <1>5, <1>6, <1>7, <1>8 DEF Next

\* Whatever callbacks register and unregister while Update walks its queues, and
\* whenever the shutdown cancels, the users of TimerManager see TimerSpec: every
\* step of Timers is one of it or changes nothing for them.
THEOREM Implements == Spec => ImplementsTimerSpec
  <1>1. Init => Abstract!Init
    BY MaxTimersNat DEF Init, Abstract!Init, Mode, Ids, Nothing
  <1>2. QED BY <1>1, NextRefines, Invariance, PTL DEF Spec, ImplementsTimerSpec, Abstract!Spec

----------------------------------------------------------------------------
(***************************************************************************)
(* The shutdown of the process, which composes the workers and the pool.   *)
(*                                                                         *)
(* The phases are driven by one thread, once and in order, whoever asks    *)
(* for the shutdown, and no worker closes its queue before the pool has    *)
(* been joined.                                                            *)
(***************************************************************************)
\* Where a driver is while it is inside AdvancePhase, in its loop or in the
\* callback of a phase.
Advancing == {"load", "store", "notify", "frame", "poolstop", "pooljoin", "mode", "poll",
              "own", "clean", "await", "uninit", "next", "more", "leave"}
Driving == Advancing \cup {"advance"}

\* Nobody has entered AdvancePhase yet.
Untouched == ~advancing /\ ran = <<>> /\ phase \in {"Normal", "Done"}

\* The compare-exchange admits one thread, once: there is never a second driver.
DriverInv ==
    /\ \A t, u \in Drivers : pc[t] \in Driving /\ pc[u] \in Driving => t = u
    /\ \A t \in Drivers : pc[t] \in Driving => requested
    /\ \A t \in Drivers : pc[t] \in Advancing => advancing
    /\ \A t \in Drivers : pc[t] = "advance" => Untouched
    /\ ~requested => Untouched

\* current_phase_ is one ahead of the callbacks that have been called, unless
\* ForceShutdown has stored Done, and between the store and the callback two.
OrderInv ==
    /\ Len(ran) <= 4
    /\ \A i \in 1 .. Len(ran) : ran[i] = Phases[i + 1]
    /\ \A t \in Drivers : pc[t] \in Advancing \ {"store", "notify"} =>
           phase \in {Phases[Len(ran) + 1], "Done"}
    /\ \A t \in Drivers : pc[t] \in {"store", "notify"} => current[t] = Phases[Len(ran) + 1]
    /\ \A t \in Drivers : pc[t] = "notify" => phase \in {Phases[Len(ran) + 2], "Done"}

\* A driver that runs a worker's code, or waits for its cleanup, has it at the
\* head of the list.
VisitInv ==
    \A t \in Drivers :
        /\ exec[t] # Nobody => pc[t] \in {"frame", "own"} /\ todo # <<>>
        /\ pc[t] = "await" => todo # <<>>

\* A pool thread posts from inside a job only, and a joined one has none.
PoolThreadInv ==
    /\ running <=> stopping = "no"
    /\ \A t \in PoolThreads : job[t] # NoJob <=> thread[t] \in {"busy", "draining"}
    /\ \A t \in PoolThreads : posting[t] # W!Idle => job[t] # NoJob
    /\ stopping = "joined" => \A t \in PoolThreads : thread[t] = "exited"

\* The queues are closed after the pool has been joined.
ModeInv ==
    /\ \A t \in Drivers : pc[t] = "mode" => stopping = "joined"
    /\ \A w \in Workers : shutting_down[w] => stopping = "joined"

\* The worker that waits for a job is known from the moment Execute is called.
OwnerInv ==
    /\ \A w \in Normals : submitting[w].pc # "out" => owner[submitting[w].j] \in Normals
    /\ \A j \in queue : owner[j] \in Normals
    /\ \A t \in PoolThreads : job[t] # NoJob => owner[job[t]] \in Normals

\* The submitters between pending_.fetch_add and the enqueue.
SubmittersIn == {w \in Normals : submitting[w].pc = "enqueue"}

\* pending_ never falls below the jobs that are queued or about to be.
PendInv == pend >= Cardinality(queue) + Cardinality(SubmittersIn)

ShutdownInv ==
    /\ ShutdownConstants
    /\ ShutdownTypeOK
    /\ DriverInv /\ OrderInv /\ VisitInv
    /\ PoolThreadInv /\ ModeInv /\ OwnerInv /\ PendInv

----------------------------------------------------------------------------
(* Facts used by every step.                                               *)

\* The phases, one by one, and the next one of each.
LEMMA PhaseFacts ==
    /\ Phases[1] = "Normal" /\ Phases[2] = "StoppingIO" /\ Phases[3] = "CompletingTimers"
    /\ Phases[4] = "ProcessingTasks" /\ Phases[5] = "Cleaning" /\ Phases[6] = "Done"
    /\ Len(Phases) = 6
    /\ ShutdownPhase = {"Normal", "StoppingIO", "CompletingTimers", "ProcessingTasks",
                        "Cleaning", "Done"}
  <1>1. /\ Phases[1] = "Normal" /\ Phases[2] = "StoppingIO" /\ Phases[3] = "CompletingTimers"
        /\ Phases[4] = "ProcessingTasks" /\ Phases[5] = "Cleaning" /\ Phases[6] = "Done"
        /\ Len(Phases) = 6
    BY DEF Phases
  <1>2. 1 .. 6 = {1, 2, 3, 4, 5, 6}
    OBVIOUS
  <1>3. ShutdownPhase = {"Normal", "StoppingIO", "CompletingTimers", "ProcessingTasks",
                         "Cleaning", "Done"}
    BY <1>1, <1>2 DEF ShutdownPhase
  <1>4. QED BY <1>1, <1>3

LEMMA SuccFacts ==
    ASSUME NEW i \in 1 .. 5
    PROVE  /\ Phases[i] # "Done" /\ Phases[i] \in ShutdownPhase
           /\ Succ(Phases[i]) = Phases[i + 1] /\ Phases[i + 1] \in ShutdownPhase
           /\ Phases[i] = "Cleaning" <=> i = 5
  <1>1. i \in {1, 2, 3, 4, 5}
    OBVIOUS
  <1>2. \A k \in 1 .. 5 : Phases[k] = Phases[i] => k = i
    <2>1. ASSUME NEW k \in 1 .. 5, Phases[k] = Phases[i] PROVE k = i
      <3>1. k \in {1, 2, 3, 4, 5}
        OBVIOUS
      <3>2. QED BY <1>1, <2>1, <3>1, PhaseFacts
    <2>2. QED BY <2>1
  <1>3. (CHOOSE k \in 1 .. 5 : Phases[k] = Phases[i]) = i
    BY <1>2
  <1>4. QED BY <1>1, <1>3, PhaseFacts DEF Succ

\* The phase before Done is the fifth.
LEMMA LastPhase ==
    ASSUME NEW n \in Nat, n <= 4, Phases[n + 1] = "Cleaning"
    PROVE  n = 4
  <1>1. n + 1 \in 1 .. 5
    OBVIOUS
  <1>2. Phases[n + 1] = "Cleaning" <=> n + 1 = 5
    BY <1>1, SuccFacts
  <1>3. QED BY <1>2

\* A poster is idle or has a record with a worker and a task.
LEMMA PosterStates ==
    ASSUME NEW x \in W!PostState
    PROVE  /\ x = W!Idle <=> x.pc = "idle"
           /\ x.pc \in {"idle", "check", "enqueue"}
           /\ x # W!Idle => x.w \in Workers /\ x.t \in Tasks
  BY DEF W!PostState, W!Idle

\* A submitter is outside Execute or has a record with a job.
LEMMA SubmitterStates ==
    ASSUME NEW x \in {P!Outside} \cup [pc : {"check", "enqueue"}, j : Jobs]
    PROVE  /\ x = P!Outside <=> x.pc = "out"
           /\ x.pc \in {"out", "check", "enqueue"}
           /\ x # P!Outside => x.j \in Jobs
  BY DEF P!Outside

\* The lists that the callbacks go through.
LEMMA VisitLists ==
    ASSUME ShutdownConstants
    PROVE  Order \in Seq(Workers) /\ NormalSeq \in Seq(Workers) /\ <<>> \in Seq(Workers)
  <1>1. NormalSeq \in Seq(Workers)
    BY DEF ShutdownConstants, Workers
  <1>2. <<MainWorker>> \in Seq(Workers)
    BY DEF Workers
  <1>3. QED BY <1>1, <1>2 DEF Order

\* The sets that pending_ counts are finite.
LEMMA PendingFinite ==
    ASSUME ShutdownConstants, ShutdownTypeOK
    PROVE  /\ IsFiniteSet(queue) /\ IsFiniteSet(SubmittersIn)
           /\ Cardinality(queue) \in Nat /\ Cardinality(SubmittersIn) \in Nat
  <1>1. IsFiniteSet(1 .. Len(NormalSeq))
    BY FS_Interval DEF ShutdownConstants
  <1>2. IsFiniteSet(Normals)
    <2>1. NormalSeq \in Surjection(1 .. Len(NormalSeq), Normals)
      BY DEF Surjection, ShutdownConstants, Normals
    <2>2. QED BY <1>1, <2>1, FS_Surjection
  <1>3. queue \subseteq Jobs /\ SubmittersIn \subseteq Normals
    BY DEF ShutdownTypeOK, P!PoolTypeOK, SubmittersIn
  <1>4. IsFiniteSet(Jobs)
    BY DEF ShutdownConstants, IsFiniteSet, IsFiniteSet
  <1>5. IsFiniteSet(queue) /\ IsFiniteSet(SubmittersIn)
    BY <1>2, <1>3, <1>4, FS_Subset
  <1>6. QED BY <1>5, FS_CardinalityType

LEMMA InitKeeps == ShutdownInit => ShutdownInv
  <1> SUFFICES ASSUME ShutdownInit PROVE ShutdownInv
    OBVIOUS
  <1>0. ShutdownConstants
    BY ShutdownAssumption
  <1> USE DEF ShutdownInit, P!PoolInit
  <1>1. ShutdownTypeOK
    <2>1. W!WorkerTypeOK
      BY DEF W!WorkerTypeOK, W!PostState
    <2>2. P!PoolTypeOK
      BY DEF P!PoolTypeOK
    <2>3. pc \in [Drivers -> PC] /\ current \in [Drivers -> ShutdownPhase]
      BY PhaseFacts DEF PC
    <2>4. todo \in Seq(Workers) /\ ran \in Seq(ShutdownPhase)
      OBVIOUS
    <2>5. QED BY <2>1, <2>2, <2>3, <2>4, PhaseFacts DEF ShutdownTypeOK
  <1>2. queue = {} /\ SubmittersIn = {} /\ Cardinality({}) = 0
    BY FS_EmptySet DEF SubmittersIn, P!Outside
  <1>3. PendInv /\ OwnerInv
    BY <1>2 DEF PendInv, OwnerInv, P!Outside
  <1>4. \A t \in Drivers : pc[t] \in {"loop", "out"}
    OBVIOUS
  <1>5. DriverInv /\ OrderInv
    BY <1>4 DEF DriverInv, OrderInv, Driving, Advancing, Untouched
  <1>6. VisitInv /\ PoolThreadInv /\ ModeInv
    BY <1>4 DEF VisitInv, PoolThreadInv, ModeInv, Threads
  <1>7. QED BY <1>0, <1>1, <1>3, <1>5, <1>6 DEF ShutdownInv

----------------------------------------------------------------------------
(* What a step leaves alone.                                               *)

\* A step that touches neither the pool nor a post nor an owner.
LEMMA PoolLeftAlone ==
    ASSUME ShutdownInv, UNCHANGED <<poolVars, posting, owner>>
    PROVE  P!PoolTypeOK' /\ PoolThreadInv' /\ OwnerInv' /\ PendInv'
  <1> USE DEF ShutdownInv, poolVars
  <1>1. P!PoolTypeOK'
    BY DEF ShutdownTypeOK, P!PoolTypeOK
  <1>2. PoolThreadInv' /\ OwnerInv'
    BY DEF PoolThreadInv, OwnerInv
  <1>3. SubmittersIn' = SubmittersIn
    BY DEF SubmittersIn
  <1>4. PendInv'
    BY <1>3 DEF PendInv
  <1>5. QED BY <1>1, <1>2, <1>4

\* A step of a worker, a pool or an IO thread: no driver moves.
LEMMA DriversLeftAlone ==
    ASSUME ShutdownInv, UNCHANGED <<app, mgrVars, drvVars>>,
           \A t \in Drivers : exec'[t] = exec[t]
    PROVE  DriverInv' /\ OrderInv' /\ VisitInv'
  <1> USE DEF ShutdownInv, mgrVars, drvVars
  <1>1. DriverInv'
    BY DEF DriverInv, Untouched
  <1>2. OrderInv'
    BY DEF OrderInv
  <1>3. VisitInv'
    BY DEF VisitInv
  <1>4. QED BY <1>1, <1>2, <1>3

\* A driver goes from one place of its callback, or of the loop of AdvancePhase,
\* to another.
LEMMA DriverGoesOn ==
    ASSUME ShutdownInv, NEW t \in Drivers, NEW l,
           pc[t] \in Advancing \ {"store", "notify"}, l \in Advancing \ {"store", "notify"},
           pc' = [pc EXCEPT ![t] = l],
           UNCHANGED <<requested, advancing, phase, ran, current>>
    PROVE  DriverInv' /\ OrderInv'
  <1> USE DEF ShutdownInv
  <1>1. pc'[t] = l /\ \A u \in Drivers : u # t => pc'[u] = pc[u]
    BY DEF ShutdownTypeOK
  <1>2. l \in Driving /\ pc[t] \in Driving /\ l # "advance"
    BY DEF Driving, Advancing
  <1>3. DriverInv'
    BY <1>1, <1>2 DEF DriverInv, Untouched
  <1>4. OrderInv'
    BY <1>1 DEF OrderInv
  <1>5. QED BY <1>3, <1>4

\* A thread moves outside AdvancePhase.
LEMMA OutsiderMoves ==
    ASSUME ShutdownInv, NEW t \in Drivers, NEW l, pc[t] \notin Driving, l \notin Driving,
           pc' = [pc EXCEPT ![t] = l],
           UNCHANGED <<requested, advancing, phase, ran, current>>
    PROVE  DriverInv' /\ OrderInv'
  <1> USE DEF ShutdownInv
  <1>1. pc'[t] = l /\ \A u \in Drivers : u # t => pc'[u] = pc[u]
    BY DEF ShutdownTypeOK
  <1>2. l \notin Advancing /\ l \notin {"advance", "store", "notify"}
    BY DEF Driving, Advancing
  <1>3. DriverInv'
    BY <1>1, <1>2 DEF DriverInv, Untouched
  <1>4. OrderInv'
    BY <1>1, <1>2 DEF OrderInv
  <1>5. QED BY <1>3, <1>4

\* A step that touches no worker.
LEMMA WorkersLeftAlone ==
    ASSUME ShutdownInv, UNCHANGED workerVars
    PROVE  W!WorkerTypeOK'
  BY DEF ShutdownInv, ShutdownTypeOK, W!WorkerTypeOK, workerVars

----------------------------------------------------------------------------
(* ShutdownManager and the main thread: steps that touch no worker and no  *)
(* pool thread.                                                            *)

\* What such a step leaves: the types of pc, of the phase and of the local
\* variables, and that no driver closes queues before the pool is joined.
LEMMA ManagerFrame ==
    ASSUME ShutdownInv, ShutdownConstants,
           UNCHANGED <<workerVars, poolVars, app, handler, runVars>>,
           pc' \in [Drivers -> PC], current' \in [Drivers -> ShutdownPhase],
           phase' \in ShutdownPhase, todo' \in Seq(Workers), ran' \in Seq(ShutdownPhase),
           requested' \in BOOLEAN, advancing' \in BOOLEAN, pending_advance' \in BOOLEAN,
           forced' \in BOOLEAN,
           \A t \in Drivers : pc'[t] # "mode" \/ pc'[t] = pc[t],
           DriverInv' /\ OrderInv' /\ VisitInv'
    PROVE  ShutdownInv'
  <1> USE DEF workerVars, runVars, poolVars
  <1>1. W!WorkerTypeOK' /\ P!PoolTypeOK' /\ PoolThreadInv' /\ OwnerInv' /\ PendInv'
    BY WorkersLeftAlone, PoolLeftAlone
  <1>2. ShutdownTypeOK'
    BY <1>1 DEF ShutdownInv, ShutdownTypeOK
  <1>3. ModeInv'
    BY DEF ShutdownInv, ModeInv
  <1>4. QED BY <1>1, <1>2, <1>3 DEF ShutdownInv

\* A step that moves one thread, to a place where it runs no worker's code.
LEMMA GotoKeeps ==
    ASSUME ShutdownInv, NEW t \in Drivers, NEW l \in PC \ {"mode", "await", "frame", "own"},
           exec[t] = Nobody, pc' = [pc EXCEPT ![t] = l],
           UNCHANGED <<exec, todo>>
    PROVE  /\ pc' \in [Drivers -> PC]
           /\ \A u \in Drivers : pc'[u] # "mode" \/ pc'[u] = pc[u]
           /\ VisitInv'
  <1>1. pc' \in [Drivers -> PC]
    BY DEF ShutdownInv, ShutdownTypeOK
  <1>2. pc'[t] = l /\ \A u \in Drivers : u # t => pc'[u] = pc[u]
    BY DEF ShutdownInv, ShutdownTypeOK
  <1>3. VisitInv'
    BY <1>2 DEF ShutdownInv, VisitInv
  <1>4. QED BY <1>1, <1>2, <1>3

\* A thread that is in no callback runs no worker's code.
LEMMA RunsNothing ==
    ASSUME ShutdownInv, NEW t \in Drivers, pc[t] \notin {"frame", "own"}
    PROVE  exec[t] = Nobody
  BY DEF ShutdownInv, VisitInv

\* A signal arrives, or the main thread goes its way to WaitForShutdown.
LEMMA OutsideKeeps ==
    ASSUME ShutdownInv, NEW t \in Drivers, NEW l \in PC, pc[t] \notin Driving, l \notin Driving,
           pc' = [pc EXCEPT ![t] = l],
           UNCHANGED <<workerVars, poolVars, app, mgrVars, current, todo, ran, handler,
                       runVars>>
    PROVE  ShutdownInv'
  <1> USE DEF mgrVars, runVars
  <1>1. l \in PC \ {"mode", "await", "frame", "own"} /\ exec[t] = Nobody
    BY RunsNothing DEF Driving, Advancing
  <1>2. /\ pc' \in [Drivers -> PC] /\ VisitInv'
        /\ \A u \in Drivers : pc'[u] # "mode" \/ pc'[u] = pc[u]
    BY <1>1, GotoKeeps
  <1>3. DriverInv' /\ OrderInv'
    BY OutsiderMoves
  <1>4. ShutdownConstants /\ ShutdownTypeOK
    BY DEF ShutdownInv
  <1>5. QED BY <1>2, <1>3, <1>4, ManagerFrame DEF ShutdownTypeOK

LEMMA ShutdownCasKeeps ==
    ASSUME ShutdownInv, NEW t \in Drivers, ShutdownCas(t)
    PROVE  ShutdownInv'
  <1> DEFINE l == IF requested THEN Return(t) ELSE "advance"
  <1> USE DEF ShutdownCas, Goto
  <1>1. l \in PC \ {"mode", "await", "frame", "own"} /\ l \notin Advancing
    BY DEF Return, PC, Advancing
  <1>2. exec[t] = Nobody /\ exec' = exec
    BY RunsNothing DEF runVars
  <1>3. /\ pc' \in [Drivers -> PC] /\ VisitInv'
        /\ \A u \in Drivers : pc'[u] # "mode" \/ pc'[u] = pc[u]
    BY <1>1, <1>2, GotoKeeps
  <1>4. pc'[t] = l /\ \A u \in Drivers : u # t => pc'[u] = pc[u]
    BY DEF ShutdownInv, ShutdownTypeOK
  <1>5. requested => l \notin Driving
    BY <1>1 DEF Driving, Return
  <1>6. DriverInv'
    <2>1. CASE requested
      BY <1>4, <1>5, <2>1 DEF ShutdownInv, DriverInv, Untouched, Driving
    <2>2. CASE ~requested
      BY <1>1, <1>4, <2>2 DEF ShutdownInv, DriverInv, Untouched, Driving
    <2>3. QED BY <2>1, <2>2
  <1>7. OrderInv'
    <2>1. l \notin {"store", "notify"}
      BY <1>1 DEF Advancing
    <2>2. QED BY <1>1, <1>4, <2>1 DEF ShutdownInv, OrderInv
  <1>8. ShutdownConstants /\ ShutdownTypeOK
    BY DEF ShutdownInv
  <1>9. QED BY <1>3, <1>6, <1>7, <1>8, ManagerFrame DEF ShutdownTypeOK

LEMMA EnterAdvanceKeeps ==
    ASSUME ShutdownInv, NEW t \in Drivers, EnterAdvance(t)
    PROVE  ShutdownInv'
  <1> USE DEF EnterAdvance, Goto
  <1>1. exec[t] = Nobody /\ exec' = exec
    BY RunsNothing DEF runVars
  <1>2. ShutdownConstants /\ ShutdownTypeOK
    BY DEF ShutdownInv
  <1>3. advancing' \in BOOLEAN /\ pending_advance' \in BOOLEAN
    BY <1>2 DEF ShutdownTypeOK
  <1>4. CASE pc[t] = "next"
    <2>1. advancing /\ advancing' = advancing /\ pc' = [pc EXCEPT ![t] = "more"]
      BY <1>2, <1>4 DEF ShutdownInv, DriverInv, Advancing
    <2>2. DriverInv' /\ OrderInv'
      BY <1>4, <2>1, DriverGoesOn DEF Advancing
    <2>3. /\ pc' \in [Drivers -> PC] /\ VisitInv'
          /\ \A u \in Drivers : pc'[u] # "mode" \/ pc'[u] = pc[u]
      BY <1>1, <2>1, GotoKeeps DEF PC
    <2>4. QED BY <1>2, <1>3, <2>2, <2>3, ManagerFrame DEF ShutdownTypeOK
  <1>5. CASE pc[t] = "advance"
    <2>1. Untouched /\ requested /\ advancing' = TRUE /\ pc' = [pc EXCEPT ![t] = "load"]
      BY <1>5 DEF ShutdownInv, DriverInv, Untouched, Driving
    <2>2. pc'[t] = "load" /\ \A u \in Drivers : u # t => pc'[u] = pc[u] /\ pc[u] \notin Driving
      BY <1>2, <1>5, <2>1 DEF ShutdownTypeOK, ShutdownInv, DriverInv, Driving
    <2>3. DriverInv'
      BY <2>1, <2>2 DEF ShutdownInv, DriverInv, Driving
    <2>4. OrderInv'
      <3>1. Len(ran) = 0 /\ phase \in {Phases[Len(ran) + 1], "Done"}
        BY <2>1, PhaseFacts DEF Untouched
      <3>2. QED BY <2>2, <3>1 DEF OrderInv, Driving, Advancing
    <2>5. /\ pc' \in [Drivers -> PC] /\ VisitInv'
          /\ \A u \in Drivers : pc'[u] # "mode" \/ pc'[u] = pc[u]
      BY <1>1, <2>1, GotoKeeps DEF PC
    <2>6. QED BY <1>2, <1>3, <2>3, <2>4, <2>5, ManagerFrame DEF ShutdownTypeOK
  <1>6. QED BY <1>4, <1>5

LEMMA LoadPhaseKeeps ==
    ASSUME ShutdownInv, NEW t \in Drivers, LoadPhase(t)
    PROVE  ShutdownInv'
  <1> DEFINE l == IF phase = "Done" THEN "leave" ELSE "store"
  <1> USE DEF LoadPhase, Goto, mgrVars
  <1>1. exec[t] = Nobody /\ exec' = exec
    BY RunsNothing DEF runVars
  <1>2. ShutdownConstants /\ ShutdownTypeOK
    BY DEF ShutdownInv
  <1>3. /\ pc'[t] = l /\ l \in {"leave", "store"} /\ current'[t] = phase
        /\ \A u \in Drivers : u # t => pc'[u] = pc[u] /\ current'[u] = current[u] /\ pc[u] \notin Driving
    BY <1>2 DEF ShutdownTypeOK, ShutdownInv, DriverInv, Driving, Advancing
  <1>4. DriverInv'
    BY <1>3 DEF ShutdownInv, DriverInv, Untouched, Driving, Advancing
  <1>5. OrderInv'
    <2>1. phase \in {Phases[Len(ran) + 1], "Done"}
      BY DEF ShutdownInv, OrderInv, Advancing
    <2>2. QED BY <1>3, <2>1 DEF ShutdownInv, OrderInv, Driving, Advancing
  <1>6. /\ pc' \in [Drivers -> PC] /\ VisitInv'
        /\ \A u \in Drivers : pc'[u] # "mode" \/ pc'[u] = pc[u]
    BY <1>1, GotoKeeps DEF PC
  <1>7. current' \in [Drivers -> ShutdownPhase]
    BY <1>2 DEF ShutdownTypeOK
  <1>8. QED BY <1>2, <1>4, <1>5, <1>6, <1>7, ManagerFrame DEF ShutdownTypeOK

LEMMA StorePhaseKeeps ==
    ASSUME ShutdownInv, NEW t \in Drivers, StorePhase(t)
    PROVE  ShutdownInv'
  <1> USE DEF StorePhase, Goto
  <1>1. exec[t] = Nobody /\ exec' = exec
    BY RunsNothing DEF runVars
  <1>2. ShutdownConstants /\ ShutdownTypeOK
    BY DEF ShutdownInv
  <1>3. /\ pc'[t] = "notify"
        /\ \A u \in Drivers : u # t => pc'[u] = pc[u] /\ pc[u] \notin Driving
    BY <1>2 DEF ShutdownTypeOK, ShutdownInv, DriverInv, Driving, Advancing
  <1>4. Len(ran) \in Nat /\ Len(ran) <= 4 /\ current[t] = Phases[Len(ran) + 1]
    BY <1>2 DEF ShutdownInv, OrderInv, ShutdownTypeOK
  <1>5. phase' = Phases[Len(ran) + 2] /\ phase' \in ShutdownPhase
    BY <1>4, SuccFacts
  <1>6. DriverInv'
    BY <1>3 DEF ShutdownInv, DriverInv, Untouched, Driving, Advancing
  <1>7. OrderInv'
    BY <1>3, <1>4, <1>5 DEF ShutdownInv, OrderInv, Driving, Advancing
  <1>8. /\ pc' \in [Drivers -> PC] /\ VisitInv'
        /\ \A u \in Drivers : pc'[u] # "mode" \/ pc'[u] = pc[u]
    BY <1>1, GotoKeeps DEF PC
  <1>9. QED BY <1>2, <1>5, <1>6, <1>7, <1>8, ManagerFrame DEF ShutdownTypeOK

\* The callback of the phase begins: one more entry of ran, none at Done.
LEMMA NotifyKeeps ==
    ASSUME ShutdownInv, NEW t \in Drivers, Notify(t)
    PROVE  ShutdownInv'
  <1> USE DEF Notify, mgrVars
  <1>1. exec[t] = Nobody /\ exec' = exec
    BY RunsNothing DEF runVars
  <1>2. ShutdownConstants /\ ShutdownTypeOK
    BY DEF ShutdownInv
  <1>3. /\ CallbackOf(current[t]) \in {"next", "frame", "poolstop", "own", "more"}
        /\ CallbackOf(current[t]) \in PC
    BY DEF CallbackOf, PC
  <1>4. /\ pc'[t] = CallbackOf(current[t])
        /\ \A u \in Drivers : u # t => /\ pc[u] \notin Driving /\ pc'[u] \in {pc[u], "pred"}
                                       /\ pc[u] \in PC
    BY <1>2 DEF ShutdownTypeOK, ShutdownInv, DriverInv, Driving, Advancing
  <1>5. \A u \in Drivers : u # t => pc'[u] \notin Driving /\ pc'[u] \in PC
    BY <1>4 DEF Driving, Advancing, PC
  <1>6. pc' \in [Drivers -> PC]
    BY <1>3, <1>4, <1>5
  <1>7. DriverInv'
    BY <1>3, <1>4, <1>5 DEF ShutdownInv, DriverInv, Untouched, Driving, Advancing
  <1>8. /\ Len(ran) \in Nat /\ Len(ran) <= 4 /\ current[t] = Phases[Len(ran) + 1]
        /\ phase \in {Phases[Len(ran) + 2], "Done"}
        /\ ran \in Seq(ShutdownPhase)
    BY <1>2 DEF ShutdownInv, OrderInv, ShutdownTypeOK
  <1>9. CASE current[t] = "Cleaning"
    <2>1. Len(ran) = 4 /\ ran' = ran /\ phase = "Done"
      <3>1. Len(ran) = 4
        BY <1>8, <1>9, LastPhase
      <3>2. Phases[Len(ran) + 2] = "Done"
        BY <3>1, PhaseFacts
      <3>3. QED BY <1>8, <1>9, <3>1, <3>2
    <2>2. OrderInv'
      BY <1>3, <1>4, <1>5, <2>1 DEF ShutdownInv, OrderInv, Driving, Advancing
    <2>3. todo' \in Seq(Workers)
      BY <1>2, VisitLists DEF Visits
    <2>4. VisitInv'
      BY <1>1, <1>3, <1>4, <1>5 DEF ShutdownInv, VisitInv, Driving, Advancing
    <2>5. QED BY <1>2, <1>3, <1>4, <1>6, <1>7, <2>1, <2>2, <2>3, <2>4,
               ManagerFrame DEF ShutdownTypeOK
  <1>10. CASE current[t] # "Cleaning"
    <2>1. /\ Len(ran) <= 3 /\ Succ(current[t]) = Phases[Len(ran) + 2]
          /\ Succ(current[t]) \in ShutdownPhase
      BY <1>8, <1>10, SuccFacts
    <2>2. /\ ran' \in Seq(ShutdownPhase) /\ Len(ran') = Len(ran) + 1
          /\ ran'[Len(ran) + 1] = Phases[Len(ran) + 2]
          /\ \A i \in 1 .. Len(ran) : ran'[i] = ran[i]
      BY <1>8, <1>10, <2>1
    <2>3. OrderInv'
      <3>1. \A i \in 1 .. Len(ran') : ran'[i] = Phases[i + 1]
        <4>1. \A i \in 1 .. Len(ran') : i \in 1 .. Len(ran) \/ i = Len(ran) + 1
          BY <1>8, <2>2
        <4>2. \A i \in 1 .. Len(ran) : ran[i] = Phases[i + 1]
          BY DEF ShutdownInv, OrderInv
        <4>3. (Len(ran) + 1) + 1 = Len(ran) + 2
          BY <1>8
        <4>4. QED BY <2>2, <4>1, <4>2, <4>3
      <3>2. Len(ran') <= 4 /\ phase \in {Phases[Len(ran') + 1], "Done"}
        BY <1>8, <2>1, <2>2
      <3>3. QED BY <1>3, <1>4, <1>5, <3>1, <3>2 DEF OrderInv, Driving, Advancing
    <2>4. todo' \in Seq(Workers)
      BY <1>2, VisitLists DEF Visits
    <2>5. VisitInv'
      BY <1>1, <1>3, <1>4, <1>5 DEF ShutdownInv, VisitInv, Driving, Advancing
    <2>6. QED BY <1>2, <1>3, <1>4, <1>6, <1>7, <2>2, <2>3, <2>4, <2>5,
               ManagerFrame DEF ShutdownTypeOK
  <1>11. QED BY <1>9, <1>10

LEMMA CheckPendingKeeps ==
    ASSUME ShutdownInv, NEW t \in Drivers, CheckPending(t)
    PROVE  ShutdownInv'
  <1> USE DEF CheckPending, Goto
  <1>1. exec[t] = Nobody /\ exec' = exec
    BY RunsNothing DEF runVars
  <1>2. ShutdownConstants /\ ShutdownTypeOK
    BY DEF ShutdownInv
  <1>3. DriverInv' /\ OrderInv'
    BY DriverGoesOn DEF Advancing
  <1>4. /\ pc' \in [Drivers -> PC] /\ VisitInv'
        /\ \A u \in Drivers : pc'[u] # "mode" \/ pc'[u] = pc[u]
    BY <1>1, GotoKeeps DEF PC
  <1>5. QED BY <1>2, <1>3, <1>4, ManagerFrame DEF ShutdownTypeOK

\* The only driver leaves, and shutdown_requested_ stays set.
LEMMA LeaveAdvanceKeeps ==
    ASSUME ShutdownInv, NEW t \in Drivers, LeaveAdvance(t)
    PROVE  ShutdownInv'
  <1> USE DEF LeaveAdvance, Goto
  <1>1. exec[t] = Nobody /\ exec' = exec
    BY RunsNothing DEF runVars
  <1>2. ShutdownConstants /\ ShutdownTypeOK
    BY DEF ShutdownInv
  <1>3. Return(t) \in {"pred", "out"}
    BY DEF Return
  <1>4. /\ pc'[t] = Return(t) /\ Return(t) \notin Driving
        /\ \A u \in Drivers : u # t => pc'[u] = pc[u] /\ pc[u] \notin Driving
    BY <1>2, <1>3 DEF ShutdownTypeOK, ShutdownInv, DriverInv, Driving, Advancing
  <1>5. DriverInv' /\ OrderInv'
    BY <1>4 DEF ShutdownInv, DriverInv, OrderInv, Untouched, Driving, Advancing
  <1>6. /\ pc' \in [Drivers -> PC] /\ VisitInv'
        /\ \A u \in Drivers : pc'[u] # "mode" \/ pc'[u] = pc[u]
    BY <1>1, <1>3, GotoKeeps DEF PC
  <1>7. QED BY <1>2, <1>5, <1>6, ManagerFrame DEF ShutdownTypeOK

LEMMA ForceShutdownKeeps ==
    ASSUME ShutdownInv, ForceShutdown
    PROVE  ShutdownInv'
  <1> DEFINE l == IF pc[Main] = "blocked" THEN "pred" ELSE pc[Main]
  <1> USE DEF ForceShutdown
  <1>1. ShutdownConstants /\ ShutdownTypeOK /\ Main \in Drivers /\ exec' = exec
    BY DEF ShutdownInv, Drivers, runVars
  <1>2. \A u \in Drivers : pc'[u] = pc[u] \/ (pc[u] = "blocked" /\ pc'[u] = "pred")
    <2>1. pc \in [Drivers -> PC] /\ pc' = [pc EXCEPT ![Main] = l]
      BY <1>1 DEF ShutdownTypeOK
    <2>2. pc'[Main] = l /\ \A u \in Drivers : u # Main => pc'[u] = pc[u]
      BY <1>1, <2>1
    <2>3. QED BY <2>2
  <1>3. pc' \in [Drivers -> PC]
    BY <1>1 DEF ShutdownTypeOK, PC
  <1>4. DriverInv' /\ OrderInv'
    BY <1>2 DEF ShutdownInv, DriverInv, OrderInv, Untouched, Driving, Advancing
  <1>5. VisitInv'
    BY <1>1, <1>2 DEF ShutdownInv, VisitInv
  <1>6. QED BY <1>1, <1>2, <1>3, <1>4, <1>5, ManagerFrame, PhaseFacts DEF ShutdownTypeOK

LEMMA ManagerStepKeeps ==
    ASSUME ShutdownInv, NEW t \in Drivers, ManagerStep(t)
    PROVE  ShutdownInv'
  BY ShutdownCasKeeps, EnterAdvanceKeeps, LoadPhaseKeeps, StorePhaseKeeps, NotifyKeeps,
     CheckPendingKeeps, LeaveAdvanceKeeps DEF ManagerStep

----------------------------------------------------------------------------
(* The callbacks of the phases.                                            *)

\* The driver goes on inside a callback, with a list of workers to visit.
LEMMA CallbackKeeps ==
    ASSUME ShutdownInv, NEW t \in Drivers, NEW l,
           pc[t] \in Advancing \ {"store", "notify"}, l \in Advancing \ {"store", "notify"},
           pc' = [pc EXCEPT ![t] = l],
           UNCHANGED <<app, mgrVars, current, ran, doing, cleaned, owner, done, posted>>,
           handler' \in BOOLEAN, todo' \in Seq(Workers),
           NEW x \in Workers \cup {Nobody}, exec' = [exec EXCEPT ![t] = x],
           x # Nobody => l \in {"frame", "own"} /\ todo' # <<>>,
           l = "await" => todo' # <<>>,
           l = "mode" => stopping' = "joined",
           stopping = "joined" => stopping' = "joined",
           \A w \in Workers : shutting_down'[w] => shutting_down[w] \/ stopping' = "joined",
           W!WorkerTypeOK', P!PoolTypeOK' /\ PoolThreadInv' /\ OwnerInv' /\ PendInv'
    PROVE  ShutdownInv'
  <1> USE DEF mgrVars
  <1>1. ShutdownConstants /\ ShutdownTypeOK
    BY DEF ShutdownInv
  <1>2. t \in Threads /\ l \in PC
    BY DEF Threads, Advancing, PC
  <1>3. /\ pc'[t] = l /\ exec'[t] = x
        /\ \A u \in Drivers : u # t => pc'[u] = pc[u] /\ exec'[u] = exec[u]
    BY <1>1, <1>2 DEF ShutdownTypeOK, Threads
  <1>4. DriverInv' /\ OrderInv'
    BY DriverGoesOn
  <1>5. \A u \in Drivers : u # t => exec[u] = Nobody /\ pc[u] \notin {"await", "mode"}
    BY DEF ShutdownInv, DriverInv, VisitInv, Driving, Advancing
  <1>6. VisitInv'
    BY <1>3, <1>5 DEF VisitInv
  <1>7. ModeInv'
    BY <1>3, <1>5 DEF ShutdownInv, ModeInv
  <1>8. ShutdownTypeOK'
    <2>1. pc' \in [Drivers -> PC] /\ exec' \in [Threads -> Workers \cup {Nobody}]
      BY <1>1, <1>2 DEF ShutdownTypeOK
    <2>2. QED BY <1>1, <2>1 DEF ShutdownTypeOK
  <1>9. QED BY <1>1, <1>4, <1>6, <1>7, <1>8 DEF ShutdownInv

\* What is at hand in every callback.
LEMMA InCallback ==
    ASSUME ShutdownInv, NEW t \in Drivers
    PROVE  /\ ShutdownConstants /\ ShutdownTypeOK /\ W!WorkerTypeOK /\ t \in Threads
           /\ handler \in BOOLEAN /\ todo \in Seq(Workers)
           /\ exec[t] \in Workers \cup {Nobody}
           /\ exec = [exec EXCEPT ![t] = exec[t]] /\ pc = [pc EXCEPT ![t] = pc[t]]
           /\ todo # <<>> => Head(todo) \in Workers /\ Tail(todo) \in Seq(Workers)
  BY DEF ShutdownInv, ShutdownTypeOK, Threads

LEMMA FrameKeeps ==
    ASSUME ShutdownInv, NEW t \in Drivers, FrameBegin(t) \/ FrameTask(t) \/ FrameEnd(t)
    PROVE  ShutdownInv'
  <1> USE DEF drvVars, runVars, workerVars
  <1>1. pc[t] = "frame" /\ {"frame", "next"} \subseteq Advancing \ {"store", "notify"}
    BY DEF FrameBegin, FrameTask, FrameEnd, Advancing
  <1>2. CASE FrameBegin(t)
    <2> USE DEF FrameBegin, Goto
    <2>1. W!WorkerTypeOK' /\ P!PoolTypeOK' /\ PoolThreadInv' /\ OwnerInv' /\ PendInv'
      BY <1>2, WorkersLeftAlone, PoolLeftAlone
    <2>2. stopping' = stopping
      BY <1>2 DEF poolVars
    <2>3. CASE todo # <<>>
      BY <1>1, <1>2, <2>1, <2>2, <2>3, InCallback, CallbackKeeps
    <2>4. CASE todo = <<>>
      BY <1>1, <1>2, <2>1, <2>2, <2>4, InCallback, CallbackKeeps
    <2>5. QED BY <2>3, <2>4
  <1>3. CASE FrameTask(t)
    <2>1. PICK y \in events[exec[t]] : W!Take(exec[t], y)
      BY <1>3 DEF FrameTask
    <2>2. exec[t] \in Workers /\ exec[t] # Nobody /\ todo # <<>>
      BY <1>3, InCallback DEF FrameTask, ShutdownInv, VisitInv
    <2>3. W!WorkerTypeOK'
      BY <2>1, <2>2, InCallback DEF W!WorkerTypeOK, W!Take
    <2>4. UNCHANGED <<poolVars, posting, owner, shutting_down>> /\ stopping' = stopping
      BY <1>3, <2>1 DEF FrameTask, W!Take, poolVars
    <2>5. P!PoolTypeOK' /\ PoolThreadInv' /\ OwnerInv' /\ PendInv'
      BY <2>4, PoolLeftAlone
    <2>6. QED BY <1>1, <1>3, <2>2, <2>3, <2>4, <2>5, InCallback, CallbackKeeps DEF FrameTask
  <1>4. CASE FrameEnd(t)
    <2> USE DEF FrameEnd
    <2>1. W!WorkerTypeOK' /\ P!PoolTypeOK' /\ PoolThreadInv' /\ OwnerInv' /\ PendInv'
      BY <1>4, WorkersLeftAlone, PoolLeftAlone
    <2>2. stopping' = stopping /\ todo # <<>>
      BY <1>4 DEF poolVars, ShutdownInv, VisitInv
    <2>3. QED BY <1>1, <1>4, <2>1, <2>2, InCallback, CallbackKeeps
  <1>5. QED BY <1>2, <1>3, <1>4

\* The driver goes on, and runs no worker's code.
LEMMA CallbackGoesOn ==
    ASSUME ShutdownInv, NEW t \in Drivers, exec[t] = Nobody, NEW l,
           pc[t] \in Advancing \ {"store", "notify"}, l \in Advancing \ {"store", "notify"},
           pc' = [pc EXCEPT ![t] = l],
           UNCHANGED <<app, mgrVars, current, ran, runVars>>,
           handler' \in BOOLEAN, todo' \in Seq(Workers),
           l = "await" => todo' # <<>>,
           l = "mode" => stopping' = "joined",
           stopping = "joined" => stopping' = "joined",
           \A w \in Workers : shutting_down'[w] => shutting_down[w] \/ stopping' = "joined",
           W!WorkerTypeOK', P!PoolTypeOK' /\ PoolThreadInv' /\ OwnerInv' /\ PendInv'
    PROVE  ShutdownInv'
  <1>1. /\ exec' = [exec EXCEPT ![t] = Nobody]
        /\ UNCHANGED <<doing, cleaned, owner, done, posted>>
    BY InCallback DEF runVars
  <1>2. QED BY <1>1, CallbackKeeps

LEMMA PoolStopKeeps ==
    ASSUME ShutdownInv, NEW t \in Drivers, StopPool(t) \/ JoinPool(t)
    PROVE  ShutdownInv'
  <1> USE DEF StopPool, JoinPool, P!StopBegin, P!StopJoined, Goto, workerVars, runVars
  <1>1. /\ pc[t] \in {"poolstop", "pooljoin"}
        /\ {"poolstop", "pooljoin", "mode"} \subseteq Advancing \ {"store", "notify"}
        /\ exec[t] = Nobody
    BY RunsNothing DEF Advancing
  <1>2. W!WorkerTypeOK'
    BY WorkersLeftAlone
  <1>3. P!PoolTypeOK'
    BY DEF ShutdownInv, ShutdownTypeOK, P!PoolTypeOK
  <1>4. PoolThreadInv' /\ OwnerInv'
    BY DEF ShutdownInv, PoolThreadInv, OwnerInv
  <1>5. PendInv'
    BY DEF ShutdownInv, PendInv, SubmittersIn
  <1>6. todo' \in Seq(Workers)
    BY InCallback, VisitLists
  <1>7. stopping' \in {"joining", "joined"} /\ (stopping = "joined" => stopping' = "joined")
    BY DEF ShutdownInv, PoolThreadInv
  <1>8. CASE StopPool(t)
    <2>1. /\ pc' = [pc EXCEPT ![t] = "pooljoin"]
          /\ UNCHANGED <<app, mgrVars, current, ran, runVars, handler>>
      BY <1>8
    <2>2. QED BY <1>1, <1>2, <1>3, <1>4, <1>5, <1>6, <1>7, <2>1, InCallback, CallbackGoesOn
  <1>9. CASE JoinPool(t)
    <2>1. /\ pc' = [pc EXCEPT ![t] = "mode"]
          /\ UNCHANGED <<app, mgrVars, current, ran, runVars, handler>>
          /\ stopping' = "joined"
      BY <1>9
    <2>2. QED BY <1>1, <1>2, <1>3, <1>4, <1>5, <1>6, <1>7, <2>1, InCallback, CallbackGoesOn
  <1>10. QED BY <1>8, <1>9

LEMMA ShutdownModeKeeps ==
    ASSUME ShutdownInv, NEW t \in Drivers, ShutdownMode(t) \/ PollEnds(t)
    PROVE  ShutdownInv'
  <1> USE DEF ShutdownMode, PollEnds, W!EnterShutdownMode, Goto, workerVars, runVars
  <1>1. /\ pc[t] \in {"mode", "poll"}
        /\ {"mode", "poll", "next"} \subseteq Advancing \ {"store", "notify"}
        /\ exec[t] = Nobody
    BY RunsNothing DEF Advancing
  <1>2. P!PoolTypeOK' /\ PoolThreadInv' /\ OwnerInv' /\ PendInv' /\ stopping' = stopping
    BY PoolLeftAlone DEF poolVars
  <1>3. pc[t] = "mode" => stopping = "joined"
    BY DEF ShutdownInv, ModeInv
  <1>4. W!WorkerTypeOK'
    BY InCallback DEF W!WorkerTypeOK
  <1>5. todo' \in Seq(Workers)
    BY InCallback
  <1>6. CASE ShutdownMode(t)
    <2>1. PICK l \in {"mode", "poll"} : pc' = [pc EXCEPT ![t] = l]
      BY <1>6, InCallback
    <2>2. stopping = "joined" /\ UNCHANGED <<app, mgrVars, current, ran, runVars, handler>>
      BY <1>3, <1>6
    <2>3. QED BY <1>1, <1>2, <1>4, <1>5, <2>1, <2>2, InCallback, CallbackGoesOn
  <1>7. CASE PollEnds(t)
    <2>1. /\ pc' = [pc EXCEPT ![t] = "next"]
          /\ UNCHANGED <<app, mgrVars, current, ran, runVars, handler>>
          /\ shutting_down' = shutting_down
      BY <1>7
    <2>2. QED BY <1>1, <1>2, <1>4, <1>5, <2>1, InCallback, CallbackGoesOn
  <1>8. QED BY <1>6, <1>7

LEMMA OwnKeeps ==
    ASSUME ShutdownInv, NEW t \in Drivers, OwnBegin(t) \/ OwnEnd(t)
    PROVE  ShutdownInv'
  <1> USE DEF Goto, workerVars, runVars
  <1>1. pc[t] = "own" /\ {"own", "clean"} \subseteq Advancing \ {"store", "notify"}
    BY DEF OwnBegin, OwnEnd, Advancing
  <1>2. P!PoolTypeOK' /\ PoolThreadInv' /\ OwnerInv' /\ PendInv' /\ stopping' = stopping
    BY PoolLeftAlone DEF poolVars, OwnBegin, OwnEnd, W!Stop
  <1>3. CASE OwnBegin(t)
    <2> USE DEF OwnBegin
    <2>1. W!WorkerTypeOK'
      BY <1>3, WorkersLeftAlone
    <2>2. CASE todo # <<>>
      BY <1>1, <1>2, <1>3, <2>1, <2>2, InCallback, CallbackKeeps
    <2>3. CASE todo = <<>>
      <3>1. NormalSeq \in Seq(Workers)
        BY InCallback, VisitLists
      <3>2. QED BY <1>1, <1>2, <1>3, <2>1, <2>3, <3>1, InCallback, CallbackKeeps
    <2>4. QED BY <2>2, <2>3
  <1>4. CASE OwnEnd(t)
    <2> USE DEF OwnEnd, W!Stop
    <2>1. exec[t] \in Workers /\ todo # <<>>
      BY <1>4, InCallback DEF ShutdownInv, VisitInv
    <2>2. W!WorkerTypeOK'
      BY <1>4, <2>1, InCallback DEF W!WorkerTypeOK
    <2>3. QED BY <1>1, <1>2, <1>4, <2>1, <2>2, InCallback, CallbackKeeps
  <1>5. QED BY <1>3, <1>4

LEMMA CleanKeeps ==
    ASSUME ShutdownInv, NEW t \in Drivers, CleanWorker(t) \/ CleanWait(t) \/ UnInit(t)
    PROVE  ShutdownInv'
  <1> USE DEF CleanWorker, CleanWait, UnInit, W!Stop, Goto, workerVars, runVars
  <1>1. /\ pc[t] \in {"clean", "await", "uninit"}
        /\ {"clean", "await", "uninit", "next"} \subseteq Advancing \ {"store", "notify"}
        /\ exec[t] = Nobody
    BY RunsNothing DEF Advancing
  <1>2. P!PoolTypeOK' /\ PoolThreadInv' /\ OwnerInv' /\ PendInv' /\ stopping' = stopping
    BY PoolLeftAlone DEF poolVars
  <1>3. pc[t] = "await" => todo # <<>>
    BY DEF ShutdownInv, VisitInv
  <1>4. todo' \in Seq(Workers)
    BY <1>3, InCallback
  <1>5. W!WorkerTypeOK'
    <2>1. Cleanup \in Tasks /\ MainWorker \in Workers
      BY DEF Tasks, Workers
    <2>2. CASE CleanWorker(t)
      <3>1. CASE todo # <<>> /\ runing[Head(todo)]
        <4>1. /\ events' = [events EXCEPT ![Head(todo)] = events[Head(todo)] \cup {Cleanup}]
              /\ UNCHANGED <<runing, shutting_down, posting, loop>>
          BY <2>2, <3>1
        <4>2. /\ W!WorkerTypeOK /\ Head(todo) \in Workers
              /\ events[Head(todo)] \cup {Cleanup} \in SUBSET Tasks
          BY <2>1, <3>1, InCallback DEF W!WorkerTypeOK
        <4>3. QED BY <4>1, <4>2 DEF W!WorkerTypeOK
      <3>2. CASE todo = <<>> \/ ~runing[Head(todo)]
        <4>1. UNCHANGED workerVars
          BY <2>2, <3>2
        <4>2. QED BY <4>1, WorkersLeftAlone
      <3>3. QED BY <3>1, <3>2
    <2>3. CASE CleanWait(t) \/ UnInit(t)
      BY <1>3, <2>1, <2>3, InCallback DEF W!WorkerTypeOK
    <2>4. QED BY <2>2, <2>3
  <1> HIDE DEF CleanWorker, CleanWait, UnInit, W!Stop, workerVars, runVars
  <1>6. CASE CleanWorker(t)
    <2>1. PICK l \in {"clean", "await", "uninit"} :
              pc' = [pc EXCEPT ![t] = l] /\ (l = "await" => todo' # <<>>)
      BY <1>6, InCallback DEF CleanWorker
    <2>2. UNCHANGED <<app, mgrVars, current, ran, runVars, handler, shutting_down>>
      BY <1>6 DEF CleanWorker, workerVars
    <2>3. QED BY <1>1, <1>2, <1>4, <1>5, <2>1, <2>2, InCallback, CallbackGoesOn
  <1>7. CASE CleanWait(t)
    <2>1. /\ pc' = [pc EXCEPT ![t] = "clean"]
          /\ UNCHANGED <<app, mgrVars, current, ran, runVars, handler, shutting_down>>
      BY <1>7 DEF CleanWait, W!Stop, workerVars
    <2>2. QED BY <1>1, <1>2, <1>4, <1>5, <2>1, InCallback, CallbackGoesOn
  <1>8. CASE UnInit(t)
    <2>1. /\ pc' = [pc EXCEPT ![t] = "next"] /\ handler' = FALSE
          /\ UNCHANGED <<app, mgrVars, current, ran, runVars, shutting_down>>
      BY <1>8 DEF UnInit, W!Stop
    <2>2. QED BY <1>1, <1>2, <1>4, <1>5, <2>1, InCallback, CallbackGoesOn
  <1>9. QED BY <1>6, <1>7, <1>8

LEMMA PhaseStepKeeps ==
    ASSUME ShutdownInv, NEW t \in Drivers, PhaseStep(t)
    PROVE  ShutdownInv'
  BY FrameKeeps, PoolStopKeeps, ShutdownModeKeeps, OwnKeeps, CleanKeeps DEF PhaseStep

----------------------------------------------------------------------------
(* The main thread.                                                        *)

\* A step that touches flags, queues and loops of workers, and no driver, pool
\* thread, post or task.
LEMMA WorkerStateKeeps ==
    ASSUME ShutdownInv, W!WorkerTypeOK', UNCHANGED <<posting, shutting_down>>,
           UNCHANGED <<poolVars, app, mgrVars, drvVars, owner>>,
           exec' \in [Threads -> Workers \cup {Nobody}],
           \A t \in Drivers : exec'[t] = exec[t],
           doing' \in [Normals -> Tasks \cup {Nobody}], cleaned' \in SUBSET Normals,
           UNCHANGED <<done, posted>>
    PROVE  ShutdownInv'
  <1>1. P!PoolTypeOK' /\ PoolThreadInv' /\ OwnerInv' /\ PendInv'
    BY PoolLeftAlone
  <1>2. DriverInv' /\ OrderInv' /\ VisitInv'
    BY DriversLeftAlone
  <1>3. ShutdownTypeOK'
    BY <1>1 DEF ShutdownInv, ShutdownTypeOK, mgrVars, drvVars
  <1>4. ModeInv'
    BY DEF ShutdownInv, ModeInv, drvVars, poolVars
  <1>5. QED BY <1>1, <1>2, <1>3, <1>4 DEF ShutdownInv

LEMMA MainStepKeeps ==
    ASSUME ShutdownInv, MainStep \/ MainLeaves
    PROVE  ShutdownInv'
  <1> USE DEF Goto
  <1>1. Main \in Drivers /\ MainWorker \in Workers /\ ShutdownTypeOK /\ W!WorkerTypeOK
    BY DEF ShutdownInv, ShutdownTypeOK, Drivers, Workers
  <1>2. CASE MainTask
    <2>1. PICK y \in events[MainWorker] : W!Dequeue(MainWorker, y)
      BY <1>2 DEF MainTask
    <2>2. W!WorkerTypeOK' /\ UNCHANGED <<posting, shutting_down>>
      BY <1>1, <2>1 DEF W!WorkerTypeOK, W!Dequeue, W!Take
    <2>3. QED BY <1>1, <1>2, <2>2, WorkerStateKeeps DEF MainTask, runVars, ShutdownTypeOK
  <1>3. ASSUME NEW l \in PC, pc[Main] \notin Driving, l \notin Driving,
               pc' = [pc EXCEPT ![Main] = l], W!WorkerTypeOK',
               UNCHANGED <<shutting_down, posting>>,
               UNCHANGED <<poolVars, app, mgrVars, current, todo, ran, handler, runVars>>
        PROVE  ShutdownInv'
    <2>1. l \in PC \ {"mode", "await", "frame", "own"} /\ exec[Main] = Nobody
      BY <1>1, <1>3, RunsNothing DEF Driving, Advancing
    <2>2. UNCHANGED <<requested, advancing, phase, ran, current, exec, todo, owner>>
      BY <1>3 DEF mgrVars, runVars
    <2>3. /\ pc' \in [Drivers -> PC] /\ VisitInv'
          /\ \A u \in Drivers : pc'[u] # "mode" \/ pc'[u] = pc[u]
      BY <1>1, <1>3, <2>1, <2>2, GotoKeeps
    <2>4. DriverInv' /\ OrderInv'
      BY <1>1, <1>3, <2>2, OutsiderMoves
    <2>5. P!PoolTypeOK' /\ PoolThreadInv' /\ OwnerInv' /\ PendInv'
      BY <1>3, <2>2, PoolLeftAlone
    <2>6. ModeInv'
      BY <1>3, <2>3 DEF ShutdownInv, ModeInv, poolVars
    <2>7. ShutdownTypeOK'
      BY <1>1, <1>3, <2>3, <2>5 DEF ShutdownTypeOK, mgrVars, runVars
    <2>8. QED BY <2>3, <2>4, <2>5, <2>6, <2>7 DEF ShutdownInv
  <1>4. /\ {"loop", "exit", "pred", "block", "returned", "joining"} \cap Driving = {}
        /\ {"exit", "pred", "cas", "returned", "block", "blocked", "joining", "joined"}
               \subseteq PC \ Driving
    BY DEF Driving, Advancing, PC
  <1>5. CASE MainLeaves
    <2>1. W!WorkerTypeOK' /\ UNCHANGED <<shutting_down, posting>>
      BY <1>1, <1>5 DEF MainLeaves, W!WorkerTypeOK
    <2>2. QED BY <1>3, <1>4, <1>5, <2>1 DEF MainLeaves
  <1>6. CASE StopWorkers
    <2>1. W!WorkerTypeOK' /\ UNCHANGED <<shutting_down, posting>>
      BY <1>1, <1>6 DEF StopWorkers, W!WorkerTypeOK
    <2>2. QED BY <1>3, <1>4, <1>6, <2>1 DEF StopWorkers
  <1>7. CASE MainShutdown \/ WaitPredicate \/ WaitBlock \/ JoinWorkers
    <2>1. /\ UNCHANGED workerVars /\ W!WorkerTypeOK'
          /\ UNCHANGED <<shutting_down, posting>>
      BY <1>7, WorkersLeftAlone
         DEF MainShutdown, WaitPredicate, WaitBlock, JoinWorkers, workerVars
    <2>2. CASE MainShutdown
      BY <1>3, <1>4, <2>1, <2>2 DEF MainShutdown
    <2>3. CASE WaitPredicate
      BY <1>3, <1>4, <2>1, <2>3 DEF WaitPredicate
    <2>4. CASE WaitBlock
      BY <1>3, <1>4, <2>1, <2>4 DEF WaitBlock
    <2>5. CASE JoinWorkers
      BY <1>3, <1>4, <2>1, <2>5 DEF JoinWorkers
    <2>6. QED BY <1>7, <2>2, <2>3, <2>4, <2>5
  <1>8. QED BY <1>2, <1>5, <1>6, <1>7 DEF MainStep

LEMMA SignalKeeps ==
    ASSUME ShutdownInv, NEW s \in SignalThreads, Signal(s)
    PROVE  ShutdownInv'
  <1>1. s \in Drivers /\ "out" \notin Driving /\ "cas" \notin Driving /\ "cas" \in PC
    BY DEF Drivers, Driving, Advancing, PC
  <1>2. QED BY <1>1, OutsideKeeps DEF Signal, Goto

----------------------------------------------------------------------------
(* Worker threads.                                                         *)

LEMMA WorkerTaskKeeps ==
    ASSUME ShutdownInv, NEW w \in Normals, TaskBegin(w) \/ TaskEnd(w) \/ WorkerLoop(w)
    PROVE  ShutdownInv'
  <1>1. /\ ShutdownTypeOK /\ W!WorkerTypeOK /\ w \in Workers /\ w \in Threads
        /\ w \notin Drivers
    BY DEF ShutdownInv, ShutdownTypeOK, Workers, Threads, ShutdownConstants
  <1>2. CASE TaskBegin(w)
    <2>1. PICK y \in events[w] : W!Dequeue(w, y) /\ doing' = [doing EXCEPT ![w] = y]
      BY <1>2 DEF TaskBegin
    <2>2. W!WorkerTypeOK' /\ UNCHANGED <<posting, shutting_down>> /\ y \in Tasks
      BY <1>1, <2>1 DEF W!WorkerTypeOK, W!Dequeue, W!Take
    <2>3. /\ exec' \in [Threads -> Workers \cup {Nobody}]
          /\ \A t \in Drivers : exec'[t] = exec[t]
          /\ doing' \in [Normals -> Tasks \cup {Nobody}] /\ cleaned' \in SUBSET Normals
      BY <1>1, <1>2, <2>1, <2>2 DEF ShutdownTypeOK, TaskBegin, Threads
    <2>4. QED BY <1>2, <2>2, <2>3, WorkerStateKeeps DEF TaskBegin
  <1>3. CASE TaskEnd(w)
    <2>1. W!WorkerTypeOK' /\ UNCHANGED <<posting, shutting_down>>
      BY <1>1, <1>3 DEF TaskEnd, W!WorkerTypeOK, W!Stop, workerVars
    <2>2. /\ exec' \in [Threads -> Workers \cup {Nobody}]
          /\ \A t \in Drivers : exec'[t] = exec[t]
          /\ doing' \in [Normals -> Tasks \cup {Nobody}] /\ cleaned' \in SUBSET Normals
      BY <1>1, <1>3 DEF ShutdownTypeOK, TaskEnd, Threads
    <2>3. QED BY <1>3, <2>1, <2>2, WorkerStateKeeps DEF TaskEnd
  <1>4. CASE WorkerLoop(w)
    <2>1. W!WorkerTypeOK' /\ UNCHANGED <<posting, shutting_down>>
      BY <1>1, <1>4 DEF WorkerLoop, W!WorkerTypeOK, W!OnStart, W!ExitLoop
    <2>2. QED BY <1>1, <1>4, <2>1, WorkerStateKeeps DEF WorkerLoop, runVars, ShutdownTypeOK
  <1>5. QED BY <1>2, <1>3, <1>4

\* Execute: the job, its owner and the count.
LEMMA ExecutePathKeeps ==
    ASSUME ShutdownInv, UNCHANGED <<workerVars, app, mgrVars, drvVars, exec, doing, cleaned,
                                    done, posted, running, thread, job, stopping>>,
           P!PoolTypeOK', owner' \in [Jobs -> Normals \cup {Nobody}], OwnerInv', PendInv'
    PROVE  ShutdownInv'
  <1>1. DriverInv' /\ OrderInv' /\ VisitInv'
    BY DriversLeftAlone
  <1>2. W!WorkerTypeOK'
    BY WorkersLeftAlone
  <1>3. ShutdownTypeOK'
    BY <1>2 DEF ShutdownInv, ShutdownTypeOK, mgrVars, drvVars
  <1>4. ModeInv' /\ PoolThreadInv'
    BY DEF ShutdownInv, ModeInv, PoolThreadInv, drvVars, workerVars
  <1>5. QED BY <1>1, <1>3, <1>4 DEF ShutdownInv

LEMMA TaskSubmitKeeps ==
    ASSUME ShutdownInv, NEW w \in Normals, NEW j \in Jobs, TaskSubmit(w, j)
    PROVE  ShutdownInv'
  <1> USE DEF TaskSubmit, P!BeginExecute
  <1>1. ShutdownTypeOK /\ P!PoolTypeOK
    BY DEF ShutdownInv, ShutdownTypeOK
  <1>2. P!PoolTypeOK' /\ owner' \in [Jobs -> Normals \cup {Nobody}]
    BY <1>1 DEF ShutdownTypeOK, P!PoolTypeOK
  <1>3. \A i \in Jobs : owner'[i] = owner[i] \/ owner'[i] \in Normals
    BY <1>1 DEF ShutdownTypeOK
  <1>4. OwnerInv'
    <2>1. \A v \in Normals : submitting'[v].pc # "out" =>
             \/ submitting'[v].j = j
             \/ submitting'[v] = submitting[v] /\ submitting[v].j \in Jobs
      BY <1>1, SubmitterStates DEF P!PoolTypeOK
    <2>2. owner'[j] = w
      BY <1>1 DEF ShutdownTypeOK
    <2>3. \A v \in Normals : submitting'[v].pc # "out" => owner'[submitting'[v].j] \in Normals
      BY <1>3, <2>1, <2>2 DEF ShutdownInv, OwnerInv
    <2>4. \A i \in queue' : owner'[i] \in Normals
      BY <1>1, <1>3 DEF ShutdownInv, OwnerInv, P!PoolTypeOK
    <2>5. \A t \in PoolThreads : job'[t] # NoJob => owner'[job'[t]] \in Normals
      BY <1>1, <1>3 DEF ShutdownInv, OwnerInv, P!PoolTypeOK
    <2>6. QED BY <2>3, <2>4, <2>5 DEF OwnerInv
  <1>5. PendInv'
    <2>1. SubmittersIn' = SubmittersIn
      BY <1>1 DEF SubmittersIn, P!PoolTypeOK, P!Outside
    <2>2. QED BY <2>1 DEF ShutdownInv, PendInv
  <1>6. QED BY <1>2, <1>4, <1>5, ExecutePathKeeps

LEMMA ExecutingKeeps ==
    ASSUME ShutdownInv, NEW w \in Normals, Executing(w)
    PROVE  ShutdownInv'
  <1>1. /\ ShutdownConstants /\ ShutdownTypeOK /\ P!PoolTypeOK
        /\ owner' = owner /\ owner \in [Jobs -> Normals \cup {Nobody}]
    BY DEF ShutdownInv, ShutdownTypeOK, Executing, runVars
  <1>2. /\ pend \in Nat /\ Cardinality(queue) \in Nat /\ Cardinality(SubmittersIn) \in Nat
        /\ IsFiniteSet(queue) /\ IsFiniteSet(SubmittersIn)
        /\ pend >= Cardinality(queue) + Cardinality(SubmittersIn)
    BY <1>1, PendingFinite DEF P!PoolTypeOK, ShutdownInv, PendInv
  <1>3. CASE P!ExecuteCheck(w) /\ running
    <2> USE <1>3 DEF P!ExecuteCheck
    <2>1. submitting[w].pc = "check" /\ submitting[w].j \in Jobs
      BY <1>1, SubmitterStates DEF P!PoolTypeOK
    <2>2. [submitting[w] EXCEPT !.pc = "enqueue"] \in [pc : {"check", "enqueue"}, j : Jobs]
      BY <1>1, <2>1, SubmitterStates DEF P!PoolTypeOK, P!Outside
    <2>3. P!PoolTypeOK'
      <3>1. submitting' \in [Normals -> {P!Outside} \cup [pc : {"check", "enqueue"}, j : Jobs]]
        BY <1>1, <2>2 DEF P!PoolTypeOK
      <3>2. pend' \in Nat
        BY <1>2
      <3>3. QED BY <1>1, <3>1, <3>2 DEF P!PoolTypeOK
    <2>4. /\ submitting'[w].pc = "enqueue" /\ submitting'[w].j = submitting[w].j
          /\ \A v \in Normals : v # w => submitting'[v] = submitting[v]
      BY <1>1, <2>2, SubmitterStates DEF P!PoolTypeOK, P!Outside
    <2>5. OwnerInv'
      BY <1>1, <2>1, <2>4 DEF ShutdownInv, OwnerInv
    <2>6. PendInv'
      <3>1. SubmittersIn' = SubmittersIn \cup {w} /\ w \notin SubmittersIn
        BY <2>1, <2>4 DEF SubmittersIn
      <3>2. Cardinality(SubmittersIn') = Cardinality(SubmittersIn) + 1
        BY <1>2, <3>1, FS_AddElement
      <3>3. QED BY <1>2, <3>2 DEF PendInv
    <2>7. QED BY <1>1, <2>3, <2>5, <2>6, ExecutePathKeeps DEF Executing, runVars
  <1>4. CASE P!ExecuteCheck(w) /\ ~running
    <2> USE <1>4 DEF P!ExecuteCheck
    <2>1. P!PoolTypeOK'
      BY <1>1 DEF P!PoolTypeOK
    <2>2. /\ submitting'[w] = P!Outside /\ submitting[w].pc = "check"
          /\ \A v \in Normals : v # w => submitting'[v] = submitting[v]
      BY <1>1 DEF P!PoolTypeOK
    <2>3. OwnerInv'
      BY <1>1, <2>2 DEF ShutdownInv, OwnerInv, P!Outside
    <2>4. PendInv'
      <3>1. SubmittersIn' = SubmittersIn
        BY <2>2 DEF SubmittersIn, P!Outside
      <3>2. QED BY <1>2, <3>1 DEF PendInv
    <2>5. QED BY <1>1, <2>1, <2>3, <2>4, ExecutePathKeeps DEF Executing, runVars
  <1>5. CASE P!ExecuteEnqueue(w)
    <2> USE <1>5 DEF P!ExecuteEnqueue
    <2>1. submitting[w].pc = "enqueue" /\ submitting[w].j \in Jobs
      BY <1>1, SubmitterStates DEF P!PoolTypeOK
    <2>2. P!PoolTypeOK'
      BY <1>1, <2>1 DEF P!PoolTypeOK
    <2>3. /\ submitting'[w] = P!Outside
          /\ \A v \in Normals : v # w => submitting'[v] = submitting[v]
      BY <1>1 DEF P!PoolTypeOK
    <2>4. OwnerInv'
      BY <1>1, <2>1, <2>3 DEF ShutdownInv, OwnerInv, P!Outside
    <2>5. PendInv'
      <3>1. SubmittersIn' = SubmittersIn \ {w} /\ w \in SubmittersIn
        BY <2>1, <2>3 DEF SubmittersIn, P!Outside
      <3>2. Cardinality(SubmittersIn') = Cardinality(SubmittersIn) - 1
        BY <1>2, <3>1, FS_RemoveElement
      <3>3. /\ Cardinality(queue') <= Cardinality(queue) + 1
            /\ IsFiniteSet(queue')
        <4>1. queue' = queue \cup {submitting[w].j}
          OBVIOUS
        <4>2. /\ IsFiniteSet(queue \cup {submitting[w].j})
              /\ Cardinality(queue \cup {submitting[w].j}) \in
                     {Cardinality(queue), Cardinality(queue) + 1}
          BY <1>2, FS_AddElement
        <4>3. QED BY <1>2, <4>1, <4>2
      <3>4. Cardinality(queue') \in Nat
        BY <3>3, FS_CardinalityType
      <3>5. QED BY <1>2, <3>2, <3>3, <3>4 DEF PendInv
    <2>6. QED BY <1>1, <2>2, <2>4, <2>5, ExecutePathKeeps DEF Executing, runVars
  <1>6. QED BY <1>3, <1>4, <1>5 DEF Executing, P!ExecuteCheck

----------------------------------------------------------------------------
(* Pool threads and IO threads.                                            *)

\* A step of a pool thread outside its jobs, or at the end of one.
LEMMA PoolThreadKeeps ==
    ASSUME ShutdownInv,
           UNCHANGED <<workerVars, app, mgrVars, drvVars, runVars, running,
                       submitting, stopping>>,
           P!PoolTypeOK', PoolThreadInv', OwnerInv', PendInv'
    PROVE  ShutdownInv'
  <1>1. DriverInv' /\ OrderInv' /\ VisitInv'
    BY DriversLeftAlone DEF runVars
  <1>2. W!WorkerTypeOK'
    BY WorkersLeftAlone
  <1>3. ShutdownTypeOK'
    BY <1>2 DEF ShutdownInv, ShutdownTypeOK, mgrVars, drvVars, runVars
  <1>4. ModeInv'
    BY DEF ShutdownInv, ModeInv, drvVars, workerVars
  <1>5. QED BY <1>1, <1>3, <1>4 DEF ShutdownInv

LEMMA PoolTurnKeeps ==
    ASSUME ShutdownInv, NEW t \in PoolThreads, PoolLoop(t)
    PROVE  ShutdownInv'
  <1>1. /\ ShutdownConstants /\ ShutdownTypeOK /\ P!PoolTypeOK /\ NoJob \notin Jobs
        /\ owner' = owner /\ posting' = posting
    BY DEF ShutdownInv, ShutdownTypeOK, PoolLoop, runVars, workerVars, ShutdownConstants
  <1>2. /\ pend \in Nat /\ Cardinality(queue) \in Nat /\ Cardinality(SubmittersIn) \in Nat
        /\ IsFiniteSet(queue)
        /\ pend >= Cardinality(queue) + Cardinality(SubmittersIn)
    BY <1>1, PendingFinite DEF P!PoolTypeOK, ShutdownInv, PendInv
  <1>3. thread[t] \notin {"busy", "draining", "exited"}
    BY DEF PoolLoop, P!LoopHead, P!TryDequeue, P!Drain
  <1>4. job[t] = NoJob /\ stopping # "joined"
    BY <1>3 DEF ShutdownInv, PoolThreadInv
  <1>5. ASSUME NEW l \in {"head", "try", "drain", "exited"}, thread' = [thread EXCEPT ![t] = l],
               UNCHANGED <<running, pend, queue, submitting, job, stopping>>
        PROVE  ShutdownInv'
    <2>1. P!PoolTypeOK'
      BY <1>1, <1>5 DEF P!PoolTypeOK
    <2>2. PoolThreadInv'
      <3>1. thread'[t] = l /\ \A u \in PoolThreads : u # t => thread'[u] = thread[u]
        BY <1>1, <1>5 DEF P!PoolTypeOK
      <3>2. QED BY <1>1, <1>4, <1>5, <3>1 DEF ShutdownInv, PoolThreadInv
    <2>3. OwnerInv'
      BY <1>1, <1>5 DEF ShutdownInv, OwnerInv
    <2>4. PendInv'
      BY <1>5 DEF ShutdownInv, PendInv, SubmittersIn
    <2>5. QED BY <1>5, <2>1, <2>2, <2>3, <2>4, PoolThreadKeeps DEF PoolLoop
  <1>6. ASSUME NEW i \in queue, NEW l \in {"busy", "draining"},
               queue' = queue \ {i}, job' = [job EXCEPT ![t] = i],
               thread' = [thread EXCEPT ![t] = l], pend' \in {pend, pend - 1},
               UNCHANGED <<running, submitting, stopping>>
        PROVE  ShutdownInv'
    <2>1. i \in Jobs /\ owner[i] \in Normals
      BY <1>1 DEF ShutdownInv, OwnerInv, P!PoolTypeOK
    <2>2. PendInv' /\ pend' \in Nat
      <3>1. SubmittersIn' = SubmittersIn
        BY <1>6 DEF SubmittersIn
      <3>2. Cardinality(queue') = Cardinality(queue) - 1 /\ IsFiniteSet(queue')
        BY <1>2, <1>6, FS_RemoveElement
      <3>3. Cardinality(queue') \in Nat
        BY <3>2, FS_CardinalityType
      <3>4. QED BY <1>2, <1>6, <3>1, <3>2, <3>3 DEF PendInv
    <2>3. P!PoolTypeOK'
      BY <1>1, <1>6, <2>1, <2>2 DEF P!PoolTypeOK
    <2>4. /\ thread'[t] = l /\ job'[t] = i
          /\ \A u \in PoolThreads : u # t => thread'[u] = thread[u] /\ job'[u] = job[u]
      BY <1>1, <1>6 DEF P!PoolTypeOK
    <2>5. PoolThreadInv'
      BY <1>1, <1>4, <1>6, <2>1, <2>4 DEF ShutdownInv, PoolThreadInv
    <2>6. OwnerInv'
      BY <1>1, <1>6, <2>1, <2>4 DEF ShutdownInv, OwnerInv
    <2>7. QED BY <1>6, <2>2, <2>3, <2>5, <2>6, PoolThreadKeeps DEF PoolLoop
  <1>7. CASE P!LoopHead(t)
    BY <1>5, <1>7 DEF P!LoopHead
  <1>8. CASE P!TryDequeue(t)
    BY <1>5, <1>6, <1>8 DEF P!TryDequeue
  <1>9. CASE P!Drain(t)
    BY <1>5, <1>6, <1>9 DEF P!Drain
  <1>10. QED BY <1>7, <1>8, <1>9 DEF PoolLoop

LEMMA PoolJobDoneKeeps ==
    ASSUME ShutdownInv, NEW t \in PoolThreads, JobDone(t)
    PROVE  ShutdownInv'
  <1> USE DEF JobDone, P!FinishJob
  <1>1. /\ ShutdownTypeOK /\ P!PoolTypeOK
        /\ owner' = owner /\ posting' = posting
    BY DEF ShutdownInv, ShutdownTypeOK, runVars, workerVars
  <1>2. thread[t] \in {"busy", "draining"}
    BY DEF ShutdownInv, PoolThreadInv
  <1>3. PICK l \in {"head", "drain"} : thread' = [thread EXCEPT ![t] = l]
    OBVIOUS
  <1>4. /\ job'[t] = NoJob /\ thread'[t] = l
        /\ \A u \in PoolThreads : u # t => job'[u] = job[u] /\ thread'[u] = thread[u]
    BY <1>1, <1>3 DEF P!PoolTypeOK
  <1>5. P!PoolTypeOK'
    BY <1>1, <1>3 DEF P!PoolTypeOK
  <1>6. PoolThreadInv'
    BY <1>1, <1>2, <1>4 DEF ShutdownInv, PoolThreadInv
  <1>7. OwnerInv'
    BY <1>1, <1>4 DEF ShutdownInv, OwnerInv
  <1>8. PendInv'
    BY DEF ShutdownInv, PendInv, SubmittersIn
  <1>9. QED BY <1>5, <1>6, <1>7, <1>8, PoolThreadKeeps

\* A poster begins, goes on with or ends a post; a pool thread inside a job only.
LEMMA PostMoves ==
    ASSUME ShutdownInv, NEW p \in IoThreads \cup PoolThreads, NEW x \in W!PostState,
           posting' = [posting EXCEPT ![p] = x],
           p \in PoolThreads => job[p] # NoJob \/ x = W!Idle,
           events' \in [Workers -> SUBSET Tasks], UNCHANGED <<runing, shutting_down, loop>>,
           UNCHANGED <<poolVars, app, mgrVars, drvVars, exec, doing, cleaned, owner>>,
           done' \in SUBSET Jobs, posted' \in SUBSET Messages
    PROVE  ShutdownInv'
  <1> USE DEF poolVars
  <1>1. ShutdownTypeOK /\ W!WorkerTypeOK
    BY DEF ShutdownInv, ShutdownTypeOK
  <1>2. W!WorkerTypeOK'
    BY <1>1 DEF W!WorkerTypeOK
  <1>3. DriverInv' /\ OrderInv' /\ VisitInv'
    BY DriversLeftAlone
  <1>4. P!PoolTypeOK'
    BY <1>1 DEF ShutdownTypeOK, P!PoolTypeOK
  <1>5. OwnerInv' /\ PendInv'
    BY DEF ShutdownInv, OwnerInv, PendInv, SubmittersIn
  <1>6. PoolThreadInv'
    <2>1. posting'[p] = x /\ \A u \in PoolThreads : u # p => posting'[u] = posting[u]
      BY <1>1 DEF W!WorkerTypeOK
    <2>2. QED BY <2>1 DEF ShutdownInv, PoolThreadInv
  <1>7. ModeInv'
    BY DEF ShutdownInv, ModeInv, drvVars
  <1>8. ShutdownTypeOK'
    BY <1>1, <1>2, <1>4 DEF ShutdownTypeOK, mgrVars, drvVars
  <1>9. QED BY <1>3, <1>5, <1>6, <1>7, <1>8 DEF ShutdownInv

LEMMA RunJobPosts ==
    ASSUME ShutdownInv, NEW t \in PoolThreads, RunJob(t)
    PROVE  ShutdownInv'
  <1> USE DEF RunJob, W!BeginPost
  <1>1. /\ ShutdownTypeOK /\ job[t] \in Jobs /\ owner[job[t]] \in Normals
        /\ events \in [Workers -> SUBSET Tasks]
    BY DEF ShutdownInv, ShutdownTypeOK, P!PoolTypeOK, W!WorkerTypeOK, OwnerInv
  <1>2. [pc |-> "check", w |-> owner[job[t]], t |-> job[t]] \in W!PostState
    BY <1>1 DEF W!PostState, Workers, Tasks
  <1>3. done' \in SUBSET Jobs /\ posted' \in SUBSET Messages
    BY <1>1 DEF ShutdownTypeOK
  <1>4. QED BY <1>1, <1>2, <1>3, PostMoves

LEMMA IoPostKeeps ==
    ASSUME ShutdownInv, NEW p \in IoThreads, NEW w \in Workers, NEW x \in Messages,
           IoPost(p, w, x)
    PROVE  ShutdownInv'
  <1> USE DEF IoPost, W!BeginPost
  <1>1. /\ ShutdownTypeOK /\ p \notin PoolThreads
        /\ events \in [Workers -> SUBSET Tasks]
    BY DEF ShutdownInv, ShutdownTypeOK, W!WorkerTypeOK, ShutdownConstants
  <1>2. [pc |-> "check", w |-> w, t |-> x] \in W!PostState
    BY DEF W!PostState, Tasks
  <1>3. done' \in SUBSET Jobs /\ posted' \in SUBSET Messages
    BY <1>1 DEF ShutdownTypeOK
  <1>4. QED BY <1>1, <1>2, <1>3, PostMoves

LEMMA PostingKeeps ==
    ASSUME ShutdownInv, NEW p \in IoThreads \cup PoolThreads, Posting(p)
    PROVE  ShutdownInv'
  <1>1. /\ ShutdownTypeOK /\ posting[p] \in W!PostState
        /\ events \in [Workers -> SUBSET Tasks]
        /\ UNCHANGED <<poolVars, app, mgrVars, drvVars, exec, doing, cleaned,
                       owner, done, posted>>
    BY DEF ShutdownInv, ShutdownTypeOK, W!WorkerTypeOK, Posting, runVars
  <1>2. posting[p].pc \in {"check", "enqueue"}
    BY DEF Posting, W!PostCheck, W!PostEnqueue
  <1>3. posting[p] # W!Idle /\ posting[p].w \in Workers /\ posting[p].t \in Tasks
    BY <1>1, <1>2, PosterStates
  <1>4. p \in PoolThreads => job[p] # NoJob
    BY <1>3 DEF ShutdownInv, PoolThreadInv
  <1>5. done' \in SUBSET Jobs /\ posted' \in SUBSET Messages
    BY <1>1 DEF ShutdownTypeOK
  <1>6. CASE W!PostCheck(p)
    <2>1. PICK x \in {W!Idle, [posting[p] EXCEPT !.pc = "enqueue"]} :
               posting' = [posting EXCEPT ![p] = x]
      BY <1>6 DEF W!PostCheck
    <2>2. x \in W!PostState
      BY <1>1, <1>3, <2>1 DEF W!PostState, W!Idle
    <2>3. UNCHANGED <<runing, shutting_down, events, loop>>
      BY <1>6 DEF W!PostCheck
    <2>4. QED BY <1>1, <1>4, <1>5, <2>1, <2>2, <2>3, PostMoves
  <1>7. CASE W!PostEnqueue(p)
    <2>1. /\ events' = [events EXCEPT ![posting[p].w] = @ \cup {posting[p].t}]
          /\ posting' = [posting EXCEPT ![p] = W!Idle]
          /\ UNCHANGED <<runing, shutting_down, loop>>
      BY <1>7 DEF W!PostEnqueue
    <2>2. events' \in [Workers -> SUBSET Tasks] /\ W!Idle \in W!PostState
      BY <1>1, <1>3, <2>1 DEF W!PostState
    <2>3. QED BY <1>1, <1>5, <2>1, <2>2, PostMoves
  <1>8. QED BY <1>6, <1>7 DEF Posting

----------------------------------------------------------------------------
LEMMA NextKeeps == ShutdownInv /\ [ShutdownNext]_shutdownVars => ShutdownInv'
  <1> SUFFICES ASSUME ShutdownInv, [ShutdownNext]_shutdownVars PROVE ShutdownInv'
    OBVIOUS
  <1>1. ASSUME NEW s \in SignalThreads, Signal(s) PROVE ShutdownInv'
    BY <1>1, SignalKeeps
  <1>2. ASSUME NEW t \in Drivers, ManagerStep(t) \/ PhaseStep(t) PROVE ShutdownInv'
    BY <1>2, ManagerStepKeeps, PhaseStepKeeps
  <1>3. CASE ForceShutdown \/ MainStep \/ MainLeaves
    BY <1>3, ForceShutdownKeeps, MainStepKeeps
  <1>4. ASSUME NEW w \in Normals, WorkerStep(w) \/ \E j \in Jobs : TaskSubmit(w, j)
        PROVE  ShutdownInv'
    BY <1>4, WorkerTaskKeeps, ExecutingKeeps, TaskSubmitKeeps DEF WorkerStep
  <1>5. ASSUME NEW t \in PoolThreads, PoolStep(t) PROVE ShutdownInv'
    BY <1>5, PoolTurnKeeps, RunJobPosts, PoolJobDoneKeeps DEF PoolStep
  <1>6. ASSUME NEW p \in IoThreads, NEW w \in Workers, NEW x \in Messages, IoPost(p, w, x)
        PROVE  ShutdownInv'
    BY <1>6, IoPostKeeps
  <1>7. ASSUME NEW p \in IoThreads \cup PoolThreads, Posting(p) PROVE ShutdownInv'
    BY <1>7, PostingKeeps
  <1>8. CASE UNCHANGED shutdownVars
    <2> USE <1>8 DEF shutdownVars, workerVars, poolVars, mgrVars, drvVars, runVars
    <2>1. W!WorkerTypeOK'
      BY WorkersLeftAlone
    <2>2. UNCHANGED <<exec, doing, cleaned, done, posted, posting, shutting_down, owner>>
      OBVIOUS
    <2>3. QED BY <2>1, <2>2, WorkerStateKeeps DEF ShutdownInv, ShutdownTypeOK
  <1>9. QED BY <1>1, <1>2, <1>3, <1>4, <1>5, <1>6, <1>7, <1>8 DEF ShutdownNext

\* The inductive invariant of the shutdown: where the one driver is and how far
\* the phases are, what it has still to visit, and what the pool threads may be
\* doing meanwhile (shutdown.cpp, app.cpp, thread_pool.h).
THEOREM ShutdownInvariance == ShutdownSpec => []ShutdownInv
  <1>1. QED BY InitKeeps, NextKeeps, PTL DEF ShutdownSpec

\* For any number of threads on which a signal is handled, of workers, jobs and
\* IO threads, with or without ForceShutdown: the callbacks of the phases run once
\* each and in the documented order, whoever wins the compare-exchange of Shutdown
\* and however NextPhase is called from inside a callback.
THEOREM PhasesInOrder == ShutdownSpec => []PhasesOnceInOrder
  <1>1. ShutdownInv => PhasesOnceInOrder
    <2> SUFFICES ASSUME ShutdownInv PROVE PhasesOnceInOrder
      OBVIOUS
    <2>1. Len(ran) \in Nat /\ Len(ran) <= 4 /\ Len(Phases) = 6
      BY PhaseFacts DEF ShutdownInv, OrderInv, ShutdownTypeOK
    <2>2. QED BY <2>1 DEF ShutdownInv, OrderInv, PhasesOnceInOrder
  <1>2. QED BY <1>1, ShutdownInvariance, PTL

\* No worker closes its queue while a pool thread is posting the callback of a
\* job: OnPhaseProcessingTasks enters shutdown mode after Stop has joined the
\* pool's threads, and a joined thread has no job left to post for.
THEOREM PoolBeforeMode == ShutdownSpec => []PoolPostsBeforeMode
  <1>1. ShutdownInv => PoolPostsBeforeMode
    <2> SUFFICES ASSUME ShutdownInv, NEW t \in PoolThreads, posting[t] # W!Idle,
                        NEW w \in Workers, shutting_down[w]
                 PROVE  FALSE
      BY DEF PoolPostsBeforeMode
    <2>1. thread[t] \in {"busy", "draining"}
      BY DEF ShutdownInv, PoolThreadInv
    <2>2. thread[t] = "exited"
      BY DEF ShutdownInv, PoolThreadInv, ModeInv
    <2>3. QED BY <2>1, <2>2
  <1>2. QED BY <1>1, ShutdownInvariance, PTL
============================================================================
