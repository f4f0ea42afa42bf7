------------------------------- MODULE Router -------------------------------
(***************************************************************************)
(* How an incoming message finds its worker and its handler:               *)
(* Router::GetExecutor (network/router/router.cpp) and the dispatch        *)
(* through the executor it returns, RouteTable, LockFreeRouteTable         *)
(* (network/router/lock_free_route_table.h), whose snapshots the main      *)
(* thread replaces in every frame while IO threads search them, and the    *)
(* handler maps of NetworkManager, which Freeze moves to frozen ones while *)
(* IO threads search those.                                                *)
(*                                                                         *)
(* Entity ids and interval ends are unsigned integers of a fixed width:    *)
(* they are taken modulo Wrap.  The vector pending_ is a set of entries:   *)
(* its order decides nothing as long as its entries are disjoint, which    *)
(* BindingsExact says.  bound and frozen_bound are the reference: what     *)
(* the calls of Bind and Unbind mean, id by id.  Each handler map holds    *)
(* one message type or one method, named by the mode of its messages;      *)
(* known is the reference: what was registered before Freeze took the map. *)
(***************************************************************************)
EXTENDS Integers

CONSTANTS Wrap,        \* number of representable ids (2^64 in the code)
          NumWorkers,  \* normal workers, with indices 1 .. NumWorkers
          Indices,     \* worker indices given to Bind: nothing checks them
          MaxBinds,    \* bound: calls of Bind, BindSingle and Unbind
          IoThreads,
          NoRoute      \* kInvalidWorker, and the empty executor

ASSUME RouterAssumption ==
    /\ Wrap \in Nat \ {0}
    /\ NumWorkers \in Nat
    /\ Indices \subseteq Nat
    /\ MaxBinds \in Nat
    /\ NoRoute \notin Int

Ids     == 0 .. Wrap - 1
Workers == 0 .. NumWorkers          \* 0 is main_worker_
Modes   == {"Msg", "Request"}
Entry   == [begin : Ids, end : Ids, worker : Indices]

VARIABLES policy,          \* policy_
          pending,         \* pending_
          current,         \* *current_: the published snapshot (empty: none yet)
          binds,           \* calls of Bind, BindSingle and Unbind so far
          bound,           \* reference: the binding of each id
          frozen_bound,    \* reference: the bindings when current_ was published
          service,         \* workers registered with RouteTable, in order
          frozen_service,  \* the same in frozen_ (0: not frozen, or none)
          handlers,        \* listen_function_map_ and rpc_interface_map_
          snapshot,        \* listen_snapshot and rpc_snapshot
          frozen,          \* the modes whose frozen map is stored
          known,           \* reference: what snapshot should hold
          main,            \* the main thread: "init", in Freeze, or in the frames of App::Run
          io               \* per IO thread: the message it is dispatching

tableVars   == <<pending, current, binds, bound, frozen_bound>>
mapVars     == <<handlers, snapshot, frozen, known>>
startVars   == <<policy, service, frozen_service, mapVars>>
vars        == <<tableVars, startVars, main, io>>

\* Not dispatching anything.
Quiet == [pc |-> "quiet"]

\* Inside Dispatch.  age: snapshots published since this thread loaded current_,
\* at two the one it holds is deleted; want: the binding it should find; to: the
\* worker of the executor; had: whether there is a handler, "any" when the map was
\* taken between the test of the frozen one and the search.
Dispatching ==
    [pc : {"route", "search", "find", "locked", "deliver"},
     id : Ids, mode : Modes, had : {"yes", "no", "any"}, age : 0 .. 2,
     want : Indices \cup {NoRoute}, to : Indices \cup Workers \cup {NoRoute}]

\* How the last Dispatch ended.
Ended == [pc : {"dropped", "posted", "inline"}, had : {"yes", "no", "any"}]

\* Before Freeze, after each of its steps, and after it.
Phases == {"init", "listen", "rpc", "storing", "stored", "run"}

RouterTypeOK ==
    /\ policy \in {"Stateful", "Stateless"}
    /\ pending \subseteq Entry
    /\ current \subseteq Entry
    /\ binds \in 0 .. MaxBinds
    /\ bound \in [Ids -> Indices \cup {NoRoute}]
    /\ frozen_bound \in [Ids -> Indices \cup {NoRoute}]
    /\ service \in Workers
    /\ frozen_service \in Workers
    /\ handlers \subseteq Modes
    /\ snapshot \subseteq Modes
    /\ frozen \subseteq Modes
    /\ known \subseteq Modes
    /\ main \in Phases
    /\ io \in [IoThreads -> {Quiet} \cup Dispatching \cup Ended]

Init ==
    /\ policy \in {"Stateful", "Stateless"}
    /\ pending = {}
    /\ current = {}
    /\ binds = 0
    /\ bound = [i \in Ids |-> NoRoute]
    /\ frozen_bound = [i \in Ids |-> NoRoute]
    /\ service = 0
    /\ frozen_service = 0
    /\ handlers = {}
    /\ snapshot = {}
    /\ frozen = {}
    /\ known = {}
    /\ main = "init"
    /\ io = [p \in IoThreads |-> Quiet]

----------------------------------------------------------------------------
(* LockFreeRouteTable, the writer's side.                                  *)

Piece(b, e, w) == IF b < e THEN {[begin |-> b, end |-> e, worker |-> w]} ELSE {}

\* What the scan of Bind leaves of an entry: itself when it does not overlap
\* [b, e), otherwise the parts to the left and to the right.
Cut(x, b, e) ==
    IF x.end <= b \/ x.begin >= e
    THEN {x}
    ELSE Piece(x.begin, b, x.worker) \cup Piece(e, x.end, x.worker)

\* A scan that forgets the right part of an enclosing entry.
BindEntriesNoSplit(S, b, e, w) ==
    IF b >= e THEN S
    ELSE (S \ {x \in S : ~(x.end <= b \/ x.begin >= e)})
            \cup (UNION {IF x.begin < b THEN Piece(x.begin, b, x.worker)
                                        ELSE Piece(e, x.end, x.worker) :
                         x \in {y \in S : ~(y.end <= b \/ y.begin >= e)}})
            \cup Piece(b, e, w)

\* Bind(entity_begin, entity_end, worker_index) on the entries of pending_.
BindEntries(S, b, e, w) ==
    IF b >= e THEN S ELSE (UNION {Cut(x, b, e) : x \in S}) \cup Piece(b, e, w)

\* Unbind(entity_id): the entry that contains it loses that id.  The ends are
\* computed modulo the width, as entity_id + 1 is in the code.
UnbindEntries(S, id) ==
    UNION {IF id >= x.begin /\ id < x.end
           THEN Piece(x.begin, id, x.worker) \cup Piece((id + 1) % Wrap, x.end, x.worker)
           ELSE {x} : x \in S}

Bind(b, e, w) ==
    /\ binds < MaxBinds
    /\ binds' = binds + 1
    /\ pending' = BindEntries(pending, b, e, w)
    /\ bound' = [i \in Ids |-> IF b <= i /\ i < e THEN w ELSE bound[i]]
    /\ UNCHANGED <<current, frozen_bound, startVars, main, io>>

\* BindSingle: for the largest id the end wraps to 0 and Bind returns at once.
BindSingle(id, w) == Bind(id, (id + 1) % Wrap, w)

Unbind(id) ==
    /\ binds < MaxBinds
    /\ binds' = binds + 1
    /\ pending' = UnbindEntries(pending, id)
    /\ bound' = [bound EXCEPT ![id] = NoRoute]
    /\ UNCHANGED <<current, frozen_bound, startVars, main, io>>

\* The merge in Freeze, on entries sorted by begin: an entry opens a new run
\* when everything before it has ended, and is merged into the run otherwise.
Opens(S) == {x \in S : \A y \in S : y.begin < x.begin => y.end <= x.begin}

RunOf(S, x) ==
    {y \in S : /\ y.begin >= x.begin
               /\ \A z \in Opens(S) : z.begin > x.begin => y.begin < z.begin}

Merged(S, x) ==
    LET R == RunOf(S, x) IN
    [begin  |-> x.begin,
     end    |-> (CHOOSE y \in R : \A z \in R : z.end <= y.end).end,
     worker |-> (CHOOSE y \in R : \A z \in R : z.begin <= y.begin).worker]

Snapshot(S) == {Merged(S, x) : x \in Opens(S)}

\* Freeze, called in every frame: publish a snapshot; the one before it becomes
\* retired_, and the one retired until now is deleted.
FreezeEntityRoutes ==
    /\ main = "run"
    /\ current' = Snapshot(pending)
    /\ frozen_bound' = bound
    /\ io' = [p \in IoThreads |->
                 IF io[p].pc = "search" /\ io[p].age < 2
                 THEN [io[p] EXCEPT !.age = @ + 1] ELSE io[p]]
    /\ UNCHANGED <<pending, binds, bound, startVars, main>>

\* upper_bound - 1: the last entry whose begin is at most id.
LastBefore(S, id) ==
    {x \in S : x.begin <= id /\ \A y \in S : y.begin <= id => y.begin <= x.begin}

\* A Lookup that does not compare the id with the end of the entry.
LookupNoEnd(S, id) ==
    IF LastBefore(S, id) # {} THEN (CHOOSE x \in LastBefore(S, id) : TRUE).worker ELSE NoRoute

\* Lookup on a snapshot: the worker of that entry, if the entry contains id.
Lookup(S, id) ==
    IF \E x \in LastBefore(S, id) : id < x.end
    THEN (CHOOSE x \in LastBefore(S, id) : id < x.end).worker
    ELSE NoRoute

----------------------------------------------------------------------------
(* Start-up.                                                               *)

\* CreateWorker and RegisterWorker(SWT_Normal) in OnInit.
RegisterWorker ==
    /\ main = "init"
    /\ service < NumWorkers
    /\ service' = service + 1
    /\ UNCHANGED <<tableVars, policy, frozen_service, mapVars, main, io>>

\* Whether Freeze has taken the map of mode m.
Taken(m) == main # "init" /\ (m = "Request" => main # "listen")

\* Listen and Register, UnListen and UnRegister: from OnInit and from the Lua
\* scripts of workers, on their own threads and at any time.
Listen(m) ==
    /\ handlers' = handlers \cup {m}
    /\ known' = IF Taken(m) THEN known ELSE known \cup {m}
    /\ UNCHANGED <<tableVars, policy, service, frozen_service, snapshot, frozen, main, io>>

UnListen(m) ==
    /\ handlers' = handlers \ {m}
    /\ known' = IF Taken(m) THEN known ELSE known \ {m}
    /\ UNCHANGED <<tableVars, policy, service, frozen_service, snapshot, frozen, main, io>>

\* NetworkManager::Freeze, from App::Run before the frames, step by step: each
\* map is copied and cleared under its lock, the copies are stored, and then
\* Router::Freeze is called.
TakeMap(m, from, to) ==
    /\ main = from /\ main' = to
    /\ snapshot' = snapshot \cup (handlers \cap {m})
    /\ handlers' = handlers \ {m}
    /\ UNCHANGED <<tableVars, policy, service, frozen_service, frozen, known, io>>

\* Mutant: what is stored is a copy of the map as it is now, after the clearing.
StoreMap_NotTaken(m, from, to) ==
    /\ main = from /\ main' = to
    /\ frozen' = frozen \cup {m}
    /\ snapshot' = handlers
    /\ UNCHANGED <<tableVars, policy, service, frozen_service, handlers, known, io>>

StoreMap(m, from, to) ==
    /\ main = from /\ main' = to
    /\ frozen' = frozen \cup {m}
    /\ UNCHANGED <<tableVars, policy, service, frozen_service, handlers, snapshot, known, io>>

FreezeRouter ==
    /\ main = "stored" /\ main' = "run"
    /\ frozen_service' = service
    /\ UNCHANGED <<tableVars, policy, service, mapVars, io>>

Freeze ==
    \/ TakeMap("Msg", "init", "listen") \/ TakeMap("Request", "listen", "rpc")
    \/ StoreMap("Msg", "rpc", "storing") \/ StoreMap("Request", "storing", "stored")
    \/ FreezeRouter

----------------------------------------------------------------------------
(* NetworkManager::Dispatch on an IO thread.                               *)

\* A message or a request arrives; OnInit has started the network already.
Receive(p, id, m) ==
    /\ io[p].pc \in {"quiet", "dropped", "posted", "inline"}
    /\ io' = [io EXCEPT ![p] = [pc |-> "route", id |-> id, mode |-> m, had |-> "any", age |-> 0,
                                want |-> NoRoute, to |-> NoRoute]]
    /\ UNCHANGED <<tableVars, startVars, main>>

\* WorkerManager::GetWorker(index), as the worker of an executor.
GetWorker(i) == IF i \in Workers THEN i ELSE NoRoute

\* PickWorker with the default key: workers[route_id % workers.size()].
PickWorker(id) == IF frozen_service = 0 THEN NoRoute ELSE (id % frozen_service) + 1

\* GetExecutor: id 0 goes to main_worker_; a stateful server loads current_ and
\* searches it next; a stateless one hashes the id.  A published snapshot never
\* changes, so what the search will find is settled here.
GetExecutor(p) ==
    /\ io[p].pc = "route"
    /\ LET id == io[p].id IN
       \/ /\ id = 0
          /\ io' = [io EXCEPT ![p].pc = "find", ![p].to = 0]
       \/ /\ id # 0 /\ policy = "Stateful"
          /\ io' = [io EXCEPT ![p].pc = "search",
                              ![p].to = Lookup(current, id), ![p].want = frozen_bound[id]]
       \/ /\ id # 0 /\ policy = "Stateless"
          /\ io' = [io EXCEPT ![p].pc = "find", ![p].to = PickWorker(id)]
    /\ UNCHANGED <<tableVars, startVars, main>>

\* The search ends: with what the snapshot holds, or with anything if it has
\* been deleted meanwhile.
EndSearch(p) ==
    /\ io[p].pc = "search"
    /\ \/ /\ io[p].age < 2
          /\ io' = [io EXCEPT ![p].pc = "find", ![p].to = GetWorker(@)]
       \/ /\ io[p].age = 2
          /\ \E i \in Workers \cup {NoRoute} : io' = [io EXCEPT ![p].pc = "find", ![p].to = i]
    /\ UNCHANGED <<tableVars, startVars, main>>

\* There is a handler, or Dispatch returns.
Found(p, has, had) ==
    \/ has /\ io' = [io EXCEPT ![p].pc = "deliver", ![p].had = had]
    \/ ~has /\ io' = [io EXCEPT ![p] = [pc |-> "dropped", had |-> had]]

Known(m) == IF m \in known THEN "yes" ELSE "no"

\* FindListenFunction or FindRpcFunction: the frozen map, or if there is none
\* yet the other one, for which the lock must be taken.
FindFrozen(p) ==
    /\ io[p].pc = "find"
    /\ LET m == io[p].mode IN
       \/ m \in frozen /\ Found(p, m \in snapshot, Known(m))
       \/ m \notin frozen /\ io' = [io EXCEPT ![p].pc = "locked"]
    /\ UNCHANGED <<tableVars, startVars, main>>

FindInMap(p) ==
    /\ io[p].pc = "locked"
    /\ LET m == io[p].mode IN Found(p, m \in handlers, IF Taken(m) THEN "any" ELSE Known(m))
    /\ UNCHANGED <<tableVars, startVars, main>>

\* WorkerExecutor::Dispatch: Post to the worker; an empty executor is a default
\* one, whose inline_fallback_ is true, so the handler runs here.
DispatchTo(p) ==
    /\ io[p].pc = "deliver"
    /\ io' = [io EXCEPT ![p] = [pc  |-> IF io[p].to = NoRoute THEN "inline" ELSE "posted",
                                had |-> io[p].had]]
    /\ UNCHANGED <<tableVars, startVars, main>>

IoStep(p) ==
    \/ \E id \in Ids, m \in Modes : Receive(p, id, m)
    \/ GetExecutor(p) \/ EndSearch(p) \/ FindFrozen(p) \/ FindInMap(p) \/ DispatchTo(p)

TableStep ==
    \/ \E b, e \in Ids, w \in Indices : Bind(b, e, w)
    \/ \E id \in Ids, w \in Indices : BindSingle(id, w)
    \/ \E id \in Ids : Unbind(id)
    \/ FreezeEntityRoutes

MapStep == \E m \in Modes : Listen(m) \/ UnListen(m)

Next == RegisterWorker \/ Freeze \/ MapStep \/ TableStep \/ \E p \in IoThreads : IoStep(p)

Spec == Init /\ [][Next]_vars

----------------------------------------------------------------------------
(* Properties.                                                             *)

Covers(S, id, w) == \E x \in S : x.begin <= id /\ id < x.end /\ x.worker = w

\* No two entries of S overlap.
Disjoint(S) == \A x, y \in S : x # y => x.end <= y.begin \/ y.end <= x.begin

\* After any sequence of Bind, BindSingle and Unbind the entries are disjoint
\* and each id is covered by an entry of exactly the worker it was last bound to
\* (the splitting and truncating in lock_free_route_table.h).
BindingsExact ==
    /\ Disjoint(pending)
    /\ \A id \in Ids, w \in Indices : Covers(pending, id, w) <=> bound[id] = w

\* A message for an entity reaches the worker the entity was bound to at the
\* last Freeze before current_ was loaded, whatever the main thread binds and
\* publishes meanwhile, as long as the snapshot has not been deleted (Lookup).
RouteExact ==
    \A p \in IoThreads :
        /\ io[p].pc = "search" => io[p].to = io[p].want
        /\ /\ io[p].pc \in {"find", "locked", "deliver"}
           /\ io[p].id # 0 /\ io[p].age < 2 /\ policy = "Stateful"
           => io[p].to = GetWorker(io[p].want)

\* A message is dropped for want of a handler only if none was registered before
\* Freeze took the map, and handled only if one was, unless the map was taken
\* between the test of the frozen map and the search (network_manager.cpp:151).
HandlerFound ==
    \A p \in IoThreads :
        /\ io[p].pc = "dropped" => io[p].had # "yes"
        /\ io[p].pc \in {"deliver", "posted", "inline"} => io[p].had # "no"
============================================================================
