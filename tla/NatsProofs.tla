----------------------------- MODULE NatsProofs -----------------------------
(***************************************************************************)
(* For any number of processes, threads, requests and subscriptions: the   *)
(* table of outstanding requests agrees with the callers, the timers and   *)
(* the subscriptions, and a result is final.  Where the index of a worker  *)
(* names one thread, what arrives reaches the one it is for.               *)
(***************************************************************************)
EXTENDS Nats, TLAPS

SubjectSubs == [kind : {"subject"}, p : Processes, w : Nat, pat : Patterns, k : Nat]
InboxSubs   == [kind : {"inbox"}, p : Processes, inbox : Inboxes, r : Requests]
Entry       == [inbox : Inboxes, r : Requests]
Message     == [sub : SubjectSubs \cup InboxSubs, subject : Subjects \cup {<<>>},
                reply : Inboxes \cup {NoReply}, r : Requests \cup {0}]

Shapes ==
    /\ NatsTypeOK
    /\ bus \subseteq SubjectSubs \cup InboxSubs
    /\ wire \subseteq Message
    /\ events \in [Workers -> SUBSET Message]
    /\ pending \in [Threads -> SUBSET Entry]

\* An entry is in the table of its caller, who waits, and its inbox has a number
\* that GenInbox has given out; a request has one entry.
EntryInv ==
    \A t \in Threads : \A e \in pending[t] :
        /\ CallerOf[e.r] = t
        /\ result[e.r] = "waiting"
        /\ e.inbox.w = Name(t) /\ e.inbox.n < inbox_seq[t]
        /\ \A f \in pending[t] : f.r = e.r => f = e

\* A caller that waits has an entry, and on a worker a timer until the shutdown.
WaitInv ==
    \A r \in Requests :
        /\ result[r] = "waiting" => \E e \in pending[CallerOf[r]] : e.r = r
        /\ result[r] = "none" => timer[r] = "unused"
        /\ timer[r] = "armed" => result[r] = "waiting"
        /\ /\ result[r] = "waiting"
           /\ CallerOf[r] \in Workers
           /\ ~tmShut[ProcessOf[CallerOf[r]]]
           => timer[r] = "armed"

\* A subscription to an inbox belongs to an entry.
InboxInv ==
    \A s \in bus : s.kind = "inbox" =>
        /\ [inbox |-> s.inbox, r |-> s.r] \in pending[CallerOf[s.r]]
        /\ s.p = ProcessOf[CallerOf[s.r]]

TableInv == Shapes /\ EntryInv /\ WaitInv /\ InboxInv

----------------------------------------------------------------------------
(* The table of requests.                                                  *)

LEMMA Constants ==
    /\ NoReply \notin Inboxes
    /\ \A t \in Threads : ProcessOf[t] \in Processes /\ IndexOf[t] \in Nat /\ Name(t) \in Nat
    /\ \A r \in Requests : CallerOf[r] \in Threads
    /\ Workers \subseteq Threads /\ Subscribers \subseteq Threads
  BY ThreadAssumption DEF NoReply, Inboxes, Name

LEMMA InitTable == Init => TableInv
  <1> SUFFICES ASSUME Init PROVE TableInv
    OBVIOUS
  <1>1. Shapes
    BY ThreadAssumption DEF Init, Shapes, NatsTypeOK
  <1>2. EntryInv /\ WaitInv /\ InboxInv
    BY Constants DEF Init, EntryInv, WaitInv, InboxInv
  <1>3. QED BY <1>1, <1>2 DEF TableInv

\* A step that touches no request and adds no subscription to an inbox.
LEMMA TablesAlone ==
    ASSUME TableInv, Shapes',
           UNCHANGED <<pending, inbox_seq, timer, tmShut, result>>,
           \A s \in bus' : s.kind = "inbox" => s \in bus
    PROVE  TableInv'
  <1>1. EntryInv' /\ WaitInv'
    BY DEF TableInv, EntryInv, WaitInv
  <1>2. InboxInv'
    BY DEF TableInv, InboxInv
  <1>3. QED BY <1>1, <1>2 DEF TableInv

LEMMA ConnectTable ==
    ASSUME TableInv, NEW p \in Processes, Connect(p) \/ Disconnect(p)
    PROVE  TableInv'
  <1>1. Shapes'
    BY DEF TableInv, Shapes, NatsTypeOK, Connect, Disconnect
  <1>2. QED BY <1>1, TablesAlone DEF Connect, Disconnect

LEMMA DeliveryShape ==
    ASSUME TableInv, NEW subject \in Subjects, NEW reply \in Inboxes \cup {NoReply},
           NEW r \in Requests \cup {0}
    PROVE  Deliveries(bus, subject, reply, r) \subseteq Message
  BY DEF Deliveries, Message, TableInv, Shapes

LEMMA ReplyShape ==
    ASSUME TableInv, NEW inbox \in Inboxes, NEW r \in Requests \cup {0}
    PROVE  ReplyDeliveries(inbox, r) \subseteq Message
  BY DEF ReplyDeliveries, Message, TableInv, Shapes

LEMMA SubscribeTable ==
    ASSUME TableInv, NEW t \in Subscribers, NEW pat \in Patterns, Subscribe(t, pat)
    PROVE  TableInv'
  <1>1. SubjectSub(ProcessOf[t], IndexOf[t], pat, made) \in SubjectSubs
    BY Constants DEF SubjectSub, SubjectSubs, TableInv, Shapes, NatsTypeOK
  <1>2. made' \in 0 .. MaxCalls /\ subs' \in [Threads -> SUBSET Patterns]
    BY ThreadAssumption DEF Subscribe, TableInv, Shapes, NatsTypeOK
  <1>3. bus' \subseteq SubjectSubs \cup InboxSubs /\ \A s \in bus' : s.kind = "inbox" => s \in bus
    BY <1>1 DEF Subscribe, TableInv, Shapes, SubjectSubs
  <1>4. \A s \in bus' : s.p \in Processes
    BY <1>3 DEF SubjectSubs, InboxSubs
  <1>5. Shapes'
    BY <1>2, <1>3, <1>4 DEF Subscribe, TableInv, Shapes, NatsTypeOK
  <1>6. QED BY <1>3, <1>5, TablesAlone DEF Subscribe

\* Messages go on the wire or leave it.
LEMMA WireTable ==
    ASSUME TableInv, wire' \subseteq Message, made' \in 0 .. MaxCalls,
           events' \in [Workers -> SUBSET Message], bus' \subseteq bus,
           UNCHANGED <<connected, subs, pending, inbox_seq, timer, tmShut, result, answer>>
    PROVE  TableInv'
  <1>1. \A d \in wire' : d.sub.p \in Processes
    BY DEF Message, SubjectSubs, InboxSubs
  <1>2. Shapes'
    BY <1>1 DEF TableInv, Shapes, NatsTypeOK
  <1>3. QED BY <1>2, TablesAlone

LEMMA PublishTable ==
    ASSUME TableInv, NEW t \in Subscribers, NEW s \in Subjects, Publish(t, s)
    PROVE  TableInv'
  <1>1. Deliveries(bus, s, NoReply, 0) \subseteq Message
    BY DeliveryShape
  <1>2. made' \in 0 .. MaxCalls
    BY ThreadAssumption DEF Publish, TableInv, Shapes, NatsTypeOK
  <1>3. QED BY <1>1, <1>2, WireTable DEF Publish, TableInv, Shapes

LEMMA MessageTable ==
    ASSUME TableInv, NEW d \in wire, OnNatsSubMsg(d) \/ OnNatsInboxMsg(d)
    PROVE  TableInv'
  <1>1. events' \in [Workers -> SUBSET Message] /\ made' \in 0 .. MaxCalls
    BY DEF OnNatsSubMsg, OnNatsInboxMsg, Posted, TableInv, Shapes, NatsTypeOK
  <1>2. wire' \subseteq Message /\ bus' \subseteq bus
    BY DEF OnNatsSubMsg, OnNatsInboxMsg, TableInv, Shapes
  <1>3. QED BY <1>1, <1>2, WireTable DEF OnNatsSubMsg, OnNatsInboxMsg

LEMMA SubMsgTable ==
    ASSUME TableInv, NEW t \in Workers, NEW d \in events[t], RunSubMsg(t, d)
    PROVE  TableInv'
  <1>1. events' \in [Workers -> SUBSET Message] /\ made' \in 0 .. MaxCalls
    BY DEF RunSubMsg, TableInv, Shapes, NatsTypeOK
  <1>2. d \in Message
    BY DEF TableInv, Shapes
  <1>3. wire' \subseteq Message
    BY <1>2, ReplyShape DEF RunSubMsg, Reply, Message, TableInv, Shapes
  <1>4. QED BY <1>1, <1>3, WireTable DEF RunSubMsg

LEMMA StartTable ==
    ASSUME TableInv, NEW r \in Requests, NEW subject \in Subjects,
           StartRequest(CallerOf[r], r, subject)
    PROVE  TableInv'
  <1> DEFINE t == CallerOf[r]
  <1>0. t \in Threads /\ result[r] = "none" /\ timer[r] = "unused"
        /\ \A u \in Threads : \A e \in pending[u] : e.r # r
    BY Constants DEF StartRequest, TableInv, WaitInv, EntryInv
  <1>1. ASSUME NEW code \in Errors, Ended(r, code), UNCHANGED <<bus, wire, pending, timer>>,
               inbox_seq' \in [Threads -> Nat], \A u \in Threads : inbox_seq'[u] >= inbox_seq[u]
        PROVE  TableInv'
    <2> USE <1>1 DEF Ended, StartRequest
    <2>0. code # "none" /\ code # "waiting"
      BY DEF Errors
    <2>1. /\ result' \in [Requests -> Errors \cup {"none", "waiting"}]
          /\ result'[r] = code /\ \A q \in Requests : q # r => result'[q] = result[q]
      BY DEF TableInv, Shapes, NatsTypeOK
    <2>2. Shapes'
      BY <2>1 DEF TableInv, Shapes, NatsTypeOK
    <2>3. EntryInv'
      <3> SUFFICES ASSUME NEW u \in Threads, NEW e \in pending[u]
                   PROVE  /\ CallerOf[e.r] = u /\ result'[e.r] = "waiting"
                          /\ e.inbox.w = Name(u) /\ e.inbox.n < inbox_seq'[u]
                          /\ \A f \in pending[u] : f.r = e.r => f = e
        BY DEF EntryInv
      <3>1. e.r \in Requests /\ e.r # r /\ e.inbox.n \in Nat
        BY <1>0 DEF TableInv, Shapes, Entry, Inboxes
      <3>2. inbox_seq[u] \in Nat /\ inbox_seq'[u] \in Nat /\ inbox_seq'[u] >= inbox_seq[u]
        BY DEF TableInv, Shapes, NatsTypeOK
      <3>3. QED BY <2>1, <3>1, <3>2 DEF TableInv, EntryInv
    <2>4. WaitInv'
      BY <1>0, <2>0, <2>1 DEF TableInv, WaitInv
    <2>5. InboxInv'
      BY DEF TableInv, InboxInv
    <2>6. QED BY <2>2, <2>3, <2>4, <2>5 DEF TableInv
  <1>2. CASE NotConnected(t, r)
    BY <1>1, <1>2 DEF NotConnected, Errors, StartRequest, TableInv, Shapes, NatsTypeOK
  <1>3. CASE RequestRefused(t, r)
    <2>1. inbox_seq' \in [Threads -> Nat] /\ \A u \in Threads : inbox_seq'[u] >= inbox_seq[u]
      BY <1>0, <1>3 DEF RequestRefused, TableInv, Shapes, NatsTypeOK
    <2>2. QED BY <1>1, <1>3, <2>1 DEF RequestRefused, Errors
  <1>4. CASE RequestSent(t, r, subject)
    <2> DEFINE inbox == GenInbox(t)
               new   == [inbox |-> inbox, r |-> r]
               mine  == InboxSub(ProcessOf[t], inbox, r)
    <2> USE <1>4 DEF RequestSent, StartRequest, Ended
    <2>1. /\ inbox \in Inboxes /\ inbox.w = Name(t) /\ inbox.n = inbox_seq[t]
          /\ new \in Entry /\ mine \in InboxSubs
      BY <1>0, Constants DEF GenInbox, Name, Inboxes, Entry, InboxSub, InboxSubs, TableInv,
                             Shapes, NatsTypeOK
    <2>2. /\ result'[r] = "waiting" /\ \A q \in Requests : q # r => result'[q] = result[q] /\ timer'[q] = timer[q]
          /\ timer'[r] = IF t \in Workers /\ ~tmShut[ProcessOf[t]] THEN "armed" ELSE "unused"
          /\ result' \in [Requests -> Errors \cup {"none", "waiting"}]
          /\ timer' \in [Requests -> {"unused", "armed", "off"}]
      BY <1>0 DEF TableInv, Shapes, NatsTypeOK
    <2>3. /\ pending' \in [Threads -> SUBSET Entry]
          /\ pending'[t] = pending[t] \cup {new}
          /\ \A u \in Threads : u # t => pending'[u] = pending[u]
          /\ inbox_seq' \in [Threads -> Nat] /\ inbox_seq'[t] = inbox_seq[t] + 1
          /\ \A u \in Threads : u # t => inbox_seq'[u] = inbox_seq[u]
      BY <1>0, <2>1 DEF TableInv, Shapes, NatsTypeOK
    <2>4. Shapes'
      <3>1. wire' \subseteq Message
        BY <2>1, DeliveryShape DEF TableInv, Shapes
      <3>2. \A d \in wire' : d.sub.p \in Processes
        BY <3>1 DEF Message, SubjectSubs, InboxSubs
      <3>3. bus' \subseteq SubjectSubs \cup InboxSubs
        BY <2>1 DEF TableInv, Shapes
      <3>4. \A s \in bus' : s.p \in Processes
        BY <3>3 DEF SubjectSubs, InboxSubs
      <3>5. \A u \in Threads : \A e \in pending'[u] : e.inbox \in Inboxes /\ e.r \in Requests
        BY <2>3 DEF Entry
      <3>6. QED BY <2>2, <2>3, <3>1, <3>2, <3>3, <3>4, <3>5 DEF TableInv, Shapes, NatsTypeOK
    <2>5. EntryInv'
      <3> SUFFICES ASSUME NEW u \in Threads, NEW e \in pending'[u]
                   PROVE  /\ CallerOf[e.r] = u /\ result'[e.r] = "waiting"
                          /\ e.inbox.w = Name(u) /\ e.inbox.n < inbox_seq'[u]
                          /\ \A f \in pending'[u] : f.r = e.r => f = e
        BY DEF EntryInv
      <3>0. inbox_seq[t] \in Nat /\ inbox_seq[u] \in Nat
        BY <1>0 DEF TableInv, Shapes, NatsTypeOK
      <3>1. CASE u = t /\ e = new
        BY <1>0, <2>1, <2>2, <2>3, <3>0, <3>1
      <3>2. CASE e \in pending[u]
        <4>1. e.r \in Requests /\ e.r # r /\ e.inbox.n \in Nat
          BY <1>0, <3>2 DEF TableInv, Shapes, Entry, Inboxes
        <4>2. QED BY <1>0, <2>2, <2>3, <3>0, <3>2, <4>1 DEF TableInv, EntryInv
      <3>3. QED BY <2>3, <3>1, <3>2
    <2>6. WaitInv'
      <3>1. \A q \in Requests : q # r =>
               ((\E e \in pending'[CallerOf[q]] : e.r = q) <=> (\E e \in pending[CallerOf[q]] : e.r = q))
        BY Constants, <2>3
      <3>2. \E e \in pending'[CallerOf[r]] : e.r = r
        <4>1. new \in pending'[CallerOf[r]] /\ new.r = r
          BY <2>3
        <4>2. QED BY <4>1
      <3>3. QED BY <2>2, <3>1, <3>2 DEF TableInv, WaitInv
    <2>7. InboxInv'
      <3> SUFFICES ASSUME NEW s \in bus', s.kind = "inbox"
                   PROVE  /\ [inbox |-> s.inbox, r |-> s.r] \in pending'[CallerOf[s.r]]
                          /\ s.p = ProcessOf[CallerOf[s.r]]
        BY DEF InboxInv
      <3>1. CASE s = mine
        BY <2>3, <3>1 DEF InboxSub
      <3>2. CASE s \in bus
        <4>1. s.r \in Requests
          BY <3>2 DEF TableInv, Shapes, SubjectSubs, InboxSubs
        <4>2. CallerOf[s.r] \in Threads
          BY <4>1, Constants
        <4>3. QED BY <2>3, <3>2, <4>2 DEF TableInv, InboxInv
      <3>3. QED BY <3>1, <3>2
    <2>8. QED BY <2>4, <2>5, <2>6, <2>7 DEF TableInv
  <1>5. QED BY <1>2, <1>3, <1>4 DEF StartRequest

\* Taking out an entry with its subscription and its timer.
LEMMA FinishTable ==
    ASSUME TableInv, NEW t \in Threads, NEW e \in pending[t], NEW code \in Errors,
           NEW from \in Requests \cup {0}, Finish(t, e, code, from),
           timer' \in [Requests -> {"unused", "armed", "off"}], timer'[e.r] # "armed",
           \A q \in Requests : q # e.r => timer'[q] = timer[q],
           events' \in [Workers -> SUBSET Message],
           UNCHANGED <<connected, wire, subs, inbox_seq, tmShut, made>>
    PROVE  TableInv'
  <1> USE DEF Finish, Ended
  <1>0. /\ e.r \in Requests /\ code \notin {"none", "waiting"} /\ CallerOf[e.r] = t
        /\ \A f \in pending[t] : f.r = e.r => f = e
    BY DEF Errors, TableInv, Shapes, Entry, EntryInv
  <1>1. /\ result' \in [Requests -> Errors \cup {"none", "waiting"}]
        /\ answer' \in [Requests -> Requests \cup {0}]
        /\ result'[e.r] = code /\ \A q \in Requests : q # e.r => result'[q] = result[q]
    BY <1>0 DEF TableInv, Shapes, NatsTypeOK
  <1>2. /\ pending' \in [Threads -> SUBSET Entry]
        /\ pending'[t] = pending[t] \ {e}
        /\ \A u \in Threads : u # t => pending'[u] = pending[u]
    BY DEF TableInv, Shapes
  <1>3. Shapes'
    <2>1. \A u \in Threads : \A f \in pending'[u] : f.inbox \in Inboxes /\ f.r \in Requests
      BY <1>2 DEF Entry
    <2>2. QED BY <1>1, <1>2, <2>1 DEF TableInv, Shapes, NatsTypeOK
  <1>4. \A u \in Threads : \A f \in pending'[u] : f \in pending[u] /\ f.r \in Requests /\ f.r # e.r
    BY <1>0, <1>2 DEF TableInv, EntryInv, Shapes, Entry
  <1>5. EntryInv'
    BY <1>1, <1>4 DEF TableInv, EntryInv
  <1>6. WaitInv'
    <2>1. \A q \in Requests : \A f \in pending[CallerOf[q]] : f.r = q /\ q # e.r => f \in pending'[CallerOf[q]]
      BY Constants, <1>2
    <2>2. QED BY <1>0, <1>1, <2>1 DEF TableInv, WaitInv
  <1>7. InboxInv'
    <2> SUFFICES ASSUME NEW s \in bus', s.kind = "inbox"
                 PROVE  /\ [inbox |-> s.inbox, r |-> s.r] \in pending'[CallerOf[s.r]]
                        /\ s.p = ProcessOf[CallerOf[s.r]]
      BY DEF InboxInv
    <2>1. /\ s \in bus /\ s # InboxSub(ProcessOf[t], e.inbox, e.r)
          /\ s.r \in Requests /\ s = InboxSub(s.p, s.inbox, s.r)
      BY DEF TableInv, Shapes, SubjectSubs, InboxSubs, InboxSub
    <2>2. /\ [inbox |-> s.inbox, r |-> s.r] \in pending[CallerOf[s.r]]
          /\ s.p = ProcessOf[CallerOf[s.r]]
      BY <2>1 DEF TableInv, InboxInv
    <2>3. [inbox |-> s.inbox, r |-> s.r] # e
      BY <1>0, <2>1, <2>2
    <2>4. QED BY <1>2, <2>1, <2>2, <2>3, Constants
  <1>8. QED BY <1>3, <1>5, <1>6, <1>7 DEF TableInv

LEMMA TimeoutTable ==
    ASSUME TableInv, NEW t \in Workers, NEW r \in Requests, RequestTimeout(t, r)
    PROVE  TableInv'
  <1>1. PICK e \in pending[t] : e.r = r /\ Finish(t, e, "Timeout", 0)
    BY DEF RequestTimeout
  <1>2. /\ timer' \in [Requests -> {"unused", "armed", "off"}] /\ timer'[r] = "off"
        /\ \A q \in Requests : q # r => timer'[q] = timer[q]
        /\ events' \in [Workers -> SUBSET Message]
        /\ UNCHANGED <<connected, wire, subs, inbox_seq, tmShut, made>>
    BY DEF RequestTimeout, TableInv, Shapes, NatsTypeOK
  <1>3. t \in Threads /\ "Timeout" \in Errors
    BY Constants DEF Errors
  <1>4. QED BY <1>1, <1>2, <1>3, FinishTable

LEMMA InboxMsgTable ==
    ASSUME TableInv, NEW t \in Workers, NEW d \in events[t], RunInboxMsg(t, d)
    PROVE  TableInv'
  <1>1. t \in Threads /\ d.r \in Requests \cup {0} /\ "OK" \in Errors
    BY Constants DEF TableInv, Shapes, Message, Errors
  <1>2. events' \in [Workers -> SUBSET Message] /\ made' \in 0 .. MaxCalls
    BY DEF RunInboxMsg, TableInv, Shapes, NatsTypeOK
  <1>3. CASE Entries(t, d.sub.inbox) = {}
    BY <1>2, <1>3, WireTable DEF RunInboxMsg, TableInv, Shapes
  <1>4. CASE Entries(t, d.sub.inbox) # {}
    <2>1. PICK e \in Entries(t, d.sub.inbox) :
                /\ Finish(t, e, "OK", d.r)
                /\ timer' = [timer EXCEPT ![e.r] = IF @ = "armed" THEN "off" ELSE @]
      BY <1>4 DEF RunInboxMsg
    <2>2. e \in pending[t] /\ e.r \in Requests
      BY <1>1, <2>1 DEF Entries, TableInv, Shapes, Entry
    <2>3. /\ timer' \in [Requests -> {"unused", "armed", "off"}] /\ timer'[e.r] # "armed"
          /\ \A q \in Requests : q # e.r => timer'[q] = timer[q]
      BY <2>1, <2>2 DEF TableInv, Shapes, NatsTypeOK
    <2>4. QED BY <1>1, <1>2, <2>1, <2>2, <2>3, FinishTable DEF RunInboxMsg
  <1>5. QED BY <1>3, <1>4

LEMMA TimersDownTable ==
    ASSUME TableInv, NEW p \in Processes, TimersShutDown(p)
    PROVE  TableInv'
  <1> USE DEF TimersShutDown
  <1>1. Shapes'
    BY DEF TableInv, Shapes, NatsTypeOK
  <1>2. EntryInv' /\ InboxInv'
    BY DEF TableInv, EntryInv, InboxInv
  <1>3. WaitInv'
    <2> SUFFICES ASSUME NEW r \in Requests
                 PROVE  /\ result[r] = "waiting" => \E e \in pending[CallerOf[r]] : e.r = r
                        /\ result[r] = "none" => timer'[r] = "unused"
                        /\ timer'[r] = "armed" => result[r] = "waiting"
                        /\ /\ result[r] = "waiting"
                           /\ CallerOf[r] \in Workers
                           /\ ~tmShut'[ProcessOf[CallerOf[r]]]
                           => timer'[r] = "armed"
      BY DEF WaitInv
    <2>1. /\ timer'[r] \in {timer[r], "off"} /\ (timer[r] # "armed" => timer'[r] = timer[r])
          /\ (timer'[r] # timer[r] =>
                \E t \in Threads : ProcessOf[t] = p /\ \E e \in pending[t] : e.r = r)
      OBVIOUS
    <2>2. timer'[r] # timer[r] => ProcessOf[CallerOf[r]] = p
      BY <2>1 DEF TableInv, EntryInv
    <2>3. tmShut'[p] /\ \A o \in Processes : o # p => tmShut'[o] = tmShut[o]
      BY DEF TableInv, Shapes, NatsTypeOK
    <2>4. ProcessOf[CallerOf[r]] \in Processes
      BY Constants
    <2>5. QED BY <2>1, <2>2, <2>3, <2>4 DEF TableInv, WaitInv
  <1>4. QED BY <1>1, <1>2, <1>3 DEF TableInv

LEMMA NextTable == TableInv /\ [Next]_vars => TableInv'
  <1> SUFFICES ASSUME TableInv, [Next]_vars PROVE TableInv'
    OBVIOUS
  <1>1. ASSUME NEW p \in Processes, Connect(p) \/ Disconnect(p) \/ TimersShutDown(p)
        PROVE  TableInv'
    BY <1>1, ConnectTable, TimersDownTable
  <1>2. ASSUME NEW s \in Subjects, NEW t \in Subscribers, Publish(t, s) PROVE TableInv'
    BY <1>2, PublishTable
  <1>3. ASSUME NEW s \in Subjects, NEW r \in Requests,
               AsyncRequest(CallerOf[r], r, s) \/ RequestRaw(CallerOf[r], r, s)
        PROVE  TableInv'
    BY <1>3, StartTable DEF AsyncRequest, RequestRaw
  <1>4. ASSUME NEW t \in Subscribers, NEW pat \in Patterns, Subscribe(t, pat) PROVE TableInv'
    BY <1>4, SubscribeTable
  <1>5. ASSUME NEW t \in Workers, NEW r \in Requests, RequestTimeout(t, r) PROVE TableInv'
    BY <1>5, TimeoutTable
  <1>6. ASSUME NEW t \in Workers, NEW d \in events[t], RunSubMsg(t, d) \/ RunInboxMsg(t, d)
        PROVE  TableInv'
    BY <1>6, SubMsgTable, InboxMsgTable
  <1>7. ASSUME NEW d \in wire, OnNatsSubMsg(d) \/ OnNatsInboxMsg(d) PROVE TableInv'
    BY <1>7, MessageTable
  <1>8. CASE UNCHANGED vars
    BY <1>8, TablesAlone DEF vars, TableInv, Shapes, NatsTypeOK
  <1>9. Callbacks \subseteq Requests
    BY ThreadAssumption
  <1>10. QED BY <1>1, <1>2, <1>3, <1>4, <1>5, <1>6, <1>7, <1>8, <1>9 DEF Next

\* The inductive invariant of the request tables: what tls.pending, the callers,
\* the timers and the subscriptions to inboxes hold for a request
\* (nats_manager.cpp).
THEOREM TableInvariance == Spec => []TableInv
  <1>1. QED BY InitTable, NextTable, PTL DEF Spec

\* However answers, second answers, timeouts, Disconnect and the shutdown of the
\* timers interleave, a caller waits exactly while its entry is in the table, a
\* worker's entry has a timer, and a request that ended leaves neither.
THEOREM TablesExact == Spec => []RequestTablesExact
  <1>1. TableInv => RequestTablesExact
    <2> SUFFICES ASSUME TableInv, NEW r \in Requests
                 PROVE  LET entries == {e \in UNION {pending[t] : t \in Threads} : e.r = r} IN
                        /\ result[r] = "waiting" <=> entries # {}
                        /\ timer[r] = "armed" => result[r] = "waiting"
                        /\ \A t \in Workers : (\E e \in pending[t] : e.r = r) /\ ~tmShut[ProcessOf[t]]
                                              => timer[r] = "armed"
                        /\ \A s \in bus : s.kind = "inbox" /\ s.r = r => result[r] = "waiting"
      BY DEF RequestTablesExact, TableInv, Shapes
    <2>1. result[r] = "waiting" <=> \E t \in Threads : \E e \in pending[t] : e.r = r
      BY Constants DEF TableInv, EntryInv, WaitInv
    <2>2. \A t \in Workers : (\E e \in pending[t] : e.r = r) => CallerOf[r] = t
      BY Constants DEF TableInv, EntryInv
    <2>3. \A s \in bus : s.kind = "inbox" /\ s.r = r => \E e \in pending[CallerOf[r]] : e.r = r
      <3> SUFFICES ASSUME NEW s \in bus, s.kind = "inbox", s.r = r
                   PROVE  \E e \in pending[CallerOf[r]] : e.r = r
        OBVIOUS
      <3> DEFINE e == [inbox |-> s.inbox, r |-> s.r]
      <3>1. e \in pending[CallerOf[r]] /\ e.r = r
        BY DEF TableInv, InboxInv
      <3>2. QED BY <3>1
    <2>4. QED BY <2>1, <2>2, <2>3, Constants DEF TableInv, WaitInv
  <1>2. QED BY <1>1, TableInvariance, PTL

\* The result of a request is final: whoever comes later (the timeout, a second
\* answer) finds the entry gone.
THEOREM ResultFinal == Spec => ResultOnce
  <1>1. TableInv /\ [Next]_vars =>
           [\A r \in Requests : result[r] \in Errors => result'[r] = result[r]]_vars
    <2> SUFFICES ASSUME TableInv, Next, NEW r \in Requests, result[r] \in Errors
                 PROVE  result'[r] = result[r]
      OBVIOUS
    <2>0. result[r] \notin {"none", "waiting"} /\ result \in [Requests -> Errors \cup {"none", "waiting"}]
      BY DEF Errors, TableInv, Shapes, NatsTypeOK
    <2>1. ASSUME NEW q \in Requests, NEW s \in Subjects,
                 AsyncRequest(CallerOf[q], q, s) \/ RequestRaw(CallerOf[q], q, s)
          PROVE  result'[r] = result[r]
      <3>1. q # r
        BY <2>0, <2>1 DEF AsyncRequest, RequestRaw, StartRequest
      <3>2. QED BY <2>0, <2>1, <3>1 DEF AsyncRequest, RequestRaw, StartRequest, NotConnected,
                                        RequestRefused, RequestSent, Ended
    <2>2. ASSUME NEW t \in Workers, NEW e \in pending[t], NEW code, NEW from, Finish(t, e, code, from)
          PROVE  result'[r] = result[r]
      <3>1. e.r # r
        BY <2>0, Constants DEF TableInv, EntryInv
      <3>2. QED BY <2>0, <2>2, <3>1 DEF Finish, Ended
    <2>3. ASSUME NEW t \in Workers, NEW q \in Requests, RequestTimeout(t, q)
          PROVE  result'[r] = result[r]
      BY <2>2, <2>3 DEF RequestTimeout
    <2>4. ASSUME NEW t \in Workers, NEW d \in events[t], RunInboxMsg(t, d)
          PROVE  result'[r] = result[r]
      BY <2>2, <2>4 DEF RunInboxMsg, Entries
    <2>5. Callbacks \subseteq Requests
      BY ThreadAssumption
    <2>6. QED BY <2>1, <2>3, <2>4, <2>5
              DEF Next, Connect, Disconnect, TimersShutDown, Publish, Subscribe, RunSubMsg,
                  OnNatsSubMsg, OnNatsInboxMsg
  <1>2. QED BY <1>1, TableInvariance, PTL DEF Spec, ResultOnce

----------------------------------------------------------------------------
(* Delivery.                                                               *)

\* A subscription to a subject was made by a thread that has the handler, or
\* that lost it by a repetition that failed.
FromSubscriber(s) ==
    \E u \in Subscribers :
        /\ s.p = ProcessOf[u] /\ s.w = IndexOf[u]
        /\ s.pat \in subs[u] \/ <<u, s.pat>> \in refused

\* A message matches its subscription; one that can be answered names the inbox
\* of its request, and at no worker another request waits there.
MessageInv(d) ==
    /\ d.sub.kind = "subject" => FromSubscriber(d.sub) /\ MatchSub(d.sub.pat, d.subject)
    /\ d.sub.kind = "inbox" => d.reply = d.sub.inbox
    /\ d.reply # NoReply =>
          /\ d.r \in Requests
          /\ d.reply.w = Name(CallerOf[d.r]) /\ d.reply.n < inbox_seq[CallerOf[d.r]]
          /\ \A t \in Workers : \A e \in pending[t] : e.inbox = d.reply => e.r = d.r

DeliveryInv ==
    /\ \A s \in bus : s.kind = "subject" => FromSubscriber(s)
    /\ \A d \in wire : MessageInv(d)
    /\ \A t \in Workers : \A d \in events[t] :
          /\ MessageInv(d)
          /\ d.sub.kind = "subject" => t \in WorkerAt(d.sub.p, d.sub.w)
    /\ \A r \in Requests : result[r] = "OK" => answer[r] = r

\* What may change under a message without harm: handlers come, or go with a
\* refusal, numbers are given out, entries leave.
LEMMA MessageKept ==
    ASSUME TableInv, NEW d \in Message, MessageInv(d),
           \A u \in Subscribers : \A pat \in subs[u] : pat \in subs'[u] \/ <<u, pat>> \in refused',
           refused \subseteq refused',
           inbox_seq' \in [Threads -> Nat], \A u \in Threads : inbox_seq'[u] >= inbox_seq[u],
           \A t \in Workers : \A e \in pending'[t] :
               e \in pending[t] \/ e.inbox # d.reply \/ e.r = d.r
    PROVE  MessageInv(d)'
  <1>1. d.sub.kind = "subject" => FromSubscriber(d.sub)' /\ MatchSub(d.sub.pat, d.subject)
    BY DEF MessageInv, FromSubscriber
  <1>2. ASSUME d.reply # NoReply
        PROVE  /\ d.r \in Requests
               /\ d.reply.w = Name(CallerOf[d.r]) /\ d.reply.n < inbox_seq'[CallerOf[d.r]]
               /\ \A t \in Workers : \A e \in pending'[t] : e.inbox = d.reply => e.r = d.r
    <2>1. d.r \in Requests /\ d.reply \in Inboxes /\ d.reply.n \in Nat
      BY <1>2 DEF MessageInv, Message, Inboxes
    <2>2. /\ CallerOf[d.r] \in Threads /\ inbox_seq[CallerOf[d.r]] \in Nat
          /\ inbox_seq'[CallerOf[d.r]] \in Nat
          /\ inbox_seq'[CallerOf[d.r]] >= inbox_seq[CallerOf[d.r]]
      BY <2>1, Constants DEF TableInv, Shapes, NatsTypeOK
    <2>3. QED BY <1>2, <2>1, <2>2 DEF MessageInv
  <1>3. QED BY <1>1, <1>2 DEF MessageInv

LEMMA SubscriptionKept ==
    ASSUME NEW s, FromSubscriber(s),
           \A u \in Subscribers : \A pat \in subs[u] : pat \in subs'[u] \/ <<u, pat>> \in refused',
           refused \subseteq refused'
    PROVE  FromSubscriber(s)'
  BY DEF FromSubscriber

\* The same for all of them, when messages are only taken away or moved.
LEMMA AllKept ==
    ASSUME TableInv, DeliveryInv, pending' \in [Threads -> SUBSET Entry],
           \A u \in Subscribers : \A pat \in subs[u] : pat \in subs'[u] \/ <<u, pat>> \in refused',
           refused \subseteq refused',
           inbox_seq' \in [Threads -> Nat], \A u \in Threads : inbox_seq'[u] >= inbox_seq[u],
           \A d \in Message : MessageInv(d) => \A t \in Workers : \A e \in pending'[t] :
               e \in pending[t] \/ e.inbox # d.reply \/ e.r = d.r
    PROVE  /\ \A s \in bus : s.kind = "subject" => FromSubscriber(s)'
           /\ \A d \in wire : MessageInv(d)'
           /\ \A t \in Workers : \A d \in events[t] : MessageInv(d)'
  <1>1. wire \subseteq Message /\ \A t \in Workers : events[t] \subseteq Message
    BY DEF TableInv, Shapes
  <1>2. \A s \in bus : s.kind = "subject" => FromSubscriber(s)'
    BY SubscriptionKept DEF DeliveryInv
  <1>3. \A d \in Message : MessageInv(d) => MessageInv(d)'
    BY MessageKept
  <1>4. QED BY <1>1, <1>2, <1>3 DEF DeliveryInv

\* Steps that leave what a message depends on alone.
LEMMA AllAlone ==
    ASSUME TableInv, DeliveryInv, UNCHANGED <<subs, refused, inbox_seq>>,
           \A t \in Workers : pending'[t] \subseteq pending[t]
    PROVE  /\ \A s \in bus : s.kind = "subject" => FromSubscriber(s)'
           /\ \A d \in Message : MessageInv(d) => MessageInv(d)'
  <1>1. \A s \in bus : s.kind = "subject" => FromSubscriber(s)'
    BY SubscriptionKept DEF DeliveryInv
  <1>2. ASSUME NEW d \in Message, MessageInv(d) PROVE MessageInv(d)'
    <2>1. /\ inbox_seq' \in [Threads -> Nat]
          /\ \A u \in Threads : inbox_seq[u] \in Nat /\ inbox_seq'[u] >= inbox_seq[u]
      BY DEF TableInv, Shapes, NatsTypeOK
    <2>2. QED BY <1>2, <2>1, MessageKept
  <1>3. QED BY <1>1, <1>2

LEMMA InitDelivery == Init => DeliveryInv
  BY DEF Init, DeliveryInv

\* Steps that only take messages and entries away.
LEMMA LessDelivery ==
    ASSUME TableInv, DeliveryInv, UNCHANGED <<subs, refused, inbox_seq>>,
           \A t \in Workers : pending'[t] \subseteq pending[t] /\ events'[t] \subseteq events[t],
           bus' \subseteq bus, wire' \subseteq wire,
           \A r \in Requests : result'[r] = "OK" => answer'[r] = r
    PROVE  DeliveryInv'
  <1>1. wire \subseteq Message /\ \A t \in Workers : events[t] \subseteq Message
    BY DEF TableInv, Shapes
  <1>2. QED BY <1>1, AllAlone DEF DeliveryInv, WorkerAt

LEMMA QuietDelivery ==
    ASSUME TableInv, DeliveryInv, NEW p \in Processes,
           Connect(p) \/ Disconnect(p) \/ TimersShutDown(p)
    PROVE  DeliveryInv'
  BY LessDelivery DEF Connect, Disconnect, TimersShutDown, DeliveryInv

LEMMA PublishDelivery ==
    ASSUME TableInv, DeliveryInv, NEW t \in Subscribers, NEW subject \in Subjects, Publish(t, subject)
    PROVE  DeliveryInv'
  <1> USE DEF Publish
  <1>0. wire \subseteq Message /\ \A u \in Workers : events[u] \subseteq Message
    BY DEF TableInv, Shapes
  <1>1. /\ \A s \in bus : s.kind = "subject" => FromSubscriber(s)'
        /\ \A d \in Message : MessageInv(d) => MessageInv(d)'
    BY AllAlone
  <1>2. ASSUME NEW d \in Deliveries(bus, subject, NoReply, 0) PROVE MessageInv(d)'
    BY <1>1, <1>2 DEF Deliveries, MessageInv
  <1>3. QED BY <1>0, <1>1, <1>2 DEF DeliveryInv, WorkerAt

LEMMA SubscribeDelivery ==
    ASSUME TableInv, DeliveryInv, NEW t \in Subscribers, NEW pat \in Patterns, Subscribe(t, pat)
    PROVE  DeliveryInv'
  <1> USE DEF Subscribe
  <1>0. /\ t \in Threads /\ subs \in [Threads -> SUBSET Patterns]
        /\ pending \in [Threads -> SUBSET Entry] /\ inbox_seq \in [Threads -> Nat]
    BY Constants DEF TableInv, Shapes, NatsTypeOK
  <1>1. /\ \A u \in Subscribers : \A q \in subs[u] : q \in subs'[u] \/ <<u, q>> \in refused'
        /\ refused \subseteq refused'
    BY <1>0, Constants
  <1>2. /\ \A s \in bus : s.kind = "subject" => FromSubscriber(s)'
        /\ \A d \in wire : MessageInv(d)'
        /\ \A u \in Workers : \A d \in events[u] : MessageInv(d)'
    BY <1>0, <1>1, AllKept
  <1>3. ASSUME NEW s \in bus', s \notin bus PROVE FromSubscriber(s)'
    <2>1. s = SubjectSub(ProcessOf[t], IndexOf[t], pat, made) /\ pat \in subs'[t]
      BY <1>0, <1>3
    <2>2. QED BY <2>1 DEF FromSubscriber, SubjectSub
  <1>4. QED BY <1>2, <1>3 DEF DeliveryInv, WorkerAt

LEMMA MessageDelivery ==
    ASSUME TableInv, DeliveryInv, NEW d \in wire, OnNatsSubMsg(d) \/ OnNatsInboxMsg(d)
    PROVE  DeliveryInv'
  <1> USE DEF OnNatsSubMsg, OnNatsInboxMsg
  <1>0. wire \subseteq Message /\ \A u \in Workers : events[u] \subseteq Message
    BY DEF TableInv, Shapes
  <1>1. /\ \A s \in bus : s.kind = "subject" => FromSubscriber(s)'
        /\ \A x \in Message : MessageInv(x) => MessageInv(x)'
    BY AllAlone
  <1>2. \A u \in Workers : \A x \in events'[u] :
           \/ x \in events[u]
           \/ x = d /\ (d.sub.kind = "subject" => u \in WorkerAt(d.sub.p, d.sub.w))
    BY DEF Posted
  <1>3. wire' \subseteq wire /\ bus' \subseteq bus /\ UNCHANGED <<result, answer>>
    OBVIOUS
  <1>4. QED BY <1>0, <1>1, <1>2, <1>3 DEF DeliveryInv, WorkerAt

LEMMA SubMsgDelivery ==
    ASSUME TableInv, DeliveryInv, NEW t \in Workers, NEW d \in events[t], RunSubMsg(t, d)
    PROVE  DeliveryInv'
  <1> USE DEF RunSubMsg
  <1>0. /\ wire \subseteq Message /\ \A u \in Workers : events[u] \subseteq Message
        /\ bus \subseteq SubjectSubs \cup InboxSubs
        /\ \A u \in Workers : events'[u] \subseteq events[u]
    BY DEF TableInv, Shapes
  <1>1. /\ \A s \in bus : s.kind = "subject" => FromSubscriber(s)'
        /\ \A x \in Message : MessageInv(x) => MessageInv(x)'
    BY AllAlone
  <1>2. ASSUME NEW x \in wire', x \notin wire PROVE MessageInv(x)'
    <2>1. d.reply # NoReply /\ x \in ReplyDeliveries(d.reply, d.r)
      BY <1>2 DEF Reply
    <2>2. MessageInv(d)'
      BY <1>0, <1>1 DEF DeliveryInv
    <2>3. x.sub.kind = "inbox" /\ x.reply = x.sub.inbox /\ x.reply = d.reply /\ x.r = d.r
      BY <2>1 DEF ReplyDeliveries
    <2>4. QED BY <2>1, <2>2, <2>3 DEF MessageInv
  <1>3. QED BY <1>0, <1>1, <1>2 DEF DeliveryInv, WorkerAt

LEMMA StartDelivery ==
    ASSUME UniqueIndices, TableInv, DeliveryInv, NEW r \in Requests, NEW subject \in Subjects,
           StartRequest(CallerOf[r], r, subject)
    PROVE  DeliveryInv'
  <1> DEFINE t == CallerOf[r]
  <1> USE DEF StartRequest
  <1>0. /\ t \in Threads /\ result[r] = "none"
        /\ wire \subseteq Message /\ \A u \in Workers : events[u] \subseteq Message
        /\ pending \in [Threads -> SUBSET Entry] /\ inbox_seq \in [Threads -> Nat]
        /\ result \in [Requests -> Errors \cup {"none", "waiting"}]
    BY Constants DEF TableInv, Shapes, NatsTypeOK
  <1>1. \A q \in Requests : result'[q] = "OK" => answer'[q] = q
    <2>1. \E code \in {"Disconnected", "SubscribeFailed", "RequestFailed", "waiting"} :
             result' = [result EXCEPT ![r] = code]
      BY DEF NotConnected, RequestRefused, RequestSent, Ended
    <2>2. QED BY <1>0, <2>1 DEF DeliveryInv
  <1>2. CASE NotConnected(t, r)
    BY <1>1, <1>2, LessDelivery DEF NotConnected
  <1>3. CASE RequestRefused(t, r)
    <2>1. inbox_seq' \in [Threads -> Nat] /\ \A u \in Threads : inbox_seq'[u] >= inbox_seq[u]
      BY <1>0, <1>3 DEF RequestRefused
    <2>2. /\ \A s \in bus : s.kind = "subject" => FromSubscriber(s)'
          /\ \A d \in wire : MessageInv(d)'
          /\ \A u \in Workers : \A d \in events[u] : MessageInv(d)'
      BY <1>0, <1>3, <2>1, AllKept DEF RequestRefused
    <2>3. QED BY <1>1, <1>3, <2>2 DEF RequestRefused, DeliveryInv, WorkerAt
  <1>4. CASE RequestSent(t, r, subject)
    <2> DEFINE inbox == GenInbox(t)
               new   == [inbox |-> inbox, r |-> r]
    <2> USE <1>4 DEF RequestSent
    <2>1. /\ inbox \in Inboxes /\ inbox.w = Name(t) /\ inbox.n = inbox_seq[t] /\ new \in Entry
      BY <1>0, Constants DEF GenInbox, Name, Inboxes, Entry
    <2>2. /\ pending' \in [Threads -> SUBSET Entry]
          /\ pending'[t] = pending[t] \cup {new}
          /\ \A u \in Threads : u # t => pending'[u] = pending[u]
          /\ inbox_seq' \in [Threads -> Nat] /\ inbox_seq'[t] = inbox_seq[t] + 1
          /\ \A u \in Threads : u # t => inbox_seq'[u] = inbox_seq[u]
      BY <1>0, <2>1
    <2>3. ASSUME NEW d \in Message, MessageInv(d), NEW u \in Workers, NEW e \in pending'[u],
                 e \notin pending[u], e.inbox = d.reply
          PROVE  FALSE
      <3>1. u = t /\ e = new
        BY <2>2, <2>3, Constants
      <3>2. d.reply = inbox /\ d.reply # NoReply
        BY <2>1, <2>3, <3>1, Constants
      <3>3. /\ d.r \in Requests /\ Name(CallerOf[d.r]) = Name(t)
            /\ inbox_seq[t] < inbox_seq[CallerOf[d.r]]
        BY <2>1, <2>3, <3>2 DEF MessageInv
      <3>4. CallerOf[d.r] = t
        BY <3>1, <3>3 DEF UniqueIndices
      <3>5. QED BY <1>0, <3>3, <3>4
    <2>4. /\ \A s \in bus : s.kind = "subject" => FromSubscriber(s)'
          /\ \A d \in wire : MessageInv(d)'
          /\ \A u \in Workers : \A d \in events[u] : MessageInv(d)'
      <3>1. \A u \in Threads : inbox_seq'[u] >= inbox_seq[u]
        BY <1>0, <2>2
      <3>2. QED BY <2>2, <2>3, <3>1, AllKept
    <2>5. ASSUME NEW d \in Deliveries(bus, subject, inbox, r) PROVE MessageInv(d)'
      <3>1. /\ d.sub \in bus /\ d.sub.kind = "subject" /\ MatchSub(d.sub.pat, d.subject)
            /\ d.reply = inbox /\ d.r = r
        BY DEF Deliveries
      <3>2. d.reply.w = Name(t) /\ d.reply.n < inbox_seq'[t]
        BY <1>0, <2>1, <2>2, <3>1
      <3>3. ASSUME NEW u \in Workers, NEW e \in pending'[u], e.inbox = inbox PROVE e.r = r
        <4>1. CASE e \in pending[u]
          <5>1. /\ e.r \in Requests /\ CallerOf[e.r] = u /\ u \in Threads
                /\ e.inbox.w = Name(u) /\ e.inbox.n < inbox_seq[u]
            BY <1>0, <4>1, Constants DEF TableInv, EntryInv, Entry
          <5>2. u = t
            <6>1. CallerOf[e.r] \in Workers /\ Name(CallerOf[e.r]) = Name(CallerOf[r])
              BY <2>1, <3>3, <5>1
            <6>2. QED BY <5>1, <6>1 DEF UniqueIndices
          <5>3. QED BY <1>0, <2>1, <3>3, <5>1, <5>2
        <4>2. QED BY <2>2, <3>3, <4>1, Constants
      <3>4. QED BY <2>4, <3>1, <3>2, <3>3 DEF MessageInv
    <2>6. \A s \in bus' : s.kind = "subject" => s \in bus
      BY DEF InboxSub
    <2>7. wire' = wire \cup Deliveries(bus, subject, inbox, r) /\ UNCHANGED events
      OBVIOUS
    <2>8. QED BY <1>1, <2>4, <2>5, <2>6, <2>7 DEF DeliveryInv, WorkerAt
  <1>5. QED BY <1>2, <1>3, <1>4

LEMMA TimeoutDelivery ==
    ASSUME TableInv, DeliveryInv, NEW t \in Workers, NEW r \in Requests, RequestTimeout(t, r)
    PROVE  DeliveryInv'
  <1>1. PICK e \in pending[t] : e.r = r /\ Finish(t, e, "Timeout", 0)
    BY DEF RequestTimeout
  <1>2. \A q \in Requests : result'[q] = "OK" => answer'[q] = q
    BY <1>1 DEF Finish, Ended, DeliveryInv, TableInv, Shapes, NatsTypeOK
  <1>3. \A u \in Workers : pending'[u] \subseteq pending[u]
    BY <1>1, Constants DEF Finish, TableInv, Shapes
  <1>4. QED BY <1>1, <1>2, <1>3, LessDelivery DEF RequestTimeout, Finish

LEMMA InboxMsgDelivery ==
    ASSUME TableInv, DeliveryInv, NEW t \in Workers, NEW d \in events[t], RunInboxMsg(t, d)
    PROVE  DeliveryInv'
  <1>0. /\ \A u \in Workers : events'[u] \subseteq events[u]
        /\ UNCHANGED <<subs, refused, inbox_seq, wire>>
    BY DEF RunInboxMsg, TableInv, Shapes
  <1>1. CASE Entries(t, d.sub.inbox) = {}
    BY <1>0, <1>1, LessDelivery DEF RunInboxMsg, DeliveryInv
  <1>2. CASE Entries(t, d.sub.inbox) # {}
    <2>1. PICK e \in Entries(t, d.sub.inbox) : Finish(t, e, "OK", d.r)
      BY <1>2 DEF RunInboxMsg
    <2>2. d.sub.kind = "inbox" /\ MessageInv(d) /\ d \in Message
      BY DEF RunInboxMsg, DeliveryInv, TableInv, Shapes
    <2>3. e \in pending[t] /\ e.inbox = d.reply /\ e \in Entry
      BY <2>1, <2>2, Constants DEF Entries, MessageInv, TableInv, Shapes
    <2>4. d.reply # NoReply
      BY <2>3, Constants DEF Entry
    <2>5. e.r = d.r
      BY <2>2, <2>3, <2>4 DEF MessageInv
    <2>6. \A q \in Requests : result'[q] = "OK" => answer'[q] = q
      BY <2>1, <2>5 DEF Finish, Ended, DeliveryInv, TableInv, Shapes, NatsTypeOK
    <2>7. \A u \in Workers : pending'[u] \subseteq pending[u]
      BY <2>1, Constants DEF Finish, TableInv, Shapes
    <2>8. QED BY <1>0, <2>1, <2>6, <2>7, LessDelivery DEF Finish
  <1>3. QED BY <1>1, <1>2

LEMMA NextDelivery == UniqueIndices /\ TableInv /\ DeliveryInv /\ [Next]_vars => DeliveryInv'
  <1> SUFFICES ASSUME UniqueIndices, TableInv, DeliveryInv, [Next]_vars PROVE DeliveryInv'
    OBVIOUS
  <1>1. ASSUME NEW s \in Subjects, NEW r \in Requests,
               AsyncRequest(CallerOf[r], r, s) \/ RequestRaw(CallerOf[r], r, s)
        PROVE  DeliveryInv'
    BY <1>1, StartDelivery DEF AsyncRequest, RequestRaw
  <1>2. CASE UNCHANGED vars
    BY <1>2, LessDelivery DEF vars, DeliveryInv
  <1>3. Callbacks \subseteq Requests
    BY ThreadAssumption
  <1>4. QED BY <1>1, <1>2, <1>3, QuietDelivery, PublishDelivery, SubscribeDelivery, TimeoutDelivery,
               SubMsgDelivery, InboxMsgDelivery, MessageDelivery DEF Next

\* Where indices are unique, a request is completed by the answer to it alone, in
\* spite of inboxes that carry only an index and a number, and a message posted
\* to a worker finds a handler there, although OnNatsSubMsg posts the subject
\* only.
THEOREM Delivered == UniqueIndices => (Spec => []DeliveredToOwner)
  <1> SUFFICES ASSUME UniqueIndices PROVE Spec => []DeliveredToOwner
    OBVIOUS
  <1>1. TableInv /\ DeliveryInv => DeliveredToOwner
    <2> SUFFICES ASSUME TableInv, DeliveryInv, NEW t \in Workers, NEW d \in events[t],
                        d.sub.kind = "subject"
                 PROVE  Handlers(t, d.subject) # {} \/ <<t, d.sub.pat>> \in refused
      BY DEF DeliveredToOwner, DeliveryInv
    <2>1. /\ FromSubscriber(d.sub) /\ MatchSub(d.sub.pat, d.subject)
          /\ ProcessOf[t] = d.sub.p /\ IndexOf[t] = d.sub.w
      BY DEF DeliveryInv, MessageInv, WorkerAt
    <2>2. d.sub.pat \in subs[t] \/ <<t, d.sub.pat>> \in refused
      BY <2>1 DEF FromSubscriber, UniqueIndices
    <2>3. QED BY <2>1, <2>2 DEF Handlers
  <1>2. TableInv /\ DeliveryInv /\ [Next]_vars => DeliveryInv'
    BY NextDelivery
  <1>3. QED BY <1>1, <1>2, InitDelivery, TableInvariance, PTL DEF Spec
============================================================================
