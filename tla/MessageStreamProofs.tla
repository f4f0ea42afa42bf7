------------------------ MODULE MessageStreamProofs ------------------------
(***************************************************************************)
(* Proofs about MessageStream: the queues of a connection lose, double and *)
(* reorder nothing, and nobody has to wake a stream that has something to  *)
(* do, for every number of threads and messages and every configuration.   *)
(*                                                                         *)
(* A thread's position is a sequence of labels.  The proofs look at it     *)
(* through two operators: the label it is at, and the set of those that    *)
(* come later.  A step either replaces the label at the head, or drops it. *)
(*                                                                         *)
(* The second part is about the bytes: whichever pieces a read returns,    *)
(* the splitter hands out the bodies the peer sent, each as soon as its    *)
(* last byte is there.  FrameInv says how far the frame under construction *)
(* is; the loop over one read and the peer's stream are recursive          *)
(* functions, about which SetInduction argues.                             *)
(***************************************************************************)
EXTENDS MessageStream, SequenceTheorems, WellFoundedInduction, TLAPS

Now(q)   == IF q = <<>> THEN "none" ELSE Head(q)
Later(q) == {q[i] : i \in 2 .. Len(q)}

\* Labels that are ever put behind another one.
Follow == {"send", "recv", "deliver", "trigger_receive", "trigger_send",
           "test_read", "recharge_write", "test_write"}

\* The threads that hold _send_token and _receive_token while they are in
\* try_start_...; an outstanding write or read holds them, too.
HoldsSend(t) == Now(pc[t]) \in {"get", "store", "unlock", "release"}
HoldsRecv(t) == Now(pc[t]) \in {"rstore", "runlock"}

\* What each position says about what comes later, and about the thread's local.
PcAt(t) ==
    /\ Later(pc[t]) \subseteq Follow
    /\ Now(pc[t]) = "set_connected" => {"recv", "send"} \subseteq Later(pc[t])
    /\ Now(pc[t]) = "put" => "send" \in Later(pc[t]) /\ arg[t] \in Messages
    /\ Now(pc[t]) = "unlock" /\ "out" \notin limited => "send" \in Later(pc[t])
    /\ Now(pc[t]) = "runlock" /\ "in" \notin limited => "recv" \in Later(pc[t])
    /\ Now(pc[t]) = "store" => arg[t] \in Int /\ ("out" \notin limited => arg[t] = 1)
    /\ Now(pc[t]) = "rstore" => arg[t] \in Int /\ ("in" \notin limited => arg[t] = 1)
    /\ Now(pc[t]) \in {"backlog_pending", "backlog_swapped"} => arg[t] \in Nat
    /\ Now(pc[t]) \in {"backlog", "backlog_pending", "backlog_swapped"} => net_type = "NT_SERVER"

PcInv ==
    /\ pc \in [Threads -> Seq(Label)]
    /\ DOMAIN arg = Threads
    /\ \A t \in Threads : PcAt(t)

\* A direction without a quota always has one.
QuotaInv ==
    /\ "out" \notin limited => write_quota_token = 1
    /\ "in" \notin limited => read_quota_token = 1

\* set_socket_connected is still to come, or under way.
Opens(t)  == Now(pc[t]) \in {"accepted", "set_connected"}
Unopened  == link \in {"new", "connecting"} \/ \E t \in Threads : Opens(t)

\* It happens once: before it nothing holds a token, after it the stream is
\* connected or closed, and a close that it does not follow is the last.
OpenInv ==
    /\ link = "connecting" => status \in {"CONNECTING", "CLOSED"}
    /\ link \in {"new", "connecting"} => \A t \in Threads : ~Opens(t)
    /\ \A t, u \in Threads : Opens(t) /\ Opens(u) => t = u
    /\ Unopened =>
          /\ status # "CONNECTED" /\ writing = 0 /\ reading = 0
          /\ ~send_token /\ ~receive_token
          /\ \A t \in Threads : ~HoldsSend(t) /\ ~HoldsRecv(t) /\ Now(pc[t]) \notin {"lock", "rlock"}
    /\ ~Unopened => status \in {"CONNECTED", "CLOSED"}
    /\ status = "CLOSED" => closes > 0
    /\ closes = MaxShutDown + 1 =>
          status = "CLOSED" /\ link # "new" /\ \A t \in Threads : ~Opens(t)

\* _send_token: one holder, a thread or a write.
SendTokenInv ==
    /\ \A t, u \in Threads : HoldsSend(t) /\ HoldsSend(u) => t = u
    /\ \A t \in Threads : HoldsSend(t) => send_token /\ writing = 0
    /\ writing = 1 => send_token
    /\ status = "CONNECTED" /\ send_token => writing = 1 \/ \E t \in Threads : HoldsSend(t)

RecvTokenInv ==
    /\ \A t, u \in Threads : HoldsRecv(t) /\ HoldsRecv(u) => t = u
    /\ \A t \in Threads : HoldsRecv(t) => receive_token /\ reading = 0
    /\ reading = 1 => receive_token
    /\ status = "CONNECTED" /\ receive_token => reading = 1 \/ \E t \in Threads : HoldsRecv(t)

\* Messages sent, being sent, swapped and pending.
Chain(w, f, s, p) == w \o f \o s \o p

\* _sending_message belongs to the holder of the token, and the queues are exact.
QueueInv ==
    /\ ~send_token => sending = NoMsg
    /\ writing = 1 => sending # NoMsg
    /\ \A t \in Threads :
          /\ Now(pc[t]) = "store" => sending # NoMsg
          /\ Now(pc[t]) \in {"get", "unlock", "release"} => sending = NoMsg
          /\ Now(pc[t]) = "release" => swapped = <<>>
    /\ closes = 0 /\ sending # NoMsg => writing = 1 \/ \E t \in Threads : Now(pc[t]) = "store"
    /\ closes = 0 => accepted = Chain(wire, InFlight, swapped, pending)

\* Somebody will look at the queues: at both, or at the pending one.
WillSend(t) ==
    \/ Now(pc[t]) \in {"send", "write_quota", "connected", "lock", "get", "store"}
    \/ "send" \in Later(pc[t])
WillRecheck(t) == Now(pc[t]) \in {"release", "recheck"}

SendWakeInv ==
    status = "CONNECTED" /\ "out" \notin limited =>
        /\ swapped # <<>> => writing = 1 \/ \E t \in Threads : WillSend(t)
        /\ pending # <<>> => writing = 1 \/ \E t \in Threads : WillSend(t) \/ WillRecheck(t)

\* Somebody will start a read, unless he finds too much to be sent.
WillRecv(t) ==
    \/ Now(pc[t]) \in {"recv", "read_quota", "backlog", "rconnected", "rlock", "rstore"}
    \/ Now(pc[t]) \in {"backlog_pending", "backlog_swapped"} /\ arg[t] = 0
    \/ "recv" \in Later(pc[t])
Backlog == sending # NoMsg \/ swapped # <<>> \/ pending # <<>>

RecvWakeInv ==
    closes = 0 /\ status = "CONNECTED" /\ "in" \notin limited =>
        \/ reading = 1
        \/ \E t \in Threads : WillRecv(t)
        \/ net_type = "NT_SERVER" /\ Backlog

IInv == /\ StreamTypeOK /\ PcInv /\ QuotaInv /\ OpenInv /\ SendTokenInv /\ RecvTokenInv
        /\ QueueInv /\ SendWakeInv /\ RecvWakeInv

----------------------------------------------------------------------------
(* Positions.                                                              *)

All(q) == {q[i] : i \in 1 .. Len(q)}

LEMMA LaterIsTail ==
    ASSUME NEW q \in Seq(Label), q # <<>>
    PROVE  Tail(q) \in Seq(Label) /\ Later(q) = All(Tail(q)) /\ Now(q) \in Label
  <1>1. /\ Tail(q) \in Seq(Label) /\ Len(q) \in Nat \ {0} /\ Len(Tail(q)) = Len(q) - 1
        /\ \A i \in 1 .. Len(q) - 1 : Tail(q)[i] = q[i + 1]
        /\ Head(q) = q[1] /\ \A i \in 1 .. Len(q) : q[i] \in Label
    OBVIOUS
  <1>2. ASSUME NEW x \in Later(q) PROVE x \in All(Tail(q))
    <2>1. PICK i \in 2 .. Len(q) : x = q[i]
      BY <1>2 DEF Later
    <2>2. i - 1 \in 1 .. Len(Tail(q)) /\ Tail(q)[i - 1] = x
      BY <1>1, <2>1
    <2>3. QED BY <2>2 DEF All
  <1>3. ASSUME NEW x \in All(Tail(q)) PROVE x \in Later(q)
    <2>1. PICK i \in 1 .. Len(Tail(q)) : x = Tail(q)[i]
      BY <1>3 DEF All
    <2>2. i + 1 \in 2 .. Len(q) /\ q[i + 1] = x
      BY <1>1, <2>1
    <2>3. QED BY <2>2 DEF Later
  <1>4. Later(q) = All(Tail(q))
    BY <1>2, <1>3
  <1>5. Now(q) \in Label
    BY <1>1 DEF Now
  <1>6. QED BY <1>1, <1>4, <1>5

LEMMA Prepend ==
    ASSUME NEW s \in Seq(Label), s # <<>>, NEW r \in Seq(Label)
    PROVE  /\ s \o r \in Seq(Label) /\ s \o r # <<>>
           /\ Now(s \o r) = Now(s)
           /\ Later(s \o r) = Later(s) \cup All(r)
  <1> DEFINE q == s \o r
  <1>1. /\ q \in Seq(Label) /\ Len(q) = Len(s) + Len(r) /\ Len(s) \in Nat \ {0} /\ Len(r) \in Nat
        /\ \A i \in 1 .. Len(s) : q[i] = s[i]
        /\ \A i \in 1 .. Len(r) : q[Len(s) + i] = r[i]
    OBVIOUS
  <1>2. q # <<>> /\ Head(q) = q[1] /\ Head(s) = s[1]
    BY <1>1
  <1> HIDE DEF q
  <1>3. ASSUME NEW x \in Later(q) PROVE x \in Later(s) \cup All(r)
    <2>1. PICK i \in 2 .. Len(q) : x = q[i]
      BY <1>3 DEF Later
    <2>2. CASE i <= Len(s)
      BY <1>1, <2>1, <2>2 DEF Later
    <2>3. CASE i > Len(s)
      <3>1. i - Len(s) \in 1 .. Len(r) /\ r[i - Len(s)] = x
        <4>1. i - Len(s) \in 1 .. Len(r) /\ Len(s) + (i - Len(s)) = i
          BY <1>1, <2>1, <2>3
        <4>2. q[Len(s) + (i - Len(s))] = r[i - Len(s)]
          BY <1>1, <4>1
        <4>3. QED BY <2>1, <4>1, <4>2
      <3>2. QED BY <3>1 DEF All
    <2>4. QED BY <1>1, <2>1, <2>2, <2>3
  <1>4. ASSUME NEW x \in Later(s) PROVE x \in Later(q)
    BY <1>1, <1>4 DEF Later
  <1>5. ASSUME NEW x \in All(r) PROVE x \in Later(q)
    <2>1. PICK i \in 1 .. Len(r) : x = r[i]
      BY <1>5 DEF All
    <2>2. Len(s) + i \in 2 .. Len(q) /\ q[Len(s) + i] = x
      BY <1>1, <2>1
    <2>3. QED BY <2>2 DEF Later
  <1>6. Now(q) = Now(s)
    BY <1>1, <1>2 DEF Now
  <1>7. QED BY <1>1, <1>2, <1>3, <1>4, <1>5, <1>6 DEF q

\* A thread at a label, and one that is at none.
LEMMA AtNow ==
    ASSUME NEW t \in Threads, NEW l, At(t, l)
    PROVE  Now(pc[t]) = l /\ pc[t] # <<>>
  BY DEF At, Idle, Now

LEMMA IdleNow ==
    ASSUME NEW t \in Threads, Idle(t)
    PROVE  Now(pc[t]) = "none" /\ Later(pc[t]) = {} /\ All(pc[t]) = {}
  BY DEF Idle, Now, Later, All

\* Only thread t goes on.
OnlyPc(t) == \A u \in Threads : u # t => pc'[u] = pc[u]

\* Then with one label replaces the label a thread is at.
LEMMA Goes ==
    ASSUME PcInv, NEW t \in Threads, pc[t] # <<>>, NEW l \in Label, Then(t, <<l>>)
    PROVE  /\ pc' \in [Threads -> Seq(Label)] /\ OnlyPc(t)
           /\ Now(pc'[t]) = l /\ Later(pc'[t]) = Later(pc[t])
  <1>1. pc[t] \in Seq(Label) /\ pc' = [pc EXCEPT ![t] = <<l>> \o Tail(pc[t])]
    BY DEF PcInv, Then
  <1>2. <<l>> \in Seq(Label) /\ <<l>> # <<>> /\ Now(<<l>>) = l /\ Later(<<l>>) = {}
    BY DEF Now, Later
  <1> DEFINE r == Tail(pc[t])
             s == <<l>>
  <1>3. r \in Seq(Label) /\ Later(pc[t]) = All(r)
    BY <1>1, LaterIsTail
  <1>4. s \in Seq(Label) /\ s # <<>> /\ Now(s) = l /\ Later(s) = {} /\ pc' = [pc EXCEPT ![t] = s \o r]
    BY <1>1, <1>2
  <1> HIDE DEF r, s
  <1>5. s \o r \in Seq(Label) /\ Now(s \o r) = l /\ Later(s \o r) = Later(pc[t])
    <2>1. Later(s \o r) = Later(s) \cup All(r) /\ Now(s \o r) = Now(s) /\ s \o r \in Seq(Label)
      BY <1>3, <1>4, Prepend
    <2>2. QED BY <1>3, <1>4, <2>1
  <1>6. QED BY <1>4, <1>5 DEF OnlyPc, PcInv

\* Then with none drops it.
LEMMA Drops ==
    ASSUME PcInv, NEW t \in Threads, pc[t] # <<>>, Then(t, <<>>)
    PROVE  /\ pc' \in [Threads -> Seq(Label)] /\ OnlyPc(t)
           /\ Now(pc'[t]) \in Later(pc[t]) \cup {"none"}
           /\ Later(pc'[t]) \subseteq Later(pc[t])
           /\ Later(pc[t]) \subseteq Later(pc'[t]) \cup {Now(pc'[t])}
  <1> DEFINE r == Tail(pc[t])
  <1>1. pc[t] \in Seq(Label) /\ pc' = [pc EXCEPT ![t] = <<>> \o r]
    BY DEF PcInv, Then
  <1>2. r \in Seq(Label) /\ Later(pc[t]) = All(r)
    BY <1>1, LaterIsTail
  <1> HIDE DEF r
  <1>3. <<>> \o r = r
    BY <1>2
  <1>4. pc' \in [Threads -> Seq(Label)] /\ OnlyPc(t) /\ pc'[t] = r
    BY <1>1, <1>2, <1>3 DEF OnlyPc, PcInv
  <1>5. CASE r = <<>>
    <2>1. Now(r) = "none" /\ Later(r) = {} /\ All(r) = {}
      BY <1>5 DEF Now, Later, All
    <2>2. QED BY <1>2, <1>4, <2>1
  <1>6. CASE r # <<>>
    <2>1. Now(r) = r[1] /\ Len(r) \in Nat \ {0}
      BY <1>2, <1>6 DEF Now
    <2>2. Now(r) \in All(r) /\ Later(r) \subseteq All(r) /\ All(r) \subseteq Later(r) \cup {Now(r)}
      BY <2>1 DEF All, Later
    <2>3. QED BY <1>2, <1>4, <2>2
  <1>7. QED BY <1>5, <1>6

----------------------------------------------------------------------------
(* What a step may do to a conjunct that it hardly touches.                *)

\* Nobody but t changes his mind about sending.
LEMMA SendWakes ==
    ASSUME SendWakeInv, NEW t \in Threads, OnlyPc(t), limited' = limited,
           status' = "CONNECTED" => status = "CONNECTED",
           swapped' # <<>> => swapped # <<>>, pending' # <<>> => pending # <<>>,
           writing = 1 => writing' = 1,
           WillSend(t) => WillSend(t)',
           WillRecheck(t) => WillSend(t)' \/ WillRecheck(t)'
    PROVE  SendWakeInv'
  <1>1. \A u \in Threads : /\ WillSend(u) => WillSend(u)'
                           /\ WillRecheck(u) => WillSend(u)' \/ WillRecheck(u)'
    BY DEF OnlyPc, WillSend, WillRecheck
  <1>2. QED BY <1>1 DEF SendWakeInv

LEMMA RecvWakes ==
    ASSUME RecvWakeInv, NEW t \in Threads, OnlyPc(t), UNCHANGED <<limited, net_type>>,
           closes' = 0 => closes = 0, status' = "CONNECTED" => status = "CONNECTED",
           reading = 1 => reading' = 1, net_type = "NT_SERVER" /\ Backlog => Backlog',
           \A u \in Threads : u # t => arg'[u] = arg[u],
           WillRecv(t) => WillRecv(t)'
    PROVE  RecvWakeInv'
  <1>1. \A u \in Threads : WillRecv(u) => WillRecv(u)'
    BY DEF OnlyPc, WillRecv
  <1>2. QED BY <1>1 DEF RecvWakeInv

\* A thread goes from a label where it holds no token to another one.
LEMMA MoveKeeps ==
    ASSUME IInv, NEW t \in Threads,
           UNCHANGED <<confVars, connVars, tokenVars, queueVars, outVars, reading, pos, logVars>>,
           write_quota' \in Int, read_quota' \in Int,
           write_quota_token' \in Int, read_quota_token' \in Int, QuotaInv',
           pc' \in [Threads -> Seq(Label)], OnlyPc(t),
           DOMAIN arg' = Threads, \A u \in Threads : u # t => arg'[u] = arg[u],
           Later(pc'[t]) \subseteq Follow,
           Now(pc[t]) \notin {"get", "store", "unlock", "release", "rstore", "runlock", "set_connected"},
           Now(pc[t]) = "accepted" => status = "CLOSED",
           Now(pc'[t]) \notin {"get", "store", "unlock", "release", "rstore", "runlock",
                               "put", "accepted", "set_connected"},
           Now(pc'[t]) \in {"lock", "rlock"} => status = "CONNECTED",
           Now(pc'[t]) \in {"backlog", "backlog_pending", "backlog_swapped"} => net_type = "NT_SERVER",
           Now(pc'[t]) \in {"backlog_pending", "backlog_swapped"} => arg'[t] \in Nat,
           SendWakeInv', RecvWakeInv'
    PROVE  IInv'
  <1> USE DEF IInv, confVars, connVars, tokenVars, queueVars, outVars, logVars
  <1>1. StreamTypeOK'
    <2>1. \A u \in Threads : \A i \in DOMAIN pc'[u] : pc'[u][i] \in Label
      OBVIOUS
    <2>2. QED BY <2>1 DEF StreamTypeOK
  <1>2. PcInv'
    <2>1. limited' = limited /\ net_type' = net_type
      OBVIOUS
    <2>2. QED BY <2>1 DEF PcInv, PcAt, OnlyPc
  <1>3. \A u \in Threads : HoldsSend(u)' = HoldsSend(u) /\ HoldsRecv(u)' = HoldsRecv(u)
    BY DEF HoldsSend, HoldsRecv, OnlyPc
  <1>4. \A u \in Threads : Opens(u)' => Opens(u)
    BY DEF Opens, OnlyPc
  <1>5. \A u \in Threads : Opens(u) /\ status # "CLOSED" => Opens(u)'
    BY DEF Opens, OnlyPc
  <1>6. OpenInv'
    <2>1. /\ (link = "connecting" => status \in {"CONNECTING", "CLOSED"})'
          /\ (link \in {"new", "connecting"} => \A u \in Threads : ~Opens(u))'
          /\ (\A u, v \in Threads : Opens(u) /\ Opens(v) => u = v)'
          /\ (status = "CLOSED" => closes > 0)'
          /\ (closes = MaxShutDown + 1 =>
                status = "CLOSED" /\ link # "new" /\ \A u \in Threads : ~Opens(u))'
      BY <1>4 DEF OpenInv
    <2>2. Unopened' => Unopened
      BY <1>4 DEF Unopened
    <2>3. Unopened /\ status # "CLOSED" => Unopened'
      BY <1>5 DEF Unopened
    <2>4. (Unopened =>
            /\ status # "CONNECTED" /\ writing = 0 /\ reading = 0
            /\ ~send_token /\ ~receive_token
            /\ \A u \in Threads : ~HoldsSend(u) /\ ~HoldsRecv(u) /\ Now(pc[u]) \notin {"lock", "rlock"})'
      BY <1>3, <2>2 DEF OpenInv, OnlyPc
    <2>5. (~Unopened => status \in {"CONNECTED", "CLOSED"})'
      BY <2>3 DEF OpenInv
    <2>6. QED BY <2>1, <2>4, <2>5 DEF OpenInv
  <1>7. SendTokenInv' /\ RecvTokenInv'
    BY <1>3 DEF SendTokenInv, RecvTokenInv
  <1>8. QueueInv'
    BY DEF QueueInv, OnlyPc, InFlight
  <1>9. QED BY <1>1, <1>2, <1>6, <1>7, <1>8

\* A step that changes no more than a thread's position, its local and the quotas.
Slight(t) ==
    /\ UNCHANGED <<confVars, connVars, tokenVars, queueVars, outVars, reading, pos, logVars>>
    /\ {write_quota', read_quota', write_quota_token', read_quota_token'} \subseteq Int
    /\ QuotaInv'
    /\ DOMAIN arg' = Threads /\ \A u \in Threads : u # t => arg'[u] = arg[u]

\* Labels at which a thread has nothing that it must not forget.
Light == Label \ {"get", "store", "unlock", "release", "rstore", "runlock", "set_connected"}

LEMMA DropKeeps ==
    ASSUME IInv, NEW t \in Threads, pc[t] # <<>>, Then(t, <<>>), Slight(t),
           Now(pc[t]) \in Light, Now(pc[t]) = "accepted" => status = "CLOSED",
           SendWakeInv', RecvWakeInv'
    PROVE  IInv'
  <1>1. /\ pc' \in [Threads -> Seq(Label)] /\ OnlyPc(t)
        /\ Now(pc'[t]) \in Later(pc[t]) \cup {"none"} /\ Later(pc'[t]) \subseteq Later(pc[t])
    BY Drops DEF IInv
  <1>2. Later(pc'[t]) \subseteq Follow /\ Now(pc'[t]) \in Follow \cup {"none"}
    BY <1>1 DEF IInv, PcInv, PcAt
  <1>3. QED BY <1>1, <1>2, MoveKeeps DEF Slight, Light, Follow

LEMMA GoKeeps ==
    ASSUME IInv, NEW t \in Threads, pc[t] # <<>>, NEW l \in Light \ {"put", "accepted"},
           Then(t, <<l>>), Slight(t),
           Now(pc[t]) \in Light \ {"accepted"},
           l \in {"lock", "rlock"} => status = "CONNECTED",
           l \in {"backlog", "backlog_pending", "backlog_swapped"} => net_type = "NT_SERVER",
           l \in {"backlog_pending", "backlog_swapped"} => arg'[t] \in Nat,
           SendWakeInv', RecvWakeInv'
    PROVE  IInv'
  <1>0. l \in Label
    BY DEF Light
  <1>1. /\ pc' \in [Threads -> Seq(Label)] /\ OnlyPc(t)
        /\ Now(pc'[t]) = l /\ Later(pc'[t]) = Later(pc[t])
    BY <1>0, Goes DEF IInv
  <1>2. Later(pc'[t]) \subseteq Follow
    BY <1>1 DEF IInv, PcInv, PcAt
  <1>3. QED BY <1>1, <1>2, MoveKeeps DEF Slight, Light

\* What comes later comes: a thread that drops a label keeps its promises.
LEMMA DropWakes ==
    ASSUME IInv, NEW t \in Threads, pc[t] # <<>>, Then(t, <<>>)
    PROVE  /\ "send" \in Later(pc[t]) => WillSend(t)'
           /\ "recv" \in Later(pc[t]) => WillRecv(t)'
           /\ OnlyPc(t)
  <1>1. OnlyPc(t) /\ Later(pc[t]) \subseteq Later(pc'[t]) \cup {Now(pc'[t])}
    BY Drops DEF IInv
  <1>2. QED BY <1>1 DEF WillSend, WillRecv

\* A thread that finds _send_token taken leaves the work to its holder.
LEMMA SendTaken ==
    ASSUME IInv, NEW t \in Threads, OnlyPc(t), ~HoldsSend(t), send_token,
           UNCHANGED <<status, limited, swapped, pending, writing>>
    PROVE  SendWakeInv'
  <1> SUFFICES ASSUME status = "CONNECTED", "out" \notin limited, writing # 1
               PROVE  SendWakeInv'
    BY DEF SendWakeInv
  <1>1. PICK u \in Threads : HoldsSend(u)
    BY DEF IInv, SendTokenInv
  <1>2. pc'[u] = pc[u]
    BY <1>1 DEF OnlyPc
  <1>3. CASE Now(pc[u]) = "release"
    BY <1>2, <1>3 DEF IInv, QueueInv, SendWakeInv, WillRecheck
  <1>4. CASE Now(pc[u]) # "release"
    <2>1. WillSend(u)'
      BY <1>1, <1>2, <1>4 DEF HoldsSend, WillSend, IInv, PcInv, PcAt
    <2>2. QED BY <2>1 DEF SendWakeInv
  <1>5. QED BY <1>3, <1>4

LEMMA RecvTaken ==
    ASSUME IInv, NEW t \in Threads, OnlyPc(t), ~HoldsRecv(t), receive_token,
           UNCHANGED <<confVars, connVars, reading>>
    PROVE  RecvWakeInv'
  <1> USE DEF confVars, connVars
  <1> SUFFICES ASSUME status = "CONNECTED", "in" \notin limited, reading # 1
               PROVE  RecvWakeInv'
    BY DEF RecvWakeInv
  <1>1. PICK u \in Threads : HoldsRecv(u)
    BY DEF IInv, RecvTokenInv
  <1>2. pc'[u] = pc[u]
    BY <1>1 DEF OnlyPc
  <1>3. WillRecv(u)'
    BY <1>1, <1>2 DEF HoldsRecv, WillRecv, IInv, PcInv, PcAt
  <1>4. QED BY <1>3 DEF RecvWakeInv

----------------------------------------------------------------------------
(* try_start_send and try_start_receive up to the tokens.                  *)

LEMMA TestSendKeeps ==
    ASSUME IInv, NEW t \in Threads, TestSend(t)
    PROVE  IInv'
  <1>1. /\ Now(pc[t]) \in {"send", "write_quota", "connected"} /\ pc[t] # <<>>
        /\ Slight(t) /\ UNCHANGED arg
    BY AtNow DEF TestSend, Slight, inVars, quotaVars, confVars, QuotaInv, StreamTypeOK, IInv, PcInv, PcAt
  <1>2. UNCHANGED <<limited, net_type, status, closes, swapped, pending, sending, writing, reading>>
    BY <1>1 DEF Slight, confVars, connVars, queueVars, outVars
  <1>3. UNCHANGED Backlog
    BY <1>2 DEF Backlog
  <1>4. ASSUME Then(t, <<>>),
               \/ Now(pc[t]) = "send" /\ send_token
               \/ status # "CONNECTED" \/ "out" \in limited
        PROVE  IInv'
    <2>1. RecvWakeInv'
      BY <1>1, <1>2, <1>3, <1>4, DropWakes, RecvWakes DEF IInv, WillRecv
    <2>2. CASE Now(pc[t]) = "send" /\ send_token
      BY <1>1, <1>2, <1>4, <2>1, <2>2, DropWakes, SendTaken, DropKeeps DEF HoldsSend, Light, Label
    <2>3. CASE status # "CONNECTED" \/ "out" \in limited
      <3>1. SendWakeInv'
        BY <1>2, <2>3 DEF SendWakeInv
      <3>2. QED BY <1>1, <1>4, <2>1, <3>1, DropKeeps DEF Light, Label
    <2>4. QED BY <1>4, <2>2, <2>3
  <1>5. ASSUME NEW l \in {"write_quota", "connected", "lock"}, Then(t, <<l>>),
               l = "lock" => status = "CONNECTED"
        PROVE  IInv'
    <2>1. OnlyPc(t) /\ Now(pc'[t]) = l /\ Later(pc'[t]) = Later(pc[t])
      BY <1>1, <1>5, Goes DEF IInv, Label
    <2>2. WillSend(t)' /\ (WillRecv(t) => WillRecv(t)')
      BY <1>1, <2>1 DEF WillSend, WillRecv
    <2>3. SendWakeInv' /\ RecvWakeInv'
      BY <1>1, <1>2, <1>3, <2>1, <2>2, SendWakes, RecvWakes DEF IInv
    <2>4. QED BY <1>1, <1>5, <2>3, GoKeeps DEF Light, Label
  <1>6. CASE At(t, "send") /\ Then(t, IF send_token THEN <<>> ELSE <<"write_quota">>)
    BY <1>4, <1>5, <1>6, AtNow
  <1>7. CASE At(t, "write_quota") /\ Then(t, IF write_quota_token <= 0 THEN <<>> ELSE <<"connected">>)
    BY <1>4, <1>5, <1>7 DEF IInv, QuotaInv
  <1>8. CASE At(t, "connected") /\ Then(t, IF status = "CONNECTED" THEN <<"lock">> ELSE <<>>)
    BY <1>4, <1>5, <1>8
  <1>9. QED BY <1>6, <1>7, <1>8 DEF TestSend

\* if (_pending_message_count == 0) break;
LEMMA RecheckKeeps ==
    ASSUME IInv, NEW t \in Threads, Recheck(t)
    PROVE  IInv'
  <1>1. Now(pc[t]) = "recheck" /\ pc[t] # <<>> /\ Slight(t) /\ UNCHANGED arg
    BY AtNow DEF Recheck, Slight, inVars, quotaVars, confVars, QuotaInv, StreamTypeOK, IInv, PcInv, PcAt
  <1>2. UNCHANGED <<limited, net_type, status, closes, swapped, pending, sending, writing, reading>>
    BY <1>1 DEF Slight, confVars, connVars, queueVars, outVars
  <1>3. UNCHANGED Backlog
    BY <1>2 DEF Backlog
  <1>4. CASE pending = <<>> /\ Then(t, <<>>)
    <2>1. OnlyPc(t) /\ (WillSend(t) => WillSend(t)') /\ (WillRecv(t) => WillRecv(t)')
      BY <1>1, <1>4, DropWakes DEF WillSend, WillRecv
    <2>2. \A u \in Threads : WillSend(u) => WillSend(u)'
      BY <2>1 DEF OnlyPc, WillSend
    <2>3. SendWakeInv'
      BY <1>2, <1>4, <2>2 DEF IInv, SendWakeInv
    <2>4. RecvWakeInv'
      BY <1>1, <1>2, <1>3, <2>1, RecvWakes DEF IInv
    <2>5. QED BY <1>1, <1>4, <2>3, <2>4, DropKeeps DEF Light, Label
  <1>5. CASE Then(t, <<"connected">>)
    <2>1. OnlyPc(t) /\ Now(pc'[t]) = "connected" /\ Later(pc'[t]) = Later(pc[t])
      BY <1>1, <1>5, Goes DEF IInv, Label
    <2>2. WillSend(t)' /\ (WillRecv(t) => WillRecv(t)')
      BY <1>1, <2>1 DEF WillSend, WillRecv
    <2>3. SendWakeInv' /\ RecvWakeInv'
      BY <1>1, <1>2, <1>3, <2>1, <2>2, SendWakes, RecvWakes DEF IInv
    <2>4. QED BY <1>1, <1>5, <2>3, GoKeeps DEF Light, Label
  <1>6. QED BY <1>4, <1>5 DEF Recheck

LEMMA TestReceiveKeeps ==
    ASSUME IInv, NEW t \in Threads, TestReceive(t)
    PROVE  IInv'
  <1>1. /\ Now(pc[t]) \in {"recv", "read_quota", "backlog", "backlog_pending", "backlog_swapped", "rconnected"}
        /\ pc[t] # <<>> /\ Slight(t)
    BY AtNow DEF TestReceive, Slight, inVars, quotaVars, confVars, QuotaInv, StreamTypeOK, IInv, PcInv, PcAt
  <1>2. UNCHANGED <<limited, net_type, status, closes, swapped, pending, sending, writing, reading>>
    BY <1>1 DEF Slight, confVars, connVars, queueVars, outVars
  <1>3. UNCHANGED Backlog /\ pending \in Seq(Messages) /\ swapped \in Seq(Messages)
    BY <1>2 DEF Backlog, IInv, StreamTypeOK
  \* A thread that gives up: the token is taken, or there is a quota, or the
  \* stream is not connected, or too much is to be sent.
  <1>4. ASSUME Then(t, <<>>),
               \/ Now(pc[t]) = "recv" /\ receive_token
               \/ status # "CONNECTED" \/ "in" \in limited
               \/ Backlog /\ net_type = "NT_SERVER"
               \/ Now(pc[t]) \in {"backlog_pending", "backlog_swapped"} /\ arg[t] > 0
        PROVE  IInv'
    <2>1. OnlyPc(t) /\ ("send" \in Later(pc[t]) => WillSend(t)')
                    /\ ("recv" \in Later(pc[t]) => WillRecv(t)')
      BY <1>1, <1>4, DropWakes
    <2>2. SendWakeInv'
      BY <1>1, <1>2, <2>1, SendWakes DEF IInv, WillSend, WillRecheck
    <2>3. CASE Now(pc[t]) = "recv" /\ receive_token
      <3>1. RecvWakeInv'
        BY <1>1, <2>1, <2>3, RecvTaken DEF HoldsRecv, Slight
      <3>2. QED BY <1>1, <1>4, <2>2, <3>1, DropKeeps DEF Light, Label
    <2>4. CASE \/ status # "CONNECTED" \/ "in" \in limited
               \/ Backlog /\ net_type = "NT_SERVER"
      <3>1. RecvWakeInv'
        BY <1>2, <1>3, <2>4 DEF RecvWakeInv
      <3>2. QED BY <1>1, <1>4, <2>2, <3>1, DropKeeps DEF Light, Label
    <2>5. CASE Now(pc[t]) \in {"backlog_pending", "backlog_swapped"} /\ arg[t] > 0
      <3>1. RecvWakeInv'
        <4>1. WillRecv(t) => WillRecv(t)'
          BY <2>1, <2>5 DEF WillRecv, IInv, PcInv, PcAt
        <4>2. QED BY <1>1, <1>2, <1>3, <2>1, <4>1, RecvWakes DEF IInv, Slight
      <3>2. QED BY <1>1, <1>4, <2>2, <3>1, DropKeeps DEF Light, Label
    <2>6. QED BY <1>4, <2>3, <2>4, <2>5
  <1>5. ASSUME NEW l \in {"read_quota", "backlog", "backlog_pending", "backlog_swapped", "rconnected", "rlock"},
               Then(t, <<l>>),
               l = "rlock" => status = "CONNECTED",
               l \in {"backlog", "backlog_pending", "backlog_swapped"} => net_type = "NT_SERVER",
               l \in {"backlog_pending", "backlog_swapped"} =>
                  arg'[t] \in Nat /\ (arg'[t] > 0 => Backlog)
        PROVE  IInv'
    <2>1. OnlyPc(t) /\ Now(pc'[t]) = l /\ Later(pc'[t]) = Later(pc[t])
      BY <1>1, <1>5, Goes DEF IInv, Label
    <2>2. WillSend(t) => WillSend(t)'
      BY <1>1, <2>1 DEF WillSend
    <2>3. SendWakeInv'
      BY <1>1, <1>2, <2>1, <2>2, SendWakes DEF IInv, WillRecheck
    <2>4. RecvWakeInv'
      <3>1. CASE l \in {"backlog_pending", "backlog_swapped"} /\ arg'[t] > 0
        BY <1>2, <1>3, <1>5, <3>1 DEF RecvWakeInv
      <3>2. CASE ~(l \in {"backlog_pending", "backlog_swapped"} /\ arg'[t] > 0)
        <4>1. WillRecv(t)'
          BY <1>5, <2>1, <3>2 DEF WillRecv
        <4>2. QED BY <1>1, <1>2, <1>3, <2>1, <4>1, RecvWakes DEF IInv, Slight
      <3>3. QED BY <3>1, <3>2
    <2>5. QED BY <1>1, <1>5, <2>3, <2>4, GoKeeps DEF Light, Label
  <1>6. CASE At(t, "recv") /\ Then(t, IF receive_token THEN <<>> ELSE <<"read_quota">>)
    BY <1>4, <1>5, <1>6, AtNow
  <1>7. CASE /\ At(t, "read_quota")
             /\ Then(t, IF read_quota_token <= 0 THEN <<>>
                        ELSE IF net_type = "NT_SERVER" THEN <<"backlog">> ELSE <<"rconnected">>)
    BY <1>4, <1>5, <1>7 DEF IInv, QuotaInv
  <1>8. CASE /\ At(t, "backlog") /\ arg' = [arg EXCEPT ![t] = Len(pending)] /\ Then(t, <<"backlog_swapped">>)
    <2>1. Now(pc[t]) = "backlog" /\ net_type = "NT_SERVER" /\ arg'[t] = Len(pending)
      BY <1>8, AtNow DEF IInv, PcInv, PcAt
    <2>2. Len(pending) \in Nat /\ (Len(pending) > 0 => Backlog)
      BY <1>3 DEF Backlog
    <2>3. QED BY <1>5, <1>8, <2>1, <2>2
  <1>9. CASE /\ At(t, "backlog") /\ arg' = [arg EXCEPT ![t] = Len(swapped)] /\ Then(t, <<"backlog_pending">>)
    <2>1. Now(pc[t]) = "backlog" /\ net_type = "NT_SERVER" /\ arg'[t] = Len(swapped)
      BY <1>9, AtNow DEF IInv, PcInv, PcAt
    <2>2. Len(swapped) \in Nat /\ (Len(swapped) > 0 => Backlog)
      BY <1>3 DEF Backlog
    <2>3. QED BY <1>5, <1>9, <2>1, <2>2
  <1>10. CASE /\ At(t, "backlog_swapped")
              /\ Then(t, IF arg[t] + Len(swapped) > MaxPending THEN <<>> ELSE <<"rconnected">>)
    <2>1. Now(pc[t]) = "backlog_swapped" /\ net_type = "NT_SERVER" /\ arg[t] \in Nat
      BY <1>10, AtNow DEF IInv, PcInv, PcAt
    <2>2. arg[t] + Len(swapped) > MaxPending => arg[t] > 0 \/ Backlog
      BY <1>3, <2>1, StreamAssumption DEF Backlog
    <2>3. QED BY <1>4, <1>5, <1>10, <2>1, <2>2
  <1>11. CASE /\ At(t, "backlog_pending")
              /\ Then(t, IF arg[t] + Len(pending) > MaxPending THEN <<>> ELSE <<"rconnected">>)
    <2>1. Now(pc[t]) = "backlog_pending" /\ net_type = "NT_SERVER" /\ arg[t] \in Nat
      BY <1>11, AtNow DEF IInv, PcInv, PcAt
    <2>2. arg[t] + Len(pending) > MaxPending => arg[t] > 0 \/ Backlog
      BY <1>3, <2>1, StreamAssumption DEF Backlog
    <2>3. QED BY <1>4, <1>5, <1>11, <2>1, <2>2
  <1>12. CASE At(t, "rconnected") /\ Then(t, IF status = "CONNECTED" THEN <<"rlock">> ELSE <<>>)
    BY <1>4, <1>5, <1>12
  <1>13. QED BY <1>6, <1>7, <1>8, <1>9, <1>10, <1>11, <1>12 DEF TestReceive

----------------------------------------------------------------------------
(* Quotas and on_received.                                                 *)

\* A thread that drops a label which promises nothing by itself.
LEMMA IdleDropKeeps ==
    ASSUME IInv, NEW t \in Threads, pc[t] # <<>>, Then(t, <<>>), Slight(t), UNCHANGED arg,
           Now(pc[t]) \in {"trigger_receive", "trigger_send", "recharge_read", "recharge_write",
                           "test_read", "test_write", "deliver"}
    PROVE  IInv'
  <1>1. UNCHANGED <<limited, net_type, status, closes, swapped, pending, sending, writing, reading>>
    BY DEF Slight, confVars, connVars, queueVars, outVars
  <1>2. UNCHANGED Backlog
    BY <1>1 DEF Backlog
  <1>3. OnlyPc(t) /\ (WillSend(t) => WillSend(t)') /\ (WillRecv(t) => WillRecv(t)') /\ ~WillRecheck(t)
    BY DropWakes DEF WillSend, WillRecv, WillRecheck
  <1>4. SendWakeInv' /\ RecvWakeInv'
    BY <1>1, <1>2, <1>3, SendWakes, RecvWakes DEF IInv
  <1>5. QED BY <1>4, DropKeeps DEF Light, Label

LEMMA TriggerKeeps ==
    ASSUME IInv, NEW t \in Threads, Trigger(t)
    PROVE  IInv'
  <1>1. /\ Now(pc[t]) \in {"trigger_receive", "trigger_send"} /\ pc[t] # <<>>
        /\ Then(t, <<>>) /\ UNCHANGED arg
    BY AtNow DEF Trigger
  <1>2. {write_quota', read_quota', write_quota_token', read_quota_token'} \subseteq Int /\ QuotaInv'
    BY DEF Trigger, IInv, StreamTypeOK, QuotaInv, confVars
  <1>3. Slight(t)
    BY <1>2 DEF Slight, Trigger, inVars, IInv, PcInv
  <1>4. QED BY <1>1, <1>3, IdleDropKeeps

LEMMA RechargeKeeps ==
    ASSUME IInv, NEW t \in Threads, Recharge(t)
    PROVE  IInv'
  <1>1. /\ Now(pc[t]) \in {"recharge_read", "recharge_write"} /\ pc[t] # <<>>
        /\ Then(t, <<>>) /\ UNCHANGED arg
    BY AtNow DEF Recharge
  <1>2. {write_quota', read_quota', write_quota_token', read_quota_token'} \subseteq Int /\ QuotaInv'
    BY StreamAssumption DEF Recharge, Recharged, IInv, StreamTypeOK, QuotaInv, confVars
  <1>3. Slight(t)
    BY <1>2 DEF Slight, Recharge, inVars, IInv, PcInv
  <1>4. QED BY <1>1, <1>3, IdleDropKeeps

LEMMA OnReceivedKeeps ==
    ASSUME IInv, NEW t \in Threads, OnReceived(t)
    PROVE  IInv'
  <1>1. Now(pc[t]) = "deliver" /\ pc[t] # <<>> /\ UNCHANGED arg
    BY AtNow DEF OnReceived
  <1>2. Slight(t)
    BY DEF Slight, OnReceived, quotaVars, confVars, QuotaInv, StreamTypeOK, IInv, PcInv
  <1>3. CASE Then(t, <<>>)
    BY <1>1, <1>2, <1>3, IdleDropKeeps
  <1>4. CASE UNCHANGED pc
    <2>1. OnlyPc(t) /\ SendWakeInv' /\ RecvWakeInv'
      BY <1>1, <1>2, <1>4 DEF OnlyPc, IInv, SendWakeInv, RecvWakeInv, WillSend, WillRecv, WillRecheck,
                              Backlog, Slight, confVars, connVars, queueVars, outVars
    <2>2. pc' \in [Threads -> Seq(Label)] /\ Later(pc'[t]) \subseteq Follow
      BY <1>4 DEF IInv, PcInv, PcAt
    <2>3. QED BY <1>1, <1>2, <1>4, <2>1, <2>2, MoveKeeps DEF Slight
  <1>5. QED BY <1>3, <1>4 DEF OnReceived

LEMMA TestTokenKeeps ==
    ASSUME IInv, NEW t \in Threads, TestToken(t)
    PROVE  IInv'
  <1>1. /\ Now(pc[t]) \in {"test_read", "test_write"} /\ pc[t] # <<>>
        /\ UNCHANGED arg /\ Slight(t)
    BY AtNow DEF TestToken, Slight, inVars, quotaVars, confVars, QuotaInv, StreamTypeOK, IInv, PcInv
  <1>2. CASE Then(t, <<>>)
    BY <1>1, <1>2, IdleDropKeeps
  <1>3. ASSUME NEW a \in {"trigger_receive", "trigger_send"}, NEW b \in {"recv", "send"},
               Then(t, <<a, b>>)
        PROVE  IInv'
    <2> DEFINE s == <<a, b>>
               r == Tail(pc[t])
    <2>1. s \in Seq(Label) /\ s # <<>> /\ Now(s) = a
      BY DEF Now, Label
    <2>2. Later(s) = {b}
      BY DEF Later
    <2>3. pc[t] \in Seq(Label) /\ r \in Seq(Label) /\ Later(pc[t]) = All(r)
      BY <1>1, LaterIsTail DEF IInv, PcInv
    <2>4. pc' = [pc EXCEPT ![t] = s \o r]
      BY <1>3 DEF Then
    <2> HIDE DEF s, r
    <2>5. s \o r \in Seq(Label) /\ Now(s \o r) = Now(s) /\ Later(s \o r) = Later(s) \cup All(r)
      BY <2>1, <2>3, Prepend
    <2>6. /\ pc' \in [Threads -> Seq(Label)] /\ OnlyPc(t)
          /\ Now(pc'[t]) = a /\ Later(pc'[t]) = Later(pc[t]) \cup {b}
      BY <2>1, <2>2, <2>3, <2>4, <2>5 DEF OnlyPc, IInv, PcInv
    <2>7. UNCHANGED <<limited, net_type, status, closes, swapped, pending, sending, writing, reading>>
      BY <1>1 DEF Slight, confVars, connVars, queueVars, outVars
    <2>8. UNCHANGED Backlog
      BY <2>7 DEF Backlog
    <2>9. (WillSend(t) => WillSend(t)') /\ (WillRecv(t) => WillRecv(t)') /\ ~WillRecheck(t)
      BY <1>1, <2>6 DEF WillSend, WillRecv, WillRecheck
    <2>10. SendWakeInv' /\ RecvWakeInv'
      BY <1>1, <2>6, <2>7, <2>8, <2>9, SendWakes, RecvWakes DEF IInv
    <2>11. Later(pc'[t]) \subseteq Follow
      BY <2>6 DEF IInv, PcInv, PcAt, Follow
    <2>12. QED BY <1>1, <2>6, <2>10, <2>11, MoveKeeps DEF Slight
  <1>4. QED BY <1>2, <1>3 DEF TestToken

LEMMA TimerMaintainKeeps ==
    ASSUME IInv, TimerMaintain
    PROVE  IInv'
  <1> DEFINE t == Maint
             a == IF "in" \in limited THEN <<"recharge_read", "test_read">> ELSE <<>>
             b == IF "out" \in limited THEN <<"recharge_write", "test_write">> ELSE <<>>
  <1>1. t \in Threads /\ Idle(t) /\ UNCHANGED arg /\ Slight(t) /\ pc' = [pc EXCEPT ![t] = a \o b]
    BY DEF TimerMaintain, Threads, Slight, inVars, quotaVars, confVars, QuotaInv, StreamTypeOK, IInv, PcInv
  <1>2. /\ a \o b \in Seq(Label) /\ Later(a \o b) \subseteq Follow
        /\ Now(a \o b) \in {"none", "recharge_read", "recharge_write"}
    <2>1. \A x, y \in Label : <<x, y>> \in Seq(Label) /\ <<x, y>> # <<>>
      OBVIOUS
    <2>2. \A x, y \in Label : Now(<<x, y>>) = x
      BY DEF Now
    <2>3. \A x, y \in Label : Later(<<x, y>>) = {y} /\ All(<<x, y>>) = {x, y}
      BY DEF Later, All
    <2>4. {"recharge_read", "test_read", "recharge_write", "test_write"} \subseteq Label
      BY DEF Label
    <2>5. /\ a = <<>> \/ (a \in Seq(Label) /\ a # <<>> /\ Now(a) = "recharge_read" /\ Later(a) = {"test_read"})
      BY <2>1, <2>2, <2>3, <2>4
    <2>6. /\ b \in Seq(Label) /\ Now(b) \in {"none", "recharge_write"} /\ Later(b) \subseteq {"test_write"}
          /\ All(b) \subseteq {"recharge_write", "test_write"}
      <3>1. CASE "out" \in limited
        BY <2>1, <2>2, <2>3, <2>4, <3>1
      <3>2. CASE "out" \notin limited
        <4>1. b = <<>>
          BY <3>2
        <4>2. QED BY <4>1 DEF Now, Later, All
      <3>3. QED BY <3>1, <3>2
    <2> HIDE DEF a, b
    <2>7. CASE a = <<>>
      <3>1. a \o b = b
        BY <2>6, <2>7
      <3>2. QED BY <2>6, <3>1 DEF Follow
    <2>8. CASE a # <<>>
      <3>1. /\ a \o b \in Seq(Label) /\ Now(a \o b) = Now(a)
            /\ Later(a \o b) = Later(a) \cup All(b)
        BY <2>5, <2>6, <2>8, Prepend
      <3>2. QED BY <2>5, <2>6, <2>8, <3>1 DEF Follow
    <2>9. QED BY <2>7, <2>8
  <1> HIDE DEF a, b, t
  <1>3. /\ pc' \in [Threads -> Seq(Label)] /\ OnlyPc(t) /\ Later(pc'[t]) \subseteq Follow
        /\ Now(pc'[t]) \in {"none", "recharge_read", "recharge_write"}
    BY <1>1, <1>2 DEF IInv, PcInv, OnlyPc
  <1>4. Now(pc[t]) = "none" /\ Later(pc[t]) = {}
    BY <1>1, IdleNow
  <1>5. UNCHANGED <<limited, net_type, status, closes, swapped, pending, sending, writing, reading>>
    BY <1>1 DEF Slight, confVars, connVars, queueVars, outVars
  <1>6. UNCHANGED Backlog
    BY <1>5 DEF Backlog
  <1>7. ~WillSend(t) /\ ~WillRecv(t) /\ ~WillRecheck(t)
    BY <1>4 DEF WillSend, WillRecv, WillRecheck
  <1>8. SendWakeInv' /\ RecvWakeInv'
    BY <1>1, <1>3, <1>5, <1>6, <1>7, SendWakes, RecvWakes DEF IInv
  <1>9. QED BY <1>1, <1>3, <1>4, <1>8, MoveKeeps DEF Slight

----------------------------------------------------------------------------
(* The chain of messages sent, being sent, swapped and pending.            *)

LEMMA FirstOf ==
    ASSUME NEW q \in Seq(Messages), q # <<>>
    PROVE  /\ Head(q) \in Messages /\ <<Head(q)>> \in Seq(Messages) /\ Tail(q) \in Seq(Messages)
           /\ <<Head(q)>> \o Tail(q) = q
  <1>1. /\ Head(q) \in Messages /\ Tail(q) \in Seq(Messages) /\ Len(Tail(q)) = Len(q) - 1
        /\ Len(q) \in Nat \ {0} /\ \A i \in 1 .. Len(q) - 1 : Tail(q)[i] = q[i + 1]
    OBVIOUS
  <1> DEFINE h == <<Head(q)>>
             r == Tail(q)
  <1>2. h \in Seq(Messages) /\ Len(h) = 1 /\ h[1] = q[1] /\ r \in Seq(Messages)
    BY <1>1
  <1> HIDE DEF h, r
  <1>3. /\ h \o r \in Seq(Messages) /\ Len(h \o r) = 1 + Len(r)
        /\ \A i \in 1 .. 1 + Len(r) : (h \o r)[i] = IF i <= 1 THEN h[i] ELSE r[i - 1]
    <2>1. /\ h \o r \in Seq(Messages) /\ Len(h \o r) = Len(h) + Len(r)
          /\ \A i \in 1 .. Len(h) + Len(r) : (h \o r)[i] = IF i <= Len(h) THEN h[i] ELSE r[i - Len(h)]
      BY <1>2, ConcatProperties, Zenon
    <2>2. QED BY <1>2, <2>1, Zenon
  <1>4. Len(h \o r) = Len(q) /\ \A i \in 1 .. Len(q) : (h \o r)[i] = q[i]
    BY <1>1, <1>2, <1>3 DEF r
  <1>5. h \o r = q
    BY <1>3, <1>4, SeqEqual
  <1>6. QED BY <1>1, <1>2, <1>5 DEF h, r

\* The provers reason about sequences by their elements; the algebra of chains is
\* easier for them with these names.
Cat(a, b)   == a \o b
Added(q, m) == Append(q, m)
One(m)      == <<m>>

LEMMA CatFacts ==
    /\ <<>> \in Seq(Messages)
    /\ \A a \in Seq(Messages) : Cat(a, <<>>) = a /\ Cat(<<>>, a) = a
    /\ \A a, b, c \in Seq(Messages) : Cat(Cat(a, b), c) = Cat(a, Cat(b, c))
    /\ \A a, b \in Seq(Messages) : Cat(a, b) \in Seq(Messages)
    /\ \A m \in Messages : One(m) \in Seq(Messages)
    /\ \A a \in Seq(Messages) : \A m \in Messages : Added(a, m) = Cat(a, One(m)) /\ Added(a, m) \in Seq(Messages)
  <1>1. \A a, b, c \in Seq(Messages) : (a \o b) \o c = a \o (b \o c)
    BY ConcatAssociative
  <1>2. \A a \in Seq(Messages) : Cat(a, <<>>) = a /\ Cat(<<>>, a) = a
    BY ConcatEmptySeq DEF Cat
  <1>3. \A a, b, c \in Seq(Messages) : Cat(Cat(a, b), c) = Cat(a, Cat(b, c))
    BY <1>1, Zenon DEF Cat
  <1>4. \A a, b \in Seq(Messages) : Cat(a, b) \in Seq(Messages)
    BY ConcatProperties DEF Cat
  <1>5. \A m \in Messages : One(m) \in Seq(Messages)
    BY DEF One
  <1>6. \A a \in Seq(Messages) : \A m \in Messages : Added(a, m) = Cat(a, One(m)) /\ Added(a, m) \in Seq(Messages)
    BY DEF One, Cat, Added
  <1>7. QED BY <1>2, <1>3, <1>4, <1>5, <1>6

LEMMA ChainIsCat ==
    ASSUME NEW w, NEW f, NEW s, NEW p
    PROVE  Chain(w, f, s, p) = Cat(Cat(Cat(w, f), s), p)
  BY DEF Chain, Cat

\* A message is taken from the front of a queue, goes back there, is written, and
\* is put at the end: the chain stays what it is.
LEMMA ChainTakes ==
    ASSUME NEW w \in Seq(Messages), NEW s \in Seq(Messages), NEW p \in Seq(Messages), s # <<>>
    PROVE  /\ Chain(w, <<>>, s, p) = Chain(w, One(Head(s)), Tail(s), p)
           /\ Chain(w, <<>>, <<>>, s) = Chain(w, One(Head(s)), Tail(s), <<>>)
  <1> DEFINE h == One(Head(s))
             r == Tail(s)
  <1>1. h \in Seq(Messages) /\ r \in Seq(Messages) /\ Cat(h, r) = s
    BY FirstOf DEF One, Cat
  <1> HIDE DEF h, r
  <1>2. Cat(Cat(w, h), r) = Cat(w, s) /\ Cat(w, <<>>) = w /\ Cat(Cat(w, s), <<>>) = Cat(w, s)
    BY <1>1, CatFacts
  <1>3. Cat(Cat(Cat(w, <<>>), s), p) = Cat(Cat(Cat(w, h), r), p)
    BY <1>2
  <1>4. Cat(Cat(Cat(w, <<>>), <<>>), s) = Cat(Cat(Cat(w, h), r), <<>>)
    BY <1>2
  <1>5. QED BY <1>3, <1>4, ChainIsCat DEF h, r

LEMMA ChainGivesBack ==
    ASSUME NEW w \in Seq(Messages), NEW s \in Seq(Messages), NEW p \in Seq(Messages), NEW m \in Messages
    PROVE  Chain(w, One(m), s, p) = Chain(w, <<>>, Cat(One(m), s), p)
  <1>1. Cat(Cat(w, One(m)), s) = Cat(Cat(w, <<>>), Cat(One(m), s))
    BY CatFacts
  <1>2. QED BY <1>1, ChainIsCat

LEMMA ChainSends ==
    ASSUME NEW w \in Seq(Messages), NEW s \in Seq(Messages), NEW p \in Seq(Messages), NEW m \in Messages
    PROVE  Chain(w, One(m), s, p) = Chain(Added(w, m), <<>>, s, p)
  <1>1. Cat(w, One(m)) = Cat(Added(w, m), <<>>)
    BY CatFacts
  <1>2. QED BY <1>1, ChainIsCat

LEMMA ChainPuts ==
    ASSUME NEW w \in Seq(Messages), NEW f \in Seq(Messages), NEW s \in Seq(Messages), NEW p \in Seq(Messages),
           NEW m \in Messages
    PROVE  Added(Chain(w, f, s, p), m) = Chain(w, f, s, Added(p, m))
  <1> DEFINE a == Cat(Cat(w, f), s)
  <1>1. a \in Seq(Messages)
    BY CatFacts
  <1> HIDE DEF a
  <1>2. Added(Cat(a, p), m) = Cat(a, Added(p, m))
    BY <1>1, CatFacts
  <1>3. QED BY <1>2, ChainIsCat DEF a

----------------------------------------------------------------------------
(* Steps of the holder of a token: the other token, and what an opened     *)
(* stream cannot lose.                                                     *)

LEMMA PcKeeps ==
    ASSUME PcInv, NEW t \in Threads, pc' \in [Threads -> Seq(Label)], OnlyPc(t),
           UNCHANGED <<limited, net_type>>,
           DOMAIN arg' = Threads, \A u \in Threads : u # t => arg'[u] = arg[u], PcAt(t)'
    PROVE  PcInv'
  <1>1. \A u \in Threads : u # t => PcAt(u)'
    BY DEF PcInv, PcAt, OnlyPc
  <1>2. QED BY <1>1 DEF PcInv

LEMMA OpenedKeeps ==
    ASSUME OpenInv, ~Unopened, NEW t \in Threads, OnlyPc(t), ~Opens(t)', UNCHANGED connVars
    PROVE  OpenInv' /\ ~Unopened'
  <1>1. \A u \in Threads : ~Opens(u)'
    BY DEF Unopened, Opens, OnlyPc
  <1>2. UNCHANGED <<status, link, closes>> /\ ~Unopened'
    BY <1>1 DEF connVars, Unopened
  <1>3. QED BY <1>1, <1>2 DEF OpenInv, Unopened

LEMMA SendTokenSame ==
    ASSUME SendTokenInv, NEW t \in Threads, OnlyPc(t), ~HoldsSend(t), ~HoldsSend(t)',
           UNCHANGED <<send_token, writing>>, status' = "CONNECTED" => status = "CONNECTED"
    PROVE  SendTokenInv'
  <1>1. \A u \in Threads : HoldsSend(u)' = HoldsSend(u)
    BY DEF HoldsSend, OnlyPc
  <1>2. QED BY <1>1 DEF SendTokenInv

LEMMA RecvTokenSame ==
    ASSUME RecvTokenInv, NEW t \in Threads, OnlyPc(t), ~HoldsRecv(t), ~HoldsRecv(t)',
           UNCHANGED <<receive_token, reading>>, status' = "CONNECTED" => status = "CONNECTED"
    PROVE  RecvTokenInv'
  <1>1. \A u \in Threads : HoldsRecv(u)' = HoldsRecv(u)
    BY DEF HoldsRecv, OnlyPc
  <1>2. QED BY <1>1 DEF RecvTokenInv

LEMMA QueueSame ==
    ASSUME QueueInv, NEW t \in Threads, OnlyPc(t), ~HoldsSend(t), ~HoldsSend(t)',
           UNCHANGED <<send_token, writing, sending, swapped, pending, accepted, wire>>,
           closes' = 0 => closes = 0
    PROVE  QueueInv'
  <1>1. \A u \in Threads : /\ Now(pc'[u]) \in {"get", "store", "unlock", "release"} => Now(pc'[u]) = Now(pc[u])
                           /\ Now(pc[u]) = "store" => Now(pc'[u]) = "store"
    BY DEF HoldsSend, OnlyPc
  <1>2. InFlight' = InFlight
    BY DEF InFlight
  <1>3. QED BY <1>1, <1>2 DEF QueueInv

LEMMA OpenSame ==
    ASSUME OpenInv, NEW t \in Threads, OnlyPc(t), ~Opens(t), ~Opens(t)',
           ~HoldsSend(t)', ~HoldsRecv(t)', Now(pc'[t]) \notin {"lock", "rlock"},
           UNCHANGED <<connVars, tokenVars, writing, reading>>
    PROVE  OpenInv'
  <1> USE DEF connVars, tokenVars
  <1>1. \A u \in Threads : Opens(u)' = Opens(u)
    BY DEF Opens, OnlyPc
  <1>2. Unopened' = Unopened
    BY <1>1 DEF Unopened
  <1>3. \A u \in Threads : /\ HoldsSend(u)' => HoldsSend(u)
                           /\ HoldsRecv(u)' => HoldsRecv(u)
                           /\ Now(pc'[u]) \in {"lock", "rlock"} => Now(pc[u]) \in {"lock", "rlock"}
    BY DEF HoldsSend, HoldsRecv, OnlyPc
  <1>4. QED BY <1>1, <1>2, <1>3 DEF OpenInv

\* Labels are what the type invariant asks of positions.
LEMMA PcTypes ==
    ASSUME pc' \in [Threads -> Seq(Label)]
    PROVE  \A t \in Threads : \A i \in DOMAIN pc'[t] : pc'[t][i] \in Label
  OBVIOUS

----------------------------------------------------------------------------
(* Sending.                                                                *)

LEMMA AsyncSendMessageKeeps ==
    ASSUME IInv, NEW p \in Producers, AsyncSendMessage(p)
    PROVE  IInv'
  <1> DEFINE m == CHOOSE x \in Fresh : TRUE
  <1>0. p \in Threads
    BY DEF Threads
  <1>1. Idle(p) /\ m \in Messages
    BY DEF AsyncSendMessage, Fresh
  <1>2. CASE failed' = failed \cup {m} /\ UNCHANGED <<pc, arg>>
    <2>1. StreamTypeOK'
      BY <1>1, <1>2 DEF IInv, StreamTypeOK, AsyncSendMessage, confVars, connVars, tokenVars, quotaVars,
                        queueVars, outVars, inVars
    <2>2. UNCHANGED <<limited, net_type, status, link, closes, send_token, receive_token, write_quota_token,
                      read_quota_token, swapped, pending, sending, writing, reading, accepted, wire, pc, arg>>
      BY <1>2 DEF AsyncSendMessage, confVars, connVars, tokenVars, quotaVars, queueVars, outVars, inVars
    <2>3. PcInv' /\ QuotaInv'
      BY <2>2 DEF IInv, PcInv, PcAt, QuotaInv
    <2>4. OpenInv'
      BY <2>2 DEF IInv, OpenInv, Unopened, Opens, HoldsSend, HoldsRecv
    <2>5. SendTokenInv' /\ RecvTokenInv'
      BY <2>2 DEF IInv, SendTokenInv, RecvTokenInv, HoldsSend, HoldsRecv
    <2>6. QueueInv'
      BY <2>2 DEF IInv, QueueInv, InFlight
    <2>7. SendWakeInv' /\ RecvWakeInv'
      BY <2>2 DEF IInv, SendWakeInv, RecvWakeInv, WillSend, WillRecheck, WillRecv, Backlog
    <2>8. QED BY <2>1, <2>3, <2>4, <2>5, <2>6, <2>7 DEF IInv
  <1>3. CASE /\ pc' = [pc EXCEPT ![p] = <<"put", "send">>]
             /\ arg' = [arg EXCEPT ![p] = m] /\ UNCHANGED failed
    <2>1. <<"put", "send">> \in Seq(Label) /\ Now(<<"put", "send">>) = "put" /\ Later(<<"put", "send">>) = {"send"}
      <3>1. <<"put", "send">> \in Seq(Label)
        BY DEF Label
      <3>2. Now(<<"put", "send">>) = "put"
        BY DEF Now
      <3>3. Later(<<"put", "send">>) = {"send"}
        BY DEF Later
      <3>4. QED BY <3>1, <3>2, <3>3
    <2>2. /\ pc' \in [Threads -> Seq(Label)] /\ OnlyPc(p)
          /\ Now(pc'[p]) = "put" /\ Later(pc'[p]) = {"send"}
      BY <1>0, <1>3, <2>1 DEF IInv, PcInv, OnlyPc
    <2>3. DOMAIN arg' = Threads /\ arg'[p] = m /\ \A u \in Threads : u # p => arg'[u] = arg[u]
      BY <1>0, <1>3 DEF IInv, PcInv
    <2>4. Now(pc[p]) = "none" /\ Later(pc[p]) = {}
      BY <1>0, <1>1, IdleNow
    <2>5. UNCHANGED <<confVars, connVars, tokenVars, quotaVars, queueVars, outVars, inVars, accepted, wire, failed>>
      BY <1>3 DEF AsyncSendMessage
    <2>6. UNCHANGED <<limited, net_type, status, link, closes, send_token, receive_token, write_quota_token,
                      read_quota_token, swapped, pending, sending, writing, reading, accepted, wire>>
      BY <2>5 DEF confVars, connVars, tokenVars, quotaVars, queueVars, outVars, inVars
    <2>7. StreamTypeOK'
      BY <2>2, <2>5, PcTypes DEF IInv, StreamTypeOK, confVars, connVars, tokenVars, quotaVars,
                        queueVars, outVars, inVars
    <2>8. PcInv'
      <3>1. PcAt(p)'
        BY <1>1, <2>2, <2>3 DEF PcAt, Follow
      <3>2. QED BY <1>0, <2>2, <2>3, <2>6, <3>1, PcKeeps DEF IInv
    <2>9. QuotaInv'
      BY <2>6 DEF IInv, QuotaInv
    <2>10. /\ ~HoldsSend(p) /\ ~HoldsSend(p)' /\ ~HoldsRecv(p) /\ ~HoldsRecv(p)'
           /\ ~Opens(p) /\ ~Opens(p)'
      BY <2>2, <2>4 DEF HoldsSend, HoldsRecv, Opens
    <2>11. OpenInv'
      BY <1>0, <2>2, <2>5, <2>6, <2>10, OpenSame DEF IInv
    <2>12. SendTokenInv' /\ RecvTokenInv' /\ QueueInv'
      BY <1>0, <2>2, <2>6, <2>10, SendTokenSame, RecvTokenSame, QueueSame DEF IInv
    <2>13. ~WillSend(p) /\ ~WillRecheck(p) /\ ~WillRecv(p) /\ UNCHANGED Backlog
      BY <2>4, <2>6 DEF WillSend, WillRecheck, WillRecv, Backlog
    <2>14. SendWakeInv' /\ RecvWakeInv'
      BY <1>0, <2>2, <2>3, <2>6, <2>13, SendWakes, RecvWakes DEF IInv
    <2>15. QED BY <2>7, <2>8, <2>9, <2>11, <2>12, <2>14 DEF IInv
  <1>4. QED BY <1>2, <1>3 DEF AsyncSendMessage

LEMMA PutIntoPendingQueueKeeps ==
    ASSUME IInv, NEW t \in Threads, PutIntoPendingQueue(t)
    PROVE  IInv'
  <1>1. Now(pc[t]) = "put" /\ pc[t] # <<>> /\ Then(t, <<>>)
    BY AtNow DEF PutIntoPendingQueue
  <1>2. /\ pc' \in [Threads -> Seq(Label)] /\ OnlyPc(t)
        /\ Now(pc'[t]) \in Later(pc[t]) \cup {"none"} /\ Later(pc'[t]) \subseteq Later(pc[t])
    BY <1>1, Drops DEF IInv
  <1>3. Now(pc'[t]) \in Follow \cup {"none"} /\ Later(pc'[t]) \subseteq Follow
    BY <1>2 DEF IInv, PcInv, PcAt
  <1>4. arg[t] \in Messages /\ "send" \in Later(pc[t]) /\ WillSend(t)' /\ (WillRecv(t) => WillRecv(t)')
    BY <1>1, DropWakes DEF IInv, PcInv, PcAt, WillRecv
  <1>5. DOMAIN arg' = Threads /\ \A u \in Threads : u # t => arg'[u] = arg[u]
    BY DEF PutIntoPendingQueue, IInv, PcInv
  <1>6. UNCHANGED <<limited, net_type, status, link, closes, send_token, receive_token, write_quota_token,
                    read_quota_token, swapped, sending, writing, reading, wire>>
    BY DEF PutIntoPendingQueue, confVars, connVars, tokenVars, quotaVars, outVars, inVars
  <1>7. pending' = Append(pending, arg[t]) /\ accepted' = Append(accepted, arg[t])
    BY DEF PutIntoPendingQueue
  <1>8. StreamTypeOK'
    <2>1. pending' \in Seq(Messages) /\ accepted' \in Seq(Messages)
      BY <1>4, <1>7 DEF IInv, StreamTypeOK
    <2>2. QED BY <1>2, <1>6, <2>1, PcTypes DEF IInv, StreamTypeOK, PutIntoPendingQueue,
                   confVars, connVars, tokenVars, quotaVars, outVars, inVars
  <1>9. PcInv'
    <2>1. PcAt(t)'
      BY <1>3 DEF PcAt, Follow
    <2>2. QED BY <1>2, <1>5, <1>6, <2>1, PcKeeps DEF IInv
  <1>10. QuotaInv'
    BY <1>6 DEF IInv, QuotaInv
  <1>11. /\ ~HoldsSend(t) /\ ~HoldsSend(t)' /\ ~HoldsRecv(t) /\ ~HoldsRecv(t)'
         /\ ~Opens(t) /\ ~Opens(t)' /\ Now(pc'[t]) \notin {"lock", "rlock"}
    BY <1>1, <1>3 DEF HoldsSend, HoldsRecv, Opens, Follow
  <1>12. OpenInv' /\ SendTokenInv' /\ RecvTokenInv'
    BY <1>2, <1>6, <1>11, OpenSame, SendTokenSame, RecvTokenSame DEF IInv, connVars, tokenVars
  <1>13. QueueInv'
    <2>1. closes = 0 => accepted' = Chain(wire, InFlight, swapped, pending')
      <3>1. /\ InFlight \in Seq(Messages) /\ wire \in Seq(Messages)
            /\ swapped \in Seq(Messages) /\ pending \in Seq(Messages)
        BY DEF InFlight, IInv, StreamTypeOK
      <3>2. Added(Chain(wire, InFlight, swapped, pending), arg[t])
                = Chain(wire, InFlight, swapped, Added(pending, arg[t]))
        BY <1>4, <3>1, ChainPuts
      <3>3. pending' = Added(pending, arg[t]) /\ accepted' = Added(accepted, arg[t])
        BY <1>7 DEF Added
      <3>4. QED BY <3>2, <3>3 DEF IInv, QueueInv
    <2>2. InFlight' = InFlight
      BY <1>6 DEF InFlight
    <2>3. \A u \in Threads : /\ Now(pc'[u]) \in {"get", "store", "unlock", "release"} => Now(pc'[u]) = Now(pc[u])
                             /\ Now(pc[u]) = "store" => Now(pc'[u]) = "store"
      BY <1>2, <1>11 DEF HoldsSend, OnlyPc
    <2>4. QED BY <1>6, <2>1, <2>2, <2>3 DEF IInv, QueueInv
  <1>14. SendWakeInv'
    BY <1>4 DEF SendWakeInv
  <1>15. RecvWakeInv'
    <2>1. Backlog'
      <3>1. pending \in Seq(Messages)
        BY DEF IInv, StreamTypeOK
      <3>2. pending' # <<>>
        BY <1>4, <1>7, <3>1
      <3>3. QED BY <3>2 DEF Backlog
    <2>2. QED BY <1>2, <1>4, <1>5, <1>6, <2>1, RecvWakes DEF IInv
  <1>16. QED BY <1>8, <1>9, <1>10, <1>12, <1>13, <1>14, <1>15 DEF IInv

LEMMA LockSendKeeps ==
    ASSUME IInv, NEW t \in Threads, LockSend(t)
    PROVE  IInv'
  <1>1. Now(pc[t]) = "lock" /\ pc[t] # <<>> /\ UNCHANGED arg
    BY AtNow DEF LockSend
  <1>2. UNCHANGED <<limited, net_type, status, link, closes, receive_token, write_quota_token,
                    read_quota_token, swapped, pending, sending, writing, reading, accepted, wire>>
    BY DEF LockSend, confVars, connVars, quotaVars, queueVars, outVars, inVars, logVars
  <1>3. UNCHANGED Backlog /\ DOMAIN arg' = Threads /\ \A u \in Threads : u # t => arg'[u] = arg[u]
    BY <1>1, <1>2 DEF Backlog, IInv, PcInv
  <1>4. ~HoldsSend(t) /\ ~HoldsRecv(t) /\ ~Unopened
    BY <1>1 DEF HoldsSend, HoldsRecv, IInv, OpenInv
  <1>5. CASE send_token
    <2>1. Then(t, <<>>) /\ UNCHANGED tokenVars
      BY <1>5 DEF LockSend, IInv, StreamTypeOK, tokenVars
    <2>2. Slight(t)
      BY <1>1, <2>1 DEF LockSend, Slight, inVars, quotaVars, confVars, QuotaInv, StreamTypeOK, IInv, PcInv
    <2>3. OnlyPc(t) /\ (WillRecv(t) => WillRecv(t)')
      BY <1>1, <2>1, DropWakes DEF WillRecv
    <2>4. SendWakeInv' /\ RecvWakeInv'
      BY <1>2, <1>3, <1>4, <1>5, <2>3, SendTaken, RecvWakes DEF IInv
    <2>5. QED BY <1>1, <2>1, <2>2, <2>4, DropKeeps DEF Light, Label
  <1>6. CASE ~send_token
    <2>1. Then(t, <<"get">>) /\ send_token' = TRUE
      BY <1>6 DEF LockSend
    <2>2. /\ pc' \in [Threads -> Seq(Label)] /\ OnlyPc(t)
          /\ Now(pc'[t]) = "get" /\ Later(pc'[t]) = Later(pc[t])
      BY <1>1, <2>1, Goes DEF IInv, Label
    <2>3. StreamTypeOK'
      BY <2>1, <2>2, PcTypes DEF IInv, StreamTypeOK, LockSend, confVars, connVars, quotaVars, queueVars,
                                 outVars, inVars, logVars
    <2>4. PcInv' /\ QuotaInv'
      <3>1. PcAt(t)'
        BY <2>2 DEF PcAt, IInv, PcInv
      <3>2. QED BY <1>2, <1>3, <2>2, <3>1, PcKeeps DEF IInv, QuotaInv
    <2>5. OpenInv'
      BY <1>2, <1>4, <2>2, OpenedKeeps DEF IInv, Opens, connVars
    <2>6. SendTokenInv'
      <3>1. \A u \in Threads : ~HoldsSend(u) /\ (HoldsSend(u)' <=> u = t)
        BY <1>6, <2>2 DEF IInv, SendTokenInv, HoldsSend, OnlyPc
      <3>2. writing = 0 /\ writing' = 0
        BY <1>2, <1>6 DEF IInv, SendTokenInv, StreamTypeOK
      <3>3. QED BY <2>1, <3>1, <3>2 DEF SendTokenInv
    <2>7. RecvTokenInv'
      BY <1>2, <1>4, <2>2, RecvTokenSame DEF IInv, HoldsRecv
    <2>8. QueueInv'
      <3>1. \A u \in Threads : u # t => Now(pc'[u]) \notin {"get", "store", "unlock", "release"}
        BY <1>6, <2>2 DEF IInv, SendTokenInv, HoldsSend, OnlyPc
      <3>2. sending = NoMsg /\ sending' = NoMsg /\ InFlight' = InFlight
        BY <1>2, <1>6 DEF IInv, QueueInv, InFlight
      <3>3. writing' # 1
        BY <1>2, <1>6 DEF IInv, SendTokenInv
      <3>4. QED BY <1>2, <2>2, <3>1, <3>2, <3>3 DEF IInv, QueueInv
    <2>9. WillSend(t)' /\ (WillRecv(t) => WillRecv(t)')
      BY <1>1, <2>2 DEF WillSend, WillRecv
    <2>10. SendWakeInv' /\ RecvWakeInv'
      BY <1>2, <1>3, <2>2, <2>9, SendWakes, RecvWakes DEF IInv
    <2>11. QED BY <2>3, <2>4, <2>5, <2>6, <2>7, <2>8, <2>10 DEF IInv
  <1>7. QED BY <1>5, <1>6

LEMMA GetFromPendingQueueKeeps ==
    ASSUME IInv, NEW t \in Threads, GetFromPendingQueue(t)
    PROVE  IInv'
  <1>1. Now(pc[t]) = "get" /\ pc[t] # <<>> /\ HoldsSend(t) /\ sending = NoMsg
    BY AtNow DEF GetFromPendingQueue, HoldsSend, IInv, QueueInv
  <1>2. UNCHANGED <<limited, net_type, status, link, closes, send_token, receive_token,
                    write_quota_token, read_quota_token, writing, reading, accepted, wire>>
    BY DEF GetFromPendingQueue, AcquireWriteQuota, confVars, connVars, tokenVars, quotaVars, outVars, inVars, logVars
  <1>3. send_token /\ writing = 0 /\ ~Unopened
    BY <1>1 DEF IInv, SendTokenInv, OpenInv
  <1>4. /\ wire \in Seq(Messages) /\ swapped \in Seq(Messages) /\ pending \in Seq(Messages)
        /\ InFlight = <<>> /\ <<>> \in Seq(Messages)
    BY <1>1, CatFacts DEF IInv, StreamTypeOK, InFlight
  <1>5. PICK l \in {"store", "release"} :
           /\ Then(t, <<l>>)
           /\ DOMAIN arg' = Threads /\ \A u \in Threads : u # t => arg'[u] = arg[u]
           /\ write_quota' \in Int /\ read_quota' \in Int
           /\ l = "store" => /\ arg'[t] \in Int /\ ("out" \notin limited => arg'[t] = 1)
                             /\ sending' \in Messages
                             /\ swapped' \in Seq(Messages) /\ pending' \in Seq(Messages)
                             /\ Chain(wire, <<>>, swapped, pending) = Chain(wire, One(sending'), swapped', pending')
           /\ l = "release" => /\ UNCHANGED <<sending, swapped, pending>>
                               /\ swapped = <<>> /\ pending = <<>>
    <2>1. CASE AcquireWriteQuota(t)
      <3>1. /\ DOMAIN arg' = Threads /\ \A u \in Threads : u # t => arg'[u] = arg[u]
            /\ arg'[t] \in Int /\ ("out" \notin limited => arg'[t] = 1)
            /\ write_quota' \in Int /\ read_quota' \in Int
        <4>1. write_quota \in Int /\ read_quota \in Int /\ DOMAIN arg = Threads /\ Units \in Int
          BY StreamAssumption DEF IInv, PcInv, StreamTypeOK
        <4>2. Acquired(write_quota, Units) \in Int
          BY <4>1 DEF Acquired
        <4>3. write_quota' \in Int /\ read_quota' \in Int
          BY <2>1, <4>1, <4>2 DEF AcquireWriteQuota
        <4>4. /\ DOMAIN arg' = Threads /\ \A u \in Threads : u # t => arg'[u] = arg[u]
              /\ arg'[t] = IF "out" \in limited THEN write_quota ELSE 1
          BY <2>1, <4>1 DEF AcquireWriteQuota
        <4>5. QED BY <4>1, <4>3, <4>4
      <3>2. CASE swapped # <<>> /\ sending' = Head(swapped) /\ swapped' = Tail(swapped) /\ UNCHANGED pending
                 /\ Then(t, <<"store">>)
        <4>1. Chain(wire, <<>>, swapped, pending) = Chain(wire, One(sending'), swapped', pending')
          BY <1>4, <3>2, ChainTakes
        <4>2. sending' \in Messages /\ swapped' \in Seq(Messages) /\ pending' \in Seq(Messages)
          BY <1>4, <3>2, FirstOf
        <4>3. QED BY <3>1, <3>2, <4>1, <4>2
      <3>3. CASE /\ swapped = <<>> /\ pending # <<>> /\ sending' = Head(pending) /\ swapped' = Tail(pending)
                 /\ pending' = <<>> /\ Then(t, <<"store">>)
        <4>1. Chain(wire, <<>>, swapped, pending) = Chain(wire, One(sending'), swapped', pending')
          BY <1>4, <3>3, ChainTakes
        <4>2. sending' \in Messages /\ swapped' \in Seq(Messages) /\ pending' \in Seq(Messages)
          BY <1>4, <3>3, FirstOf
        <4>3. QED BY <3>1, <3>3, <4>1, <4>2
      <3>4. CASE swapped = <<>> /\ pending = <<>> /\ Then(t, <<"release">>)
                 /\ UNCHANGED <<pending, swapped, sending, quotaVars, arg>>
        BY <3>1, <3>4
      <3>5. QED BY <3>2, <3>3, <3>4 DEF GetFromPendingQueue
    <2>2. CASE /\ swapped = <<>> /\ pending = <<>> /\ Then(t, <<"release">>)
               /\ UNCHANGED <<pending, swapped, sending, quotaVars, arg>>
      BY <2>2 DEF IInv, PcInv, StreamTypeOK, quotaVars
    <2>3. QED BY <2>1, <2>2 DEF GetFromPendingQueue
  <1>6. /\ pc' \in [Threads -> Seq(Label)] /\ OnlyPc(t)
        /\ Now(pc'[t]) = l /\ Later(pc'[t]) = Later(pc[t])
    BY <1>1, <1>5, Goes DEF IInv, Label
  <1>7. StreamTypeOK'
    <2>1. sending' \in Messages \cup {NoMsg} /\ swapped' \in Seq(Messages) /\ pending' \in Seq(Messages)
      BY <1>1, <1>4, <1>5
    <2>2. QED BY <1>2, <1>5, <1>6, <2>1, PcTypes
              DEF IInv, StreamTypeOK, GetFromPendingQueue, confVars, connVars, outVars, inVars, logVars
  <1>8. PcInv' /\ QuotaInv'
    <2>1. PcAt(t)'
      BY <1>2, <1>5, <1>6 DEF PcAt, IInv, PcInv
    <2>2. QED BY <1>2, <1>5, <1>6, <2>1, PcKeeps DEF IInv, QuotaInv
  <1>9. OpenInv'
    BY <1>2, <1>3, <1>5, <1>6, OpenedKeeps DEF IInv, Opens, connVars
  <1>10. \A u \in Threads : HoldsSend(u)' = HoldsSend(u) /\ (HoldsSend(u) => u = t)
    BY <1>1, <1>5, <1>6 DEF HoldsSend, OnlyPc, IInv, SendTokenInv
  <1>11. SendTokenInv'
    BY <1>2, <1>10 DEF IInv, SendTokenInv
  <1>12. RecvTokenInv'
    BY <1>1, <1>2, <1>5, <1>6, RecvTokenSame DEF IInv, HoldsRecv
  <1>13. QueueInv'
    <2>1. \A u \in Threads : u # t => Now(pc'[u]) \notin {"get", "store", "unlock", "release"}
      BY <1>6, <1>10 DEF HoldsSend, OnlyPc
    <2>2. closes = 0 => accepted = Chain(wire, InFlight, swapped, pending)
      BY DEF IInv, QueueInv
    <2>3. CASE l = "store"
      <3>1. sending' # NoMsg /\ InFlight' = One(sending')
        BY <1>5, <2>3, StreamAssumption DEF InFlight, One
      <3>2. closes' = 0 => accepted' = Chain(wire', InFlight', swapped', pending')
        BY <1>2, <1>4, <1>5, <2>2, <2>3, <3>1
      <3>3. QED BY <1>2, <1>3, <1>6, <2>1, <2>3, <3>1, <3>2 DEF QueueInv
    <2>4. CASE l = "release"
      <3>1. sending' = NoMsg /\ InFlight' = InFlight /\ swapped' = <<>>
        BY <1>1, <1>5, <2>4 DEF InFlight
      <3>2. QED BY <1>2, <1>3, <1>5, <1>6, <2>1, <2>2, <2>4, <3>1 DEF QueueInv
    <2>5. QED BY <1>5, <2>3, <2>4
  <1>14. SendWakeInv'
    <2>1. CASE l = "store"
      BY <1>6, <2>1 DEF SendWakeInv, WillSend
    <2>2. CASE l = "release"
      BY <1>5, <2>2 DEF SendWakeInv
    <2>3. QED BY <1>5, <2>1, <2>2
  <1>15. RecvWakeInv'
    <2>1. Backlog => Backlog'
      BY <1>1, <1>5, StreamAssumption DEF Backlog
    <2>2. WillRecv(t) => WillRecv(t)'
      BY <1>1, <1>6 DEF WillRecv
    <2>3. QED BY <1>2, <1>5, <1>6, <2>1, <2>2, RecvWakes DEF IInv
  <1>16. QED BY <1>7, <1>8, <1>9, <1>11, <1>12, <1>13, <1>14, <1>15 DEF IInv

LEMMA StartWriteKeeps ==
    ASSUME IInv, NEW t \in Threads, StartWrite(t)
    PROVE  IInv'
  <1>1. /\ Now(pc[t]) = "store" /\ pc[t] # <<>> /\ HoldsSend(t) /\ sending \in Messages /\ sending # NoMsg
        /\ arg[t] \in Int /\ ("out" \notin limited => arg[t] = 1)
    BY AtNow DEF StartWrite, HoldsSend, IInv, QueueInv, PcInv, PcAt, StreamTypeOK
  <1>2. /\ UNCHANGED <<limited, net_type, status, link, closes, send_token, receive_token,
                       read_quota_token, pending, reading, accepted, wire>>
        /\ write_quota_token' = arg[t]
    BY DEF StartWrite, confVars, connVars, tokenVars, inVars, logVars
  <1>3. send_token /\ writing = 0 /\ ~Unopened
    BY <1>1 DEF IInv, SendTokenInv, OpenInv
  <1>4. /\ wire \in Seq(Messages) /\ swapped \in Seq(Messages) /\ pending \in Seq(Messages)
        /\ InFlight = One(sending)
    BY <1>1 DEF IInv, StreamTypeOK, InFlight, One
  <1>5. DOMAIN arg' = Threads /\ \A u \in Threads : u # t => arg'[u] = arg[u]
    BY DEF StartWrite, IInv, PcInv
  <1>6. \A u \in Threads : u # t => Now(pc[u]) \notin {"get", "store", "unlock", "release"}
    BY <1>1 DEF HoldsSend, IInv, SendTokenInv
  <1>7. QuotaInv'
    BY <1>1, <1>2 DEF IInv, QuotaInv
  \* No quota: the message goes back.
  <1>8. CASE arg[t] <= 0
    <2>1. /\ swapped' = Cat(One(sending), swapped) /\ sending' = NoMsg /\ Then(t, <<"unlock">>)
          /\ UNCHANGED <<left, writing>> /\ "out" \in limited
      BY <1>1, <1>8 DEF StartWrite, outVars, Cat, One
    <2>2. /\ pc' \in [Threads -> Seq(Label)] /\ OnlyPc(t)
          /\ Now(pc'[t]) = "unlock" /\ Later(pc'[t]) = Later(pc[t])
      BY <1>1, <2>1, Goes DEF IInv, Label
    <2>3. swapped' \in Seq(Messages)
      BY <1>1, <1>4, <2>1, CatFacts
    <2>4. StreamTypeOK'
      BY <1>1, <1>2, <2>1, <2>2, <2>3, PcTypes
         DEF IInv, StreamTypeOK, StartWrite, confVars, connVars, tokenVars, inVars, logVars
    <2>5. PcInv'
      <3>1. PcAt(t)'
        BY <1>2, <2>1, <2>2 DEF PcAt, IInv, PcInv
      <3>2. QED BY <1>2, <1>5, <2>2, <3>1, PcKeeps DEF IInv
    <2>6. OpenInv'
      BY <1>2, <1>3, <2>2, OpenedKeeps DEF IInv, Opens, connVars
    <2>7. SendTokenInv'
      <3>1. \A u \in Threads : HoldsSend(u)' = HoldsSend(u)
        BY <1>1, <2>2 DEF HoldsSend, OnlyPc
      <3>2. QED BY <1>2, <2>1, <3>1 DEF IInv, SendTokenInv
    <2>8. RecvTokenInv'
      BY <1>1, <1>2, <2>2, RecvTokenSame DEF IInv, HoldsRecv
    <2>9. QueueInv'
      <3>1. InFlight' = <<>>
        BY <2>1 DEF InFlight
      <3>2. Chain(wire, InFlight, swapped, pending) = Chain(wire', InFlight', swapped', pending')
        BY <1>1, <1>2, <1>4, <2>1, <3>1, ChainGivesBack
      <3>3. closes' = 0 => accepted' = Chain(wire', InFlight', swapped', pending')
        BY <1>2, <3>2 DEF IInv, QueueInv
      <3>4. \A u \in Threads : u # t => Now(pc'[u]) \notin {"get", "store", "unlock", "release"}
        BY <1>6, <2>2 DEF OnlyPc
      <3>5. QED BY <1>2, <1>3, <2>1, <2>2, <3>3, <3>4 DEF QueueInv
    <2>10. SendWakeInv'
      BY <1>2, <2>1 DEF SendWakeInv
    <2>11. RecvWakeInv'
      <3>1. swapped' # <<>>
        <4>1. One(sending) \o swapped # <<>>
          BY <1>1, <1>4 DEF One
        <4>2. QED BY <2>1, <4>1 DEF Cat
      <3>2. Backlog' /\ (WillRecv(t) => WillRecv(t)')
        BY <1>1, <2>2, <3>1 DEF Backlog, WillRecv
      <3>3. QED BY <1>2, <1>5, <2>2, <3>2, RecvWakes DEF IInv
    <2>12. QED BY <1>7, <2>4, <2>5, <2>6, <2>7, <2>8, <2>9, <2>10, <2>11 DEF IInv
  \* The write holds the token from now on.
  <1>9. CASE arg[t] > 0
    <2>1. left' = Units /\ writing' = 1 /\ Then(t, <<>>) /\ UNCHANGED <<swapped, sending>>
      BY <1>1, <1>3, <1>9 DEF StartWrite
    <2>2. /\ pc' \in [Threads -> Seq(Label)] /\ OnlyPc(t)
          /\ Now(pc'[t]) \in Follow \cup {"none"} /\ Later(pc'[t]) \subseteq Follow
      BY <1>1, <2>1, Drops DEF IInv, PcInv, PcAt
    <2>3. StreamTypeOK'
      <3>1. left' \in 0 .. Units /\ writing' \in 0 .. 1 /\ write_quota_token' \in Int
        BY <1>1, <1>2, <2>1, StreamAssumption
      <3>2. UNCHANGED <<inbound, write_quota, read_quota, pos, failed>>
        BY DEF StartWrite, confVars, inVars, logVars
      <3>3. \A u \in Threads : \A i \in DOMAIN pc'[u] : pc'[u][i] \in Label
        BY <2>2, PcTypes
      <3>4. QED BY <1>2, <2>1, <3>1, <3>2, <3>3 DEF IInv, StreamTypeOK
    <2>4. PcInv'
      <3>1. PcAt(t)'
        BY <2>2 DEF PcAt, Follow
      <3>2. QED BY <1>2, <1>5, <2>2, <3>1, PcKeeps DEF IInv
    <2>5. OpenInv'
      BY <1>2, <1>3, <2>2, OpenedKeeps DEF IInv, Opens, connVars, Follow
    <2>6. \A u \in Threads : ~HoldsSend(u)'
      BY <1>6, <2>2 DEF HoldsSend, OnlyPc, Follow
    <2>7. SendTokenInv'
      BY <1>2, <1>3, <2>1, <2>6 DEF SendTokenInv
    <2>8. RecvTokenInv'
      BY <1>1, <1>2, <2>2, RecvTokenSame DEF IInv, HoldsRecv, Follow
    <2>9. QueueInv'
      <3>1. InFlight' = InFlight
        BY <2>1 DEF InFlight
      <3>2. QED BY <1>1, <1>2, <1>3, <2>1, <2>6, <3>1 DEF IInv, QueueInv, HoldsSend
    <2>10. SendWakeInv'
      BY <2>1 DEF SendWakeInv
    <2>11. RecvWakeInv'
      <3>1. Backlog' /\ (WillRecv(t) => WillRecv(t)')
        BY <1>1, <2>1, DropWakes DEF Backlog, WillRecv
      <3>2. QED BY <1>2, <1>5, <2>2, <3>1, RecvWakes DEF IInv
    <2>12. QED BY <1>7, <2>3, <2>4, <2>5, <2>7, <2>8, <2>9, <2>10, <2>11 DEF IInv
  <1>10. QED BY <1>1, <1>8, <1>9

LEMMA UnlockSendKeeps ==
    ASSUME IInv, NEW t \in Threads, UnlockSend(t)
    PROVE  IInv'
  <1>1. /\ Now(pc[t]) \in {"unlock", "release"} /\ pc[t] # <<>> /\ HoldsSend(t) /\ UNCHANGED arg
        /\ sending = NoMsg /\ send_token' = FALSE
    BY AtNow DEF UnlockSend, HoldsSend, IInv, QueueInv
  <1>2. UNCHANGED <<limited, net_type, status, link, closes, receive_token, write_quota_token,
                    read_quota_token, swapped, pending, sending, writing, reading, accepted, wire>>
    BY DEF UnlockSend, confVars, connVars, quotaVars, queueVars, outVars, inVars, logVars
  <1>3. UNCHANGED Backlog /\ DOMAIN arg' = Threads /\ \A u \in Threads : u # t => arg'[u] = arg[u]
    BY <1>1, <1>2 DEF Backlog, IInv, PcInv
  <1>4. writing = 0 /\ ~Unopened
    BY <1>1 DEF IInv, SendTokenInv, OpenInv
  <1>5. /\ pc' \in [Threads -> Seq(Label)] /\ OnlyPc(t)
        /\ Now(pc'[t]) \in Follow \cup {"none", "recheck"} /\ Later(pc'[t]) \subseteq Follow
        /\ Now(pc[t]) = "release" => Now(pc'[t]) = "recheck" /\ Later(pc'[t]) = Later(pc[t])
        /\ Now(pc[t]) = "unlock" => Then(t, <<>>)
    <2>1. CASE At(t, "unlock") /\ Then(t, <<>>)
      BY <1>1, <2>1, AtNow, Drops DEF IInv, PcInv, PcAt
    <2>2. CASE At(t, "release") /\ Then(t, <<"recheck">>)
      BY <1>1, <2>2, AtNow, Goes DEF IInv, PcInv, PcAt, Label
    <2>3. QED BY <2>1, <2>2 DEF UnlockSend
  <1>6. StreamTypeOK'
    BY <1>1, <1>5, PcTypes DEF IInv, StreamTypeOK, UnlockSend, confVars, connVars, quotaVars, queueVars,
                               outVars, inVars, logVars
  <1>7. PcInv' /\ QuotaInv'
    <2>1. PcAt(t)'
      BY <1>5 DEF PcAt, Follow
    <2>2. QED BY <1>2, <1>3, <1>5, <2>1, PcKeeps DEF IInv, QuotaInv
  <1>8. OpenInv'
    BY <1>2, <1>4, <1>5, OpenedKeeps DEF IInv, Opens, connVars, Follow
  <1>9. \A u \in Threads : ~HoldsSend(u)'
    BY <1>1, <1>5 DEF HoldsSend, OnlyPc, Follow, IInv, SendTokenInv
  <1>10. SendTokenInv'
    BY <1>1, <1>2, <1>4, <1>9 DEF SendTokenInv
  <1>11. RecvTokenInv'
    BY <1>1, <1>2, <1>5, RecvTokenSame DEF IInv, HoldsRecv, Follow
  <1>12. QueueInv'
    <2>1. InFlight' = InFlight
      BY <1>2 DEF InFlight
    <2>2. QED BY <1>1, <1>2, <1>4, <1>9, <2>1 DEF IInv, QueueInv, HoldsSend
  <1>13. SendWakeInv' /\ RecvWakeInv'
    <2>1. CASE Now(pc[t]) = "release"
      <3>1. swapped' = <<>> /\ WillRecheck(t)'
        BY <1>2, <1>5, <2>1 DEF IInv, QueueInv, WillRecheck
      <3>2. WillRecv(t) => WillRecv(t)'
        BY <1>5, <2>1 DEF WillRecv
      <3>3. QED BY <1>2, <1>3, <1>5, <3>1, <3>2, RecvWakes DEF IInv, SendWakeInv
    <2>2. CASE Now(pc[t]) = "unlock"
      <3>1. "send" \in Later(pc[t]) => WillSend(t)'
        BY <1>1, <1>5, <2>2, DropWakes
      <3>2. "out" \notin limited => WillSend(t)'
        BY <2>2, <3>1 DEF IInv, PcInv, PcAt
      <3>3. SendWakeInv'
        BY <1>2, <3>2 DEF SendWakeInv
      <3>4. WillRecv(t) => WillRecv(t)'
        BY <1>1, <1>5, <2>2, DropWakes DEF WillRecv
      <3>5. QED BY <1>2, <1>3, <1>5, <3>3, <3>4, RecvWakes DEF IInv
    <2>3. QED BY <1>1, <2>1, <2>2
  <1>14. QED BY <1>6, <1>7, <1>8, <1>10, <1>11, <1>12, <1>13 DEF IInv

----------------------------------------------------------------------------
(* Receiving.                                                              *)

LEMMA LockReceiveKeeps ==
    ASSUME IInv, NEW t \in Threads, LockReceive(t)
    PROVE  IInv'
  <1>1. Now(pc[t]) = "rlock" /\ pc[t] # <<>>
    BY AtNow DEF LockReceive
  <1>2. UNCHANGED <<limited, net_type, status, link, closes, send_token, write_quota_token,
                    read_quota_token, swapped, pending, sending, writing, reading, accepted, wire>>
    BY DEF LockReceive, AcquireReadQuota, confVars, connVars, quotaVars, queueVars, outVars, inVars, logVars
  <1>3. UNCHANGED Backlog
    BY <1>2 DEF Backlog
  <1>4. ~HoldsSend(t) /\ ~HoldsRecv(t) /\ ~Unopened
    BY <1>1 DEF HoldsSend, HoldsRecv, IInv, OpenInv
  <1>5. CASE receive_token
    <2>1. Then(t, <<>>) /\ UNCHANGED <<arg, quotaVars, tokenVars>>
      BY <1>5 DEF LockReceive, IInv, StreamTypeOK, tokenVars
    <2>2. Slight(t)
      BY <2>1 DEF LockReceive, Slight, inVars, quotaVars, confVars, QuotaInv, StreamTypeOK, IInv, PcInv
    <2>3. OnlyPc(t) /\ (WillSend(t) => WillSend(t)') /\ ~WillRecheck(t)
      BY <1>1, <2>1, DropWakes DEF WillSend, WillRecheck
    <2>4. SendWakeInv' /\ RecvWakeInv'
      BY <1>2, <1>4, <1>5, <2>2, <2>3, RecvTaken, SendWakes DEF IInv, Slight
    <2>5. QED BY <1>1, <2>1, <2>2, <2>4, DropKeeps DEF Light, Label
  <1>6. CASE ~receive_token
    <2>1. Then(t, <<"rstore">>) /\ receive_token' = TRUE /\ AcquireReadQuota(t)
      BY <1>6 DEF LockReceive
    <2>2. /\ pc' \in [Threads -> Seq(Label)] /\ OnlyPc(t)
          /\ Now(pc'[t]) = "rstore" /\ Later(pc'[t]) = Later(pc[t])
      BY <1>1, <2>1, Goes DEF IInv, Label
    <2>3. /\ DOMAIN arg' = Threads /\ \A u \in Threads : u # t => arg'[u] = arg[u]
          /\ arg'[t] \in Int /\ ("in" \notin limited => arg'[t] = 1)
          /\ write_quota' \in Int /\ read_quota' \in Int
      <3>1. write_quota \in Int /\ read_quota \in Int /\ DOMAIN arg = Threads /\ ReadCost \in Int
        BY StreamAssumption DEF IInv, PcInv, StreamTypeOK
      <3>2. Acquired(read_quota, ReadCost) \in Int
        BY <3>1 DEF Acquired
      <3>3. write_quota' \in Int /\ read_quota' \in Int
        BY <2>1, <3>1, <3>2 DEF AcquireReadQuota
      <3>4. /\ DOMAIN arg' = Threads /\ \A u \in Threads : u # t => arg'[u] = arg[u]
            /\ arg'[t] = IF "in" \in limited THEN read_quota ELSE 1
        BY <2>1, <3>1 DEF AcquireReadQuota
      <3>5. QED BY <3>1, <3>3, <3>4
    <2>4. StreamTypeOK'
      BY <1>2, <2>1, <2>2, <2>3, PcTypes
         DEF IInv, StreamTypeOK, LockReceive, confVars, connVars, queueVars, outVars, inVars, logVars
    <2>5. PcInv' /\ QuotaInv'
      <3>1. PcAt(t)'
        BY <1>2, <2>2, <2>3 DEF PcAt, IInv, PcInv
      <3>2. QED BY <1>2, <2>2, <2>3, <3>1, PcKeeps DEF IInv, QuotaInv
    <2>6. OpenInv'
      BY <1>2, <1>4, <2>2, OpenedKeeps DEF IInv, Opens, connVars
    <2>7. RecvTokenInv'
      <3>1. \A u \in Threads : ~HoldsRecv(u) /\ (HoldsRecv(u)' <=> u = t)
        BY <1>6, <2>2 DEF IInv, RecvTokenInv, HoldsRecv, OnlyPc
      <3>2. reading = 0 /\ reading' = 0
        BY <1>2, <1>6 DEF IInv, RecvTokenInv, StreamTypeOK
      <3>3. QED BY <2>1, <3>1, <3>2 DEF RecvTokenInv
    <2>8. SendTokenInv' /\ QueueInv'
      BY <1>2, <1>4, <2>2, SendTokenSame, QueueSame DEF IInv, HoldsSend
    <2>9. WillRecv(t)' /\ (WillSend(t) => WillSend(t)') /\ ~WillRecheck(t)
      BY <1>1, <2>2 DEF WillSend, WillRecv, WillRecheck
    <2>10. SendWakeInv' /\ RecvWakeInv'
      BY <1>2, <1>3, <2>2, <2>3, <2>9, SendWakes, RecvWakes DEF IInv
    <2>11. QED BY <2>4, <2>5, <2>6, <2>7, <2>8, <2>10 DEF IInv
  <1>7. QED BY <1>5, <1>6

LEMMA StartReadKeeps ==
    ASSUME IInv, NEW t \in Threads, StartRead(t)
    PROVE  IInv'
  <1>1. /\ Now(pc[t]) = "rstore" /\ pc[t] # <<>> /\ HoldsRecv(t) /\ ~HoldsSend(t)
        /\ arg[t] \in Int /\ ("in" \notin limited => arg[t] = 1)
    BY AtNow DEF StartRead, HoldsRecv, HoldsSend, IInv, PcInv, PcAt
  <1>2. /\ UNCHANGED <<limited, net_type, status, link, closes, send_token, receive_token, write_quota_token,
                       swapped, pending, sending, writing, accepted, wire>>
        /\ read_quota_token' = arg[t]
    BY DEF StartRead, confVars, connVars, tokenVars, queueVars, outVars, logVars
  <1>3. receive_token /\ reading = 0 /\ ~Unopened
    BY <1>1 DEF IInv, RecvTokenInv, OpenInv
  <1>4. UNCHANGED Backlog /\ DOMAIN arg' = Threads /\ \A u \in Threads : u # t => arg'[u] = arg[u]
    BY <1>2 DEF Backlog, StartRead, IInv, PcInv
  <1>5. QuotaInv'
    BY <1>1, <1>2 DEF IInv, QuotaInv
  <1>6. \A u \in Threads : u # t => ~HoldsRecv(u)
    BY <1>1 DEF IInv, RecvTokenInv
  <1>7. CASE arg[t] > 0
    <2>1. reading' = 1 /\ Then(t, <<>>)
      BY <1>3, <1>7 DEF StartRead
    <2>2. /\ pc' \in [Threads -> Seq(Label)] /\ OnlyPc(t)
          /\ Now(pc'[t]) \in Follow \cup {"none"} /\ Later(pc'[t]) \subseteq Follow
      BY <1>1, <2>1, Drops DEF IInv, PcInv, PcAt
    <2>3. StreamTypeOK'
      BY <1>1, <1>2, <2>1, <2>2, PcTypes
         DEF IInv, StreamTypeOK, StartRead, confVars, connVars, tokenVars, queueVars, outVars, logVars
    <2>4. PcInv'
      <3>1. PcAt(t)'
        BY <2>2 DEF PcAt, Follow
      <3>2. QED BY <1>2, <1>4, <2>2, <3>1, PcKeeps DEF IInv
    <2>5. OpenInv'
      BY <1>2, <1>3, <2>2, OpenedKeeps DEF IInv, Opens, connVars, Follow
    <2>6. RecvTokenInv'
      <3>1. \A u \in Threads : ~HoldsRecv(u)'
        BY <1>6, <2>2 DEF HoldsRecv, OnlyPc, Follow
      <3>2. QED BY <1>2, <1>3, <2>1, <3>1 DEF RecvTokenInv
    <2>7. SendTokenInv' /\ QueueInv'
      BY <1>1, <1>2, <2>2, SendTokenSame, QueueSame DEF IInv, HoldsSend, Follow
    <2>8. SendWakeInv' /\ RecvWakeInv'
      <3>1. (WillSend(t) => WillSend(t)') /\ ~WillRecheck(t)
        BY <1>1, <2>1, DropWakes DEF WillSend, WillRecheck
      <3>2. QED BY <1>2, <2>1, <2>2, <3>1, SendWakes DEF IInv, RecvWakeInv
    <2>9. QED BY <1>5, <2>3, <2>4, <2>5, <2>6, <2>7, <2>8 DEF IInv
  <1>8. CASE arg[t] <= 0
    <2>1. reading' = 0 /\ Then(t, <<"runlock">>) /\ "in" \in limited
      BY <1>1, <1>3, <1>8 DEF StartRead
    <2>2. /\ pc' \in [Threads -> Seq(Label)] /\ OnlyPc(t)
          /\ Now(pc'[t]) = "runlock" /\ Later(pc'[t]) = Later(pc[t])
      BY <1>1, <2>1, Goes DEF IInv, Label
    <2>3. StreamTypeOK'
      BY <1>1, <1>2, <2>1, <2>2, PcTypes, SMTT(30)
         DEF IInv, StreamTypeOK, StartRead, confVars, connVars, tokenVars, queueVars, outVars, logVars
    <2>4. PcInv'
      <3>1. PcAt(t)'
        BY <1>2, <2>1, <2>2 DEF PcAt, IInv, PcInv
      <3>2. QED BY <1>2, <1>4, <2>2, <3>1, PcKeeps DEF IInv
    <2>5. OpenInv'
      BY <1>2, <1>3, <2>2, OpenedKeeps DEF IInv, Opens, connVars
    <2>6. RecvTokenInv'
      <3>1. \A u \in Threads : HoldsRecv(u)' = HoldsRecv(u)
        BY <1>1, <2>2 DEF HoldsRecv, OnlyPc
      <3>2. QED BY <1>2, <1>3, <2>1, <3>1 DEF IInv, RecvTokenInv
    <2>7. SendTokenInv' /\ QueueInv'
      BY <1>1, <1>2, <2>2, SendTokenSame, QueueSame DEF IInv, HoldsSend
    <2>8. SendWakeInv' /\ RecvWakeInv'
      <3>1. (WillSend(t) => WillSend(t)') /\ ~WillRecheck(t)
        BY <1>1, <2>2 DEF WillSend, WillRecheck
      <3>2. QED BY <1>2, <2>1, <2>2, <3>1, SendWakes DEF IInv, RecvWakeInv
    <2>9. QED BY <1>5, <2>3, <2>4, <2>5, <2>6, <2>7, <2>8 DEF IInv
  <1>9. QED BY <1>1, <1>7, <1>8

LEMMA UnlockReceiveKeeps ==
    ASSUME IInv, NEW t \in Threads, UnlockReceive(t)
    PROVE  IInv'
  <1>1. /\ Now(pc[t]) = "runlock" /\ pc[t] # <<>> /\ HoldsRecv(t) /\ ~HoldsSend(t)
        /\ UNCHANGED arg /\ receive_token' = FALSE /\ Then(t, <<>>)
    BY AtNow DEF UnlockReceive, HoldsSend, HoldsRecv
  <1>2. UNCHANGED <<limited, net_type, status, link, closes, send_token, write_quota_token,
                    read_quota_token, swapped, pending, sending, writing, reading, accepted, wire>>
    BY DEF UnlockReceive, confVars, connVars, quotaVars, queueVars, outVars, inVars, logVars
  <1>3. DOMAIN arg' = Threads /\ \A u \in Threads : u # t => arg'[u] = arg[u]
    BY <1>1 DEF IInv, PcInv
  <1>4. reading = 0 /\ ~Unopened
    BY <1>1 DEF IInv, RecvTokenInv, OpenInv
  <1>5. /\ pc' \in [Threads -> Seq(Label)] /\ OnlyPc(t)
        /\ Now(pc'[t]) \in Follow \cup {"none"} /\ Later(pc'[t]) \subseteq Follow
    BY <1>1, Drops DEF IInv, PcInv, PcAt
  <1>6. StreamTypeOK'
    BY <1>1, <1>5, PcTypes DEF IInv, StreamTypeOK, UnlockReceive, confVars, connVars, quotaVars, queueVars,
                               outVars, inVars, logVars
  <1>7. PcInv' /\ QuotaInv'
    <2>1. PcAt(t)'
      BY <1>5 DEF PcAt, Follow
    <2>2. QED BY <1>2, <1>3, <1>5, <2>1, PcKeeps DEF IInv, QuotaInv
  <1>8. OpenInv'
    BY <1>2, <1>4, <1>5, OpenedKeeps DEF IInv, Opens, connVars, Follow
  <1>9. RecvTokenInv'
    <2>1. \A u \in Threads : ~HoldsRecv(u)'
      BY <1>1, <1>5 DEF HoldsRecv, OnlyPc, Follow, IInv, RecvTokenInv
    <2>2. QED BY <1>1, <1>2, <1>4, <2>1 DEF RecvTokenInv
  <1>10. SendTokenInv' /\ QueueInv'
    BY <1>1, <1>2, <1>5, SendTokenSame, QueueSame DEF IInv, HoldsSend, Follow
  <1>11. /\ "send" \in Later(pc[t]) => WillSend(t)'
         /\ "recv" \in Later(pc[t]) => WillRecv(t)'
    BY <1>1, DropWakes
  <1>12. SendWakeInv'
    BY <1>1, <1>2, <1>5, <1>11, SendWakes DEF IInv, WillSend, WillRecheck
  <1>13. RecvWakeInv'
    <2>1. "in" \notin limited => WillRecv(t)'
      BY <1>1, <1>11 DEF IInv, PcInv, PcAt
    <2>2. QED BY <1>2, <2>1 DEF RecvWakeInv
  <1>14. QED BY <1>6, <1>7, <1>8, <1>9, <1>10, <1>12, <1>13 DEF IInv

----------------------------------------------------------------------------
(* Steps that close the stream, or find it closed.                         *)

LEMMA ClosedKeeps ==
    ASSUME IInv, status' = "CLOSED", closes' \in 1 .. MaxShutDown + 1,
           closes' = MaxShutDown + 1 => link' # "new" /\ \A u \in Threads : ~Opens(u)',
           link' \in {"new", "connecting", "up", "shut", "gone"},
           link' \in {"new", "connecting"} => link' = link,
           pc' \in [Threads -> Seq(Label)],
           \A u \in Threads : pc'[u] = pc[u] \/ (pc'[u] = <<>> /\ Now(pc[u]) = "set_connected"),
           UNCHANGED <<confVars, tokenVars, quotaVars, swapped, pending, arg, accepted, wire>>,
           writing' \in {writing, 0}, reading' \in {reading, 0}, left' \in 0 .. Units,
           pos' \in Nat, failed' \subseteq Messages,
           sending' = sending \/ (sending' = NoMsg /\ writing = 1 /\ writing' = 0)
    PROVE  IInv'
  <1> USE DEF confVars, tokenVars, quotaVars
  <1>1. StreamTypeOK'
    <2>1. closes' \in 0 .. MaxShutDown + 1 /\ sending' \in Messages \cup {NoMsg}
      BY StreamAssumption DEF IInv, StreamTypeOK
    <2>2. writing' \in 0 .. 1 /\ reading' \in 0 .. 1
      BY DEF IInv, StreamTypeOK
    <2>3. QED BY <2>1, <2>2, PcTypes DEF IInv, StreamTypeOK
  <1>2. \A u \in Threads : Now(pc'[u]) = Now(pc[u]) \/ (Now(pc'[u]) = "none" /\ Now(pc[u]) = "set_connected")
    BY DEF Now
  <1>3. PcInv' /\ QuotaInv'
    <2>1. \A u \in Threads : Later(pc'[u]) = Later(pc[u]) \/ Later(pc'[u]) = {}
      BY DEF Later
    <2>2. ASSUME NEW u \in Threads PROVE PcAt(u)'
      <3>1. CASE pc'[u] = pc[u]
        BY <3>1 DEF IInv, PcInv, PcAt
      <3>2. CASE pc'[u] = <<>>
        <4>1. Now(pc'[u]) = "none" /\ Later(pc'[u]) = {}
          BY <3>2 DEF Now, Later
        <4>2. QED BY <4>1 DEF PcAt
      <3>3. QED BY <3>1, <3>2
    <2>3. QED BY <2>2 DEF IInv, PcInv, QuotaInv
  <1>4. \A u \in Threads : /\ Opens(u)' => Opens(u)
                           /\ HoldsSend(u)' = HoldsSend(u) /\ HoldsRecv(u)' = HoldsRecv(u)
    BY <1>2 DEF Opens, HoldsSend, HoldsRecv
  <1>5. OpenInv'
    <2>1. Unopened' => Unopened
      BY <1>4 DEF Unopened
    <2>2. (Unopened =>
            /\ status # "CONNECTED" /\ writing = 0 /\ reading = 0
            /\ ~send_token /\ ~receive_token
            /\ \A u \in Threads : ~HoldsSend(u) /\ ~HoldsRecv(u) /\ Now(pc[u]) \notin {"lock", "rlock"})'
      BY <1>2, <1>4, <2>1 DEF IInv, OpenInv
    <2>3. closes' > 0
      BY StreamAssumption
    <2>4. QED BY <1>4, <2>2, <2>3 DEF IInv, OpenInv
  <1>6. SendTokenInv' /\ RecvTokenInv'
    BY <1>4 DEF IInv, SendTokenInv, RecvTokenInv
  <1>7. QueueInv'
    <2>1. closes' # 0
      BY StreamAssumption
    <2>2. CASE sending' = sending
      BY <1>2, <2>1, <2>2 DEF IInv, QueueInv
    <2>3. CASE sending' = NoMsg /\ writing = 1 /\ writing' = 0
      <3>1. \A u \in Threads : ~HoldsSend(u)
        BY <2>3 DEF IInv, SendTokenInv
      <3>2. QED BY <1>4, <2>1, <2>3, <3>1 DEF QueueInv, HoldsSend
    <2>4. QED BY <2>2, <2>3
  <1>8. SendWakeInv' /\ RecvWakeInv'
    BY DEF SendWakeInv, RecvWakeInv
  <1>9. QED BY <1>1, <1>3, <1>5, <1>6, <1>7, <1>8 DEF IInv

\* A close that finds the stream open: there was room for it.
LEMMA CloseCounts ==
    ASSUME IInv, status # "CLOSED"
    PROVE  closes + 1 \in 1 .. MaxShutDown + 1
  BY StreamAssumption DEF IInv, OpenInv, StreamTypeOK

LEMMA ShutDownKeeps ==
    ASSUME IInv, ShutDown
    PROVE  IInv'
  <1>1. /\ status' = "CLOSED" /\ closes' = closes + 1 /\ closes < MaxShutDown /\ status # "CLOSED"
        /\ link' = IF link = "up" THEN "shut" ELSE link
    BY DEF ShutDown, Close
  <1>2. closes' \in 1 .. MaxShutDown + 1 /\ closes' # MaxShutDown + 1
    BY <1>1, CloseCounts, StreamAssumption DEF IInv, StreamTypeOK
  <1>3. link' \in {"new", "connecting", "up", "shut", "gone"} /\ (link' \in {"new", "connecting"} => link' = link)
    BY <1>1 DEF IInv, StreamTypeOK
  <1>4. /\ UNCHANGED <<confVars, tokenVars, quotaVars, swapped, pending, arg, accepted, wire, pc,
                       writing, reading, left, pos, failed, sending>>
    BY DEF ShutDown, queueVars, outVars, inVars, logVars
  <1>5. /\ pc' \in [Threads -> Seq(Label)] /\ left' \in 0 .. Units /\ pos' \in Nat /\ failed' \subseteq Messages
    BY <1>4 DEF IInv, PcInv, StreamTypeOK
  <1>6. QED BY <1>1, <1>2, <1>3, <1>4, <1>5, ClosedKeeps

LEMMA OnConnectTimeoutKeeps ==
    ASSUME IInv, OnConnectTimeout
    PROVE  IInv'
  <1>1. /\ status' = "CLOSED" /\ closes' = closes + 1 /\ status # "CLOSED"
        /\ link = "connecting" /\ link' = link
    BY DEF OnConnectTimeout, Close
  <1>2. /\ UNCHANGED <<confVars, tokenVars, quotaVars, swapped, pending, arg, accepted, wire, pc,
                       writing, reading, left, pos, failed, sending>>
    BY DEF OnConnectTimeout, queueVars, outVars, inVars, logVars
  <1>3. /\ pc' \in [Threads -> Seq(Label)] /\ left' \in 0 .. Units /\ pos' \in Nat /\ failed' \subseteq Messages
    BY <1>2 DEF IInv, PcInv, StreamTypeOK
  <1>4. \A u \in Threads : ~Opens(u)'
    BY <1>1, <1>2 DEF IInv, OpenInv, Opens
  <1>5. closes' \in 1 .. MaxShutDown + 1
    BY <1>1, CloseCounts
  <1>6. QED BY <1>1, <1>2, <1>3, <1>4, <1>5, ClosedKeeps

\* The completions of an opened stream that end it, or find it ended.
LEMMA EndKeeps ==
    ASSUME IInv, ~Unopened,
           \/ Close /\ status # "CLOSED"
           \/ status = "CLOSED" /\ UNCHANGED connVars,
           UNCHANGED <<confVars, tokenVars, quotaVars, swapped, pending, arg, accepted, wire, pc>>,
           writing' \in {writing, 0}, reading' \in {reading, 0}, left' \in 0 .. Units,
           pos' \in Nat, failed' \subseteq Messages,
           sending' = sending \/ (sending' = NoMsg /\ writing = 1 /\ writing' = 0)
    PROVE  IInv'
  <1>1. \A u \in Threads : ~Opens(u)'
    BY DEF Unopened, Opens
  <1>2. status' = "CLOSED"
    BY DEF Close, connVars
  <1>3. /\ link \notin {"new", "connecting"}
        /\ link' \in {"up", "shut", "gone"}
    BY DEF Close, connVars, Unopened, IInv, StreamTypeOK
  <1>4. closes' \in 1 .. MaxShutDown + 1
    <2>1. CASE Close /\ status # "CLOSED"
      BY <2>1, CloseCounts DEF Close
    <2>2. CASE status = "CLOSED" /\ UNCHANGED connVars
      BY <2>2, StreamAssumption DEF connVars, IInv, OpenInv, StreamTypeOK
    <2>3. QED BY <2>1, <2>2
  <1>5. pc' \in [Threads -> Seq(Label)]
    BY DEF IInv, PcInv
  <1>6. QED BY <1>1, <1>2, <1>3, <1>4, <1>5, ClosedKeeps

LEMMA OnWriteIgnoredKeeps ==
    ASSUME IInv, OnWriteIgnored
    PROVE  IInv'
  <1>1. writing = 1 /\ writing' = 0 /\ ~Unopened
    BY DEF OnWriteIgnored, IInv, OpenInv, StreamTypeOK
  <1>2. status = "CLOSED"
    BY <1>1 DEF OnWriteIgnored, IInv, OpenInv
  <1>3. /\ UNCHANGED <<confVars, connVars, tokenVars, quotaVars, swapped, pending, arg, accepted, wire, pc,
                       reading, left, pos, failed, sending>>
    BY DEF OnWriteIgnored, queueVars, inVars, logVars
  <1>4. left' \in 0 .. Units /\ pos' \in Nat /\ failed' \subseteq Messages
    BY <1>3 DEF IInv, StreamTypeOK
  <1>5. QED BY <1>1, <1>2, <1>3, <1>4, EndKeeps

LEMMA OnWriteErrorKeeps ==
    ASSUME IInv, OnWriteError
    PROVE  IInv'
  <1>1. writing = 1 /\ writing' = 0 /\ ~Unopened /\ Close /\ status # "CLOSED"
    BY DEF OnWriteError, IInv, OpenInv, StreamTypeOK
  <1>2. sending # NoMsg /\ sending' = NoMsg /\ left' = 0 /\ failed' = failed \cup {sending}
    BY <1>1 DEF OnWriteError, IInv, QueueInv
  <1>3. /\ UNCHANGED <<confVars, tokenVars, quotaVars, swapped, pending, arg, accepted, wire, pc, reading, pos>>
    BY DEF OnWriteError, inVars
  <1>4. left' \in 0 .. Units /\ pos' \in Nat /\ failed' \subseteq Messages
    BY <1>2, <1>3, StreamAssumption DEF IInv, StreamTypeOK
  <1>5. QED BY <1>1, <1>2, <1>3, <1>4, EndKeeps

LEMMA OnReadIgnoredKeeps ==
    ASSUME IInv, OnReadIgnored
    PROVE  IInv'
  <1>1. reading = 1 /\ reading' = 0 /\ ~Unopened
    BY DEF OnReadIgnored, IInv, OpenInv, StreamTypeOK
  <1>2. status = "CLOSED"
    BY <1>1 DEF OnReadIgnored, IInv, OpenInv
  <1>3. /\ UNCHANGED <<confVars, connVars, tokenVars, quotaVars, swapped, pending, arg, accepted, wire, pc,
                       writing, left, pos, failed, sending>>
    BY DEF OnReadIgnored, queueVars, outVars, logVars
  <1>4. left' \in 0 .. Units /\ pos' \in Nat /\ failed' \subseteq Messages
    BY <1>3 DEF IInv, StreamTypeOK
  <1>5. QED BY <1>1, <1>2, <1>3, <1>4, EndKeeps

LEMMA OnReadErrorKeeps ==
    ASSUME IInv, OnReadError
    PROVE  IInv'
  <1>1. reading = 1 /\ reading' = 0 /\ ~Unopened /\ Close /\ status # "CLOSED"
    BY DEF OnReadError, IInv, OpenInv, StreamTypeOK
  <1>2. /\ UNCHANGED <<confVars, tokenVars, quotaVars, swapped, pending, arg, accepted, wire, pc,
                       writing, left, pos, failed, sending>>
    BY DEF OnReadError, queueVars, outVars, logVars
  <1>3. left' \in 0 .. Units /\ pos' \in Nat /\ failed' \subseteq Messages
    BY <1>2 DEF IInv, StreamTypeOK
  <1>4. QED BY <1>1, <1>2, <1>3, EndKeeps

----------------------------------------------------------------------------
(* Completions that go on.                                                 *)

LEMMA OnWritePartKeeps ==
    ASSUME IInv, OnWritePart
    PROVE  IInv'
  <1>1. left' \in 0 .. Units
    BY StreamAssumption DEF OnWritePart, IInv, StreamTypeOK
  <1>2. UNCHANGED <<limited, net_type, status, link, closes, send_token, receive_token, write_quota_token,
                    read_quota_token, swapped, pending, sending, writing, reading, accepted, wire, pc, arg>>
    BY DEF OnWritePart, confVars, connVars, tokenVars, quotaVars, queueVars, inVars, logVars
  <1>3. StreamTypeOK'
    BY <1>1, <1>2 DEF IInv, StreamTypeOK, OnWritePart, confVars, quotaVars, inVars, logVars
  <1>4. PcInv' /\ QuotaInv'
    BY <1>2 DEF IInv, PcInv, PcAt, QuotaInv
  <1>5. OpenInv'
    BY <1>2 DEF IInv, OpenInv, Unopened, Opens, HoldsSend, HoldsRecv
  <1>6. SendTokenInv' /\ RecvTokenInv'
    BY <1>2 DEF IInv, SendTokenInv, RecvTokenInv, HoldsSend, HoldsRecv
  <1>7. QueueInv'
    BY <1>2 DEF IInv, QueueInv, InFlight
  <1>8. SendWakeInv' /\ RecvWakeInv'
    BY <1>2 DEF IInv, SendWakeInv, RecvWakeInv, WillSend, WillRecheck, WillRecv, Backlog
  <1>9. QED BY <1>3, <1>4, <1>5, <1>6, <1>7, <1>8 DEF IInv

LEMMA OnWriteLastKeeps ==
    ASSUME IInv, OnWriteLast
    PROVE  IInv'
  <1> DEFINE t == Io
             a == <<"unlock", "send">>
             b == IF net_type = "NT_SERVER" THEN <<"recv">> ELSE <<>>
  <1>1. /\ t \in Threads /\ Idle(t) /\ writing = 1 /\ writing' = 0 /\ left' = 0 /\ UNCHANGED arg
        /\ pc' = [pc EXCEPT ![t] = a \o b] /\ status = "CONNECTED"
    BY DEF OnWriteLast, Threads, IInv, StreamTypeOK
  <1>2. UNCHANGED <<limited, net_type, status, link, closes, send_token, receive_token, write_quota_token,
                    read_quota_token, swapped, pending, reading, accepted>>
    BY DEF OnWriteLast, confVars, connVars, tokenVars, quotaVars, inVars
  <1>3. a \in Seq(Label) /\ a # <<>> /\ b \in Seq(Label)
    <2>1. \A x, y \in Label : <<x, y>> \in Seq(Label) /\ <<x, y>> # <<>>
      OBVIOUS
    <2>2. \A x \in Label : <<x>> \in Seq(Label)
      OBVIOUS
    <2>3. {"unlock", "send", "recv"} \subseteq Label /\ <<>> \in Seq(Label)
      BY DEF Label
    <2>4. QED BY <2>1, <2>2, <2>3
  <1>4. Now(a) = "unlock"
    BY DEF Now
  <1>5. Later(a) = {"send"} /\ All(b) \subseteq {"recv"} /\ (net_type = "NT_SERVER" => "recv" \in All(b))
    BY DEF Later, All
  <1> HIDE DEF a, b, t
  <1>6. a \o b \in Seq(Label) /\ Now(a \o b) = Now(a) /\ Later(a \o b) = Later(a) \cup All(b)
    BY <1>3, Prepend
  <1>7. /\ pc' \in [Threads -> Seq(Label)] /\ OnlyPc(t) /\ Now(pc'[t]) = "unlock"
        /\ Later(pc'[t]) \subseteq {"send", "recv"} /\ "send" \in Later(pc'[t])
        /\ net_type = "NT_SERVER" => "recv" \in Later(pc'[t])
    BY <1>1, <1>4, <1>5, <1>6 DEF IInv, PcInv, OnlyPc
  <1>8. Now(pc[t]) = "none" /\ Later(pc[t]) = {}
    BY <1>1, IdleNow
  <1>9. DOMAIN arg' = Threads /\ \A u \in Threads : u # t => arg'[u] = arg[u]
    BY <1>1 DEF IInv, PcInv
  <1>10. /\ ~Unopened /\ send_token /\ sending \in Messages /\ sending # NoMsg
         /\ \A u \in Threads : ~HoldsSend(u)
    BY <1>1 DEF IInv, OpenInv, SendTokenInv, QueueInv, StreamTypeOK
  <1>11. /\ wire' = Added(wire, sending) /\ sending' = NoMsg /\ wire \in Seq(Messages)
         /\ swapped \in Seq(Messages) /\ pending \in Seq(Messages)
    BY DEF OnWriteLast, Added, IInv, StreamTypeOK
  <1>12. StreamTypeOK'
    <2>1. wire' \in Seq(Messages) /\ left' \in 0 .. Units
      BY <1>1, <1>10, <1>11, CatFacts, StreamAssumption
    <2>2. QED BY <1>1, <1>2, <1>7, <1>11, <2>1, PcTypes
              DEF IInv, StreamTypeOK, OnWriteLast, confVars, quotaVars, inVars
  <1>13. PcInv' /\ QuotaInv'
    <2>1. PcAt(t)'
      BY <1>7 DEF PcAt, Follow
    <2>2. QED BY <1>1, <1>2, <1>7, <1>9, <2>1, PcKeeps DEF IInv, QuotaInv
  <1>14. OpenInv'
    BY <1>1, <1>2, <1>7, <1>10, OpenedKeeps DEF IInv, Opens, connVars
  <1>15. \A u \in Threads : HoldsSend(u)' <=> u = t
    BY <1>7, <1>10 DEF HoldsSend, OnlyPc
  <1>16. SendTokenInv'
    BY <1>1, <1>2, <1>10, <1>15 DEF SendTokenInv
  <1>17. RecvTokenInv'
    BY <1>1, <1>2, <1>7, <1>8, RecvTokenSame DEF IInv, HoldsRecv
  <1>18. QueueInv'
    <2>1. InFlight = One(sending) /\ InFlight' = <<>>
      BY <1>10, <1>11 DEF InFlight, One
    <2>2. Chain(wire, InFlight, swapped, pending) = Chain(wire', InFlight', swapped', pending')
      BY <1>2, <1>10, <1>11, <2>1, ChainSends
    <2>3. closes' = 0 => accepted' = Chain(wire', InFlight', swapped', pending')
      BY <1>2, <2>2 DEF IInv, QueueInv
    <2>4. \A u \in Threads : u # t => Now(pc'[u]) \notin {"get", "store", "unlock", "release"}
      BY <1>15 DEF HoldsSend
    <2>5. QED BY <1>1, <1>7, <1>11, <2>3, <2>4 DEF QueueInv
  <1>19. SendWakeInv'
    <2>1. WillSend(t)'
      BY <1>7 DEF WillSend
    <2>2. QED BY <1>1, <2>1 DEF SendWakeInv
  <1>20. RecvWakeInv'
    <2>1. CASE net_type = "NT_SERVER"
      <3>1. WillRecv(t)'
        BY <1>7, <2>1 DEF WillRecv
      <3>2. QED BY <1>1, <3>1 DEF RecvWakeInv
    <2>2. CASE net_type # "NT_SERVER"
      <3>1. ~WillRecv(t)
        BY <1>8 DEF WillRecv
      <3>2. QED BY <1>1, <1>2, <1>7, <1>9, <2>2, <3>1, RecvWakes DEF IInv
    <2>3. QED BY <2>1, <2>2
  <1>21. QED BY <1>12, <1>13, <1>14, <1>16, <1>17, <1>18, <1>19, <1>20 DEF IInv

LEMMA OnReadSomeKeeps ==
    ASSUME IInv, OnReadSome
    PROVE  IInv'
  <1> DEFINE t == Io
             a == <<"runlock", "recv", "deliver">>
  <1>1. /\ t \in Threads /\ Idle(t) /\ reading = 1 /\ reading' = 0 /\ UNCHANGED arg
        /\ status = "CONNECTED" /\ ~Unopened
    BY DEF OnReadSome, Threads, IInv, StreamTypeOK, OpenInv
  <1>2. /\ pos' \in Nat
        /\ \/ Close /\ UNCHANGED pc
           \/ pc' = [pc EXCEPT ![t] = a] /\ UNCHANGED connVars
    <2>1. pos \in Nat
      BY DEF IInv, StreamTypeOK
    <2>2. QED BY <2>1 DEF OnReadSome
  <1>3. UNCHANGED <<limited, net_type, send_token, receive_token, write_quota_token,
                    read_quota_token, swapped, pending, sending, writing, accepted, wire>>
    BY DEF OnReadSome, confVars, tokenVars, quotaVars, queueVars, outVars, logVars
  <1>4. CASE Close /\ UNCHANGED pc
    <2>1. UNCHANGED <<confVars, tokenVars, quotaVars, swapped, pending, arg, accepted, wire, writing, left, sending, failed>>
      BY DEF OnReadSome, queueVars, outVars, logVars
    <2>2. left' \in 0 .. Units /\ failed' \subseteq Messages
      BY <2>1 DEF IInv, StreamTypeOK
    <2>3. QED BY <1>1, <1>2, <1>4, <2>1, <2>2, EndKeeps
  <1>5. CASE pc' = [pc EXCEPT ![t] = a] /\ UNCHANGED connVars
    <2>1. a \in Seq(Label)
      BY DEF Label
    <2>2. Now(a) = "runlock"
      BY DEF Now
    <2>3. Later(a) = {"recv", "deliver"}
      BY DEF Later
    <2> HIDE DEF a, t
    <2>4. /\ pc' \in [Threads -> Seq(Label)] /\ OnlyPc(t) /\ Now(pc'[t]) = "runlock"
          /\ Later(pc'[t]) = {"recv", "deliver"}
      BY <1>1, <1>5, <2>1, <2>2, <2>3 DEF IInv, PcInv, OnlyPc
    <2>5. Now(pc[t]) = "none" /\ Later(pc[t]) = {}
      BY <1>1, IdleNow
    <2>6. DOMAIN arg' = Threads /\ \A u \in Threads : u # t => arg'[u] = arg[u]
      BY <1>1 DEF IInv, PcInv
    <2>7. UNCHANGED <<status, link, closes>>
      BY <1>5 DEF connVars
    <2>8. StreamTypeOK'
      BY <1>1, <1>2, <1>3, <2>4, <2>7, PcTypes
         DEF IInv, StreamTypeOK, OnReadSome, confVars, quotaVars, outVars, logVars
    <2>9. PcInv' /\ QuotaInv'
      <3>1. PcAt(t)'
        BY <2>4 DEF PcAt, Follow
      <3>2. QED BY <1>1, <1>3, <2>4, <2>6, <3>1, PcKeeps DEF IInv, QuotaInv
    <2>10. OpenInv'
      BY <1>1, <1>5, <2>4, OpenedKeeps DEF IInv, Opens
    <2>11. RecvTokenInv'
      <3>1. receive_token /\ \A u \in Threads : ~HoldsRecv(u)
        BY <1>1 DEF IInv, RecvTokenInv
      <3>2. \A u \in Threads : HoldsRecv(u)' <=> u = t
        BY <2>4, <3>1 DEF HoldsRecv, OnlyPc
      <3>3. QED BY <1>1, <1>3, <3>1, <3>2 DEF RecvTokenInv
    <2>12. SendTokenInv' /\ QueueInv'
      BY <1>1, <1>3, <2>4, <2>5, <2>7, SendTokenSame, QueueSame DEF IInv, HoldsSend
    <2>13. SendWakeInv'
      <3>1. ~WillSend(t) /\ ~WillRecheck(t)
        BY <2>5 DEF WillSend, WillRecheck
      <3>2. QED BY <1>1, <1>3, <2>4, <2>7, <3>1, SendWakes DEF IInv
    <2>14. RecvWakeInv'
      <3>1. WillRecv(t)'
        BY <2>4 DEF WillRecv
      <3>2. QED BY <1>1, <3>1 DEF RecvWakeInv
    <2>15. QED BY <2>8, <2>9, <2>10, <2>11, <2>12, <2>13, <2>14 DEF IInv
  <1>6. QED BY <1>2, <1>4, <1>5
----------------------------------------------------------------------------
(* Opening.                                                                *)

LEMMA OpeningFacts ==
    /\ Opening \in Seq(Label) /\ Opening # <<>> /\ Now(Opening) = "set_connected"
    /\ {"recv", "send"} \subseteq Later(Opening) /\ Later(Opening) \subseteq Follow
  <1>1. /\ Len(Opening) = 5 /\ Opening[1] = "set_connected" /\ Opening[2] = "trigger_receive"
        /\ Opening[3] = "recv" /\ Opening[4] = "trigger_send" /\ Opening[5] = "send"
    BY DEF Opening
  <1>2. Opening \in Seq(Label) /\ Opening # <<>>
    <2>1. \A a, b, c, d, e \in Label : <<a, b, c, d, e>> \in Seq(Label) /\ <<a, b, c, d, e>> # <<>>
      OBVIOUS
    <2>2. {"set_connected", "trigger_receive", "recv", "trigger_send", "send"} \subseteq Label
      BY DEF Label
    <2>3. QED BY <2>1, <2>2 DEF Opening
  <1>3. Now(Opening) = "set_connected"
    BY <1>1, <1>2 DEF Now
  <1>4. Later(Opening) = {Opening[i] : i \in 2 .. 5}
    BY <1>1 DEF Later
  <1>5. {"recv", "send"} \subseteq Later(Opening)
    BY <1>1, <1>4
  <1>6. Later(Opening) \subseteq Follow
    <2>1. \A i \in 2 .. 5 : i = 2 \/ i = 3 \/ i = 4 \/ i = 5
      OBVIOUS
    <2>2. \A i \in 2 .. 5 : Opening[i] \in Follow
      BY <1>1, <2>1 DEF Follow
    <2>3. QED BY <1>4, <2>2
  <1>7. QED BY <1>2, <1>3, <1>5, <1>6

\* Steps before set_socket_connected has stored the status.
LEMMA OpeningKeeps ==
    ASSUME IInv, Unopened, Unopened', NEW t \in Threads,
           pc' \in [Threads -> Seq(Label)], OnlyPc(t), PcAt(t)',
           ~HoldsSend(t)', ~HoldsRecv(t)', Now(pc'[t]) \notin {"lock", "rlock"},
           status' \in {"INIT", "CONNECTING", "CLOSED"}, status' = "CLOSED" => status = "CLOSED",
           link' \in {"new", "connecting", "up", "shut", "gone"}, closes # MaxShutDown + 1,
           link' = "connecting" => status' \in {"CONNECTING", "CLOSED"},
           link' \in {"new", "connecting"} => \A u \in Threads : ~Opens(u)',
           \A u, v \in Threads : Opens(u)' /\ Opens(v)' => u = v,
           UNCHANGED <<confVars, closes, tokenVars, quotaVars, queueVars, outVars, inVars, arg, logVars>>
    PROVE  IInv'
  <1>0. UNCHANGED <<net_type, limited, closes, send_token, receive_token, writing, reading, sending,
                    swapped, pending, accepted, wire, write_quota_token, read_quota_token>>
    BY DEF confVars, tokenVars, quotaVars, queueVars, outVars, inVars, logVars
  <1>1. StreamTypeOK'
    BY PcTypes DEF IInv, StreamTypeOK, confVars, tokenVars, quotaVars, queueVars, outVars, inVars, logVars
  <1>2. PcInv' /\ QuotaInv'
    BY <1>0, PcKeeps DEF IInv, PcInv, QuotaInv
  <1>3. \A u \in Threads : ~HoldsSend(u) /\ ~HoldsRecv(u) /\ Now(pc[u]) \notin {"lock", "rlock"}
    BY DEF IInv, OpenInv
  <1>4. \A u \in Threads : ~HoldsSend(u)' /\ ~HoldsRecv(u)' /\ Now(pc'[u]) \notin {"lock", "rlock"}
    BY <1>3 DEF HoldsSend, HoldsRecv, OnlyPc
  <1>5. writing = 0 /\ reading = 0 /\ ~send_token /\ ~receive_token
    BY DEF IInv, OpenInv
  <1>6. OpenInv'
    BY <1>0, <1>4, <1>5 DEF IInv, OpenInv
  <1>7. SendTokenInv' /\ RecvTokenInv'
    BY <1>0, <1>4, <1>5 DEF SendTokenInv, RecvTokenInv
  <1>8. QueueInv'
    BY <1>0, <1>3, QueueSame DEF IInv
  <1>9. SendWakeInv' /\ RecvWakeInv'
    BY DEF SendWakeInv, RecvWakeInv
  <1>10. QED BY <1>1, <1>2, <1>6, <1>7, <1>8, <1>9 DEF IInv

LEMMA AsyncConnectKeeps ==
    ASSUME IInv, AsyncConnect
    PROVE  IInv'
  <1>1. /\ link = "new" /\ link' = "connecting" /\ status' = "CONNECTING" /\ Io \in Threads
        /\ UNCHANGED <<confVars, closes, tokenVars, quotaVars, queueVars, outVars, inVars, pc, arg, logVars>>
    BY DEF AsyncConnect, Threads
  <1>2. \A u \in Threads : ~Opens(u) /\ ~Opens(u)'
    BY <1>1 DEF IInv, OpenInv, Opens
  <1>3. Unopened /\ Unopened'
    BY <1>1 DEF Unopened
  <1>4. ~HoldsSend(Io)' /\ ~HoldsRecv(Io)' /\ Now(pc'[Io]) \notin {"lock", "rlock"}
    BY <1>1, <1>3 DEF IInv, OpenInv, HoldsSend, HoldsRecv
  <1>5. pc' \in [Threads -> Seq(Label)] /\ OnlyPc(Io) /\ PcAt(Io)'
    BY <1>1 DEF IInv, PcInv, PcAt, OnlyPc, confVars
  <1>6. closes # MaxShutDown + 1
    BY <1>1 DEF IInv, OpenInv
  <1>7. QED BY <1>1, <1>2, <1>3, <1>4, <1>5, <1>6, OpeningKeeps

\* A thread at set_connected with the right steps to follow.
LEMMA OpeningAt ==
    ASSUME NEW t \in Threads, Now(pc'[t]) = "set_connected", Later(pc'[t]) \subseteq Follow,
           {"recv", "send"} \subseteq Later(pc'[t])
    PROVE  /\ PcAt(t)' /\ Opens(t)' /\ Unopened'
           /\ ~HoldsSend(t)' /\ ~HoldsRecv(t)' /\ Now(pc'[t]) \notin {"lock", "rlock"}
  BY DEF PcAt, Opens, Unopened, HoldsSend, HoldsRecv

LEMMA OnConnectKeeps ==
    ASSUME IInv, OnConnect
    PROVE  IInv'
  <1>1. /\ link = "connecting" /\ Io \in Threads /\ Unopened
        /\ UNCHANGED <<confVars, tokenVars, quotaVars, queueVars, outVars, inVars, arg, logVars>>
    BY DEF OnConnect, Threads, Unopened
  <1>2. \A u \in Threads : ~Opens(u)
    BY <1>1 DEF IInv, OpenInv
  <1>3. ASSUME link' = "gone", status' = "CLOSED", UNCHANGED pc, closes' \in 1 .. MaxShutDown + 1
        PROVE  IInv'
    <2>1. UNCHANGED <<confVars, tokenVars, quotaVars, swapped, pending, arg, accepted, wire,
                      writing, reading, left, pos, failed, sending>>
      BY <1>1 DEF queueVars, outVars, inVars, logVars
    <2>2. pc' \in [Threads -> Seq(Label)] /\ left' \in 0 .. Units /\ pos' \in Nat /\ failed' \subseteq Messages
      BY <1>3, <2>1 DEF IInv, PcInv, StreamTypeOK
    <2>3. \A u \in Threads : ~Opens(u)'
      BY <1>2, <1>3 DEF Opens
    <2>4. QED BY <1>3, <2>1, <2>2, <2>3, ClosedKeeps
  <1>4. CASE status # "CONNECTING" /\ link' = "gone" /\ UNCHANGED <<status, closes, pc>>
    <2>1. status = "CLOSED"
      BY <1>1, <1>4 DEF IInv, OpenInv
    <2>2. closes' \in 1 .. MaxShutDown + 1
      BY <1>4, <2>1, StreamAssumption DEF IInv, OpenInv, StreamTypeOK
    <2>3. QED BY <1>3, <1>4, <2>1, <2>2
  <1>5. CASE /\ status = "CONNECTING" /\ link' = "gone" /\ status' = "CLOSED" /\ closes' = closes + 1
             /\ UNCHANGED pc
    <2>1. closes' \in 1 .. MaxShutDown + 1
      BY <1>5, CloseCounts
    <2>2. QED BY <1>3, <1>5, <2>1
  <1>6. CASE /\ status = "CONNECTING" /\ link' = "up" /\ pc' = [pc EXCEPT ![Io] = Opening]
             /\ UNCHANGED <<status, closes>>
    <2>1. pc' \in [Threads -> Seq(Label)] /\ OnlyPc(Io) /\ pc'[Io] = Opening
      BY <1>1, <1>6, OpeningFacts DEF IInv, PcInv, OnlyPc
    <2>2. /\ PcAt(Io)' /\ Unopened'
          /\ ~HoldsSend(Io)' /\ ~HoldsRecv(Io)' /\ Now(pc'[Io]) \notin {"lock", "rlock"}
      BY <1>1, <2>1, OpeningAt, OpeningFacts
    <2>3. \A u \in Threads : Opens(u)' => u = Io
      BY <1>2, <2>1 DEF Opens, OnlyPc
    <2>4. closes # MaxShutDown + 1
      BY <1>6 DEF IInv, OpenInv
    <2>5. QED BY <1>1, <1>6, <2>1, <2>2, <2>3, <2>4, OpeningKeeps
  <1>7. QED BY <1>4, <1>5, <1>6 DEF OnConnect

LEMMA OnAcceptKeeps ==
    ASSUME IInv, OnAccept
    PROVE  IInv'
  <1>1. /\ link = "new" /\ link' = "up" /\ Unopened
        /\ UNCHANGED <<confVars, status, closes, tokenVars, quotaVars, queueVars, outVars, inVars, arg, logVars>>
    BY DEF OnAccept, Unopened
  <1>a. PICK t \in Threads : pc' = [pc EXCEPT ![t] = <<"accepted">>]
    BY StreamAssumption DEF OnAccept, Threads
  <1>2. \A u \in Threads : ~Opens(u)
    BY <1>1 DEF IInv, OpenInv
  <1>3. <<"accepted">> \in Seq(Label) /\ Now(<<"accepted">>) = "accepted" /\ Later(<<"accepted">>) = {}
    BY DEF Label, Now, Later
  <1>4. pc' \in [Threads -> Seq(Label)] /\ OnlyPc(t) /\ pc'[t] = <<"accepted">>
    BY <1>a, <1>3 DEF IInv, PcInv, OnlyPc
  <1>5. /\ PcAt(t)' /\ Unopened'
        /\ ~HoldsSend(t)' /\ ~HoldsRecv(t)' /\ Now(pc'[t]) \notin {"lock", "rlock"}
    BY <1>1, <1>3, <1>4 DEF PcAt, Unopened, Opens, HoldsSend, HoldsRecv
  <1>6. \A u \in Threads : Opens(u)' => u = t
    BY <1>2, <1>4 DEF Opens, OnlyPc
  <1>7. closes # MaxShutDown + 1 /\ status' \in {"INIT", "CONNECTING", "CLOSED"}
    BY <1>1 DEF IInv, OpenInv, StreamTypeOK
  <1>8. QED BY <1>1, <1>4, <1>5, <1>6, <1>7, OpeningKeeps

LEMMA AcceptedKeeps ==
    ASSUME IInv, NEW t \in Threads, Accepted(t)
    PROVE  IInv'
  <1>1. Now(pc[t]) = "accepted" /\ pc[t] # <<>> /\ Opens(t) /\ Unopened
    BY AtNow DEF Accepted, Opens, Unopened
  <1>2. UNCHANGED <<confVars, connVars, tokenVars, quotaVars, queueVars, outVars, inVars, arg, logVars>>
    BY DEF Accepted
  <1>3. CASE status = "CLOSED"
    <2>1. Then(t, <<>>)
      BY <1>3 DEF Accepted
    <2>2. Slight(t)
      BY <1>2 DEF Slight, inVars, quotaVars, confVars, QuotaInv, StreamTypeOK, IInv, PcInv
    <2>3. SendWakeInv' /\ RecvWakeInv'
      BY <1>2, <1>3 DEF SendWakeInv, RecvWakeInv, connVars
    <2>4. QED BY <1>1, <1>3, <2>1, <2>2, <2>3, DropKeeps DEF Light, Label
  <1>4. CASE status # "CLOSED"
    <2> DEFINE r == Tail(pc[t])
    <2>1. pc' = [pc EXCEPT ![t] = Opening \o r]
      BY <1>4 DEF Accepted, Then
    <2>2. r \in Seq(Label) /\ Later(pc[t]) = All(r)
      BY <1>1, LaterIsTail DEF IInv, PcInv
    <2> HIDE DEF r
    <2>3. /\ Opening \o r \in Seq(Label) /\ Now(Opening \o r) = Now(Opening)
          /\ Later(Opening \o r) = Later(Opening) \cup All(r)
      BY <2>2, OpeningFacts, Prepend
    <2>4. Later(Opening \o r) \subseteq Follow
      BY <2>2, <2>3, OpeningFacts DEF IInv, PcInv, PcAt
    <2>5. pc' \in [Threads -> Seq(Label)] /\ OnlyPc(t) /\ pc'[t] = Opening \o r
      BY <2>1, <2>3 DEF IInv, PcInv, OnlyPc
    <2>6. /\ PcAt(t)' /\ Unopened'
          /\ ~HoldsSend(t)' /\ ~HoldsRecv(t)' /\ Now(pc'[t]) \notin {"lock", "rlock"}
      BY <2>3, <2>4, <2>5, OpeningAt, OpeningFacts
    <2>7. \A u \in Threads : Opens(u)' => u = t
      BY <1>1, <2>5 DEF Opens, OnlyPc, IInv, OpenInv
    <2>8. /\ closes # MaxShutDown + 1 /\ link' \in {"up", "shut", "gone"} /\ status' \in {"INIT", "CONNECTING"}
          /\ UNCHANGED closes
      <3>1. UNCHANGED <<status, link, closes>>
        BY <1>2 DEF connVars
      <3>2. link \notin {"new", "connecting"} /\ closes # MaxShutDown + 1 /\ status # "CONNECTED"
        BY <1>1 DEF IInv, OpenInv
      <3>3. QED BY <1>4, <3>1, <3>2 DEF IInv, StreamTypeOK
    <2>9. QED BY <1>1, <1>2, <2>5, <2>6, <2>7, <2>8, OpeningKeeps
  <1>5. QED BY <1>3, <1>4

LEMMA SetSocketConnectedKeeps ==
    ASSUME IInv, NEW t \in Threads, SetSocketConnected(t)
    PROVE  IInv'
  <1>1. Now(pc[t]) = "set_connected" /\ pc[t] # <<>> /\ Opens(t) /\ Unopened
    BY AtNow DEF SetSocketConnected, Opens, Unopened
  <1>2. UNCHANGED <<confVars, tokenVars, quotaVars, queueVars, outVars, reading, pos, arg, logVars>>
    BY DEF SetSocketConnected
  <1>3. /\ link \notin {"new", "connecting"} /\ closes # MaxShutDown + 1
        /\ \A u \in Threads : Opens(u) => u = t
    BY <1>1 DEF IInv, OpenInv
  <1>4. CASE Close /\ pc' = [pc EXCEPT ![t] = <<>>]
    <2>1. status' = "CLOSED" /\ link' \in {"up", "shut", "gone"}
      BY <1>3, <1>4 DEF Close, IInv, StreamTypeOK
    <2>2. closes' \in 1 .. MaxShutDown + 1
      <3>1. CASE status = "CLOSED"
        BY <1>4, <3>1, StreamAssumption DEF Close, IInv, OpenInv, StreamTypeOK
      <3>2. CASE status # "CLOSED"
        BY <1>4, <3>2, CloseCounts DEF Close
      <3>3. QED BY <3>1, <3>2
    <2>3. <<>> \in Seq(Label)
      OBVIOUS
    <2>4. /\ pc' \in [Threads -> Seq(Label)] /\ pc'[t] = <<>>
          /\ \A u \in Threads : u # t => pc'[u] = pc[u]
      BY <1>4, <2>3 DEF IInv, PcInv
    <2>5. \A u \in Threads : ~Opens(u)'
      BY <1>3, <2>4 DEF Opens, Now
    <2>6. UNCHANGED <<confVars, tokenVars, quotaVars, swapped, pending, arg, accepted, wire,
                      writing, reading, left, pos, failed, sending>>
      BY <1>2 DEF queueVars, outVars, logVars
    <2>7. left' \in 0 .. Units /\ pos' \in Nat /\ failed' \subseteq Messages
      BY <2>6 DEF IInv, StreamTypeOK
    <2>8. QED BY <1>1, <2>1, <2>2, <2>4, <2>5, <2>6, <2>7, ClosedKeeps
  <1>5. CASE status' = "CONNECTED" /\ Then(t, <<>>) /\ UNCHANGED <<link, closes>>
    <2>1. /\ pc' \in [Threads -> Seq(Label)] /\ OnlyPc(t)
          /\ Now(pc'[t]) \in Follow \cup {"none"} /\ Later(pc'[t]) \subseteq Follow
      <3>1. /\ pc' \in [Threads -> Seq(Label)] /\ OnlyPc(t)
            /\ Now(pc'[t]) \in Later(pc[t]) \cup {"none"} /\ Later(pc'[t]) \subseteq Later(pc[t])
        BY <1>1, <1>5, Drops DEF IInv
      <3>2. QED BY <3>1 DEF IInv, PcInv, PcAt
    <2>2. WillSend(t)' /\ WillRecv(t)'
      BY <1>1, <1>5, DropWakes DEF IInv, PcInv, PcAt
    <2>3. UNCHANGED <<net_type, limited, closes, send_token, receive_token, writing, reading, sending,
                      swapped, pending, accepted, wire, write_quota_token, read_quota_token>>
      BY <1>2, <1>5 DEF confVars, tokenVars, quotaVars, queueVars, outVars, logVars
    <2>4. StreamTypeOK'
      BY <1>2, <1>5, <2>1, PcTypes
         DEF IInv, StreamTypeOK, confVars, tokenVars, quotaVars, queueVars, outVars, logVars
    <2>5. PcInv' /\ QuotaInv'
      <3>1. PcAt(t)'
        BY <2>1 DEF PcAt, Follow
      <3>2. QED BY <1>2, <2>1, <2>3, <3>1, PcKeeps DEF IInv, PcInv, QuotaInv
    <2>6. /\ \A u \in Threads : ~HoldsSend(u) /\ ~HoldsRecv(u) /\ Now(pc[u]) \notin {"lock", "rlock"}
          /\ writing = 0 /\ reading = 0 /\ ~send_token /\ ~receive_token
      BY <1>1 DEF IInv, OpenInv
    <2>7. \A u \in Threads : ~HoldsSend(u)' /\ ~HoldsRecv(u)' /\ ~Opens(u)'
      BY <1>3, <2>1, <2>6 DEF HoldsSend, HoldsRecv, Opens, OnlyPc, Follow
    <2>8. ~Unopened'
      BY <1>3, <1>5, <2>7 DEF Unopened
    <2>9. OpenInv'
      BY <1>3, <1>5, <2>7, <2>8 DEF OpenInv
    <2>10. SendTokenInv' /\ RecvTokenInv'
      BY <2>3, <2>6, <2>7 DEF SendTokenInv, RecvTokenInv
    <2>11. QueueInv'
      BY <2>1, <2>3, <2>6, <2>7, QueueSame DEF IInv
    <2>12. SendWakeInv' /\ RecvWakeInv'
      BY <2>2 DEF SendWakeInv, RecvWakeInv
    <2>13. QED BY <2>4, <2>5, <2>9, <2>10, <2>11, <2>12 DEF IInv
  <1>6. QED BY <1>4, <1>5 DEF SetSocketConnected

----------------------------------------------------------------------------
(* The theorems.                                                           *)

LEMMA InitKeeps ==
    ASSUME Init
    PROVE  IInv
  <1>1. /\ status = "INIT" /\ link = "new" /\ closes = 0 /\ ~send_token /\ ~receive_token
        /\ writing = 0 /\ reading = 0 /\ sending = NoMsg
        /\ pending = <<>> /\ swapped = <<>> /\ accepted = <<>> /\ wire = <<>>
        /\ pc = [t \in Threads |-> <<>>] /\ arg = [t \in Threads |-> 0]
    BY DEF Init
  <1>2. \A t \in Threads : Now(pc[t]) = "none" /\ Later(pc[t]) = {}
    BY <1>1 DEF Now, Later
  <1>3. PcInv
    <2>1. <<>> \in Seq(Label)
      OBVIOUS
    <2>2. \A t \in Threads : PcAt(t)
      BY <1>2 DEF PcAt
    <2>3. QED BY <1>1, <2>1, <2>2 DEF PcInv
  <1>4. StreamTypeOK
    <2>1. PICK c \in Configs : /\ net_type = c.net_type /\ limited = c.limited /\ inbound = c.inbound
                               /\ write_quota = c.quota /\ read_quota = c.quota
      BY DEF Init
    <2>2. write_quota \in Int /\ read_quota \in Int
      BY <2>1, StreamAssumption
    <2>3. \A t \in Threads : \A i \in DOMAIN pc[t] : pc[t][i] \in Label
      BY <1>3 DEF PcInv
    <2>4. \E d \in Configs : net_type = d.net_type /\ limited = d.limited /\ inbound = d.inbound
      BY <2>1
    <2>5. /\ <<>> \in Seq(Messages) /\ {} \subseteq Messages /\ closes \in 0 .. MaxShutDown + 1 /\ left \in 0 .. Units
      BY <1>1, StreamAssumption DEF Init
    <2>6. /\ send_token \in BOOLEAN /\ receive_token \in BOOLEAN /\ failed = {} /\ pos = 0
          /\ write_quota_token = 1 /\ read_quota_token = 1
      BY DEF Init
    <2>7. QED BY <1>1, <2>2, <2>3, <2>4, <2>5, <2>6 DEF StreamTypeOK
  <1>5. QuotaInv
    BY DEF Init, QuotaInv
  <1>6. OpenInv
    BY <1>1, <1>2, StreamAssumption DEF OpenInv, Opens, Unopened, HoldsSend, HoldsRecv
  <1>7. SendTokenInv /\ RecvTokenInv
    BY <1>1, <1>2 DEF SendTokenInv, RecvTokenInv, HoldsSend, HoldsRecv
  <1>8. QueueInv
    <2>1. InFlight = <<>> /\ Chain(<<>>, <<>>, <<>>, <<>>) = <<>>
      BY <1>1 DEF InFlight, Chain
    <2>2. QED BY <1>1, <1>2, <2>1 DEF QueueInv
  <1>9. SendWakeInv /\ RecvWakeInv
    BY <1>1 DEF SendWakeInv, RecvWakeInv
  <1>10. QED BY <1>3, <1>4, <1>5, <1>6, <1>7, <1>8, <1>9 DEF IInv

LEMMA StutterKeeps ==
    ASSUME IInv, UNCHANGED vars
    PROVE  IInv'
  <1>1. UNCHANGED <<net_type, limited, inbound, status, link, closes, send_token, receive_token,
                    write_quota_token, read_quota_token, write_quota, read_quota,
                    pending, swapped, sending, left, writing>>
    BY DEF vars, confVars, connVars, tokenVars, quotaVars, queueVars, outVars
  <1>2. UNCHANGED <<reading, pos, pc, arg, accepted, wire, failed>>
    BY DEF vars, inVars, logVars
  <1>3. StreamTypeOK' /\ PcInv' /\ QuotaInv'
    BY <1>1, <1>2 DEF IInv, StreamTypeOK, PcInv, PcAt, QuotaInv
  <1>4. OpenInv'
    BY <1>1, <1>2 DEF IInv, OpenInv, Opens, Unopened, HoldsSend, HoldsRecv
  <1>5. SendTokenInv' /\ RecvTokenInv'
    BY <1>1, <1>2 DEF IInv, SendTokenInv, RecvTokenInv, HoldsSend, HoldsRecv
  <1>6. QueueInv'
    BY <1>1, <1>2 DEF IInv, QueueInv, InFlight
  <1>7. SendWakeInv' /\ RecvWakeInv'
    BY <1>1, <1>2 DEF IInv, SendWakeInv, RecvWakeInv, WillSend, WillRecheck, WillRecv, Backlog
  <1>8. QED BY <1>3, <1>4, <1>5, <1>6, <1>7 DEF IInv

LEMMA StepKeeps ==
    ASSUME IInv, NEW t \in Threads, Step(t)
    PROVE  IInv'
  BY AcceptedKeeps, SetSocketConnectedKeeps, TriggerKeeps, PutIntoPendingQueueKeeps, TestSendKeeps,
     LockSendKeeps, GetFromPendingQueueKeeps, StartWriteKeeps, UnlockSendKeeps, RecheckKeeps,
     TestReceiveKeeps, LockReceiveKeeps, StartReadKeeps, UnlockReceiveKeeps, OnReceivedKeeps,
     RechargeKeeps, TestTokenKeeps DEF Step

LEMMA NextKeeps ==
    ASSUME IInv, [Next]_vars
    PROVE  IInv'
  <1>1. CASE \E t \in Threads : Step(t)
    BY <1>1, StepKeeps
  <1>2. CASE \E p \in Producers : AsyncSendMessage(p)
    BY <1>2, AsyncSendMessageKeeps
  <1>3. CASE Connecting \/ ShutDown
    BY <1>3, AsyncConnectKeeps, OnConnectKeeps, OnConnectTimeoutKeeps, OnAcceptKeeps, ShutDownKeeps
       DEF Connecting
  <1>4. CASE OnWriteSome
    BY <1>4, OnWriteIgnoredKeeps, OnWritePartKeeps, OnWriteLastKeeps, OnWriteErrorKeeps DEF OnWriteSome
  <1>5. CASE OnRead
    BY <1>5, OnReadIgnoredKeeps, OnReadSomeKeeps, OnReadErrorKeeps DEF OnRead
  <1>6. CASE TimerMaintain
    BY <1>6, TimerMaintainKeeps
  <1>7. CASE UNCHANGED vars
    BY <1>7, StutterKeeps
  <1>8. QED BY <1>1, <1>2, <1>3, <1>4, <1>5, <1>6, <1>7 DEF Next

\* The invariant of a connection: _send_token and _receive_token have one holder
\* each, a thread in try_start_... or an outstanding operation; set_socket_connected
\* happens once and before it nothing is held; the queues are exact; and whenever
\* there is something to send or nothing is read, somebody will see to it.
THEOREM Invariance == Spec => []IInv
  <1>1. Init => IInv
    BY InitKeeps
  <1>2. IInv /\ [Next]_vars => IInv'
    BY NextKeeps
  <1>3. QED BY <1>1, <1>2, PTL DEF Spec

\* What has been sent, what is being sent and the two queues are what was accepted
\* by put_into_pending_queue, in this order, until the first close: for every
\* number of senders, every quota and every interleaving of try_start_send,
\* on_write_some and trigger_send.
THEOREM QueuesExact == Spec => []QueueExact
  <1>1. IInv => QueueExact
    BY DEF IInv, QueueInv, QueueExact, Chain
  <1>2. QED BY <1>1, Invariance, PTL

\* No wake-up of try_start_send or try_start_receive is lost: at rest, a connected
\* stream without a quota that has something to send is sending, and it reads,
\* unless it is a server's that has something to send.
THEOREM NoWakeupLost == Spec => []NoLostWakeup
  <1>1. IInv => NoLostWakeup
    <2>1. SUFFICES ASSUME IInv, Quiet, status = "CONNECTED"
                   PROVE  /\ "out" \notin limited /\ swapped \o pending # <<>> => writing = 1
                          /\ closes = 0 /\ "in" \notin limited =>
                                \/ reading = 1
                                \/ net_type = "NT_SERVER" /\ (writing = 1 \/ "out" \in limited)
      BY DEF NoLostWakeup
    <2>2. \A t \in Threads : Now(pc[t]) = "none" /\ Later(pc[t]) = {}
      BY <2>1, IdleNow DEF Quiet
    <2>3. \A t \in Threads : ~WillSend(t) /\ ~WillRecheck(t) /\ ~WillRecv(t)
      BY <2>2 DEF WillSend, WillRecheck, WillRecv
    <2>4. "out" \notin limited /\ (swapped # <<>> \/ pending # <<>>) => writing = 1
      BY <2>1, <2>3 DEF IInv, SendWakeInv
    <2>5. swapped \o pending # <<>> => swapped # <<>> \/ pending # <<>>
      OBVIOUS
    <2>6. closes = 0 /\ "in" \notin limited => reading = 1 \/ (net_type = "NT_SERVER" /\ Backlog)
      BY <2>1, <2>3 DEF IInv, RecvWakeInv
    <2>7. closes = 0 /\ Backlog /\ "out" \notin limited => writing = 1
      <3>1. closes = 0 /\ sending # NoMsg => writing = 1
        BY <2>1, <2>2 DEF IInv, QueueInv
      <3>2. QED BY <2>4, <3>1 DEF Backlog
    <2>8. QED BY <2>4, <2>5, <2>6, <2>7
  <1>2. QED BY <1>1, Invariance, PTL

----------------------------------------------------------------------------
(* Induction on a set of numbers: it has a least element outside, or none. *)

Less == {ss \in Nat \X Nat : ss[1] < ss[2]}

LEMMA LeastNat ==
    ASSUME NEW T, T \subseteq Nat, T # {}
    PROVE  \E x \in T : \A y \in T : x <= y
  <1>1. IsWellFoundedOn(Less, Nat)
    BY NatLessThanWellFounded DEF OpToRel, Less
  <1>2. PICK x \in T : \A y \in T : ~(<<y, x>> \in Less)
    BY <1>1, WFMin
  <1>3. \A y \in T : ~(y < x)
    BY <1>2 DEF Less
  <1>4. QED BY <1>3

LEMMA SetInduction ==
    ASSUME NEW T, 0 \in T, \A n \in Nat : n \in T => n + 1 \in T
    PROVE  Nat \subseteq T
  <1> DEFINE U == Nat \ T
  <1> SUFFICES ASSUME U # {} PROVE FALSE
    OBVIOUS
  <1>1. PICK x \in U : \A y \in U : x <= y
    BY LeastNat
  <1>2. x \in Nat /\ x # 0
    BY <1>1
  <1>3. x - 1 \in Nat /\ x - 1 < x /\ x - 1 + 1 = x
    BY <1>2
  <1>4. x - 1 \in T
    BY <1>1, <1>3
  <1>5. QED BY <1>1, <1>3, <1>4

----------------------------------------------------------------------------
(* The bytes of the peer.                                                  *)

\* The definition of Stream, with any function for Stream.
StreamEq(g, m) == g = [n \in 0 .. m |-> IF n = 0 THEN <<>> ELSE g[n - 1] \o BytesOf(n)]

LEMMA StreamExists == \A m \in Nat : \E g : StreamEq(g, m)
  <1> DEFINE T == {m \in Nat : \E g : StreamEq(g, m)}
  <1>1. 0 \in T
    <2> DEFINE g == [n \in 0 .. 0 |-> <<>>]
    <2>1. \A n \in 0 .. 0 : n = 0
      OBVIOUS
    <2>2. StreamEq(g, 0)
      BY <2>1 DEF StreamEq
    <2>3. QED BY <2>2
  <1>2. ASSUME NEW m \in Nat, m \in T PROVE m + 1 \in T
    <2>1. PICK g : StreamEq(g, m)
      BY <1>2
    <2> DEFINE Val(n) == IF n = 0 THEN <<>> ELSE g[n - 1] \o BytesOf(n)
               h == [n \in 0 .. m + 1 |-> Val(n)]
    <2>2. \A n \in 0 .. m : g[n] = Val(n)
      <3>1. g = [n \in 0 .. m |-> Val(n)]
        BY <2>1 DEF StreamEq
      <3> HIDE DEF Val
      <3>2. QED BY <3>1
    <2>3. \A n \in 0 .. m + 1 : h[n] = Val(n)
      <3> HIDE DEF Val
      <3>1. QED OBVIOUS
    <2>4. \A n \in 0 .. m + 1 : n # 0 => n - 1 \in 0 .. m /\ n - 1 \in 0 .. m + 1
      OBVIOUS
    <2>5. \A n \in 0 .. m + 1 : n # 0 => h[n - 1] = g[n - 1]
      <3> HIDE DEF h, Val
      <3>1. QED BY <2>2, <2>3, <2>4
    <2>6. \A n \in 0 .. m + 1 : Val(n) = IF n = 0 THEN <<>> ELSE h[n - 1] \o BytesOf(n)
      <3> HIDE DEF h
      <3>1. QED BY <2>5
    <2>7. h = [n \in 0 .. m + 1 |-> IF n = 0 THEN <<>> ELSE h[n - 1] \o BytesOf(n)]
      <3> DEFINE W(n) == IF n = 0 THEN <<>> ELSE h[n - 1] \o BytesOf(n)
      <3>1. \A n \in 0 .. m + 1 : Val(n) = W(n)
        BY <2>6
      <3> HIDE DEF W, Val
      <3>2. h = [n \in 0 .. m + 1 |-> W(n)]
        BY <3>1
      <3>3. QED BY <3>2 DEF W
    <2> HIDE DEF h
    <2>8. StreamEq(h, m + 1)
      BY <2>7 DEF StreamEq
    <2>9. m + 1 \in Nat /\ \E f : StreamEq(f, m + 1)
      BY <2>8
    <2>10. QED BY <2>9
  <1>3. QED
    <2> HIDE DEF T
    <2>1. \A n \in Nat : n \in T
      BY <1>1, <1>2, SetInduction
    <2>2. QED BY <2>1 DEF T

LEMMA StreamDef ==
    ASSUME Len(inbound) \in Nat
    PROVE  StreamEq(Stream, Len(inbound))
  <1>1. \E g : StreamEq(g, Len(inbound))
    BY StreamExists
  <1>2. Stream = CHOOSE g : StreamEq(g, Len(inbound))
    BY DEF Stream, StreamEq
  <1>3. QED BY <1>1, <1>2

InOK    == inbound \in Seq([size : Nat, magic : BOOLEAN])
Size(i) == Header + inbound[i].size
E(n)    == Len(Stream[n])

LEMMA SizeFacts ==
    ASSUME InOK
    PROVE  /\ Len(inbound) \in Nat /\ Header \in Nat /\ Header > 0
           /\ \A i \in 1 .. Len(inbound) : /\ inbound[i].size \in Nat /\ inbound[i].magic \in BOOLEAN
                                           /\ Size(i) \in Nat /\ Size(i) >= Header
  <1>1. Header \in Nat /\ Header > 0
    BY StreamAssumption
  <1>2. Len(inbound) \in Nat /\ \A i \in 1 .. Len(inbound) : inbound[i] \in [size : Nat, magic : BOOLEAN]
    <2> DEFINE M == [size : Nat, magic : BOOLEAN]
    <2>1. inbound \in Seq(M)
      BY DEF InOK
    <2> HIDE DEF M
    <2>2. QED BY <2>1, ElementOfSeq, LenProperties DEF M
  <1>3. QED BY <1>1, <1>2 DEF Size

LEMMA FcnIsSeq ==
    ASSUME NEW S, NEW n \in Nat, NEW f \in [1 .. n -> S]
    PROVE  f \in Seq(S) /\ Len(f) = n
  OBVIOUS

LEMMA BytesFacts ==
    ASSUME InOK, NEW i \in 1 .. Len(inbound)
    PROVE  /\ BytesOf(i) \in Seq(Nat \X Nat) /\ Len(BytesOf(i)) = Size(i)
           /\ \A k \in 1 .. Size(i) : BytesOf(i)[k] = <<i, k>>
  <1>1. Size(i) \in Nat /\ i \in Nat
    BY SizeFacts
  <1>2. BytesOf(i) = [k \in 1 .. Size(i) |-> <<i, k>>]
    BY DEF BytesOf, Size
  <1> HIDE DEF Size
  <1>3. BytesOf(i) \in [1 .. Size(i) -> Nat \X Nat]
    BY <1>1, <1>2
  <1>4. BytesOf(i) \in Seq(Nat \X Nat) /\ Len(BytesOf(i)) = Size(i)
    BY <1>1, <1>3, FcnIsSeq
  <1>5. QED BY <1>2, <1>4

\* One message more.
LEMMA StreamStep ==
    ASSUME InOK
    PROVE  /\ Stream[0] = <<>>
           /\ \A n \in 1 .. Len(inbound) : n - 1 \in 0 .. Len(inbound) /\ Stream[n] = Stream[n - 1] \o BytesOf(n)
  <1>1. Len(inbound) \in Nat
    BY SizeFacts
  <1>2. Stream = [n \in 0 .. Len(inbound) |-> IF n = 0 THEN <<>> ELSE Stream[n - 1] \o BytesOf(n)]
    BY <1>1, StreamDef DEF StreamEq
  <1> DEFINE L == Len(inbound)
             St == Stream
             Val(n) == IF n = 0 THEN <<>> ELSE St[n - 1] \o BytesOf(n)
  <1>3. L \in Nat /\ St = [n \in 0 .. L |-> Val(n)]
    BY <1>1, <1>2
  <1> SUFFICES /\ St[0] = <<>>
               /\ \A n \in 1 .. L : n - 1 \in 0 .. L /\ St[n] = St[n - 1] \o BytesOf(n)
    OBVIOUS
  <1> HIDE DEF L, St
  <1>4. \A n \in 0 .. L : St[n] = Val(n)
    <2> HIDE DEF Val
    <2>1. QED BY <1>3
  <1>5. \A n \in 1 .. L : n \in 0 .. L /\ n # 0 /\ n - 1 \in 0 .. L
    BY <1>3
  <1>6. 0 \in 0 .. L
    BY <1>3
  <1>7. QED BY <1>4, <1>5, <1>6

LEMMA StreamType ==
    ASSUME InOK
    PROVE  \A n \in 0 .. Len(inbound) : Stream[n] \in Seq(Nat \X Nat) /\ E(n) \in Nat
  <1> DEFINE L == Len(inbound)
             St(n) == Stream[n]
             T == {n \in Nat : n <= L => St(n) \in Seq(Nat \X Nat)}
  <1>1. L \in Nat /\ St(0) = <<>> /\ \A n \in 1 .. L : St(n) = St(n - 1) \o BytesOf(n)
    BY SizeFacts, StreamStep
  <1>2. \A n \in 1 .. L : BytesOf(n) \in Seq(Nat \X Nat)
    BY BytesFacts
  <1>3. 0 \in T
    <2> HIDE DEF St, L
    <2>1. St(0) \in Seq(Nat \X Nat)
      BY <1>1, EmptySeq
    <2>2. QED BY <2>1
  <1>4. ASSUME NEW n \in Nat, n \in T PROVE n + 1 \in T
    <2>1. SUFFICES ASSUME n + 1 <= L PROVE St(n + 1) \in Seq(Nat \X Nat)
      OBVIOUS
    <2> HIDE DEF L, St
    <2>2. n + 1 \in 1 .. L /\ n <= L /\ n + 1 - 1 = n
      BY <1>1, <2>1
    <2>3. St(n) \in Seq(Nat \X Nat) /\ St(n + 1) = St(n) \o BytesOf(n + 1)
      BY <1>1, <1>4, <2>2
    <2>4. BytesOf(n + 1) \in Seq(Nat \X Nat)
      BY <1>2, <2>2
    <2>5. St(n) \o BytesOf(n + 1) \in Seq(Nat \X Nat)
      BY <2>3, <2>4, ConcatProperties
    <2>6. QED BY <2>3, <2>5
  <1>5. \A n \in Nat : n \in T
    <2> HIDE DEF T
    <2>1. QED BY <1>3, <1>4, SetInduction
  <1> HIDE DEF L
  <1>6. \A n \in 0 .. L : St(n) \in Seq(Nat \X Nat)
    BY <1>1, <1>5
  <1>7. QED BY <1>6 DEF E, L

\* Where the messages end.
LEMMA EndsFacts ==
    ASSUME InOK
    PROVE  /\ E(0) = 0
           /\ \A n \in 1 .. Len(inbound) : /\ n - 1 \in 0 .. Len(inbound) /\ E(n) = E(n - 1) + Size(n)
                                           /\ \A k \in 1 .. E(n - 1) : Stream[n][k] = Stream[n - 1][k]
                                           /\ \A k \in 1 .. Size(n) : Stream[n][E(n - 1) + k] = <<n, k>>
  <1>1. E(0) = 0
    BY StreamStep DEF E
  <1>2. ASSUME NEW n \in 1 .. Len(inbound)
        PROVE  /\ n - 1 \in 0 .. Len(inbound) /\ E(n) = E(n - 1) + Size(n)
               /\ \A k \in 1 .. E(n - 1) : Stream[n][k] = Stream[n - 1][k]
               /\ \A k \in 1 .. Size(n) : Stream[n][E(n - 1) + k] = <<n, k>>
    <2> DEFINE a == Stream[n - 1]
               b == BytesOf(n)
    <2>1. n - 1 \in 0 .. Len(inbound) /\ Stream[n] = a \o b
      BY StreamStep
    <2>2. a \in Seq(Nat \X Nat) /\ b \in Seq(Nat \X Nat)
      BY <2>1, StreamType, BytesFacts
    <2>3. Len(b) = Size(n) /\ \A k \in 1 .. Size(n) : b[k] = <<n, k>>
      BY BytesFacts
    <2>4. Len(a) = E(n - 1)
      BY DEF E
    <2> HIDE DEF a, b
    <2>5. /\ Len(a \o b) = Len(a) + Len(b)
          /\ \A k \in 1 .. Len(a) : (a \o b)[k] = a[k]
          /\ \A k \in 1 .. Len(b) : (a \o b)[Len(a) + k] = b[k]
      BY <2>2
    <2>6. E(n) = Len(a \o b)
      BY <2>1 DEF E
    <2>7. QED BY <2>1, <2>3, <2>4, <2>5, <2>6 DEF a
  <1>3. QED BY <1>1, <1>2

LEMMA EndsGrow ==
    ASSUME InOK
    PROVE  \A n \in 0 .. Len(inbound) : \A m \in 0 .. n - 1 : E(m) < E(n)
  <1> DEFINE L == Len(inbound)
             T == {n \in Nat : n <= L => \A m \in 0 .. n - 1 : E(m) < E(n)}
  <1>1. /\ L \in Nat /\ \A n \in 0 .. L : E(n) \in Nat
        /\ \A n \in 1 .. L : E(n) = E(n - 1) + Size(n) /\ Size(n) \in Nat /\ Size(n) > 0
    <2>1. L \in Nat /\ \A n \in 1 .. L : Size(n) \in Nat /\ Size(n) > 0
      BY SizeFacts
    <2>2. QED BY <2>1, StreamType, EndsFacts
  <1> HIDE DEF L
  <1>2. 0 \in T
    OBVIOUS
  <1>3. ASSUME NEW n \in Nat, n \in T PROVE n + 1 \in T
    <2>1. SUFFICES ASSUME n + 1 <= L, NEW m \in 0 .. n PROVE E(m) < E(n + 1)
      OBVIOUS
    <2>2. n + 1 \in 1 .. L /\ n <= L /\ n + 1 - 1 = n /\ n \in 0 .. L /\ n + 1 \in 0 .. L /\ m \in 0 .. L
      BY <1>1, <2>1
    <2>3. E(n + 1) = E(n) + Size(n + 1) /\ Size(n + 1) \in Nat /\ Size(n + 1) > 0
      BY <1>1, <2>2
    <2>4. E(n) \in Nat /\ E(n + 1) \in Nat /\ E(m) \in Nat
      BY <1>1, <2>2
    <2>5. CASE m = n
      BY <2>3, <2>4, <2>5
    <2>6. CASE m \in 0 .. n - 1
      <3>1. E(m) < E(n)
        BY <1>3, <2>2, <2>6
      <3>2. QED BY <2>3, <2>4, <3>1
    <2>7. QED BY <2>1, <2>5, <2>6
  <1>4. \A n \in Nat : n \in T
    <2> HIDE DEF T
    <2>1. QED BY <1>2, <1>3, SetInduction
  <1>5. \A n \in 0 .. L : \A m \in 0 .. n - 1 : E(m) < E(n)
    BY <1>1, <1>4
  <1>6. QED BY <1>5 DEF L

\* Byte k of message n + 1, in the whole stream.
LEMMA PeerBytes ==
    ASSUME InOK
    PROVE  /\ Len(Peer) = E(Len(inbound)) /\ Peer \in Seq(Nat \X Nat)
           /\ \A n \in 0 .. Len(inbound) - 1 : \A k \in 1 .. Size(n + 1) : Peer[E(n) + k] = <<n + 1, k>>
  <1> DEFINE L == Len(inbound)
             T == {j \in Nat : j <= L => \A n \in 0 .. j : \A k \in 1 .. E(n) : Stream[j][k] = Stream[n][k]}
  <1>1. /\ L \in Nat /\ \A n \in 0 .. L : E(n) \in Nat
        /\ \A n \in 1 .. L : /\ E(n) = E(n - 1) + Size(n) /\ Size(n) \in Nat
                             /\ \A k \in 1 .. E(n - 1) : Stream[n][k] = Stream[n - 1][k]
                             /\ \A k \in 1 .. Size(n) : Stream[n][E(n - 1) + k] = <<n, k>>
        /\ \A n \in 0 .. L : \A m \in 0 .. n - 1 : E(m) < E(n)
    BY SizeFacts, StreamType, EndsFacts, EndsGrow
  <1>2. Len(Peer) = E(L) /\ Peer = Stream[L] /\ Peer \in Seq(Nat \X Nat)
    <2>1. L \in 0 .. L
      BY <1>1
    <2>2. QED BY <2>1, StreamType DEF E, Peer
  <1> HIDE DEF L
  <1>3. 0 \in T
    OBVIOUS
  <1>4. ASSUME NEW j \in Nat, j \in T PROVE j + 1 \in T
    <2>1. SUFFICES ASSUME j + 1 <= L, NEW n \in 0 .. j + 1, NEW k \in 1 .. E(n)
                   PROVE  Stream[j + 1][k] = Stream[n][k]
      OBVIOUS
    <2>2. j + 1 \in 1 .. L /\ j <= L /\ j + 1 - 1 = j /\ j \in 0 .. L /\ n \in 0 .. L
      BY <1>1, <2>1
    <2>3. CASE n = j + 1
      BY <2>3
    <2>4. CASE n \in 0 .. j
      <3>1. Stream[j][k] = Stream[n][k]
        BY <1>4, <2>1, <2>2, <2>4
      <3>2. E(n) <= E(j) /\ E(j) \in Nat /\ E(n) \in Nat
        <4>1. CASE n = j
          BY <1>1, <2>2, <4>1
        <4>2. CASE n \in 0 .. j - 1
          <5>1. E(n) < E(j)
            BY <1>1, <2>2, <4>2
          <5>2. QED BY <1>1, <2>2, <5>1
        <4>3. QED BY <2>4, <4>1, <4>2
      <3>3. k \in 1 .. E(j)
        BY <2>1, <3>2
      <3>4. Stream[j + 1][k] = Stream[j][k]
        <4>1. \A i \in 1 .. E(j + 1 - 1) : Stream[j + 1][i] = Stream[j + 1 - 1][i]
          BY <1>1, <2>2
        <4>2. QED BY <2>2, <3>3, <4>1
      <3>5. QED BY <3>1, <3>4
    <2>5. QED BY <2>1, <2>3, <2>4
  <1>5. \A j \in Nat : j \in T
    <2> HIDE DEF T
    <2>1. QED BY <1>3, <1>4, SetInduction
  <1>6. ASSUME NEW n \in 0 .. L - 1, NEW k \in 1 .. Size(n + 1) PROVE Peer[E(n) + k] = <<n + 1, k>>
    <2>1. n + 1 \in 1 .. L /\ n + 1 - 1 = n /\ n \in 0 .. L /\ n + 1 \in 0 .. L /\ L <= L
      BY <1>1
    <2>2. E(n + 1) = E(n) + Size(n + 1) /\ Stream[n + 1][E(n) + k] = <<n + 1, k>> /\ Size(n + 1) \in Nat
      <3>1. /\ E(n + 1) = E(n + 1 - 1) + Size(n + 1) /\ Size(n + 1) \in Nat
            /\ \A i \in 1 .. Size(n + 1) : Stream[n + 1][E(n + 1 - 1) + i] = <<n + 1, i>>
        BY <1>1, <2>1
      <3>2. QED BY <2>1, <3>1
    <2>3. E(n) \in Nat
      BY <1>1, <2>1
    <2>4. E(n) + k \in 1 .. E(n + 1)
      BY <1>6, <2>2, <2>3
    <2>5. Stream[L][E(n) + k] = Stream[n + 1][E(n) + k]
      BY <1>1, <1>5, <2>1, <2>4
    <2>6. QED BY <1>2, <2>2, <2>5
  <1>7. QED BY <1>2, <1>6 DEF L

----------------------------------------------------------------------------
(* Pieces of a message and windows of the stream.                          *)

Bytes == Seq(Nat \X Nat)

\* The d bytes of message i after its first a, and the bytes of the stream
\* between two positions.
Run(i, a, d)   == [k \in 1 .. d |-> <<i, a + k>>]
Window(p, q)   == SubSeq(Peer, p + 1, q)

\* The first t of a sequence, and the others.
Left(s, t)  == SubSeq(s, 1, t)
Right(s, t) == SubSeq(s, t + 1, Len(s))

LEMMA RunFacts ==
    ASSUME NEW i \in Nat, NEW a \in Nat, NEW d \in Nat
    PROVE  /\ Run(i, a, d) \in Bytes /\ Len(Run(i, a, d)) = d
           /\ \A k \in 1 .. d : Run(i, a, d)[k] = <<i, a + k>>
  <1>1. Run(i, a, d) \in [1 .. d -> Nat \X Nat]
    BY DEF Run
  <1>2. Run(i, a, d) \in Seq(Nat \X Nat) /\ Len(Run(i, a, d)) = d
    BY <1>1, FcnIsSeq
  <1>3. \A k \in 1 .. d : Run(i, a, d)[k] = <<i, a + k>>
    BY DEF Run
  <1>4. QED BY <1>2, <1>3 DEF Bytes

LEMMA SameSeq ==
    ASSUME NEW S, NEW s \in Seq(S), NEW t \in Seq(S), Len(s) = Len(t),
           \A k \in 1 .. Len(s) : s[k] = t[k]
    PROVE  s = t
  OBVIOUS

LEMMA RunCat ==
    ASSUME NEW i \in Nat, NEW a \in Nat, NEW d \in Nat, NEW e \in Nat,
           NEW m \in Nat, m = a + d, NEW y \in Nat, y = d + e
    PROVE  Cat(Run(i, a, d), Run(i, m, e)) = Run(i, a, y)
  <1> DEFINE s == Run(i, a, d)
             t == Run(i, m, e)
             r == Run(i, a, y)
             c == s \o t
  <1>s. s \in Seq(Nat \X Nat) /\ Len(s) = d /\ \A k \in 1 .. d : s[k] = <<i, a + k>>
    BY ONLY RunFacts, i \in Nat, a \in Nat, d \in Nat DEF Bytes
  <1>t. t \in Seq(Nat \X Nat) /\ Len(t) = e /\ \A k \in 1 .. e : t[k] = <<i, m + k>>
    BY ONLY RunFacts, i \in Nat, m \in Nat, e \in Nat DEF Bytes
  <1>r. r \in Seq(Nat \X Nat) /\ Len(r) = y /\ \A k \in 1 .. y : r[k] = <<i, a + k>>
    BY ONLY RunFacts, i \in Nat, a \in Nat, y \in Nat DEF Bytes
  <1> HIDE DEF s, t, r
  <1>2. /\ c \in Seq(Nat \X Nat) /\ Len(c) = Len(s) + Len(t)
        /\ \A k \in 1 .. Len(s) + Len(t) : c[k] = IF k <= Len(s) THEN s[k] ELSE t[k - Len(s)]
    BY <1>s, <1>t, ConcatProperties
  <1> HIDE DEF c
  <1>3. /\ Len(c) = y
        /\ \A k \in 1 .. y : c[k] = IF k <= d THEN s[k] ELSE t[k - d]
    BY <1>2, <1>s, <1>t
  <1>4. ASSUME NEW k \in 1 .. y PROVE c[k] = r[k]
    <2>1. CASE k <= d
      <3>1. k \in 1 .. d
        BY <2>1
      <3>2. c[k] = s[k] /\ s[k] = <<i, a + k>>
        BY <1>s, <1>3, <3>1
      <3>3. r[k] = <<i, a + k>>
        BY <1>r
      <3>4. QED BY <3>2, <3>3
    <2>2. CASE k > d
      <3>1. k - d \in 1 .. e /\ m + (k - d) = a + k /\ ~(k <= d)
        BY <2>2
      <3>2. c[k] = t[k - d] /\ t[k - d] = <<i, m + (k - d)>>
        BY <1>t, <1>3, <3>1
      <3>3. QED BY <1>r, <3>1, <3>2
    <2>3. QED BY <2>1, <2>2
  <1>5. c = r
    <2>1. \A k \in 1 .. Len(c) : c[k] = r[k]
      BY <1>3, <1>4
    <2>2. Len(c) = Len(r)
      BY <1>r, <1>3
    <2>3. QED BY <1>r, <1>2, <2>1, <2>2, SameSeq
  <1>6. QED BY <1>5 DEF c, r, s, t, Cat

LEMMA SubFacts ==
    ASSUME NEW S, NEW s \in Seq(S), NEW p \in Nat, NEW q \in Nat, p <= q, q <= Len(s)
    PROVE  LET w == SubSeq(s, p + 1, q) IN
           w \in Seq(S) /\ Len(w) = q - p /\ \A k \in 1 .. q - p : w[k] = s[p + k]
  <1>1. p + 1 \in 1 .. Len(s) + 1 /\ q \in p .. Len(s) /\ Len(s) \in Nat
    OBVIOUS
  <1> DEFINE f == [k \in 1 .. q - p |-> s[p + k]]
  <1>2. SubSeq(s, p + 1, q) = f
    <2>1. SubSeq(s, p + 1, q) = [k \in 1 .. 1 + q - (p + 1) |-> s[p + 1 + k - 1]]
      BY <1>1
    <2>2. 1 + q - (p + 1) = q - p /\ \A k \in 1 .. q - p : p + 1 + k - 1 = p + k
      OBVIOUS
    <2>3. QED BY <2>1, <2>2
  <1>3. f \in [1 .. q - p -> S]
    <2>1. \A k \in 1 .. q - p : p + k \in 1 .. Len(s)
      OBVIOUS
    <2>2. QED BY <2>1
  <1>4. q - p \in Nat
    OBVIOUS
  <1>5. f \in Seq(S) /\ Len(f) = q - p
    BY <1>3, <1>4, FcnIsSeq
  <1>6. QED BY <1>2, <1>5

LEMMA EndsBelow ==
    ASSUME InOK, NEW n \in 0 .. Len(inbound)
    PROVE  /\ E(n) \in Nat /\ Len(Peer) \in Nat /\ E(n) <= Len(Peer)
           /\ n = Len(inbound) => E(n) = Len(Peer)
           /\ n < Len(inbound) => /\ n + 1 \in 1 .. Len(inbound) /\ Size(n + 1) \in Nat
                                 /\ E(n + 1) = E(n) + Size(n + 1) /\ E(n + 1) \in Nat /\ E(n + 1) <= Len(Peer)
  <1> DEFINE L == Len(inbound)
  <1>1. L \in Nat /\ Len(Peer) = E(L)
    BY SizeFacts, PeerBytes
  <1>2. /\ \A m \in 0 .. L : E(m) \in Nat
        /\ \A m \in 0 .. L : \A j \in 0 .. m - 1 : E(j) < E(m)
    BY StreamType, EndsGrow
  <1>3. \A m \in 1 .. L : E(m) = E(m - 1) + Size(m) /\ Size(m) \in Nat
    BY SizeFacts, EndsFacts
  <1>4. n \in 0 .. L
    OBVIOUS
  <1> SUFFICES /\ E(n) \in Nat /\ Len(Peer) \in Nat /\ E(n) <= Len(Peer)
               /\ n = L => E(n) = Len(Peer)
               /\ n < L => /\ n + 1 \in 1 .. L /\ Size(n + 1) \in Nat
                           /\ E(n + 1) = E(n) + Size(n + 1) /\ E(n + 1) \in Nat /\ E(n + 1) <= Len(Peer)
    OBVIOUS
  <1> HIDE DEF L
  <1>5. ASSUME NEW m \in 0 .. L PROVE E(m) \in Nat /\ E(L) \in Nat /\ E(m) <= E(L)
    <2>1. L \in 0 .. L /\ (m = L \/ m \in 0 .. L - 1)
      BY <1>1
    <2>2. E(m) \in Nat /\ E(L) \in Nat
      BY <1>2, <2>1
    <2>3. m \in 0 .. L - 1 => E(m) < E(L)
      BY <1>2, <2>1
    <2>4. QED BY <2>1, <2>2, <2>3
  <1>6. ASSUME n < L
        PROVE  /\ n + 1 \in 1 .. L /\ Size(n + 1) \in Nat
               /\ E(n + 1) = E(n) + Size(n + 1) /\ E(n + 1) \in Nat /\ E(n + 1) <= Len(Peer)
    <2>1. n + 1 \in 1 .. L /\ n + 1 \in 0 .. L /\ n + 1 - 1 = n
      BY <1>1, <1>4, <1>6
    <2>2. E(n + 1) = E(n + 1 - 1) + Size(n + 1) /\ Size(n + 1) \in Nat
      BY <1>3, <2>1
    <2>3. E(n + 1) \in Nat /\ E(n + 1) <= Len(Peer)
      BY <1>1, <1>5, <2>1
    <2>4. QED BY <2>1, <2>2, <2>3
  <1>7. QED BY <1>1, <1>4, <1>5, <1>6

LEMMA WindowFacts ==
    ASSUME InOK, NEW p \in Nat, NEW q \in Nat, p <= q, q <= Len(Peer)
    PROVE  /\ Window(p, q) \in Bytes /\ Len(Window(p, q)) = q - p /\ q - p \in Nat
           /\ \A k \in 1 .. q - p : Window(p, q)[k] = Peer[p + k]
           /\ Window(p, q) = <<>> <=> p = q
  <1>1. Peer \in Seq(Nat \X Nat)
    BY PeerBytes
  <1> DEFINE w == Window(p, q)
  <1>2. w \in Bytes /\ Len(w) = q - p /\ \A k \in 1 .. q - p : w[k] = Peer[p + k]
    BY <1>1, SubFacts DEF Window, Bytes
  <1> HIDE DEF w
  <1>3. w = <<>> <=> p = q
    BY <1>2 DEF Bytes
  <1>4. QED BY <1>2, <1>3 DEF w

LEMMA WindowCut ==
    ASSUME InOK, NEW p \in Nat, NEW q \in Nat, p <= q, q <= Len(Peer), NEW t \in Nat, t <= q - p,
           NEW m, m = p + t
    PROVE  Left(Window(p, q), t) = Window(p, m) /\ Right(Window(p, q), t) = Window(m, q)
  <1> DEFINE w == Window(p, q)
             a == Window(p, p + t)
             b == Window(p + t, q)
             x == SubSeq(w, 1, t)
             y == SubSeq(w, t + 1, Len(w))
  <1>0. p + t \in Nat /\ p <= p + t /\ p + t <= q /\ p + t <= Len(Peer) /\ Len(Peer) \in Nat /\ q - p \in Nat
    <2>1. Len(Peer) \in Nat
      BY PeerBytes
    <2>2. QED BY <2>1
  <1>1. w \in Bytes /\ Len(w) = q - p /\ \A k \in 1 .. q - p : w[k] = Peer[p + k]
    BY WindowFacts
  <1>2. a \in Bytes /\ Len(a) = p + t - p /\ \A k \in 1 .. p + t - p : a[k] = Peer[p + k]
    <2>1. m \in Nat /\ p <= m /\ m <= Len(Peer)
      BY <1>0
    <2>2. Window(p, m) \in Bytes /\ Len(Window(p, m)) = m - p /\ \A k \in 1 .. m - p : Window(p, m)[k] = Peer[p + k]
      BY <2>1, WindowFacts
    <2>3. QED BY <2>2
  <1>3. b \in Bytes /\ Len(b) = q - (p + t) /\ \A k \in 1 .. q - (p + t) : b[k] = Peer[p + t + k]
    BY <1>0, WindowFacts
  <1> HIDE DEF w, a, b
  <1>4. x = a
    <2>1. x \in Bytes /\ Len(x) = t /\ \A k \in 1 .. t : x[k] = w[k]
      <3>1. SubSeq(w, 0 + 1, t) \in Seq(Nat \X Nat) /\ Len(SubSeq(w, 0 + 1, t)) = t - 0
            /\ \A k \in 1 .. t - 0 : SubSeq(w, 0 + 1, t)[k] = w[0 + k]
        BY <1>0, <1>1, SubFacts DEF Bytes
      <3>2. QED BY <3>1 DEF Bytes
    <2> HIDE DEF x
    <2>2. Len(a) = t /\ \A k \in 1 .. t : a[k] = Peer[p + k]
      BY <1>2
    <2>3. \A k \in 1 .. t : k \in 1 .. q - p
      OBVIOUS
    <2>4. \A k \in 1 .. Len(x) : x[k] = a[k]
      BY <1>1, <2>1, <2>2, <2>3
    <2>5. QED BY <1>2, <2>1, <2>2, <2>4, SameSeq DEF Bytes
  <1>5. y = b
    <2>1. y \in Bytes /\ Len(y) = Len(w) - t /\ \A k \in 1 .. Len(w) - t : y[k] = w[t + k]
      <3>1. Len(w) \in Nat /\ t <= Len(w)
        BY <1>0, <1>1
      <3>2. QED BY <1>1, <3>1, SubFacts DEF Bytes
    <2> HIDE DEF y
    <2>2. Len(w) - t = q - (p + t)
      BY <1>1
    <2>3. \A k \in 1 .. q - (p + t) : t + k \in 1 .. q - p /\ p + (t + k) = p + t + k
      OBVIOUS
    <2>4. \A k \in 1 .. Len(y) : y[k] = b[k]
      BY <1>1, <1>3, <2>1, <2>2, <2>3
    <2>5. QED BY <1>3, <2>1, <2>2, <2>4, SameSeq DEF Bytes
  <1>6. QED BY <1>4, <1>5 DEF w, a, b, Left, Right

LEMMA WindowRun ==
    ASSUME InOK, NEW n \in 0 .. Len(inbound) - 1, NEW a \in Nat, NEW d \in Nat, a + d <= Size(n + 1)
    PROVE  Window(E(n) + a, E(n) + a + d) = Run(n + 1, a, d)
  <1> DEFINE p == E(n) + a
             w == Window(p, p + d)
             r == Run(n + 1, a, d)
  <1>1. n \in 0 .. Len(inbound) /\ n < Len(inbound) /\ n + 1 \in Nat /\ Len(inbound) \in Nat
    BY SizeFacts
  <1>2. /\ E(n) \in Nat /\ Size(n + 1) \in Nat /\ Len(Peer) \in Nat
        /\ E(n + 1) = E(n) + Size(n + 1) /\ E(n + 1) <= Len(Peer)
    BY <1>1, EndsBelow
  <1>3. p \in Nat /\ p + d \in Nat /\ p <= p + d /\ p + d <= Len(Peer) /\ p + d - p = d
    <2> DEFINE x == E(n)
               z == Size(n + 1)
               m == Len(Peer)
    <2>1. x \in Nat /\ z \in Nat /\ m \in Nat /\ x + z <= m /\ a + d <= z
      BY <1>2
    <2> HIDE DEF x, z, m
    <2>2. x + a \in Nat /\ x + a + d \in Nat /\ x + a <= x + a + d /\ x + a + d <= m /\ x + a + d - (x + a) = d
      BY <2>1
    <2>3. QED BY <2>2 DEF x, m
  <1>4. w \in Bytes /\ Len(w) = d /\ \A k \in 1 .. d : w[k] = Peer[p + k]
    <2> HIDE DEF p
    <2> DEFINE m == p + d
    <2>0. m \in Nat /\ p \in Nat /\ p <= m /\ m <= Len(Peer)
      BY <1>3
    <2>1. w \in Bytes /\ Len(w) = m - p /\ \A k \in 1 .. m - p : w[k] = Peer[p + k]
      <3> HIDE DEF m
      <3>1. /\ Window(p, m) \in Bytes /\ Len(Window(p, m)) = m - p
            /\ \A k \in 1 .. m - p : Window(p, m)[k] = Peer[p + k]
        BY ONLY InOK, <2>0, WindowFacts
      <3>2. w = Window(p, m)
        BY DEF m
      <3> HIDE DEF w
      <3>3. QED BY ONLY <3>1, <3>2
    <2> HIDE DEF w
    <2>2. QED BY <1>3, <2>1
  <1>5. r \in Bytes /\ Len(r) = d /\ \A k \in 1 .. d : r[k] = <<n + 1, a + k>>
    BY <1>1, RunFacts
  <1>6. ASSUME NEW k \in 1 .. d PROVE Peer[p + k] = <<n + 1, a + k>>
    <2>1. a + k \in 1 .. Size(n + 1) /\ E(n) + (a + k) = p + k
      BY <1>2
    <2>2. Peer[E(n) + (a + k)] = <<n + 1, a + k>>
      BY <2>1, PeerBytes
    <2> HIDE DEF p
    <2>3. QED BY <2>1, <2>2
  <1> HIDE DEF p, w, r
  <1>7. w = r
    <2>1. \A k \in 1 .. Len(w) : w[k] = r[k]
      BY <1>4, <1>5, <1>6
    <2>2. QED BY <1>4, <1>5, <2>1, SameSeq DEF Bytes
  <1>8. QED BY <1>7 DEF p, w, r

----------------------------------------------------------------------------
(* The parser.                                                             *)

FrameT == [header : Bytes, known : BOOLEAN, body : Bytes]

\* After n messages, frame f holds what has been read of the next one when p
\* bytes of the stream have been read.
Parsed(f, n, p) ==
    LET d == Len(f.header)
        e == Len(f.body)
    IN  /\ f \in FrameT /\ n \in 0 .. Len(inbound)
        /\ f.header = Run(n + 1, 0, d)
        /\ f.body = Run(n + 1, Header, e)
        /\ p = E(n) + d + e
        /\ \/ /\ ~f.known /\ e = 0 /\ d < Header
              /\ d > 0 => n < Len(inbound)
           \/ /\ f.known /\ d = Header /\ n < Len(inbound)
              /\ e < inbound[n + 1].size

\* The messages read are those of the peer, one after the other.
Bodies(out, n0) == \A i \in 1 .. Len(out) : out[i] = BodyOf(n0 + i)

LoopT == [frame : FrameT, data : Bytes, out : Seq(Bytes), state : {"run", "wait", "broken"}]

\* The loop began after n0 messages with bytes up to q and is now at byte p.
Loop(s, n0, p, q) ==
    /\ s \in LoopT /\ s.data = Window(p, q)
    /\ n0 + Len(s.out) <= Len(inbound) /\ Bodies(s.out, n0)
    /\ s.state # "broken" => Parsed(s.frame, n0 + Len(s.out), p)
    /\ s.state = "wait" => p = q

LEMMA BodyWaits ==
    ASSUME NEW s \in LoopT, Len(s.data) < MessageSize(s.frame.header) - Len(s.frame.body)
    PROVE  /\ Body(s) \in LoopT
           /\ Body(s).frame.header = s.frame.header /\ Body(s).frame.known = s.frame.known
           /\ Body(s).frame.body = Cat(s.frame.body, s.data)
           /\ Body(s).data = <<>> /\ Body(s).out = s.out /\ Body(s).state = "wait"
  <1> DEFINE more == s.frame.body \o s.data
             none == <<>>
  <1>1. Body(s) = [s EXCEPT !.frame.body = more, !.data = none, !.state = "wait"]
    BY DEF Body
  <1>2. more \in Bytes /\ none \in Bytes
    BY DEF LoopT, FrameT, Bytes
  <1> HIDE DEF more, none
  <1>3. Body(s) \in LoopT
    <2> DEFINE f == [s.frame EXCEPT !.body = more]
    <2>1. f \in FrameT
      BY <1>2 DEF LoopT, FrameT
    <2>2. Body(s) = [s EXCEPT !.frame = f, !.data = none, !.state = "wait"]
      BY <1>1 DEF LoopT
    <2> HIDE DEF f
    <2>3. QED BY <1>2, <2>1, <2>2 DEF LoopT
  <1>4. /\ Body(s).frame.header = s.frame.header /\ Body(s).frame.known = s.frame.known
        /\ Body(s).frame.body = more
    BY <1>1 DEF LoopT, FrameT
  <1>5. Body(s).data = none /\ Body(s).out = s.out /\ Body(s).state = "wait"
    BY <1>1 DEF LoopT, FrameT
  <1>6. QED BY <1>3, <1>4, <1>5 DEF more, none, Cat

LEMMA BodyEnds ==
    ASSUME NEW s \in LoopT, NEW need, need = MessageSize(s.frame.header) - Len(s.frame.body),
           ~(Len(s.data) < need), NEW rest \in Bytes, rest = Right(s.data, need),
           NEW whole \in Bytes, whole = Cat(s.frame.body, Left(s.data, need))
    PROVE  /\ Body(s) \in LoopT
           /\ Body(s).frame = NewFrame /\ Body(s).data = rest
           /\ Body(s).out = Added(s.out, whole) /\ Body(s).state = s.state
  <1> DEFINE longer == Append(s.out, whole)
  <1>1. Body(s) = [s EXCEPT !.out = longer, !.frame = NewFrame, !.data = rest]
    BY DEF Body, Right, Left, Cat
  <1>2. longer \in Seq(Bytes) /\ NewFrame \in FrameT
    <2>1. longer \in Seq(Bytes)
      <3>1. s.out \in Seq(Bytes)
        BY DEF LoopT
      <3> HIDE DEF Bytes
      <3>2. QED BY <3>1, AppendProperties
    <2>2. QED BY <2>1 DEF NewFrame, FrameT, Bytes
  <1> HIDE DEF longer
  <1>3. Body(s) \in LoopT
    BY <1>1, <1>2 DEF LoopT
  <1>4. Body(s).frame = NewFrame /\ Body(s).data = rest /\ Body(s).out = longer /\ Body(s).state = s.state
    BY <1>1 DEF LoopT
  <1>5. QED BY <1>3, <1>4 DEF longer, Added

LEMMA HeaderPartIs ==
    ASSUME NEW s \in LoopT, NEW want, want = Header - Len(s.frame.header),
           NEW take, take = IF Len(s.data) < want THEN Len(s.data) ELSE want,
           NEW first \in Bytes, first = Cat(s.frame.header, Left(s.data, take)),
           NEW rest \in Bytes, rest = Right(s.data, take)
    PROVE  /\ HeaderPart(s) \in LoopT
           /\ HeaderPart(s).frame.header = first /\ (HeaderPart(s).frame.known <=> take = want)
           /\ HeaderPart(s).frame.body = s.frame.body
           /\ HeaderPart(s).data = rest /\ HeaderPart(s).out = s.out /\ HeaderPart(s).state = s.state
  <1> DEFINE all == (take = want)
  <1>1. HeaderPart(s) = [s EXCEPT !.frame.header = first, !.frame.known = all, !.data = rest]
    BY DEF HeaderPart, Cat, Left, Right
  <1>2. all \in BOOLEAN
    OBVIOUS
  <1> HIDE DEF all
  <1> DEFINE f == [s.frame EXCEPT !.header = first, !.known = all]
  <1>f. f \in FrameT /\ f.header = first /\ f.known = all /\ f.body = s.frame.body
    BY <1>2 DEF LoopT, FrameT
  <1>g. HeaderPart(s) = [s EXCEPT !.frame = f, !.data = rest]
    BY <1>1 DEF LoopT
  <1> HIDE DEF f
  <1>3. HeaderPart(s) \in LoopT
    BY <1>f, <1>g DEF LoopT
  <1>4. /\ HeaderPart(s).frame.header = first /\ HeaderPart(s).frame.known = all
        /\ HeaderPart(s).frame.body = s.frame.body
    <2>1. HeaderPart(s).frame = f
      BY <1>g DEF LoopT
    <2>2. QED BY <1>f, <2>1
  <1>5. HeaderPart(s).data = rest /\ HeaderPart(s).out = s.out /\ HeaderPart(s).state = s.state
    BY <1>1 DEF LoopT, FrameT
  <1>6. QED BY <1>3, <1>4, <1>5 DEF all

LEMMA RunEmpty == ASSUME NEW i \in Nat, NEW a \in Nat PROVE Run(i, a, 0) = <<>>
  <1>1. Run(i, a, 0) \in Bytes /\ Len(Run(i, a, 0)) = 0
    BY RunFacts
  <1> DEFINE r == Run(i, a, 0)
  <1>2. r \in Seq(Nat \X Nat) /\ Len(r) = 0
    BY <1>1 DEF Bytes
  <1> HIDE DEF r
  <1>3. r = <<>>
    BY <1>2
  <1>4. QED BY <1>3 DEF r

LEMMA ParsedNew ==
    ASSUME InOK, NEW n \in 0 .. Len(inbound)
    PROVE  Parsed(NewFrame, n, E(n))
  <1>1. NewFrame \in FrameT /\ NewFrame.header = <<>> /\ NewFrame.body = <<>> /\ ~NewFrame.known
    BY DEF NewFrame, FrameT, Bytes
  <1>2. Len(NewFrame.header) = 0 /\ Len(NewFrame.body) = 0
    BY <1>1
  <1>3. E(n) \in Nat /\ Header \in Nat /\ Header > 0 /\ n + 1 \in Nat
    BY EndsBelow, SizeFacts
  <1>4. NewFrame.header = Run(n + 1, 0, 0) /\ NewFrame.body = Run(n + 1, Header, 0)
    BY <1>1, <1>3, RunEmpty
  <1> HIDE DEF NewFrame
  <1>5. QED BY <1>1, <1>2, <1>3, <1>4 DEF Parsed

LEMMA ParsedEnds ==
    ASSUME InOK, NEW f, NEW n, NEW p, Parsed(f, n, p)
    PROVE  /\ n \in 0 .. Len(inbound) /\ p \in Nat /\ E(n) <= p /\ p <= Len(Peer) /\ Len(Peer) \in Nat
           /\ n < Len(inbound) => p < E(n + 1)
           /\ n = Len(inbound) => p = Len(Peer)
  <1> DEFINE d == Len(f.header)
             e == Len(f.body)
  <1>1. /\ n \in 0 .. Len(inbound) /\ f.header \in Bytes /\ f.body \in Bytes
        /\ p = E(n) + d + e
        /\ \/ e = 0 /\ d < Header /\ (d > 0 => n < Len(inbound))
           \/ d = Header /\ n < Len(inbound) /\ e < inbound[n + 1].size
    BY DEF Parsed, FrameT
  <1>2. d \in Nat /\ e \in Nat
    BY <1>1 DEF Bytes
  <1> HIDE DEF d, e
  <1>3. /\ E(n) \in Nat /\ Len(Peer) \in Nat /\ E(n) <= Len(Peer) /\ Header \in Nat
        /\ n = Len(inbound) => E(n) = Len(Peer)
    BY <1>1, EndsBelow, SizeFacts
  <1>4. CASE n = Len(inbound)
    BY <1>1, <1>2, <1>3, <1>4
  <1>5. CASE n < Len(inbound)
    <2>1. /\ E(n + 1) = E(n) + Size(n + 1) /\ E(n + 1) \in Nat /\ E(n + 1) <= Len(Peer)
          /\ n + 1 \in 1 .. Len(inbound)
      BY <1>1, <1>5, EndsBelow
    <2>2. Size(n + 1) = Header + inbound[n + 1].size /\ inbound[n + 1].size \in Nat
      BY <2>1, SizeFacts DEF Size
    <2>3. d + e < Size(n + 1)
      <3> DEFINE z == inbound[n + 1].size
      <3>1. z \in Nat /\ Size(n + 1) = Header + z /\ Header \in Nat /\ Header > 0
        BY <2>2, SizeFacts
      <3>2. \/ e = 0 /\ d < Header
            \/ d = Header /\ e < z
        BY <1>1
      <3> HIDE DEF z
      <3>3. QED BY ONLY <1>2, <3>1, <3>2
    <2>4. Size(n + 1) \in Nat
      BY <1>3, <2>2
    <2>5. p < E(n + 1) /\ p \in Nat /\ E(n) <= p /\ p <= Len(Peer)
      <3> DEFINE x == E(n)
                 y == E(n + 1)
                 z == Size(n + 1)
                 m == Len(Peer)
      <3>1. p = x + d + e /\ x \in Nat /\ z \in Nat /\ y = x + z /\ y <= m /\ m \in Nat /\ d + e < z
        BY <1>1, <1>3, <2>1, <2>3, <2>4
      <3> HIDE DEF x, y, z, m
      <3>2. p < y /\ p \in Nat /\ x <= p /\ p <= m
        BY ONLY <1>2, <3>1
      <3>3. QED BY <3>2 DEF x, y, m
    <2>6. n # Len(inbound)
      BY <1>5, <1>1, SizeFacts
    <2>7. QED BY <1>1, <1>3, <2>5, <2>6
  <1>6. Len(inbound) \in Nat
    BY SizeFacts
  <1>7. QED BY <1>1, <1>4, <1>5, <1>6

LEMMA BodiesAppend ==
    ASSUME NEW out \in Seq(Bytes), NEW n0 \in Nat, Bodies(out, n0), NEW w, w = BodyOf(n0 + Len(out) + 1)
    PROVE  Len(Append(out, w)) = Len(out) + 1 /\ Bodies(Append(out, w), n0)
  <1>1. /\ Len(out) \in Nat /\ Len(Append(out, w)) = Len(out) + 1 /\ Append(out, w)[Len(out) + 1] = w
        /\ \A i \in 1 .. Len(out) : Append(out, w)[i] = out[i]
    OBVIOUS
  <1> DEFINE o == Append(out, w)
  <1> HIDE DEF o
  <1>2. ASSUME NEW i \in 1 .. Len(out) + 1 PROVE o[i] = BodyOf(n0 + i)
    <2>1. CASE i = Len(out) + 1
      <3>1. n0 + i = n0 + Len(out) + 1
        BY <1>1, <2>1
      <3>2. QED BY <1>1, <2>1, <3>1 DEF o
    <2>2. CASE i \in 1 .. Len(out)
      BY <1>1, <2>2 DEF Bodies, o
    <2>3. QED BY <1>1, <2>1, <2>2
  <1>3. QED BY <1>1, <1>2 DEF Bodies, o

\* A turn whose header is known, with e bytes of the body.
BodyPart(s, n0, n, e, p, q) ==
    /\ s \in LoopT /\ s.state = "run" /\ s.data = Window(p, q)
    /\ n = n0 + Len(s.out) /\ Bodies(s.out, n0)
    /\ n \in 0 .. Len(inbound) - 1 /\ e \in Nat /\ e <= inbound[n + 1].size
    /\ s.frame.known /\ s.frame.header = Run(n + 1, 0, Header) /\ s.frame.body = Run(n + 1, Header, e)
    /\ p = E(n) + Header + e

LEMMA SizeInHeader ==
    ASSUME NEW i \in Nat, Header \in Nat, Header > 0
    PROVE  MessageSize(Run(i, 0, Header)) = inbound[i].size
  <1>1. Run(i, 0, Header)[1] = <<i, 0 + 1>>
    BY DEF Run
  <1>2. Run(i, 0, Header)[1][1] = i
    BY <1>1
  <1>3. QED BY <1>2 DEF MessageSize

\* A turn leads on, perhaps without a byte, or with one.
Onward(t, n0, p, q) == \E r \in p .. q : Loop(t, n0, r, q)
Ahead(t, n0, p, q)  == \E r \in p + 1 .. q : Loop(t, n0, r, q)

LEMMA BodyGoes ==
    ASSUME InOK, NEW s, NEW n0 \in Nat, NEW n \in Nat, NEW e \in Nat,
           NEW p \in Nat, NEW q \in Nat, p <= q, q <= Len(Peer), BodyPart(s, n0, n, e, p, q)
    PROVE  /\ Onward(Body(s), n0, p, q)
           /\ e < inbound[n + 1].size /\ p < q => Ahead(Body(s), n0, p, q)
  <1> DEFINE i == n + 1
             z == inbound[i].size
             x == E(n)
             L == Len(inbound)
             b == Body(s)
  <1>1. /\ s \in LoopT /\ s.state = "run" /\ s.data = Window(p, q)
        /\ n = n0 + Len(s.out) /\ Bodies(s.out, n0)
        /\ n \in 0 .. L - 1 /\ e <= z
        /\ s.frame.known /\ s.frame.header = Run(i, 0, Header) /\ s.frame.body = Run(i, Header, e)
        /\ p = x + Header + e
    BY DEF BodyPart
  <1>2. L \in Nat /\ Header \in Nat /\ Header > 0
    BY SizeFacts
  <1>3. n \in 0 .. L /\ n < L /\ i \in Nat /\ i \in 1 .. L
    BY <1>1, <1>2, SMTT(30)
  <1>4. z \in Nat /\ Size(i) = Header + z
    BY <1>3, SizeFacts DEF Size
  <1>5. x \in Nat /\ E(i) = x + Size(i)
    BY <1>3, EndsBelow
  <1>6. SUFFICES \E r \in p .. q : Loop(b, n0, r, q) /\ (e < z => r > p \/ p = q)
    <2>1. PICK r \in p .. q : Loop(b, n0, r, q) /\ (e < z => r > p \/ p = q)
      BY <1>6
    <2>2. e < z /\ p < q => r \in p + 1 .. q
      BY <2>1
    <2> HIDE DEF z
    <2>3. QED BY <2>1, <2>2 DEF z, b, Onward, Ahead
  <1>7. \A d \in Nat : e + d <= z => Cat(s.frame.body, Window(p, p + d)) = Run(i, Header, e + d)
    <2> SUFFICES ASSUME NEW d \in Nat, e + d <= z
                 PROVE  Cat(s.frame.body, Window(p, p + d)) = Run(i, Header, e + d)
      OBVIOUS
    <2> DEFINE a == Header + e
    <2> HIDE DEF z
    <2>1. a \in Nat /\ a + d <= Size(i)
      BY <1>2, <1>4
    <2>2. x + a = p
      <3> HIDE DEF x
      <3>1. QED BY <1>1, <1>2, <1>5
    <2>3. Window(p, p + d) = Run(i, a, d)
      <3> HIDE DEF a
      <3>1. Window(E(n) + a, E(n) + a + d) = Run(n + 1, a, d)
        BY <1>1, <2>1, WindowRun
      <3>2. QED BY <2>2, <3>1
    <2>4. Cat(Run(i, Header, e), Run(i, a, d)) = Run(i, Header, e + d)
      <3> DEFINE t == e + d
      <3>1. i \in Nat /\ Header \in Nat /\ t \in Nat /\ t = e + d /\ a = Header + e /\ a \in Nat
        BY <1>2, <1>3
      <3> HIDE DEF i, a, t
      <3>2. Cat(Run(i, Header, e), Run(i, a, d)) = Run(i, Header, t)
        BY <3>1, RunCat
      <3>3. QED BY <3>2 DEF t
    <2>5. QED BY <1>1, <2>3, <2>4
  <1> HIDE DEF i, z, x, L, b
  <1>8. MessageSize(s.frame.header) = z
    BY <1>1, <1>2, <1>3, SizeInHeader DEF z
  <1>9. Len(s.frame.header) = Header /\ Len(s.frame.body) = e
    <2>1. i \in Nat /\ Header \in Nat /\ 0 \in Nat
      BY <1>2, <1>3
    <2>2. Len(Run(i, 0, Header)) = Header
      BY <2>1, RunFacts
    <2>3. Len(Run(i, Header, e)) = e
      BY <2>1, RunFacts
    <2>4. QED BY <1>1, <2>2, <2>3
  <1>10. Len(s.data) = q - p /\ q - p \in Nat
    <2>1. s.data = Window(p, q)
      BY <1>1
    <2>2. Len(Window(p, q)) = q - p /\ q - p \in Nat
      BY ONLY InOK, p \in Nat, q \in Nat, p <= q, q <= Len(Peer), WindowFacts
    <2>3. QED BY <2>1, <2>2
  <1>11. s.out \in Seq(Bytes)
    BY <1>1 DEF LoopT
  <1>12. CASE q - p < z - e
    <2>1. Len(s.data) < MessageSize(s.frame.header) - Len(s.frame.body)
      BY <1>8, <1>9, <1>10, <1>12
    <2>2. /\ b \in LoopT /\ b.frame.header = s.frame.header /\ b.frame.known = s.frame.known
          /\ b.frame.body = Cat(s.frame.body, s.data)
          /\ b.data = <<>> /\ b.out = s.out /\ b.state = "wait"
      BY <1>1, <2>1, BodyWaits DEF b
    <2> DEFINE d == q - p
    <2>3. d \in Nat /\ e + d <= z /\ e + d < z /\ p + d = q /\ e + d \in Nat
      BY <1>4, <1>10, <1>12
    <2> HIDE DEF d
    <2>4. b.frame.body = Run(i, Header, e + d)
      BY <1>1, <1>7, <2>2, <2>3
    <2>5. Len(b.frame.body) = e + d /\ Len(b.frame.header) = Header
      <3>1. Len(Run(i, Header, e + d)) = e + d
        BY <1>2, <1>3, <2>3, RunFacts
      <3>2. QED BY <1>9, <2>2, <2>4, <3>1
    <2>6. q = x + Header + (e + d)
      BY <1>1, <1>2, <1>5, <2>3
    <2>7. b.frame \in FrameT
      BY <2>2 DEF LoopT
    <2>8. Parsed(b.frame, n, q)
      BY <1>1, <1>2, <1>3, <2>2, <2>3, <2>4, <2>5, <2>6, <2>7 DEF Parsed, i, x, z, L
    <2>9. b.data = Window(q, q)
      <3>1. q <= q /\ q = q
        OBVIOUS
      <3>2. Window(q, q) = <<>>
        BY <3>1, WindowFacts
      <3>3. QED BY <2>2, <3>2
    <2>10. Loop(b, n0, q, q)
      BY <1>1, <1>3, <2>2, <2>8, <2>9 DEF Loop, L
    <2>11. q \in p .. q /\ (q > p \/ p = q)
      OBVIOUS
    <2>12. QED BY <2>10, <2>11
  <1>13. CASE ~(q - p < z - e)
    <2> DEFINE need == z - e
               m == p + need
               rest == Window(m, q)
               whole == Run(i, Header, z)
    <2>1. need \in Nat /\ e + need <= z /\ e + need = z /\ need <= q - p /\ m \in Nat /\ m <= q
      BY <1>1, <1>4, <1>10, <1>13, SMTT(30)
    <2>2. need = MessageSize(s.frame.header) - Len(s.frame.body) /\ ~(Len(s.data) < need)
      BY <1>8, <1>9, <1>10, <1>13
    <2>3. e < z => m > p
      BY <1>4
    <2>4. m = E(n + 1)
      BY <1>1, <1>2, <1>4, <1>5 DEF i
    <2>5. m \in p .. q
      BY <2>1
    <2> HIDE DEF need
    <2>6. rest = Right(s.data, need) /\ Left(s.data, need) = Window(p, m)
      <3>1. need \in Nat /\ need <= q - p /\ m = p + need
        BY <2>1
      <3> HIDE DEF m
      <3>2. Left(Window(p, q), need) = Window(p, m) /\ Right(Window(p, q), need) = Window(m, q)
        BY <3>1, WindowCut
      <3>3. QED BY <1>1, <3>2
    <2>7. whole = Cat(s.frame.body, Left(s.data, need))
      BY <1>7, <2>1, <2>6
    <2> HIDE DEF m
    <2>8. rest \in Bytes
      BY <2>1, WindowFacts
    <2>9. whole \in Bytes
      BY <1>2, <1>3, <1>4, RunFacts
    <2>10. whole = BodyOf(n0 + Len(s.out) + 1)
      <3>1. whole = BodyOf(i)
        BY DEF Run, BodyOf, z
      <3>2. i = n0 + Len(s.out) + 1
        BY <1>1 DEF i
      <3>3. QED BY <3>1, <3>2
    <2> HIDE DEF rest, whole
    <2>11. /\ b \in LoopT /\ b.frame = NewFrame /\ b.data = rest
           /\ b.out = Added(s.out, whole) /\ b.state = s.state
      <3>1. s \in LoopT /\ rest = Right(s.data, need)
        BY <1>1, <2>6
      <3>2. QED BY <2>2, <2>7, <2>8, <2>9, <3>1, BodyEnds DEF b
    <2>12. Len(b.out) = Len(s.out) + 1 /\ Bodies(b.out, n0)
      BY <1>1, <1>11, <2>10, <2>11, BodiesAppend DEF Added
    <2>13. n0 + Len(b.out) = n + 1
      <3>1. Len(s.out) \in Nat
        BY <1>11
      <3>2. QED BY <1>1, <2>12, <3>1
    <2>14. Parsed(b.frame, n0 + Len(b.out), m)
      <3>1. n + 1 \in 0 .. Len(inbound)
        BY <1>2, <1>3 DEF i, L
      <3>2. QED BY <2>4, <2>11, <2>13, <3>1, ParsedNew
    <2>15. n + 1 <= Len(inbound)
      BY <1>2, <1>3 DEF L
    <2>16. Loop(b, n0, m, q)
      BY <1>1, <2>11, <2>12, <2>13, <2>14, <2>15 DEF Loop, rest
    <2>17. QED BY <2>3, <2>5, <2>16
  <1>14. QED BY <1>12, <1>13

\* A turn of a frame without its header.
HeaderGoes(s, n0, n, p, q, h, m) ==
    /\ h \in LoopT /\ h.data = Window(m, q) /\ h.out = s.out /\ h.state = "run"
    /\ m \in p + 1 .. q /\ h.frame.body = <<>>
    /\ Len(h.frame.header) \in Nat /\ h.frame.header = Run(n + 1, 0, Len(h.frame.header))
    /\ m = E(n) + Len(h.frame.header)
    /\ h.frame.known => Len(h.frame.header) = Header
    /\ ~h.frame.known => Len(h.frame.header) < Header /\ m = q

LEMMA HeaderPartGoes ==
    ASSUME InOK, NEW s, NEW n0 \in Nat, NEW n \in 0 .. Len(inbound) - 1, NEW p \in Nat, NEW q \in Nat,
           p < q, q <= Len(Peer), s \in LoopT, s.data = Window(p, q), s.state = "run",
           Parsed(s.frame, n, p), ~s.frame.known
    PROVE  \E m : HeaderGoes(s, n0, n, p, q, HeaderPart(s), m)
  <1> DEFINE i == n + 1
             d == Len(s.frame.header)
             w == q - p
             want == Header - d
             take == IF w < want THEN w ELSE want
             m == p + take
             t == d + take
             first == Run(i, 0, t)
             rest == Window(m, q)
             h == HeaderPart(s)
  <1>1. /\ s.frame.header = Run(i, 0, d) /\ s.frame.body = Run(i, Header, Len(s.frame.body))
        /\ p = E(n) + d + Len(s.frame.body) /\ Len(s.frame.body) = 0 /\ d < Header
        /\ s.frame \in FrameT
    BY DEF Parsed
  <1>2. /\ d \in Nat /\ Header \in Nat /\ E(n) \in Nat /\ i \in Nat /\ n \in 0 .. Len(inbound)
        /\ n < Len(inbound) /\ i \in 1 .. Len(inbound)
    <2>1. n \in 0 .. Len(inbound) /\ n < Len(inbound) /\ i \in Nat /\ i \in 1 .. Len(inbound)
      BY SizeFacts
    <2>2. s.frame.header \in Seq(Nat \X Nat)
      BY <1>1 DEF FrameT, Bytes
    <2>3. d \in Nat
      BY <2>2
    <2>4. QED BY <2>1, <2>3, EndsBelow, SizeFacts
  <1>3. s.frame.body = <<>> /\ p = E(n) + d
    <2>1. Run(i, Header, 0) = <<>>
      BY <1>2, RunEmpty
    <2>2. QED BY <1>1, <1>2, <2>1
  <1>4. Size(i) \in Nat /\ Header <= Size(i)
    BY <1>2, SizeFacts
  <1> HIDE DEF i, d
  <1>5. Len(s.data) = w
    <2>1. p <= q
      OBVIOUS
    <2>2. QED BY <2>1, WindowFacts
  <1>6. /\ w \in Nat /\ w > 0 /\ want \in Nat /\ want > 0 /\ take \in Nat /\ take >= 1 /\ take <= w
        /\ d + take <= Header /\ m \in p + 1 .. q /\ m \in Nat /\ t \in Nat /\ t = d + take /\ m = p + take
        /\ take = want => t = Header
        /\ take # want => t < Header /\ m = q
    <2>1. w \in Nat /\ w > 0 /\ want \in Nat /\ want > 0 /\ p + w = q /\ d + want = Header
      <3>1. w \in Nat /\ w > 0 /\ p + w = q
        OBVIOUS
      <3>2. d \in Nat /\ Header \in Nat /\ d < Header
        BY <1>1, <1>2
      <3>3. want \in Nat /\ want > 0 /\ d + want = Header
        BY ONLY <3>2
      <3>4. QED BY <3>1, <3>3
    <2> HIDE DEF w, want
    <2>2. /\ take \in Nat /\ take >= 1 /\ take <= w /\ take <= want /\ (take # want => take = w)
      BY <2>1
    <2> HIDE DEF take
    <2>3. QED BY <1>2, <2>1, <2>2
  <1>7. want = Header - Len(s.frame.header) /\ take = IF Len(s.data) < want THEN Len(s.data) ELSE want
    BY <1>5 DEF d
  <1> HIDE DEF w, want, take, m, t
  <1>8. Left(s.data, take) = Window(p, m) /\ Right(s.data, take) = rest
    <2>1. p <= q /\ take <= q - p
      BY <1>6 DEF w
    <2>2. QED BY <1>6, <2>1, WindowCut
  <1>9. Window(p, m) = Run(i, d, take)
    <2>1. d + take <= Size(n + 1)
      BY <1>2, <1>4, <1>6 DEF i
    <2>2. Window(E(n) + d, E(n) + d + take) = Run(n + 1, d, take)
      BY <1>2, <1>6, <2>1, WindowRun
    <2>3. E(n) + d + take = m
      BY <1>3, <1>6
    <2>4. QED BY <1>3, <2>2, <2>3 DEF i
  <1>10. Cat(s.frame.header, Left(s.data, take)) = first
    <2>1. d = 0 + d /\ 0 \in Nat
      BY <1>2
    <2>2. Cat(Run(i, 0, d), Run(i, d, take)) = Run(i, 0, t)
      BY <1>2, <1>6, <2>1, RunCat
    <2>3. QED BY <1>1, <1>8, <1>9, <2>2
  <1>11. first \in Bytes /\ Len(first) = t
    <2>1. 0 \in Nat
      OBVIOUS
    <2>2. QED BY <1>2, <1>6, <2>1, RunFacts
  <1>12. rest \in Bytes
    <2>1. m <= q
      BY <1>6
    <2>2. QED BY <1>6, <2>1, WindowFacts
  <1> HIDE DEF first, rest
  <1>13. /\ h \in LoopT
         /\ h.frame.header = first /\ (h.frame.known <=> take = want)
         /\ h.frame.body = s.frame.body
         /\ h.data = rest /\ h.out = s.out /\ h.state = s.state
    <2>1. rest = Right(s.data, take) /\ first = Cat(s.frame.header, Left(s.data, take))
      BY <1>8, <1>10
    <2>2. first \in Bytes
      BY <1>11
    <2> HIDE DEF h
    <2>3. /\ HeaderPart(s) \in LoopT
          /\ HeaderPart(s).frame.header = first /\ (HeaderPart(s).frame.known <=> take = want)
          /\ HeaderPart(s).frame.body = s.frame.body
          /\ HeaderPart(s).data = rest /\ HeaderPart(s).out = s.out /\ HeaderPart(s).state = s.state
      BY ONLY s \in LoopT, <1>7, <1>12, <2>1, <2>2, HeaderPartIs
    <2>4. QED BY ONLY <2>3 DEF h
  <1> HIDE DEF h
  <1>14. Len(h.frame.header) = t /\ h.frame.header = Run(n + 1, 0, t)
    BY <1>11, <1>13 DEF first, i
  <1>15. m = E(n) + t
    <2> DEFINE x == E(n)
    <2>1. x \in Nat /\ d \in Nat /\ take \in Nat /\ p = x + d /\ m = p + take /\ t = d + take
      BY <1>2, <1>3, <1>6
    <2> HIDE DEF x
    <2>2. m = x + t
      BY ONLY <2>1
    <2>3. QED BY <2>2 DEF x
  <1>16. HeaderGoes(s, n0, n, p, q, h, m)
    BY <1>3, <1>6, <1>13, <1>14, <1>15 DEF HeaderGoes, rest
  <1>17. QED BY <1>16 DEF h

\* A turn consumes at least one byte.
LEMMA TurnGoes ==
    ASSUME InOK, NEW s, NEW n0 \in Nat, NEW p \in Nat, NEW q \in Nat, p < q, q <= Len(Peer),
           Loop(s, n0, p, q), s.state = "run"
    PROVE  \E r \in p + 1 .. q : Loop(Turn(s), n0, r, q)
  <1> DEFINE n == n0 + Len(s.out)
             L == Len(inbound)
  <1>1. s \in LoopT /\ s.data = Window(p, q) /\ Bodies(s.out, n0) /\ Parsed(s.frame, n, p)
    BY DEF Loop
  <1>2. s.frame \in FrameT /\ s.out \in Seq(Bytes)
    BY <1>1 DEF LoopT
  <1>3. n \in Nat /\ n \in 0 .. L - 1 /\ n + 1 \in 1 .. L
    <2>1. n \in 0 .. L /\ (n = L => p = Len(Peer)) /\ Len(Peer) \in Nat /\ L \in Nat
      BY <1>1, ParsedEnds, SizeFacts
    <2> HIDE DEF n
    <2>2. QED BY <2>1
  <1>4. inbound[n + 1].size \in Nat /\ Header \in Nat /\ E(n) \in Nat
    <2>1. n \in 0 .. L
      BY <1>3
    <2>2. QED BY <1>3, <2>1, SizeFacts, EndsBelow
  <1>5. CASE s.frame.known
    <2> DEFINE e == Len(s.frame.body)
    <2>1. e \in Nat
      BY <1>2 DEF FrameT, Bytes
    <2>2. /\ s.frame.header = Run(n + 1, 0, Header) /\ s.frame.body = Run(n + 1, Header, e)
          /\ p = E(n) + Header + e /\ e < inbound[n + 1].size
      BY <1>1, <1>5 DEF Parsed
    <2>3. e <= inbound[n + 1].size
      <3> DEFINE z == inbound[n + 1].size
      <3>1. e \in Nat /\ z \in Nat /\ e < z
        BY <1>4, <2>1, <2>2
      <3> HIDE DEF e, z
      <3>2. e <= z
        BY <3>1
      <3>3. QED BY <3>2 DEF z
    <2> HIDE DEF e
    <2>4. BodyPart(s, n0, n, e, p, q)
      BY <1>1, <1>3, <1>5, <2>1, <2>2, <2>3 DEF BodyPart
    <2>5. p <= q
      OBVIOUS
    <2> HIDE DEF n
    <2>6. e < inbound[n + 1].size /\ p < q => Ahead(Body(s), n0, p, q)
      BY <1>3, <2>1, <2>4, <2>5, BodyGoes
    <2>7. Turn(s) = Body(s)
      BY <1>5 DEF Turn
    <2>8. QED BY <2>2, <2>6, <2>7 DEF Ahead
  <1>6. CASE ~s.frame.known
    <2> DEFINE h == HeaderPart(s)
    <2>1. PICK m : HeaderGoes(s, n0, n, p, q, h, m)
      BY <1>1, <1>3, <1>6, HeaderPartGoes
    <2>2. /\ h \in LoopT /\ h.data = Window(m, q) /\ h.out = s.out /\ h.state = "run"
          /\ m \in p + 1 .. q /\ h.frame.body = <<>>
          /\ Len(h.frame.header) \in Nat /\ h.frame.header = Run(n + 1, 0, Len(h.frame.header))
          /\ m = E(n) + Len(h.frame.header)
          /\ h.frame.known => Len(h.frame.header) = Header
          /\ ~h.frame.known => Len(h.frame.header) < Header /\ m = q
      BY <2>1 DEF HeaderGoes
    <2>3. Turn(s) = IF ~h.frame.known THEN [h EXCEPT !.state = "wait"]
                    ELSE IF ~CheckMagicString(h.frame.header) THEN [h EXCEPT !.state = "broken"]
                    ELSE IF h.data = <<>> /\ MessageSize(h.frame.header) > 0 THEN [h EXCEPT !.state = "wait"]
                    ELSE Body(h)
      BY <1>6 DEF Turn
    <2>4. h.frame \in FrameT
      BY <2>2 DEF LoopT
    <2> HIDE DEF h
    <2>5. m \in Nat /\ m <= q /\ m > p
      BY <2>2
    <2>6. Run(n + 1, Header, 0) = <<>> /\ Len(h.frame.body) = 0
      BY <1>3, <1>4, <2>2, RunEmpty
    <2>7. n + Len(<<>>) <= L /\ n <= L /\ n < L /\ n \in 0 .. L
      BY <1>3
    <2>8. m = E(n) + Len(h.frame.header) + 0
      BY <1>4, <2>2
    <2>9. ASSUME NEW x \in {"wait", "broken"}, x = "wait" => m = q /\ Parsed(h.frame, n, m)
          PROVE  Loop([h EXCEPT !.state = x], n0, m, q)
      <3> DEFINE g == [h EXCEPT !.state = x]
      <3>1. g \in LoopT /\ g.frame = h.frame /\ g.data = h.data /\ g.out = h.out /\ g.state = x
        BY <2>2 DEF LoopT
      <3> HIDE DEF g
      <3>2. n0 + Len(g.out) = n
        BY <2>2, <3>1
      <3> HIDE DEF n
      <3>3. Loop(g, n0, m, q)
        BY <1>1, <2>2, <2>7, <2>9, <3>1, <3>2 DEF Loop
      <3>4. QED BY <3>3 DEF g
    <2>10. CASE ~h.frame.known
      <3>1. Parsed(h.frame, n, m)
        BY <2>2, <2>4, <2>6, <2>7, <2>8, <2>10 DEF Parsed
      <3>2. Loop([h EXCEPT !.state = "wait"], n0, m, q)
        BY <2>2, <2>9, <2>10, <3>1
      <3>3. QED BY <2>2, <2>3, <2>10, <3>2
    <2>11. CASE h.frame.known /\ ~CheckMagicString(h.frame.header)
      <3>1. "broken" \in {"wait", "broken"} /\ "broken" # "wait"
        OBVIOUS
      <3>2. Loop([h EXCEPT !.state = "broken"], n0, m, q)
        BY ONLY <2>9, <3>1
      <3>3. QED BY <2>2, <2>3, <2>11, <3>2
    <2>12. CASE h.frame.known /\ CheckMagicString(h.frame.header)
      <3>1. /\ h.frame.header = Run(n + 1, 0, Header) /\ Len(h.frame.header) = Header
            /\ h.frame.body = Run(n + 1, Header, 0) /\ m = E(n) + Header + 0
        BY <2>2, <2>6, <2>8, <2>12
      <3>2. BodyPart(h, n0, n, 0, m, q)
        <4>1. 0 \in Nat /\ 0 <= inbound[n + 1].size
          BY <1>4
        <4>2. n = n0 + Len(h.out) /\ Bodies(h.out, n0) /\ n \in 0 .. Len(inbound) - 1
          BY <1>1, <1>3, <2>2
        <4> HIDE DEF n
        <4>3. QED BY ONLY <2>2, <2>12, <3>1, <4>1, <4>2 DEF BodyPart
      <3>3. PICK r \in m .. q : Loop(Body(h), n0, r, q)
        <4>1. 0 \in Nat
          OBVIOUS
        <4> HIDE DEF n
        <4>2. n \in Nat /\ m \in Nat /\ m <= q
          BY <1>3, <2>5
        <4>3. Onward(Body(h), n0, m, q)
          BY <3>2, <4>1, <4>2, BodyGoes
        <4>4. QED BY <4>3 DEF Onward
      <3>4. r \in p + 1 .. q
        BY <2>2, <3>3
      <3>5. CASE h.data = <<>> /\ MessageSize(h.frame.header) > 0
        <4>1. m = q
          <5>1. Window(m, q) = <<>> <=> m = q
            BY <2>5, WindowFacts
          <5>2. QED BY <2>2, <3>5, <5>1
        <4>2. MessageSize(h.frame.header) = inbound[n + 1].size
          <5> DEFINE i == n + 1
          <5>1. Header \in Nat /\ Header > 0 /\ i \in Nat /\ h.frame.header = Run(i, 0, Header)
            BY <1>3, <3>1, SizeFacts
          <5> HIDE DEF i
          <5>2. MessageSize(Run(i, 0, Header)) = inbound[i].size
            BY <5>1, SizeInHeader
          <5>3. QED BY <5>1, <5>2 DEF i
        <4>3. 0 < inbound[n + 1].size
          BY <1>4, <3>5, <4>2
        <4>4. Parsed(h.frame, n, m)
          BY <2>2, <2>4, <2>6, <2>7, <2>8, <2>12, <3>1, <4>3 DEF Parsed
        <4>5. Loop([h EXCEPT !.state = "wait"], n0, m, q)
          BY <2>9, <4>1, <4>4
        <4>6. QED BY <2>2, <2>3, <2>12, <3>5, <4>5
      <3>6. CASE ~(h.data = <<>> /\ MessageSize(h.frame.header) > 0)
        BY <2>3, <2>12, <3>3, <3>4, <3>6
      <3>7. QED BY <3>5, <3>6
    <2>13. QED BY <2>10, <2>11, <2>12
  <1>7. QED BY <1>5, <1>6

----------------------------------------------------------------------------
(* The loop.                                                               *)

Start(f, data) == [frame |-> f, data |-> data, out |-> <<>>, state |-> "run"]
After(s)       == IF s.state = "run" /\ s.data # <<>> THEN Turn(s) ELSE s

\* The definition of Turns, with any function for after.
TurnsEq(g, f, data, m) == g = [k \in 0 .. m |-> IF k = 0 THEN Start(f, data) ELSE After(g[k - 1])]

LEMMA TurnsExist == ASSUME NEW f, NEW data PROVE \A m \in Nat : \E g : TurnsEq(g, f, data, m)
  <1> DEFINE T == {m \in Nat : \E g : TurnsEq(g, f, data, m)}
             First == Start(f, data)
  <1>1. 0 \in T
    <2> DEFINE g == [n \in 0 .. 0 |-> First]
    <2>1. \A n \in 0 .. 0 : n = 0
      OBVIOUS
    <2>2. TurnsEq(g, f, data, 0)
      BY <2>1 DEF TurnsEq
    <2>3. QED BY <2>2
  <1>2. ASSUME NEW m \in Nat, m \in T PROVE m + 1 \in T
    <2>1. PICK g : TurnsEq(g, f, data, m)
      BY <1>2
    <2> DEFINE Val(n) == IF n = 0 THEN First ELSE After(g[n - 1])
               h == [n \in 0 .. m + 1 |-> Val(n)]
    <2>2. \A n \in 0 .. m : g[n] = Val(n)
      <3>1. g = [n \in 0 .. m |-> Val(n)]
        BY <2>1 DEF TurnsEq
      <3> HIDE DEF Val
      <3>2. QED BY <3>1
    <2>3. \A n \in 0 .. m + 1 : h[n] = Val(n)
      <3> HIDE DEF Val
      <3>1. QED OBVIOUS
    <2>4. \A n \in 0 .. m + 1 : n # 0 => n - 1 \in 0 .. m /\ n - 1 \in 0 .. m + 1
      OBVIOUS
    <2>5. \A n \in 0 .. m + 1 : n # 0 => h[n - 1] = g[n - 1]
      <3> HIDE DEF h, Val
      <3>1. QED BY <2>2, <2>3, <2>4
    <2>6. \A n \in 0 .. m + 1 : Val(n) = IF n = 0 THEN First ELSE After(h[n - 1])
      <3> HIDE DEF h, First
      <3>1. QED BY <2>5
    <2>7. h = [n \in 0 .. m + 1 |-> IF n = 0 THEN First ELSE After(h[n - 1])]
      <3> DEFINE W(n) == IF n = 0 THEN First ELSE After(h[n - 1])
      <3>1. \A n \in 0 .. m + 1 : Val(n) = W(n)
        BY <2>6
      <3> HIDE DEF W, Val
      <3>2. h = [n \in 0 .. m + 1 |-> W(n)]
        BY <3>1
      <3>3. QED BY <3>2 DEF W
    <2> HIDE DEF h
    <2>8. TurnsEq(h, f, data, m + 1)
      BY <2>7 DEF TurnsEq
    <2>9. m + 1 \in Nat /\ \E x : TurnsEq(x, f, data, m + 1)
      BY <2>8
    <2>10. QED BY <2>9
  <1>3. QED
    <2> HIDE DEF T
    <2>1. \A n \in Nat : n \in T
      BY <1>1, <1>2, SetInduction
    <2>2. QED BY <2>1 DEF T

LEMMA TurnsDef ==
    ASSUME NEW f, NEW data, Len(data) \in Nat
    PROVE  /\ Turns(f, data)[0] = Start(f, data)
           /\ \A k \in 1 .. Len(data) : Turns(f, data)[k] = After(Turns(f, data)[k - 1])
  <1>1. \E g : TurnsEq(g, f, data, Len(data))
    BY TurnsExist
  <1>2. Turns(f, data) = CHOOSE g : TurnsEq(g, f, data, Len(data))
    BY DEF Turns, TurnsEq, Start, After
  <1>3. TurnsEq(Turns(f, data), f, data, Len(data))
    BY <1>1, <1>2
  <1> DEFINE g == Turns(f, data)
             m == Len(data)
             Val(k) == IF k = 0 THEN Start(f, data) ELSE After(g[k - 1])
  <1>4. g = [k \in 0 .. m |-> Val(k)] /\ m \in Nat
    BY <1>3 DEF TurnsEq
  <1> HIDE DEF g, m
  <1>5. \A k \in 0 .. m : g[k] = Val(k)
    <2> HIDE DEF Val
    <2>1. QED BY <1>4
  <1>6. \A k \in 1 .. m : k \in 0 .. m /\ k # 0
    BY <1>4
  <1>7. 0 \in 0 .. m
    BY <1>4
  <1>8. g[0] = Start(f, data) /\ \A k \in 1 .. m : g[k] = After(g[k - 1])
    BY <1>5, <1>6, <1>7
  <1>9. QED BY <1>8 DEF g, m

\* What split_and_process_message has done with bytes p to q.
LEMMA SplitGoes ==
    ASSUME InOK, NEW f, NEW n0 \in Nat, NEW p \in Nat, NEW q \in Nat, p <= q, q <= Len(Peer), Parsed(f, n0, p),
           NEW r, r = Split(f, Window(p, q))
    PROVE  /\ r \in LoopT /\ n0 + Len(r.out) <= Len(inbound) /\ Bodies(r.out, n0)
           /\ r.state # "broken" => Parsed(r.frame, n0 + Len(r.out), q)
  <1> DEFINE w == Window(p, q)
             m == Len(w)
             S(k) == Turns(f, w)[k]
             Good(s, k) == \E x \in p .. q : Loop(s, n0, x, q) /\ (s.state = "run" => x >= p + k \/ x = q)
             T == {k \in Nat : k <= m => Good(S(k), k)}
  <1>1. m \in Nat /\ m = q - p /\ w \in Bytes
    BY WindowFacts
  <1>2. S(0) = Start(f, w) /\ \A k \in 1 .. m : S(k) = After(S(k - 1))
    BY <1>1, TurnsDef
  <1>3. r = S(m)
    BY DEF Split
  <1> HIDE DEF m, S
  <1>4. Good(S(0), 0)
    <2> DEFINE s == Start(f, w)
    <2>1. f \in FrameT /\ n0 \in 0 .. Len(inbound)
      BY DEF Parsed
    <2>2. s.frame = f /\ s.data = w /\ s.out = <<>> /\ s.state = "run"
      BY DEF Start
    <2>3. s \in LoopT
      <3>1. <<>> \in Seq(Bytes)
        BY EmptySeq
      <3> HIDE DEF w
      <3>2. QED BY <1>1, <2>1, <3>1 DEF Start, LoopT
    <2> HIDE DEF s
    <2>4. Len(s.out) = 0 /\ n0 + Len(s.out) = n0
      BY <2>2
    <2>5. Bodies(s.out, n0)
      BY <2>4 DEF Bodies
    <2>6. n0 <= Len(inbound)
      BY <2>1, SizeFacts
    <2>7. Loop(s, n0, p, q)
      BY <2>2, <2>3, <2>4, <2>5, <2>6 DEF Loop
    <2>8. p \in p .. q /\ p >= p + 0
      OBVIOUS
    <2>9. QED BY <1>2, <2>7, <2>8 DEF s
  <1>5. ASSUME NEW k \in Nat, k + 1 <= m, Good(S(k), k) PROVE Good(S(k + 1), k + 1)
    <2> DEFINE s == S(k)
    <2>1. k + 1 \in 1 .. m /\ k + 1 - 1 = k
      BY <1>1, <1>5
    <2>2. S(k + 1) = After(s)
      BY <1>2, <2>1
    <2>3. PICK x \in p .. q : Loop(s, n0, x, q) /\ (s.state = "run" => x >= p + k \/ x = q)
      BY <1>5
    <2> HIDE DEF s
    <2>4. x \in Nat /\ x <= q
      BY <2>3
    <2>5. s.data = Window(x, q) /\ (Window(x, q) = <<>> <=> x = q)
      BY <2>3, <2>4, WindowFacts DEF Loop
    <2>6. CASE s.state = "run" /\ s.data # <<>>
      <3>1. x < q /\ x >= p + k
        BY <2>3, <2>4, <2>5, <2>6
      <3>2. PICK y \in x + 1 .. q : Loop(Turn(s), n0, y, q)
        BY <2>3, <2>4, <2>6, <3>1, TurnGoes
      <3>3. y \in p .. q /\ y >= p + (k + 1)
        BY <2>3, <3>1, <3>2
      <3>4. After(s) = Turn(s)
        BY <2>6 DEF After
      <3>5. QED BY <2>2, <3>2, <3>3, <3>4
    <2>7. CASE ~(s.state = "run" /\ s.data # <<>>)
      <3>1. After(s) = s
        BY <2>7 DEF After
      <3>2. s.state = "run" => x = q
        BY <2>5, <2>7
      <3>3. QED BY <2>2, <2>3, <3>1, <3>2
    <2>8. QED BY <2>6, <2>7
  <1> HIDE DEF Good
  <1>6. \A k \in Nat : k \in T
    <2>1. 0 \in T
      BY <1>4
    <2>2. \A k \in Nat : k \in T => k + 1 \in T
      BY <1>1, <1>5
    <2> HIDE DEF T
    <2>3. QED BY <2>1, <2>2, SetInduction
  <1>7. Good(r, m)
    BY <1>1, <1>3, <1>6
  <1>8. PICK x \in p .. q : Loop(r, n0, x, q) /\ (r.state = "run" => x >= p + m \/ x = q)
    BY <1>7 DEF Good
  <1>9. r.state = "run" => x = q
    BY <1>1, <1>8
  <1>10. r \in LoopT /\ n0 + Len(r.out) <= Len(inbound) /\ Bodies(r.out, n0)
    BY <1>8 DEF Loop
  <1>11. ASSUME r.state # "broken" PROVE Parsed(r.frame, n0 + Len(r.out), q)
    <2>1. r.state = "run" \/ r.state = "wait"
      BY <1>10, <1>11 DEF LoopT
    <2>2. x = q
      BY <1>8, <1>9, <2>1 DEF Loop
    <2>3. QED BY <1>8, <1>11, <2>2 DEF Loop
  <1>12. QED BY <1>10, <1>11

Got == delivered \o items

FrameInv ==
    /\ items \in Seq(Bytes) /\ delivered \in Seq(Bytes)
    /\ Len(Got) <= Len(inbound) /\ Bodies(Got, 0)
    /\ pos = 0 => items = <<>> /\ delivered = <<>> /\ frame = NewFrame
    /\ pos > 0 => ~Unopened
    /\ items # <<>> => "deliver" \in All(pc[Io])
    /\ status # "CLOSED" => Parsed(frame, Len(Got), pos)

----------------------------------------------------------------------------
(* What changes nothing about the messages read.                           *)

LEMMA InboundOK == ASSUME StreamTypeOK PROVE InOK
  BY StreamAssumption DEF StreamTypeOK, InOK

LEMMA SameStream ==
    ASSUME inbound' = inbound
    PROVE  /\ Stream' = Stream
           /\ \A f, n, p : Parsed(f, n, p) => Parsed(f, n, p)'
           /\ \A o, n : Bodies(o, n) => Bodies(o, n)'
  <1>1. Stream' = Stream
    BY DEF Stream, BytesOf
  <1>2. \A n : E(n)' = E(n)
    BY <1>1 DEF E
  <1>3. \A f, n, p : Parsed(f, n, p) => Parsed(f, n, p)'
    BY <1>2 DEF Parsed
  <1>4. \A o, n : Bodies(o, n) => Bodies(o, n)'
    BY DEF Bodies, BodyOf
  <1>5. QED BY <1>1, <1>3, <1>4

Harmless ==
    /\ UNCHANGED <<inbound, pos, frame, items, delivered>>
    /\ ~Unopened => /\ ~Unopened'
                    /\ status = "CLOSED" => status' = "CLOSED"
                    /\ "deliver" \in All(pc[Io]) => "deliver" \in All(pc'[Io])

LEMMA HarmlessKeeps ==
    ASSUME StreamTypeOK, FrameInv, Harmless
    PROVE  FrameInv'
  <1>1. UNCHANGED <<inbound, pos, frame, items, delivered>> /\ InOK /\ pos \in Nat
    BY InboundOK DEF Harmless, StreamTypeOK
  <1>2. Got' = Got
    BY <1>1 DEF Got
  <1>3. /\ items' \in Seq(Bytes) /\ delivered' \in Seq(Bytes) /\ Len(Got') <= Len(inbound')
        /\ pos' = 0 => items' = <<>> /\ delivered' = <<>> /\ frame' = NewFrame
    BY <1>1, <1>2 DEF FrameInv
  <1>4. Bodies(Got, 0)'
    <2>1. Bodies(Got, 0)
      BY DEF FrameInv
    <2>2. QED BY <1>1, <1>2, <2>1 DEF Bodies, BodyOf
  <1>5. CASE pos > 0
    <2>1. ~Unopened
      BY <1>5 DEF FrameInv
    <2>2. /\ ~Unopened' /\ (status = "CLOSED" => status' = "CLOSED")
          /\ "deliver" \in All(pc[Io]) => "deliver" \in All(pc'[Io])
      BY <2>1 DEF Harmless
    <2>3. status' # "CLOSED" => Parsed(frame, Len(Got), pos)
      BY <2>2 DEF FrameInv
    <2>4. status' # "CLOSED" => Parsed(frame, Len(Got), pos)'
      BY <1>1, <1>2, <2>3, SameStream DEF Parsed
    <2>5. items' # <<>> => "deliver" \in All(pc'[Io])
      BY <1>1, <2>2 DEF FrameInv
    <2>6. QED BY <1>3, <1>4, <2>2, <2>4, <2>5 DEF FrameInv
  <1>6. CASE pos = 0
    <2>1. items = <<>> /\ delivered = <<>> /\ frame = NewFrame
      BY <1>6 DEF FrameInv
    <2>2. Len(Got) = 0
      BY <2>1 DEF Got
    <2>3. Parsed(NewFrame, 0, 0)
      <3>1. 0 \in 0 .. Len(inbound) /\ E(0) = 0
        BY <1>1, SizeFacts, EndsFacts
      <3>2. QED BY <1>1, <3>1, ParsedNew
    <2>4. Parsed(frame, Len(Got), pos)'
      <3>1. Parsed(frame, Len(Got), pos)
        BY <1>6, <2>1, <2>2, <2>3
      <3>2. QED BY <1>1, <1>2, <3>1, SameStream DEF Parsed
    <2>5. items' = <<>> /\ ~(pos' > 0)
      BY <1>1, <1>6, <2>1
    <2>6. QED BY <1>3, <1>4, <2>4, <2>5 DEF FrameInv
  <1>7. QED BY <1>1, <1>5, <1>6

LEMMA AllOf ==
    ASSUME NEW q \in Seq(Label)
    PROVE  /\ q # <<>> => All(q) = Later(q) \cup {Now(q)}
           /\ q = <<>> => All(q) = {}
  <1>1. CASE q = <<>>
    BY <1>1 DEF All
  <1>2. CASE q # <<>>
    <2>1. Now(q) = q[1] /\ Len(q) \in Nat \ {0}
      BY <1>2 DEF Now
    <2>2. All(q) = Later(q) \cup {Now(q)}
      BY <2>1 DEF All, Later
    <2>3. QED BY <1>2, <2>2
  <1>3. QED BY <1>1, <1>2

\* What a thread puts in the place of a step, other than to open the stream.
Tails == {<<>>} \cup {<<l>> : l \in Label \ {"accepted", "set_connected"}}
                \cup {<<"trigger_receive", "recv">>, <<"trigger_send", "send">>}

LEMMA TailsFacts ==
    ASSUME NEW s \in Tails
    PROVE  s \in Seq(Label) /\ Now(s) \notin {"accepted", "set_connected"}
  <1>1. CASE s = <<>>
    BY <1>1 DEF Now
  <1>2. CASE \E l \in Label \ {"accepted", "set_connected"} : s = <<l>>
    BY <1>2 DEF Now
  <1>3. CASE s \in {<<"trigger_receive", "recv">>, <<"trigger_send", "send">>}
    <2>1. \A x, y \in Label : <<x, y>> \in Seq(Label)
      OBVIOUS
    <2>2. \A x, y \in Label : Now(<<x, y>>) = x
      BY DEF Now
    <2>3. {"trigger_receive", "recv", "trigger_send", "send"} \subseteq Label
      BY DEF Label
    <2>4. PICK x, y \in Label : s = <<x, y>> /\ x \in {"trigger_receive", "trigger_send"}
      BY ONLY <1>3, <2>3
    <2>5. s \in Seq(Label) /\ Now(s) = x
      BY ONLY <2>1, <2>2, <2>4, x \in Label, y \in Label
    <2>6. QED BY <2>4, <2>5
  <1>4. QED BY <1>1, <1>2, <1>3 DEF Tails

Aside == UNCHANGED <<inbound, status, link, pos, frame, items, delivered>>

\* A thread goes on elsewhere.
Moves(t) ==
    /\ Aside /\ pc[t] # <<>> /\ Now(pc[t]) # "deliver"
    /\ \E s \in Tails : Then(t, s)

LEMMA OpenedStays ==
    ASSUME NEW t \in Threads, OnlyPc(t), ~Unopened, ~Opens(t)', link' = link
    PROVE  ~Unopened'
  <1>1. \A u \in Threads : ~Opens(u)'
    BY DEF Unopened, Opens, OnlyPc
  <1>2. QED BY <1>1 DEF Unopened

LEMMA MovesHarmless ==
    ASSUME IInv, NEW t \in Threads, Moves(t)
    PROVE  Harmless
  <1>1. Aside /\ pc[t] # <<>> /\ Now(pc[t]) # "deliver"
    BY DEF Moves
  <1>2. PICK s \in Tails : Then(t, s)
    BY DEF Moves
  <1> DEFINE r == Tail(pc[t])
  <1>3. s \in Seq(Label) /\ Now(s) \notin {"accepted", "set_connected"}
    BY TailsFacts
  <1>4. /\ pc \in [Threads -> Seq(Label)] /\ pc[t] \in Seq(Label)
        /\ Later(pc[t]) \subseteq Follow /\ pc' = [pc EXCEPT ![t] = s \o r]
    BY <1>2 DEF IInv, PcInv, PcAt, Then
  <1>5. r \in Seq(Label) /\ Later(pc[t]) = All(r)
    BY <1>1, <1>4, LaterIsTail
  <1> HIDE DEF r
  <1>6. /\ s \o r \in Seq(Label) /\ All(r) \subseteq All(s \o r)
        /\ Now(s \o r) \in {Now(s)} \cup All(r) \cup {"none"}
    <2>1. CASE s = <<>>
      <3>1. s \o r = r
        BY <1>5, <2>1
      <3>2. Now(r) \in All(r) \cup {"none"}
        BY <1>5, AllOf DEF Now
      <3>3. QED BY <1>5, <3>1, <3>2
    <2>2. CASE s # <<>>
      <3>1. /\ s \o r \in Seq(Label) /\ s \o r # <<>> /\ Now(s \o r) = Now(s)
            /\ Later(s \o r) = Later(s) \cup All(r)
        BY <1>3, <1>5, <2>2, Prepend
      <3>2. All(s \o r) = Later(s \o r) \cup {Now(s \o r)}
        BY <3>1, AllOf
      <3>3. QED BY <3>1, <3>2
    <2>3. QED BY <2>1, <2>2
  <1> DEFINE q == s \o r
  <1>7. pc' = [pc EXCEPT ![t] = q]
    BY <1>4
  <1> HIDE DEF q
  <1>8. pc'[t] = q /\ OnlyPc(t)
    BY <1>4, <1>7 DEF OnlyPc
  <1>9. ~Opens(t)'
    <2>1. Now(q) \notin {"accepted", "set_connected"}
      BY <1>3, <1>4, <1>5, <1>6 DEF Follow, q
    <2>2. QED BY <1>8, <2>1 DEF Opens
  <1>10. ASSUME "deliver" \in All(pc[Io]) PROVE "deliver" \in All(pc'[Io])
    <2>1. CASE Io = t
      <3>1. "deliver" \in Later(pc[t])
        BY <1>1, <1>4, <1>10, <2>1, AllOf
      <3>2. "deliver" \in All(q)
        BY <1>5, <1>6, <3>1 DEF q
      <3>3. QED BY <1>8, <2>1, <3>2
    <2>2. CASE Io # t
      <3>1. Io \in Threads
        BY DEF Threads
      <3>2. QED BY <1>8, <1>10, <2>2, <3>1 DEF OnlyPc
    <2>3. QED BY <2>1, <2>2
  <1>11. ~Unopened => ~Unopened'
    BY <1>1, <1>8, <1>9, OpenedStays DEF Aside
  <1>12. QED BY <1>1, <1>10, <1>11 DEF Harmless, Aside

LEMMA LabelIsTail ==
    /\ <<>> \in Tails /\ <<"trigger_receive", "recv">> \in Tails /\ <<"trigger_send", "send">> \in Tails
    /\ \A l \in Label \ {"accepted", "set_connected"} : <<l>> \in Tails
  BY DEF Tails

\* The steps that have nothing to do with messages read, or with opening.
LEMMA StepMoves ==
    ASSUME NEW t \in Threads,
           \/ Trigger(t) \/ PutIntoPendingQueue(t) \/ TestSend(t) \/ LockSend(t) \/ GetFromPendingQueue(t)
           \/ StartWrite(t) \/ UnlockSend(t) \/ Recheck(t) \/ TestReceive(t) \/ LockReceive(t)
           \/ StartRead(t) \/ UnlockReceive(t) \/ Recharge(t) \/ TestToken(t)
    PROVE  Moves(t)
  <1> USE AtNow, LabelIsTail DEF Moves, Aside, confVars, connVars, inVars, Label
  <1>1. CASE Trigger(t)
    BY <1>1 DEF Trigger
  <1>2. CASE PutIntoPendingQueue(t)
    BY <1>2 DEF PutIntoPendingQueue
  <1>3. CASE TestSend(t)
    BY <1>3 DEF TestSend
  <1>4. CASE LockSend(t)
    BY <1>4 DEF LockSend
  <1>5. CASE GetFromPendingQueue(t)
    BY <1>5 DEF GetFromPendingQueue
  <1>6. CASE StartWrite(t)
    BY <1>6 DEF StartWrite
  <1>7. CASE UnlockSend(t)
    BY <1>7 DEF UnlockSend
  <1>8. CASE Recheck(t)
    BY <1>8 DEF Recheck
  <1>9. CASE TestReceive(t)
    BY <1>9 DEF TestReceive
  <1>10. CASE LockReceive(t)
    BY <1>10 DEF LockReceive
  <1>11. CASE StartRead(t)
    BY <1>11 DEF StartRead
  <1>12. CASE UnlockReceive(t)
    BY <1>12 DEF UnlockReceive
  <1>13. CASE Recharge(t)
    BY <1>13 DEF Recharge
  <1>14. CASE TestToken(t)
    BY <1>14 DEF TestToken
  <1>15. QED BY <1>1, <1>2, <1>3, <1>4, <1>5, <1>6, <1>7, <1>8, <1>9, <1>10, <1>11, <1>12, <1>13, <1>14

\* Steps that leave the positions alone, or happen before the stream is open.
LEMMA StillHarmless ==
    ASSUME UNCHANGED <<inbound, pos, frame, items, delivered>>,
           \/ Unopened
           \/ UNCHANGED <<pc, status, link>>
           \/ Close /\ UNCHANGED pc
    PROVE  Harmless
  <1>1. CASE Unopened
    BY <1>1 DEF Harmless
  <1>2. CASE UNCHANGED <<pc, status, link>>
    BY <1>2 DEF Harmless, Unopened, Opens
  <1>3. CASE Close /\ UNCHANGED pc
    BY <1>3 DEF Harmless, Unopened, Opens, Close
  <1>4. QED BY <1>1, <1>2, <1>3

\* A thread at rest begins something other than to open the stream; the IO thread
\* has nothing to deliver then.
LEMMA BeginHarmless ==
    ASSUME IInv, UNCHANGED <<inbound, pos, frame, items, delivered, status, link>>,
           NEW t \in Threads, Idle(t), NEW q, pc' = [pc EXCEPT ![t] = q],
           Now(q) \notin {"accepted", "set_connected"}
    PROVE  Harmless
  <1>1. pc'[t] = q /\ OnlyPc(t)
    BY DEF IInv, PcInv, OnlyPc
  <1>2. ~Opens(t)'
    BY <1>1 DEF Opens
  <1>3. ~Unopened => ~Unopened'
    BY <1>1, <1>2, OpenedStays
  <1>4. "deliver" \in All(pc[Io]) => "deliver" \in All(pc'[Io])
    <2>1. CASE Io = t
      BY <2>1, IdleNow
    <2>2. CASE Io # t
      BY <1>1, <2>2 DEF OnlyPc, Threads
    <2>3. QED BY <2>1, <2>2
  <1>5. QED BY <1>3, <1>4 DEF Harmless

LEMMA OnWriteLastHarmless ==
    ASSUME IInv, OnWriteLast
    PROVE  Harmless
  <1> DEFINE a == <<"unlock", "send">>
             b == IF net_type = "NT_SERVER" THEN <<"recv">> ELSE <<>>
             q == a \o b
  <1>1. Idle(Io) /\ Io \in Threads /\ pc' = [pc EXCEPT ![Io] = q]
    BY DEF OnWriteLast, Threads
  <1>2. UNCHANGED <<inbound, pos, frame, items, delivered, status, link>>
    BY DEF OnWriteLast, confVars, connVars, inVars
  <1>3. Now(q) = "unlock"
    <2>1. \A x, y \in Label : <<x, y>> \in Seq(Label) /\ <<x, y>> # <<>>
      OBVIOUS
    <2>2. \A x \in Label : <<x>> \in Seq(Label)
      OBVIOUS
    <2>3. {"unlock", "send", "recv"} \subseteq Label /\ <<>> \in Seq(Label)
      BY DEF Label
    <2>4. a \in Seq(Label) /\ a # <<>> /\ b \in Seq(Label)
      BY <2>1, <2>2, <2>3
    <2>5. Now(a) = "unlock"
      BY DEF Now
    <2> HIDE DEF a, b
    <2>6. QED BY <2>4, <2>5, Prepend
  <1> HIDE DEF q
  <1>4. QED BY <1>1, <1>2, <1>3, BeginHarmless

LEMMA TimerMaintainHarmless ==
    ASSUME IInv, TimerMaintain
    PROVE  Harmless
  <1> DEFINE a == IF "in" \in limited THEN <<"recharge_read", "test_read">> ELSE <<>>
             b == IF "out" \in limited THEN <<"recharge_write", "test_write">> ELSE <<>>
             q == a \o b
  <1>1. Idle(Maint) /\ Maint \in Threads /\ pc' = [pc EXCEPT ![Maint] = q]
    BY DEF TimerMaintain, Threads
  <1>2. UNCHANGED <<inbound, pos, frame, items, delivered, status, link>>
    BY DEF TimerMaintain, confVars, connVars, inVars
  <1>3. Now(q) \notin {"accepted", "set_connected"}
    <2>1. \A x, y \in Label : <<x, y>> \in Seq(Label) /\ <<x, y>> # <<>>
      OBVIOUS
    <2>2. \A x, y \in Label : Now(<<x, y>>) = x
      BY DEF Now
    <2>3. /\ {"recharge_read", "test_read", "recharge_write", "test_write"} \subseteq Label
          /\ <<>> \in Seq(Label) /\ Now(<<>>) = "none"
      BY DEF Label, Now
    <2>4. a \in Seq(Label) /\ (a # <<>> => Now(a) = "recharge_read")
      BY <2>1, <2>2, <2>3
    <2>5. b \in Seq(Label) /\ Now(b) \in {"none", "recharge_write"}
      BY <2>1, <2>2, <2>3
    <2> HIDE DEF a, b
    <2>6. CASE a = <<>>
      <3>1. q = b
        BY <2>5, <2>6
      <3>2. QED BY <2>5, <3>1
    <2>7. CASE a # <<>>
      <3>1. Now(q) = Now(a)
        BY <2>4, <2>5, <2>7, Prepend
      <3>2. QED BY <2>4, <2>7, <3>1
    <2>8. QED BY <2>6, <2>7
  <1> HIDE DEF q
  <1>4. QED BY <1>1, <1>2, <1>3, BeginHarmless

LEMMA AsyncSendMessageHarmless ==
    ASSUME IInv, NEW p \in Producers, AsyncSendMessage(p)
    PROVE  Harmless
  <1> DEFINE q == <<"put", "send">>
  <1>1. UNCHANGED <<inbound, pos, frame, items, delivered, status, link>>
    BY DEF AsyncSendMessage, confVars, connVars, inVars
  <1>2. Idle(p) /\ p \in Threads /\ (UNCHANGED pc \/ pc' = [pc EXCEPT ![p] = q])
    BY DEF AsyncSendMessage, Threads
  <1>3. Now(q) = "put"
    BY DEF Now
  <1> HIDE DEF q
  <1>4. CASE UNCHANGED pc
    BY <1>1, <1>4, StillHarmless
  <1>5. CASE pc' = [pc EXCEPT ![p] = q]
    BY <1>1, <1>2, <1>3, <1>5, BeginHarmless
  <1>6. QED BY <1>2, <1>4, <1>5

LEMMA OthersHarmless ==
    ASSUME IInv, Connecting \/ ShutDown \/ OnWriteSome \/ OnReadIgnored \/ OnReadError
    PROVE  Harmless
  <1>1. CASE Connecting
    <2>1. link \in {"new", "connecting"} /\ UNCHANGED <<inbound, pos, frame, items, delivered>>
      BY <1>1 DEF Connecting, AsyncConnect, OnConnect, OnConnectTimeout, OnAccept, confVars, inVars
    <2>2. QED BY <2>1, StillHarmless DEF Unopened
  <1>2. CASE ShutDown
    BY <1>2, StillHarmless DEF ShutDown, confVars, inVars
  <1>3. CASE OnWriteIgnored \/ OnWritePart
    BY <1>3, StillHarmless DEF OnWriteIgnored, OnWritePart, confVars, connVars, inVars
  <1>4. CASE OnWriteError
    BY <1>4, StillHarmless DEF OnWriteError, confVars, inVars
  <1>5. CASE OnReadIgnored
    BY <1>5, StillHarmless DEF OnReadIgnored, confVars, connVars
  <1>6. CASE OnReadError
    BY <1>6, StillHarmless DEF OnReadError, confVars
  <1>7. QED BY <1>1, <1>2, <1>3, <1>4, <1>5, <1>6, OnWriteLastHarmless DEF OnWriteSome

\* Opening: nothing has been read before.
LEMMA OpeningHarmless ==
    ASSUME IInv, FrameInv, NEW t \in Threads, Accepted(t) \/ SetSocketConnected(t)
    PROVE  Harmless
  <1>1. Unopened
    BY AtNow DEF Accepted, SetSocketConnected, Unopened, Opens
  <1>2. pos = 0 /\ frame = NewFrame
    BY <1>1 DEF FrameInv, IInv, StreamTypeOK
  <1>3. UNCHANGED <<inbound, pos, frame, items, delivered>>
    BY <1>2 DEF Accepted, SetSocketConnected, confVars, inVars
  <1>4. QED BY <1>1, <1>3, StillHarmless

----------------------------------------------------------------------------
(* Reading and delivering.                                                 *)

LEMMA CatBodies ==
    ASSUME NEW d \in Seq(Bytes), NEW o \in Seq(Bytes), Bodies(d, 0), Bodies(o, Len(d))
    PROVE  Len(d \o o) = Len(d) + Len(o) /\ Bodies(d \o o, 0)
  <1> DEFINE c == d \o o
  <1>1. /\ Len(c) = Len(d) + Len(o) /\ Len(d) \in Nat /\ Len(o) \in Nat
        /\ \A i \in 1 .. Len(d) + Len(o) : c[i] = IF i <= Len(d) THEN d[i] ELSE o[i - Len(d)]
    OBVIOUS
  <1> HIDE DEF c
  <1>2. ASSUME NEW i \in 1 .. Len(d) + Len(o) PROVE c[i] = BodyOf(0 + i)
    <2>1. CASE i <= Len(d)
      <3>1. i \in 1 .. Len(d)
        BY <2>1
      <3>2. QED BY <1>1, <2>1, <3>1 DEF Bodies
    <2>2. CASE ~(i <= Len(d))
      <3> DEFINE j == i - Len(d)
      <3>1. j \in 1 .. Len(o) /\ Len(d) + j = 0 + i
        BY <1>1, <2>2
      <3>2. o[j] = BodyOf(Len(d) + j)
        BY <3>1 DEF Bodies
      <3>3. QED BY <1>1, <2>2, <3>1, <3>2
    <2>3. QED BY <2>1, <2>2
  <1>3. Bodies(c, 0)
    BY <1>1, <1>2 DEF Bodies
  <1>4. QED BY <1>1, <1>3 DEF c

LEMMA FirstMoves ==
    ASSUME NEW S, NEW d \in Seq(S), NEW i \in Seq(S), i # <<>>
    PROVE  /\ Append(d, Head(i)) \in Seq(S) /\ Tail(i) \in Seq(S)
           /\ Append(d, Head(i)) \o Tail(i) = d \o i
  <1> DEFINE a == Append(d, Head(i))
             b == Tail(i)
             x == a \o b
             y == d \o i
  <1>1. /\ a \in Seq(S) /\ b \in Seq(S) /\ Len(a) = Len(d) + 1 /\ Len(b) = Len(i) - 1
        /\ Len(d) \in Nat /\ Len(i) \in Nat \ {0}
        /\ \A k \in 1 .. Len(d) : a[k] = d[k]
        /\ a[Len(d) + 1] = i[1]
        /\ \A k \in 1 .. Len(i) - 1 : b[k] = i[k + 1]
    OBVIOUS
  <1> HIDE DEF a, b
  <1>2. /\ x \in Seq(S) /\ Len(x) = Len(a) + Len(b)
        /\ \A k \in 1 .. Len(a) + Len(b) : x[k] = IF k <= Len(a) THEN a[k] ELSE b[k - Len(a)]
    BY <1>1, ConcatProperties
  <1>3. /\ y \in Seq(S) /\ Len(y) = Len(d) + Len(i)
        /\ \A k \in 1 .. Len(d) + Len(i) : y[k] = IF k <= Len(d) THEN d[k] ELSE i[k - Len(d)]
    OBVIOUS
  <1> HIDE DEF x, y
  <1>4. Len(x) = Len(y) /\ Len(a) + Len(b) = Len(d) + Len(i)
    BY <1>1, <1>2, <1>3
  <1>5. ASSUME NEW k \in 1 .. Len(d) + Len(i) PROVE x[k] = y[k]
    <2>1. CASE k <= Len(d)
      <3>1. k \in 1 .. Len(d) /\ k <= Len(a)
        BY <1>1, <2>1
      <3>2. a[k] = d[k]
        BY <1>1, <3>1
      <3>3. k \in 1 .. Len(a) + Len(b)
        BY <1>4
      <3>4. x[k] = a[k]
        BY <1>2, <3>1, <3>3
      <3>5. y[k] = d[k]
        BY <1>3, <2>1
      <3>6. QED BY <3>2, <3>4, <3>5
    <2>2. CASE k = Len(d) + 1
      <3>1. k - Len(d) = 1 /\ ~(k <= Len(d)) /\ k <= Len(a)
        BY <1>1, <2>2
      <3>2. QED BY <1>1, <1>2, <1>3, <1>4, <2>2, <3>1
    <2>3. CASE k > Len(d) + 1
      <3>1. /\ k - Len(a) \in 1 .. Len(i) - 1 /\ k - Len(a) + 1 = k - Len(d)
            /\ ~(k <= Len(d)) /\ ~(k <= Len(a))
        BY <1>1, <2>3
      <3>2. x[k] = b[k - Len(a)] /\ y[k] = i[k - Len(d)]
        BY <1>2, <1>3, <1>4, <3>1
      <3>3. b[k - Len(a)] = i[k - Len(a) + 1]
        BY <1>1, <3>1
      <3>4. QED BY <3>1, <3>2, <3>3
    <2>4. QED BY <1>1, <2>1, <2>2, <2>3
  <1>6. x = y
    BY <1>2, <1>3, <1>4, <1>5, SameSeq
  <1>7. QED BY <1>1, <1>6 DEF a, b, x, y

LEMMA OnReceivedFrame ==
    ASSUME IInv, FrameInv, NEW t \in Threads, OnReceived(t)
    PROVE  FrameInv'
  <1>1. UNCHANGED <<inbound, pos, frame, status, link>> /\ pos \in Nat /\ InOK
    BY InboundOK DEF OnReceived, confVars, connVars, IInv, StreamTypeOK
  <1>2. CASE status # "CLOSED" /\ items # <<>> /\ delivered' = Append(delivered, Head(items))
             /\ items' = Tail(items) /\ UNCHANGED pc
    <2>1. items \in Seq(Bytes) /\ delivered \in Seq(Bytes) /\ pos > 0 /\ ~Unopened
      BY <1>1, <1>2 DEF FrameInv
    <2>2. items' \in Seq(Bytes) /\ delivered' \in Seq(Bytes) /\ Got' = Got
      BY <1>2, <2>1, FirstMoves DEF Got
    <2>3. ~Unopened'
      BY <1>1, <1>2, <2>1 DEF Unopened, Opens
    <2>4. Bodies(Got, 0)' /\ Len(Got') <= Len(inbound')
      BY <1>1, <2>2 DEF FrameInv, Bodies, BodyOf
    <2>5. "deliver" \in All(pc'[Io])
      BY <1>2 DEF FrameInv
    <2>6. Parsed(frame, Len(Got), pos)'
      <3>1. Parsed(frame, Len(Got), pos)
        BY <1>2 DEF FrameInv
      <3>2. QED BY <1>1, <2>2, <3>1, SameStream DEF Parsed
    <2>7. pos' # 0
      BY <1>1, <2>1
    <2>8. QED BY <2>2, <2>3, <2>4, <2>5, <2>6, <2>7 DEF FrameInv
  <1>3. CASE (status = "CLOSED" \/ items = <<>>) /\ items' = <<>> /\ Then(t, <<>>) /\ UNCHANGED delivered
    <2>1. pc[t] # <<>> /\ OnlyPc(t) /\ Now(pc'[t]) \in Later(pc[t]) \cup {"none"} /\ Later(pc[t]) \subseteq Follow
      BY <1>3, AtNow, Drops DEF OnReceived, IInv, PcInv, PcAt
    <2>2. ~Opens(t)'
      BY <2>1 DEF Opens, Follow
    <2>3. pos' > 0 => ~Unopened'
      BY <1>1, <2>1, <2>2, OpenedStays DEF FrameInv
    <2>4. items \in Seq(Bytes) /\ delivered \in Seq(Bytes) /\ Got' = delivered
      BY <1>3 DEF FrameInv, Got
    <2>5. Len(delivered) <= Len(Got) /\ Len(delivered) \in Nat /\ Len(Got) \in Nat
          /\ \A i \in 1 .. Len(delivered) : Got[i] = delivered[i]
      <3>1. /\ Len(delivered \o items) = Len(delivered) + Len(items)
            /\ \A i \in 1 .. Len(delivered) : (delivered \o items)[i] = delivered[i]
            /\ Len(delivered) \in Nat /\ Len(items) \in Nat
        BY <2>4
      <3>2. QED BY <3>1 DEF Got
    <2>6. Bodies(delivered, 0) /\ Len(delivered) <= Len(inbound)
      <3>1. Bodies(Got, 0) /\ Len(Got) <= Len(inbound) /\ Len(inbound) \in Nat
        BY <1>1, SizeFacts DEF FrameInv
      <3>2. \A i \in 1 .. Len(delivered) : i \in 1 .. Len(Got)
        BY <2>5
      <3>3. QED BY <2>5, <3>1, <3>2 DEF Bodies
    <2>7. Bodies(Got, 0)' /\ Len(Got') <= Len(inbound')
      BY <1>1, <2>4, <2>6 DEF Bodies, BodyOf
    <2>8. status' # "CLOSED" => Parsed(frame, Len(Got), pos)'
      <3>1. SUFFICES ASSUME status' # "CLOSED" PROVE Parsed(frame, Len(Got), pos)'
        OBVIOUS
      <3>2. Parsed(frame, Len(Got), pos) /\ items = <<>>
        BY <1>1, <1>3, <3>1 DEF FrameInv
      <3>3. Got' = Got
        BY <2>4, <3>2 DEF Got
      <3>4. QED BY <1>1, <3>2, <3>3, SameStream DEF Parsed
    <2>9. pos' = 0 => items' = <<>> /\ delivered' = <<>> /\ frame' = NewFrame
      BY <1>1, <1>3 DEF FrameInv
    <2>10. items' \in Seq(Bytes) /\ delivered' \in Seq(Bytes)
      BY <1>3, <2>4
    <2>11. QED BY <1>3, <2>3, <2>7, <2>8, <2>9, <2>10 DEF FrameInv
  <1>4. QED BY <1>2, <1>3 DEF OnReceived

LEMMA OnReadSomeFrame ==
    ASSUME IInv, FrameInv, OnReadSome
    PROVE  FrameInv'
  <1>1. /\ UNCHANGED <<inbound, delivered>> /\ Idle(Io) /\ Io \in Threads /\ status = "CONNECTED"
        /\ pos \in Nat /\ InOK
    BY InboundOK DEF OnReadSome, confVars, IInv, StreamTypeOK, Threads
  <1>2. ~Unopened
    BY <1>1 DEF IInv, OpenInv
  <1>3. items = <<>> /\ delivered \in Seq(Bytes) /\ Bodies(delivered, 0) /\ Parsed(frame, Len(delivered), pos)
    <2>1. items = <<>>
      BY <1>1, IdleNow DEF FrameInv
    <2>2. delivered \in Seq(Bytes) /\ Got = delivered
      BY <2>1 DEF FrameInv, Got
    <2>3. QED BY <1>1, <2>1, <2>2 DEF FrameInv
  <1>4. PICK k \in 1 .. Len(Peer) - pos :
           LET s == Split(frame, SubSeq(Peer, pos + 1, pos + k)) IN
           /\ pos' = pos + k
           /\ frame' = s.frame
           /\ \/ s.state = "broken" /\ Close /\ UNCHANGED <<items, pc>>
              \/ /\ s.state # "broken" /\ items' = s.out
                 /\ pc' = [pc EXCEPT ![Io] = <<"runlock", "recv", "deliver">>]
                 /\ UNCHANGED connVars
    BY DEF OnReadSome
  <1> DEFINE q == pos + k
             s == Split(frame, Window(pos, q))
             n0 == Len(delivered)
  <1>5. Len(Peer) \in Nat
    BY <1>1, PeerBytes
  <1>6. q \in Nat /\ pos <= q /\ q <= Len(Peer) /\ q > 0
    BY <1>1, <1>4, <1>5
  <1>7. /\ pos' = q /\ frame' = s.frame
        /\ \/ s.state = "broken" /\ Close /\ UNCHANGED <<items, pc>>
           \/ /\ s.state # "broken" /\ items' = s.out
              /\ pc' = [pc EXCEPT ![Io] = <<"runlock", "recv", "deliver">>]
              /\ UNCHANGED connVars
    BY <1>4 DEF Window
  <1>8. n0 \in Nat
    BY <1>3
  <1> HIDE DEF q, n0
  <1>9. /\ s \in LoopT /\ n0 + Len(s.out) <= Len(inbound) /\ Bodies(s.out, n0)
        /\ s.state # "broken" => Parsed(s.frame, n0 + Len(s.out), q)
    BY <1>1, <1>3, <1>6, <1>8, SplitGoes DEF n0
  <1> HIDE DEF s
  <1>10. pos' > 0 /\ pos' # 0
    BY <1>6, <1>7
  <1>11. CASE s.state = "broken" /\ Close /\ UNCHANGED <<items, pc>>
    <2>1. status' = "CLOSED" /\ ~Unopened'
      BY <1>2, <1>11 DEF Close, Unopened, Opens
    <2>2. Got' = Got /\ items' = <<>> /\ delivered' \in Seq(Bytes)
      BY <1>1, <1>3, <1>11 DEF Got
    <2>3. Bodies(Got, 0)' /\ Len(Got') <= Len(inbound')
      BY <1>1, <2>2 DEF FrameInv, Bodies, BodyOf
    <2>4. items' \in Seq(Bytes)
      BY <2>2
    <2>5. QED BY <1>10, <2>1, <2>2, <2>3, <2>4 DEF FrameInv
  <1>12. CASE /\ s.state # "broken" /\ items' = s.out
              /\ pc' = [pc EXCEPT ![Io] = <<"runlock", "recv", "deliver">>]
              /\ UNCHANGED connVars
    <2> DEFINE a == <<"runlock", "recv", "deliver">>
    <2>1. Now(a) = "runlock"
      BY DEF Now
    <2>2. "deliver" \in All(a)
      <3>1. Len(a) = 3 /\ a[3] = "deliver" /\ 3 \in 1 .. 3
        OBVIOUS
      <3>2. QED BY <3>1 DEF All
    <2> HIDE DEF a
    <2>3. pc'[Io] = a /\ OnlyPc(Io)
      BY <1>1, <1>12 DEF IInv, PcInv, OnlyPc, a
    <2>4. ~Unopened'
      <3>1. ~Opens(Io)'
        BY <2>1, <2>3 DEF Opens
      <3>2. link' = link
        BY <1>12 DEF connVars
      <3>3. QED BY <1>1, <1>2, <2>3, <3>1, <3>2, OpenedStays
    <2>5. s.out \in Seq(Bytes) /\ Got' = delivered \o s.out
      BY <1>1, <1>9, <1>12 DEF LoopT, Got
    <2>6. Len(Got') = n0 + Len(s.out) /\ Bodies(delivered \o s.out, 0)
      BY <1>3, <1>9, <2>5, CatBodies DEF n0
    <2>7. Bodies(Got, 0)' /\ Len(Got') <= Len(inbound')
      BY <1>1, <1>9, <2>5, <2>6 DEF Bodies, BodyOf
    <2>8. Parsed(frame, Len(Got), pos)'
      <3>1. Parsed(s.frame, n0 + Len(s.out), q)
        BY <1>9, <1>12
      <3>2. PICK f, n, p : f = s.frame /\ n = n0 + Len(s.out) /\ p = q
        OBVIOUS
      <3>3. Parsed(f, n, p)'
        BY <1>1, <3>1, <3>2, SameStream
      <3>4. frame' = f /\ Len(Got') = n /\ pos' = p
        BY <1>7, <2>6, <3>2
      <3>5. QED BY <3>3, <3>4 DEF Parsed
    <2>9. items' \in Seq(Bytes) /\ delivered' \in Seq(Bytes)
      BY <1>1, <1>3, <1>12, <2>5
    <2>10. QED BY <1>10, <2>2, <2>3, <2>4, <2>7, <2>8, <2>9 DEF FrameInv
  <1>13. QED BY <1>7, <1>11, <1>12

LEMMA FrameInit ==
    ASSUME Init
    PROVE  FrameInv
  <1>1. InOK
    BY InitKeeps, InboundOK DEF IInv
  <1>2. pos = 0 /\ frame = NewFrame /\ items = <<>> /\ delivered = <<>>
    BY DEF Init
  <1>3. Got = <<>> /\ Len(Got) = 0
    BY <1>2 DEF Got
  <1>4. Parsed(NewFrame, 0, 0) /\ 0 <= Len(inbound)
    <2>1. 0 \in 0 .. Len(inbound) /\ E(0) = 0 /\ 0 <= Len(inbound)
      BY <1>1, SizeFacts, EndsFacts
    <2>2. QED BY <1>1, <2>1, ParsedNew
  <1>5. Bodies(Got, 0)
    BY <1>3 DEF Bodies
  <1>6. <<>> \in Seq(Bytes)
    BY EmptySeq
  <1>7. QED BY <1>2, <1>3, <1>4, <1>5, <1>6 DEF FrameInv

LEMMA FrameNext ==
    ASSUME IInv, FrameInv, [Next]_vars
    PROVE  FrameInv'
  <1>0. StreamTypeOK
    BY DEF IInv
  <1>1. ASSUME NEW t \in Threads, Step(t) PROVE FrameInv'
    BY <1>0, <1>1, OnReceivedFrame, OpeningHarmless, StepMoves, MovesHarmless, HarmlessKeeps DEF Step
  <1>2. ASSUME NEW p \in Producers, AsyncSendMessage(p) PROVE FrameInv'
    BY <1>0, <1>2, AsyncSendMessageHarmless, HarmlessKeeps
  <1>3. CASE Connecting \/ ShutDown \/ OnWriteSome \/ OnRead
    BY <1>0, <1>3, OthersHarmless, OnReadSomeFrame, HarmlessKeeps DEF OnRead
  <1>4. CASE TimerMaintain
    BY <1>0, <1>4, TimerMaintainHarmless, HarmlessKeeps
  <1>5. CASE UNCHANGED vars
    <2>1. UNCHANGED <<inbound, pos, frame, items, delivered, pc, status, link>>
      BY <1>5 DEF vars, confVars, connVars, inVars
    <2>2. QED BY <1>0, <2>1, StillHarmless, HarmlessKeeps
  <1>6. QED BY <1>1, <1>2, <1>3, <1>4, <1>5 DEF Next

\* However the peer's bytes are cut into reads and whenever the stream is closed,
\* on_received gets the bodies of the peer's messages, each whole and in order, and
\* until the first close all those whose last byte split_and_process_message has seen.
THEOREM FramesAlwaysExact == Spec => []FramesExact
  <1>1. IInv /\ FrameInv => FramesExact
    <2> SUFFICES ASSUME IInv, FrameInv PROVE FramesExact
      OBVIOUS
    <2> DEFINE L == Len(inbound)
               P(n) == Len(Stream[n]) <= pos /\ (n < L => Len(Stream[n + 1]) > pos)
    <2>1. InOK /\ pos \in Nat /\ (closes = 0 => status # "CLOSED")
      BY InboundOK DEF IInv, StreamTypeOK, OpenInv
    <2>2. \A i \in DOMAIN Got : Got[i] = BodyOf(i)
      <3>1. DOMAIN Got = 1 .. Len(Got)
        BY DEF FrameInv, Got
      <3>2. QED BY <3>1 DEF FrameInv, Bodies
    <2>3. ASSUME closes = 0 PROVE Len(Got) = CHOOSE n \in 0 .. L : P(n)
      <3> DEFINE g == Len(Got)
      <3>1. Parsed(frame, g, pos)
        BY <2>1, <2>3 DEF FrameInv
      <3>2. g \in 0 .. L /\ E(g) <= pos /\ (g < L => pos < E(g + 1))
        BY <2>1, <3>1, ParsedEnds
      <3>3. L \in Nat /\ \A n \in 0 .. L : E(n) \in Nat
        BY <2>1, SizeFacts, StreamType
      <3>4. \A n \in 0 .. L : \A m \in 0 .. n - 1 : E(m) < E(n)
        BY <2>1, EndsGrow
      <3> HIDE DEF g, L
      <3>5. \A n \in 0 .. L : P(n) <=> E(n) <= pos /\ (n < L => E(n + 1) > pos)
        BY DEF E
      <3>6. P(g)
        <4>1. g < L => g + 1 \in 0 .. L
          BY <3>2, <3>3
        <4>2. g < L => E(g + 1) > pos
          BY <2>1, <3>2, <3>3, <4>1
        <4>3. QED BY <3>2, <3>5, <4>2
      <3>7. ASSUME NEW n \in 0 .. L, P(n) PROVE n = g
        <4>1. E(n) <= pos /\ (n < L => E(n + 1) > pos)
          BY <3>5, <3>7
        <4>2. CASE n < g
          <5>1. n + 1 \in 0 .. L /\ n < L /\ (n + 1 = g \/ n + 1 \in 0 .. g - 1)
            BY <3>2, <3>3, <4>2
          <5>2. E(n + 1) <= E(g)
            <6>1. CASE n + 1 = g
              BY <3>2, <3>3, <6>1
            <6>2. CASE n + 1 \in 0 .. g - 1
              <7>1. E(n + 1) < E(g)
                BY <3>2, <3>4, <6>2
              <7>2. QED BY <3>2, <3>3, <5>1, <7>1
            <6>3. QED BY <5>1, <6>1, <6>2
          <5>3. QED BY <2>1, <3>2, <3>3, <4>1, <5>1, <5>2
        <4>3. CASE g < n
          <5>1. g + 1 \in 0 .. L /\ g < L /\ (g + 1 = n \/ g + 1 \in 0 .. n - 1)
            BY <3>2, <3>3, <4>3
          <5>2. E(g + 1) <= E(n)
            <6>1. CASE g + 1 = n
              BY <3>3, <6>1
            <6>2. CASE g + 1 \in 0 .. n - 1
              <7>1. E(g + 1) < E(n)
                BY <3>4, <6>2
              <7>2. QED BY <3>3, <5>1, <7>1
            <6>3. QED BY <5>1, <6>1, <6>2
          <5>3. QED BY <2>1, <3>2, <3>3, <4>1, <5>1, <5>2
        <4>4. QED BY <3>2, <3>3, <4>2, <4>3
      <3> HIDE DEF P
      <3>8. (CHOOSE n \in 0 .. L : P(n)) = g
        BY <3>2, <3>6, <3>7
      <3>9. QED BY <3>8 DEF g
    <2>4. QED BY <2>2, <2>3 DEF FramesExact, Got
  <1>2. Init => FrameInv
    BY FrameInit
  <1>3. IInv /\ FrameInv /\ [Next]_vars => FrameInv'
    BY FrameNext
  <1>4. QED BY <1>1, <1>2, <1>3, Invariance, PTL DEF Spec
============================================================================
