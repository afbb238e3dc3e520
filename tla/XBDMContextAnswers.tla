------------------------ MODULE XBDMContextAnswers ------------------------
(***************************************************************************)
(* Theorems about what OnBytesRead does with the bytes of a transport that *)
(* was never connected by two threads at once (not in "contested"): the    *)
(* request it takes from the queue before it parses is the one it          *)
(* completes, and the response it completes it with answers that request.  *)
(* XBDMContextMessages has the invariant AnswersInv and follows the one    *)
(* message that is between Send and OnBytesRead; this module keeps the     *)
(* rest of the invariant.                                                  *)
(***************************************************************************)
EXTENDS XBDMContextMessages

----------------------------------------------------------------------------
(* The callers and the target                                              *)

\* The steps of the callers and of Shutdown keep the transports sound.
LEMMA SoundCaller ==
  ASSUME ConstantsAssumption, AnswersInv, Caller \/ Shutdown, NEW u \in Transport \ contested
  PROVE  Sound(u)'
<1>1. TypeOK /\ Sound(u)
  BY Zenon, Parts
<1>2. ASSUME NEW h \in Handler, CreateDedicatedChannel(h)
      PROVE  Sound(u)'
  <2>1. /\ Allocate("app", h) /\ h \in Then
        /\ UNCHANGED <<state_, is_shutdown_, socket_, request_queue_, buffers, exec, passed>>
    BY Zenon, <1>2, Names DEF CreateDedicatedChannel
  <2> QED
    BY Zenon, <2>1, SoundAllocate, Names
<1>3. \/ \E h \in Handler : CreateDedicatedChannel(h)
      \/ /\ UNCHANGED <<socket_, request_queue_, buffers, exec, passed>>
         /\ \/ UNCHANGED <<op, state_, is_shutdown_>>
            \/ Reconnect("app")
            \/ \E t \in {xbdm_transport_} \cup {dedicated_transports_[h] : h \in Handler} :
                 \E then \in Then : t # None /\ BeginClose("app", t, then)
  <2>1. ASSUME NEW r \in Request, SendCommand(r)
        PROVE  UNCHANGED <<socket_, request_queue_, buffers, exec, passed, op, state_, is_shutdown_>>
    BY Zenon, <2>1 DEF SendCommand, conn
  <2>2. CASE StopSelectThread \/ StopExecutor \/ JoinExecutor
    BY Zenon, <2>2 DEF StopSelectThread, StopExecutor, JoinExecutor, conn
  <2>3. CASE ReconnectXBDM
    BY Zenon, <2>3 DEF ReconnectXBDM
  <2>4. CASE CloseActiveConnections
    BY Zenon, <2>4, Names DEF CloseActiveConnections
  <2>5. ASSUME NEW h \in Handler, DestroyDedicatedChannel(h)
        PROVE  /\ UNCHANGED <<socket_, request_queue_, buffers, exec, passed>>
               /\ dedicated_transports_[h] # None /\ BeginClose("app", dedicated_transports_[h], "erase")
    BY Zenon, <2>5 DEF DestroyDedicatedChannel
  <2>6. CASE ShutdownClose
    <3>1. xbdm_transport_ # None
      BY Zenon, <2>6, Parts DEF CallInv, ShutdownClose
    <3> QED
      BY Zenon, <2>6, <3>1, Names DEF ShutdownClose
  <2> QED
    BY Zenon, <2>1, <2>2, <2>3, <2>4, <2>5, <2>6, Names DEF Caller, Shutdown
<1>4. ASSUME UNCHANGED <<socket_, request_queue_, buffers, exec, passed>>
      PROVE  SameBut(u)
  BY Zenon, <1>4, SameUseFacts DEF SameBut, SamePipe, buffers
<1>5. ASSUME SameBut(u), UNCHANGED <<op, state_, is_shutdown_>>
      PROVE  Sound(u)'
  BY Zenon, <1>1, <1>5, Frame, SameCalls DEF SameAt, SameBut
<1>6. ASSUME SameBut(u), NEW t \in {xbdm_transport_} \cup {dedicated_transports_[h] : h \in Handler},
             NEW then \in Then, t # None, BeginClose("app", t, then)
      PROVE  Sound(u)'
  <2>1. /\ xbdm_transport_ \in Transport \cup {None}
        /\ \A h \in Handler : dedicated_transports_[h] \in Transport \cup {None}
    BY Zenon, <1>1 DEF TypeOK
  <2>2. t \in Transport
    BY Zenon, <1>6, <2>1
  <2> QED
    BY Zenon, <1>1, <1>6, <2>2, SoundBeginClose, Names
<1> QED
  BY Zenon, <1>1, <1>2, <1>3, <1>4, <1>5, <1>6, SoundReconnect, Names

\* The target's steps keep the transports sound.
LEMMA SoundTarget ==
  ASSUME AnswersInv, Target, NEW u \in Transport \ contested
  PROVE  Sound(u)'
<1>1. TypeOK /\ Sound(u)
  BY Zenon, Parts
<1>2. PICK t \in Transport : TargetResponds(t) \/ TargetCloses(t)
  BY Zenon DEF Target
<1>3. /\ socket_[t] = "open" /\ EOF \notin {inbound[t][i] : i \in DOMAIN inbound[t]}
      /\ UNCHANGED <<op, exec>>
      /\ UNCHANGED <<state_, is_shutdown_, socket_, request_queue_, passed>>
      /\ UNCHANGED <<write_buffer_, read_buffer_>>
  BY Zenon, <1>2 DEF TargetResponds, TargetCloses, Listening, conn
<1>4. CASE u # t
  <2>1. outbound'[u] = outbound[u] /\ inbound'[u] = inbound[u]
    BY Zenon, <1>1, <1>2, <1>4 DEF TargetResponds, TargetCloses, TypeOK
  <2> QED
    BY Zenon, <1>1, <1>3, <2>1, Frame, SameUseFacts, SameCalls DEF SameAt, SamePipe
<1>5. CASE u = t /\ TargetCloses(t)
  <2>1. inbound'[u] = Append(inbound[u], EOF) /\ outbound' = outbound
    BY Zenon, <1>1, <1>5 DEF TargetCloses, TypeOK
  <2>2. /\ Silent(u) => Silent(u)'
        /\ Greets(u) => Greets(u)'
        /\ Asks(u, exec.request) => Asks(u, exec.request)'
    BY Zenon, <1>3, <1>5, <2>1, EndOfStream
  <2> QED
    BY Zenon, <1>3, <1>5, <2>2, SoundMove
<1>6. CASE u = t /\ TargetResponds(t)
  <2> PICK m : m = Head(outbound[t])
    BY Zenon
  <2> PICK kind \in {"send_binary", "done"} :
        kind = IF m.kind = "command" /\ m.of \in BinaryRequest THEN "send_binary" ELSE "done"
    BY Zenon
  <2> PICK x : x = [kind |-> kind, of |-> m.of]
    BY Zenon
  <2>1. /\ outbound[u] # <<>> /\ outbound'[u] = Tail(outbound[u])
        /\ inbound'[u] = Append(inbound[u], x)
    BY Zenon, <1>1, <1>6 DEF TargetResponds, TypeOK
  <2>2. x.of = m.of /\ (m.of \in Request => x \in Response)
    BY Zenon DEF Response
  <2>3. ~Silent(u) /\ \A y : ~Arriving(u, y)
    BY Zenon, <2>1 DEF Silent, Arriving
  <2>4. ASSUME NEW y \in ToTarget, y.of = exec.request, Leaving(u, y)
        PROVE  Asks(u, exec.request)'
    <3>1. m = y /\ Arriving(u, x)'
      BY Zenon, <1>3, <1>6, <2>1, <2>4, MessageAnswered
    <3>2. x \in Response /\ x.of = exec.request
      BY Zenon, <2>2, <2>4, <3>1 DEF ToTarget
    <3> QED
      BY Zenon, <1>3, <3>1, <3>2 DEF Asks
  <2>5. ~Greets(u) /\ (Asks(u, exec.request) => Asks(u, exec.request)')
    BY Zenon, <2>3, <2>4 DEF Greets, Asks
  <2> QED
    BY Zenon, <1>3, <1>6, <2>3, <2>5, SoundMove
<1> QED
  BY Zenon, <1>2, <1>4, <1>5, <1>6

----------------------------------------------------------------------------
(* Who connects, and what                                                  *)

\* The points of ExecuteXBDMPromise at which the executor may be in a call.
Dials == {"dial", "dialing", "redialing"}

\* A step of one actor inside Close or Connect preserves OwnCalls.
LEMMA OwnEnter ==
  ASSUME OwnCalls, op \in [Actor -> Call], NEW a \in Actor, NEW at \in OpAt,
         NEW t \in Transport \cup {None}, NEW then \in Then, Enter(a, at, t, then),
         then = "open" => a = "exec",
         exec'.at \notin Dials => IF a = "exec" THEN at = "idle" ELSE exec.at \notin Dials
  PROVE  OwnCalls'
<1>1. op'[a].at = at /\ op'[a].then = then /\ \A b \in Actor \ {a} : op'[b] = op[b]
  BY Zenon, EnterFacts
<1> QED
  BY Zenon, <1>1, Names DEF OwnCalls, Dials

\* Likewise for the first steps of Close and Reconnect.
LEMMA OwnBeginClose ==
  ASSUME OwnCalls, op \in [Actor -> Call], NEW a \in Actor, NEW t \in Transport,
         NEW then \in Then, BeginClose(a, t, then), then = "open" => a = "exec",
         exec'.at \notin Dials => a # "exec" /\ exec.at \notin Dials
  PROVE  OwnCalls'
BY Zenon, OwnEnter, Names DEF BeginClose

\* Likewise for Reconnect.
LEMMA OwnReconnect ==
  ASSUME TypeOK, OwnCalls, NEW a \in Actor, Reconnect(a),
         exec'.at \notin Dials => a # "exec" /\ exec.at \notin Dials
  PROVE  OwnCalls'
<1>1. op \in [Actor -> Call] /\ xbdm_transport_ \in Transport \cup {None}
  BY Zenon DEF TypeOK
<1>2. "install" # "open" /\ "idle" # "open"
  BY Zenon
<1>3. CASE xbdm_transport_ # None /\ BeginClose(a, xbdm_transport_, "install")
  BY Zenon, <1>1, <1>2, <1>3, OwnBeginClose, Names
<1>4. CASE Enter(a, "install", None, "idle")
  BY Zenon, <1>1, <1>2, <1>4, OwnEnter, Names
<1> QED
  BY Zenon, <1>3, <1>4 DEF Reconnect

\* A step that moves no actor.
LEMMA OwnFrame ==
  ASSUME OwnCalls, op' = op, exec'.at \notin Dials => exec.at \notin Dials \/ op["exec"].at = "idle"
  PROVE  OwnCalls'
BY Zenon DEF OwnCalls, Dials

\* The steps of Close, Connect and Reconnect preserve OwnCalls.
LEMMA OwnCallProgress ==
  ASSUME ConstantsAssumption, AnswersInv, NEW a \in Actor, CallProgress(a)
  PROVE  OwnCalls'
<1>1. /\ TypeOK /\ OwnCalls /\ CallInv /\ op \in [Actor -> Call] /\ op[a].then \in Then
      /\ op[a].t \in Transport \cup {None}
  BY Zenon, Parts, CallFields DEF TypeOK
<1>2. op[a].then = "open" => a = "exec"
  BY Zenon, <1>1 DEF OwnCalls
<1>3. op[a].at # "idle" /\ a = "exec" => exec.at \in Dials
  BY Zenon, <1>1 DEF OwnCalls, Dials
<1>4. "idle" # "open" /\ "waiting" \notin Dials /\ "woken" \notin Dials
  BY Zenon DEF Dials
<1>5. CASE CloseSocket(a)
  BY Zenon, <1>1, <1>2, <1>3, <1>4, <1>5, OwnEnter, Names DEF CloseSocket
<1>6. CASE OpenSocket(a)
  BY Zenon, <1>1, <1>2, <1>3, <1>4, <1>6, OwnEnter, Names DEF OpenSocket
<1>7. CASE Install(a)
  <2>1. Enter(a, "open", allocated + 1, "idle") /\ exec' = exec /\ op[a].at = "install"
    BY Zenon, <1>7 DEF Install, Allocate
  <2>2. allocated + 1 \in Transport
    BY Zenon, <1>1, <1>7, AllocateType, Names DEF Install, Allocate
  <2> QED
    BY Zenon, <1>1, <1>3, <1>4, <2>1, <2>2, OwnEnter, Names
<1>8. CASE ConnectSocket(a) \/ ConnectFails(a)
  <2>1. Enter(a, "idle", None, "idle") /\ (exec' = exec \/ a = "exec")
    BY Zenon, <1>8 DEF ConnectSocket, ConnectFails, ConnectReturned, Leave
  <2> QED
    BY Zenon, <1>1, <1>4, <2>1, OwnEnter, Names
<1>9. CASE CloseAbandon(a)
  <2>1. exec' = exec \/ (exec.at = "waiting" /\ Goto("woken"))
    BY Zenon, <1>9 DEF CloseAbandon, Abandon, Notify
  <2>2. exec' = exec \/ (a # "exec" /\ exec.at \notin Dials)
    BY Zenon, <1>3, <1>4, <1>9, <2>1 DEF CloseAbandon
  <2>3. /\ op[a].at # "idle"
        /\ \/ op[a].then \in {"install", "open"} /\ Enter(a, op[a].then, op[a].t, "idle")
           \/ Enter(a, "idle", None, "idle")
    BY Zenon, <1>9 DEF CloseAbandon, Leave
  <2> QED
    BY Zenon, <1>1, <1>3, <1>4, <2>2, <2>3, OwnEnter, Names
<1> QED
  BY Zenon, <1>5, <1>6, <1>7, <1>8, <1>9 DEF CallProgress

\* Every step preserves OwnCalls.
LEMMA NextOwnCalls ==
  ASSUME ConstantsAssumption, AnswersInv, Next
  PROVE  OwnCalls'
<1>1. /\ TypeOK /\ OwnCalls /\ CallInv /\ op \in [Actor -> Call] /\ ReadingInv
      /\ xbdm_transport_ \in Transport \cup {None}
      /\ \A h \in Handler : dedicated_transports_[h] \in Transport \cup {None}
  BY Zenon, Parts DEF TypeOK
<1>2. /\ "idle" # "open" /\ "erase" # "open" /\ "reset" # "open" /\ "app" # "exec" /\ "select" # "exec"
      /\ \A h \in Handler : h # "open"
  BY Zenon DEF ConstantsAssumption
<1>3. CASE Executor
  <2>1. op["exec"].at = "idle"
    <3>1. op["exec"] = Idle
      BY Zenon, <1>3 DEF Executor, Dequeue, Check, Dial, Poll, Send, Wait, Return, ExecStep
    <3> QED
      BY Zenon, <3>1, IdleFields
  <2>2. \/ op' = op
        \/ Reconnect("exec") /\ Goto("dial")
        \/ Connect("exec", exec.transport) /\ (Goto("dialing") \/ Goto("redialing"))
    BY Zenon, <1>3 DEF Executor, Dequeue, Check, Dial, Poll, Send, Wait, Return
  <2>3. /\ Goto("dial") \/ Goto("dialing") \/ Goto("redialing") => exec'.at \in Dials
        /\ exec.at \in {"dial", "poll"} => exec.at # "idle"
    BY DEF Goto, Dials
  <2>4. CASE Reconnect("exec") /\ Goto("dial")
    BY Zenon, <1>1, <2>3, <2>4, OwnReconnect, Names
  <2>5. CASE Connect("exec", exec.transport) /\ (Goto("dialing") \/ Goto("redialing"))
    <3>1. exec.at \in {"dial", "poll"}
      <4>1. CASE Dial \/ Poll
        BY Zenon, <4>1 DEF Dial, Poll, ExecStep
      <4>2. CASE ~(Dial \/ Poll)
        <5>1. \A x \in {"check", "send", "dial", "sent", "waiting", "woken", "idle"} :
                exec'.at = x => ~Goto("dialing") /\ ~Goto("redialing")
          BY DEF Goto
        <5>2. exec'.at \in {"check", "send", "dial", "sent", "waiting", "woken", "idle"}
          BY <1>3, <4>2 DEF Executor, Dequeue, Check, Send, Wait, Return, Goto, Fulfil
        <5> QED
          BY Zenon, <2>5, <5>1, <5>2
      <4> QED
        BY Zenon, <4>1, <4>2
    <3>2. exec.transport \in Transport
      BY Zenon, <2>3, <3>1, Parts, Busy
    <3>3. CASE BeginClose("exec", exec.transport, "open")
      BY Zenon, <1>1, <2>3, <2>5, <3>2, <3>3, OwnBeginClose, Names
    <3>4. CASE Enter("exec", "open", exec.transport, "idle")
      BY Zenon, <1>1, <1>2, <2>3, <2>5, <3>2, <3>4, OwnEnter, Names
    <3> QED
      BY Zenon, <2>5, <3>3, <3>4 DEF Connect
  <2> QED
    BY Zenon, <1>1, <2>1, <2>2, <2>4, <2>5, OwnFrame
<1>4. ASSUME NEW a \in {"app", "select"}, exec' = exec,
             \/ op' = op
             \/ Reconnect(a)
             \/ \E t \in Transport : \E then \in Then \ {"open"} :
                  BeginClose(a, t, then) \/ Enter(a, "open", t, then)
      PROVE  OwnCalls'
  <2>1. a \in Actor /\ a # "exec"
    BY Zenon, <1>2, <1>4, Names
  <2> QED
    BY Zenon, <1>1, <1>4, <2>1, OwnFrame, OwnReconnect, OwnBeginClose, OwnEnter, Names
<1>5. CASE Select
  <2>1. CASE OnBytesRead
    <3> PICK t \in Transport : \E m : HandleInitialConnectResponse(t, m) \/ HandleResponse(t, m)
      BY Zenon, <2>1, OnBytesReadFacts DEF OnBytesRead
    <3> PICK m : HandleInitialConnectResponse(t, m) \/ HandleResponse(t, m)
      BY Zenon
    <3>1. \/ UNCHANGED <<exec, op>>
          \/ BeginClose("select", t, "idle") /\ exec' = exec
          \/ op' = [a \in Actor |-> Idle]
          \/ op' = op /\ (exec' = exec \/ (exec.at = "waiting" /\ Goto("woken")))
      BY Zenon DEF HandleInitialConnectResponse, HandleResponse, Complete, Notify
    <3>2. CASE op' = [a \in Actor |-> Idle]
      BY Zenon, <3>2, IdleFields DEF OwnCalls, Actor
    <3>3. CASE op' = op /\ (exec' = exec \/ (exec.at = "waiting" /\ Goto("woken")))
      <4>1. "waiting" \notin Dials
        BY Zenon DEF Dials
      <4> QED
        BY Zenon, <1>1, <3>3, <4>1, OwnFrame
    <3>4. CASE BeginClose("select", t, "idle") /\ exec' = exec
      BY Zenon, <1>2, <1>4, <3>4, Names
    <3> QED
      BY Zenon, <3>1, <3>2, <3>3, <3>4
  <2>2. ASSUME NEW t \in Transport, SocketError(t)
        PROVE  OwnCalls'
    BY Zenon, <1>2, <1>4, <2>2, Names DEF SocketError
  <2>3. CASE OnNotificationChannelConnected
    BY Zenon, <1>4, <2>3 DEF OnNotificationChannelConnected
  <2>4. ASSUME NEW t \in Transport,
               Remove(t) \/ Process(t) \/ ProcessReturns(t) \/ DoSend(t) \/ DoReceive(t)
        PROVE  UNCHANGED <<exec, op>>
    BY Zenon, <2>4 DEF Remove, Process, ProcessReturns, DoSend, DoReceive
  <2> QED
    BY Zenon, <1>4, <1>5, <2>1, <2>2, <2>3, <2>4 DEF Select
<1>6. CASE Caller \/ Shutdown
  <2>1. ASSUME NEW h \in Handler, CreateDedicatedChannel(h)
        PROVE  OwnCalls'
    <3>1. Enter("app", "open", allocated + 1, h) /\ exec' = exec /\ h \in Then \ {"open"}
      BY Zenon, <1>2, <2>1, Names DEF CreateDedicatedChannel, Allocate
    <3>2. allocated + 1 \in Transport
      BY Zenon, <1>1, <2>1, <3>1, AllocateType, Names DEF CreateDedicatedChannel, Allocate
    <3> QED
      BY Zenon, <1>4, <3>1, <3>2
  <2>2. ASSUME NEW h \in Handler, DestroyDedicatedChannel(h)
        PROVE  OwnCalls'
    BY Zenon, <1>1, <1>2, <1>4, <2>2, Names DEF DestroyDedicatedChannel
  <2>3. CASE CloseActiveConnections
    BY Zenon, <1>1, <1>2, <1>4, <2>3, Names DEF CloseActiveConnections
  <2>4. CASE ReconnectXBDM
    BY Zenon, <1>4, <2>4 DEF ReconnectXBDM
  <2>5. CASE ShutdownClose
    <3>1. xbdm_transport_ \in Transport
      BY Zenon, <1>1, <2>5 DEF CallInv, ShutdownClose
    <3> QED
      BY Zenon, <1>1, <1>2, <1>4, <2>5, <3>1, Names DEF ShutdownClose
  <2>6. CASE StopSelectThread \/ StopExecutor \/ JoinExecutor \/ \E r \in Request : SendCommand(r)
    BY Zenon, <1>4, <2>6 DEF StopSelectThread, StopExecutor, JoinExecutor, SendCommand
  <2> QED
    BY Zenon, <1>6, <2>1, <2>2, <2>3, <2>4, <2>5, <2>6 DEF Caller, Shutdown
<1>7. CASE Target
  BY Zenon, <1>4, <1>7 DEF Target, TargetResponds, TargetCloses
<1> QED
  BY Zenon, <1>3, <1>5, <1>6, <1>7, OwnCallProgress DEF Next

----------------------------------------------------------------------------
(* Nobody holds a transport that does not exist                            *)

\* What a step that constructs no transport has to keep.
LEMMA ConstructedStep ==
  ASSUME Constructed, allocated' = allocated,
         \A a \in Actor : op'[a].t \in Known,
         exec'.transport \in Known,
         \A i \in DOMAIN tasks' : tasks'[i].transport \in Known,
         xbdm_transport_' \in Known, \A h \in Handler : dedicated_transports_'[h] \in Known,
         \A t \in Transport \ Known : /\ is_shutdown_'[t] = is_shutdown_[t]
                                      /\ socket_'[t] = socket_[t]
                                      /\ t \in contested' => t \in contested
  PROVE  Constructed'
<1>1. Known' = Known
  BY Zenon DEF Known
<1> QED
  BY Zenon, <1>1 DEF Constructed

\* Every place that holds a transport holds a constructed one.
LEMMA Holders ==
  ASSUME Constructed
  PROVE  /\ \A a \in Actor : op[a].t \in Known
         /\ exec.transport \in Known
         /\ \A i \in DOMAIN tasks : tasks[i].transport \in Known
         /\ xbdm_transport_ \in Known /\ \A h \in Handler : dedicated_transports_[h] \in Known
         /\ None \in Known
BY Zenon DEF Constructed, Known

\* An actor enters a call on a constructed transport, or leaves.
LEMMA KnownEnter ==
  ASSUME Constructed, op \in [Actor -> Call], NEW a \in Actor, NEW at \in OpAt,
         NEW t \in Transport \cup {None}, NEW then \in Then, Enter(a, at, t, then), t \in Known
  PROVE  \A b \in Actor : op'[b].t \in Known
<1>1. op'[a].t = t /\ \A b \in Actor \ {a} : op'[b] = op[b]
  BY Zenon, EnterFacts
<1> QED
  BY Zenon, <1>1 DEF Constructed

\* A constructed transport is closed.
LEMMA KnownBeginClose ==
  ASSUME TypeOK, Constructed, NEW a \in Actor, NEW t \in Transport, NEW then \in Then,
         BeginClose(a, t, then), t \in Known
  PROVE  /\ \A b \in Actor : op'[b].t \in Known
         /\ \A u \in Transport \ Known : is_shutdown_'[u] = is_shutdown_[u]
<1>1. op \in [Actor -> Call] /\ is_shutdown_ \in [Transport -> BOOLEAN]
  BY Zenon DEF TypeOK
<1>2. \A b \in Actor : op'[b].t \in Known
  BY Zenon, <1>1, KnownEnter, Names DEF BeginClose
<1>3. \A u \in Transport \ {t} : is_shutdown_'[u] = is_shutdown_[u]
  BY Zenon, <1>1 DEF BeginClose
<1> QED
  BY Zenon, <1>2, <1>3

\* The same for the first steps of Connect and Reconnect.
LEMMA KnownConnect ==
  ASSUME TypeOK, Constructed,
         \/ \E a \in Actor : Reconnect(a)
         \/ exec.transport \in Transport /\ Connect("exec", exec.transport)
  PROVE  /\ \A b \in Actor : op'[b].t \in Known
         /\ \A u \in Transport \ Known : is_shutdown_'[u] = is_shutdown_[u]
<1>1. /\ op \in [Actor -> Call] /\ xbdm_transport_ \in Transport \cup {None}
      /\ xbdm_transport_ \in Known /\ exec.transport \in Known /\ None \in Known
  BY Zenon, Holders DEF TypeOK
<1>2. ASSUME NEW a \in Actor, Reconnect(a)
      PROVE  /\ \A b \in Actor : op'[b].t \in Known
             /\ \A u \in Transport \ Known : is_shutdown_'[u] = is_shutdown_[u]
  <2>1. CASE xbdm_transport_ # None /\ BeginClose(a, xbdm_transport_, "install")
    BY Zenon, <1>1, <2>1, KnownBeginClose, Names
  <2>2. CASE Enter(a, "install", None, "idle") /\ UNCHANGED <<state_, is_shutdown_>>
    BY Zenon, <1>1, <2>2, KnownEnter, Names
  <2> QED
    BY Zenon, <1>2, <2>1, <2>2 DEF Reconnect
<1>3. CASE exec.transport \in Transport /\ Connect("exec", exec.transport)
  <2>1. CASE BeginClose("exec", exec.transport, "open")
    BY Zenon, <1>1, <1>3, <2>1, KnownBeginClose, Names
  <2>2. CASE Enter("exec", "open", exec.transport, "idle") /\ UNCHANGED <<state_, is_shutdown_>>
    BY Zenon, <1>1, <1>3, <2>2, KnownEnter, Names
  <2> QED
    BY Zenon, <1>3, <2>1, <2>2 DEF Connect
<1> QED
  BY Zenon, <1>2, <1>3

\* A new transport becomes known, and its first holder is the actor that made it.
LEMMA ConstructedAllocate ==
  ASSUME ConstantsAssumption, TypeOK, Constructed, NEW a \in Actor, NEW then \in Then,
         Allocate(a, then), xbdm_transport_' \in {xbdm_transport_, allocated + 1},
         UNCHANGED <<dedicated_transports_, is_shutdown_, socket_, contested, exec, tasks>>
  PROVE  Constructed'
<1>1. op \in [Actor -> Call] /\ allocated \in Transport
  BY Zenon DEF TypeOK
<1>2. allocated \in Nat
  BY <1>1 DEF Transport
<1>3. allocated' = allocated + 1 /\ allocated + 1 \in Transport
  BY Zenon, AllocateType
<1> PICK n \in Transport : n = allocated + 1
  BY Zenon, <1>3
<1>4. Known' = Known \cup {n}
  BY <1>2, <1>3 DEF Known
<1>5. Enter(a, "open", n, then)
  BY Zenon DEF Allocate
<1>6. op'[a].t = n /\ \A b \in Actor \ {a} : op'[b] = op[b]
  BY SMTT(30), <1>1, <1>5, EnterFacts, Names
<1> QED
  BY Zenon, <1>4, <1>6 DEF Constructed

\* The steps of Close, Connect and Reconnect.
LEMMA ConstructedCallProgress ==
  ASSUME ConstantsAssumption, AnswersInv, NEW a \in Actor, CallProgress(a)
  PROVE  Constructed'
<1>1. /\ TypeOK /\ Constructed /\ op \in [Actor -> Call] /\ op[a].then \in Then
      /\ op[a].t \in Transport \cup {None} /\ op[a].t \in Known
      /\ socket_ \in [Transport -> {"none", "opening", "open"}]
  BY Zenon, Parts, CallFields, Holders DEF TypeOK
<1>2. CASE Install(a)
  BY Zenon, <1>1, <1>2, ConstructedAllocate, Names DEF Install, history
<1>3. ASSUME UNCHANGED <<is_shutdown_, allocated, xbdm_transport_, tasks>>,
             exec'.transport \in {exec.transport, None},
             \A h \in Handler : dedicated_transports_'[h] \in {dedicated_transports_[h], op[a].t},
             \A b \in Actor : op'[b].t \in Known,
             \A t \in Transport \ Known : /\ socket_'[t] = socket_[t]
                                          /\ t \in contested' => t \in contested
      PROVE  Constructed'
  BY Zenon, <1>1, <1>3, Holders, ConstructedStep
<1>4. ASSUME NEW s, socket_' = [socket_ EXCEPT ![op[a].t] = s]
      PROVE  \A t \in Transport \ Known : socket_'[t] = socket_[t]
  BY Zenon, <1>1, <1>4
<1>5. CASE CloseSocket(a)
  <2>1. \A b \in Actor : op'[b].t \in Known
    BY Zenon, <1>1, <1>5, KnownEnter, Names DEF CloseSocket
  <2>2. \A t \in Transport \ Known : socket_'[t] = socket_[t]
    BY Zenon, <1>4, <1>5 DEF CloseSocket
  <2> QED
    BY Zenon, <1>3, <1>5, <2>1, <2>2 DEF CloseSocket, main, history
<1>6. CASE OpenSocket(a)
  <2>1. \A b \in Actor : op'[b].t \in Known
    BY Zenon, <1>1, <1>6, KnownEnter, Names DEF OpenSocket
  <2>2. \A t \in Transport \ Known : socket_'[t] = socket_[t]
    BY Zenon, <1>4, <1>6 DEF OpenSocket
  <2>3. contested' \subseteq contested \cup {op[a].t}
    BY Zenon, <1>6 DEF OpenSocket
  <2> QED
    BY Zenon, <1>1, <1>3, <1>6, <2>1, <2>2, <2>3 DEF OpenSocket, main
<1>7. CASE ConnectSocket(a) \/ ConnectFails(a)
  <2>1. Enter(a, "idle", None, "idle") /\ UNCHANGED <<is_shutdown_, tasks, contested>>
        /\ UNCHANGED <<allocated, xbdm_transport_>>
    BY Zenon, <1>7 DEF ConnectSocket, ConnectFails, Leave, main, history
  <2>2. \A b \in Actor : op'[b].t \in Known
    BY Zenon, <1>1, <2>1, KnownEnter, Holders, Names
  <2>3. \A t \in Transport \ Known : socket_'[t] = socket_[t]
    BY Zenon, <1>4, <1>7 DEF ConnectSocket, ConnectFails
  <2>4. exec'.transport \in {exec.transport, None}
    <3>1. exec' = exec \/ Goto("poll") \/ Fulfil(exec.request)
      BY Zenon, <1>7 DEF ConnectSocket, ConnectFails, ConnectReturned, NotConnected
    <3>2. Goto("poll") => exec'.transport = exec.transport
      BY DEF Goto
    <3>3. Fulfil(exec.request) => exec'.transport = None
      BY DEF Fulfil
    <3> QED
      BY Zenon, <3>1, <3>2, <3>3
  <2>5. \A h \in Handler : dedicated_transports_'[h] \in {dedicated_transports_[h], op[a].t}
    BY Zenon, <1>7 DEF ConnectSocket, ConnectFails, main
  <2> QED
    BY Zenon, <1>3, <2>1, <2>2, <2>3, <2>4, <2>5
<1>8. CASE CloseAbandon(a)
  <2>1. /\ UNCHANGED <<is_shutdown_, tasks, contested>> /\ UNCHANGED <<allocated, socket_>>
        /\ xbdm_transport_' \in {xbdm_transport_, None}
    BY Zenon, <1>8 DEF CloseAbandon, conn
  <2>2. \A b \in Actor : op'[b].t \in Known
    BY Zenon, <1>1, <1>8, KnownEnter, Holders, Names DEF CloseAbandon, Leave
  <2>3. exec'.transport = exec.transport
    <3>1. exec' = exec \/ Goto("woken")
      BY Zenon, <1>8 DEF CloseAbandon, Abandon, Notify
    <3> QED
      BY <3>1 DEF Goto
  <2>4. \A h \in Handler : dedicated_transports_'[h] \in {dedicated_transports_[h], None}
    BY Zenon, <1>8 DEF CloseAbandon
  <2> QED
    BY Zenon, <1>1, <2>1, <2>2, <2>3, <2>4, Holders, ConstructedStep
<1> QED
  BY Zenon, <1>2, <1>5, <1>6, <1>7, <1>8 DEF CallProgress

\* A step that leaves the transports' holders alone, but for the calls and the
\* executor, which go on with constructed transports.
LEMMA ConstructedFrame ==
  ASSUME Constructed, UNCHANGED <<main, socket_, contested>>,
         \A b \in Actor : op'[b].t \in Known,
         exec'.transport \in Known,
         \A i \in DOMAIN tasks' : tasks'[i].transport \in Known,
         \A u \in Transport \ Known : is_shutdown_'[u] = is_shutdown_[u]
  PROVE  Constructed'
BY Zenon, Holders, ConstructedStep DEF main

\* Where ExecuteXBDMPromise goes on, its transport is the same or none.
LEMMA ConstructedExecutor ==
  ASSUME AnswersInv, Executor
  PROVE  Constructed'
<1>1. TypeOK /\ Constructed /\ tasks \in Seq(Task) /\ ExecutorInv
  BY Zenon, Parts DEF TypeOK
<1>2. ASSUME UNCHANGED <<main, socket_, contested>>, UNCHANGED <<tasks, op, is_shutdown_>>,
             exec'.transport \in {exec.transport, None}
      PROVE  Constructed'
  BY Zenon, <1>1, <1>2, Holders, ConstructedFrame
<1>3. ASSUME NEW at, Goto(at)
      PROVE  exec'.transport = exec.transport
  BY Zenon, <1>3 DEF Goto
<1>4. CASE Dequeue
  <2>1. /\ UNCHANGED <<main, socket_, contested>> /\ UNCHANGED <<op, is_shutdown_>>
        /\ tasks # <<>> /\ tasks' = Tail(tasks)
    BY Zenon, <1>4 DEF Dequeue, conn, history
  <2>2. /\ exec'.transport = tasks[1].transport /\ 1 \in DOMAIN tasks
        /\ \A i \in DOMAIN tasks' : i + 1 \in DOMAIN tasks /\ tasks'[i] = tasks[i + 1]
    BY <1>1, <1>4, <2>1 DEF Dequeue
  <2> QED
    BY Zenon, <1>1, <2>1, <2>2, Holders, ConstructedFrame
<1>5. CASE Check \/ Dial \/ Poll
  <2>1. /\ UNCHANGED <<main, socket_, contested>> /\ UNCHANGED tasks
        /\ \E at \in ExecAt : Goto(at)
        /\ \/ UNCHANGED <<op, is_shutdown_>>
           \/ Reconnect("exec")
           \/ Connect("exec", exec.transport)
    BY Zenon, <1>5 DEF Check, Dial, Poll, history, ExecAt
  <2>2. exec'.transport = exec.transport
    BY Zenon, <1>3, <2>1
  <2>3. exec.transport \in Transport
    <3>1. exec.at # "idle"
      BY Zenon, <1>5 DEF Check, Dial, Poll, ExecStep
    <3> QED
      BY Zenon, <1>1, <3>1, Busy
  <2>4. /\ \A b \in Actor : op'[b].t \in Known
        /\ \A u \in Transport \ Known : is_shutdown_'[u] = is_shutdown_[u]
    BY Zenon, <1>1, <2>1, <2>3, Holders, KnownConnect, Names
  <2> QED
    BY Zenon, <1>1, <2>1, <2>2, <2>4, Holders, ConstructedFrame
<1>6. CASE Send \/ Wait
  <2>1. /\ UNCHANGED <<main, socket_, contested>> /\ UNCHANGED <<tasks, op, is_shutdown_>>
        /\ \E at \in ExecAt : Goto(at)
    BY Zenon, <1>6 DEF Send, Wait, conn, history, ExecAt
  <2> QED
    BY Zenon, <1>2, <1>3, <2>1
<1>7. CASE Return
  <2>1. UNCHANGED <<main, socket_, contested>> /\ UNCHANGED <<tasks, op, is_shutdown_>>
    BY Zenon, <1>7 DEF Return, conn, history
  <2>2. exec'.transport = None
    BY Zenon, <1>7 DEF Return, Fulfil
  <2> QED
    BY Zenon, <1>2, <2>1, <2>2
<1> QED
  BY Zenon, <1>4, <1>5, <1>6, <1>7 DEF Executor

\* The fields of the OnBytesRead under way have their types.
LEMMA ReadingFields ==
  ASSUME TypeOK, reading # None
  PROVE  reading.t \in Transport /\ reading.request \in Request \cup {None}
<1>1. reading \in Reading
  BY Zenon DEF TypeOK
<1> QED
  BY Zenon, <1>1 DEF Reading

\* The select thread closes only the transport it works on.
LEMMA ConstructedSelect ==
  ASSUME AnswersInv, Select
  PROVE  Constructed'
<1>1. TypeOK /\ Constructed /\ op \in [Actor -> Call] /\ ReadingInv
  BY Zenon, Parts DEF TypeOK
<1>2. ASSUME UNCHANGED <<main, socket_, contested>>, UNCHANGED tasks,
             exec'.transport = exec.transport,
             \/ UNCHANGED <<op, is_shutdown_>>
             \/ Reconnect("select")
             \/ \E t \in Transport : BeginClose("select", t, "idle") /\ t \in Known
             \/ op' = [a \in Actor |-> Idle] /\ UNCHANGED is_shutdown_
      PROVE  Constructed'
  <2>2. ASSUME op' = [a \in Actor |-> Idle]
        PROVE  \A b \in Actor : op'[b].t = None
    BY Zenon, <2>2 DEF Idle
  <2>3. /\ \A b \in Actor : op'[b].t \in Known
        /\ \A u \in Transport \ Known : is_shutdown_'[u] = is_shutdown_[u]
    BY Zenon, <1>1, <1>2, <2>2, Holders, KnownConnect, KnownBeginClose, Names
  <2> QED
    BY Zenon, <1>1, <1>2, <2>3, Holders, ConstructedFrame
<1>3. ASSUME NEW t \in Transport,
             \/ Remove(t) \/ Process(t) \/ ProcessReturns(t)
             \/ DoSend(t) \/ SocketError(t) \/ DoReceive(t)
      PROVE  Constructed'
  <2>1. /\ UNCHANGED <<main, socket_, contested>> /\ UNCHANGED tasks /\ UNCHANGED exec
        /\ \/ UNCHANGED <<op, is_shutdown_>>
           \/ BeginClose("select", t, "idle") /\ (socket_[t] = "opening" \/ socket_[t] = "open")
    BY Zenon, <1>3 DEF Remove, Process, ProcessReturns, DoSend, SocketError, DoReceive,
         conn, history
  <2>2. socket_[t] = "opening" \/ socket_[t] = "open" => t \in Known
    BY Zenon, <1>1 DEF Constructed
  <2> QED
    BY Zenon, <1>2, <2>1, <2>2
<1>4. CASE OnBytesRead
  <2>1. UNCHANGED <<main, socket_, contested>> /\ UNCHANGED tasks
    BY Zenon, <1>4 DEF OnBytesRead
  <2>2. reading.t \in Transport /\ reading.t \in Known
    <3>1. reading.t \in Transport
      BY Zenon, <1>1, <1>4, ReadingFields DEF OnBytesRead
    <3>2. ASSUME reading.t \notin Known
          PROVE  FALSE
      <4>1. /\ ~is_shutdown_[reading.t] /\ reading.t \notin contested
            /\ socket_[reading.t] = "none" /\ read_buffer_[reading.t] # <<>>
        BY Zenon, <1>1, <1>4, <3>1, <3>2 DEF Constructed, ReadingInv, OnBytesRead
      <4>2. Fresh(reading.t) /\ socket_[reading.t] # "open"
        BY Zenon, <3>1, <4>1, Parts DEF Sound
      <4> QED
        BY Zenon, <4>1, <4>2 DEF Fresh, Still
    <3> QED
      BY Zenon, <3>1, <3>2
  <2>3. exec'.transport = exec.transport
    <3>1. exec' = exec \/ Goto("woken")
      BY Zenon, <1>4 DEF OnBytesRead, HandleInitialConnectResponse, HandleResponse,
           Complete, Notify
    <3> QED
      BY <3>1 DEF Goto
  <2>4. \/ UNCHANGED <<op, is_shutdown_>>
        \/ BeginClose("select", reading.t, "idle")
        \/ op' = [a \in Actor |-> Idle] /\ UNCHANGED is_shutdown_
    BY Zenon, <1>4 DEF OnBytesRead, HandleInitialConnectResponse, HandleResponse
  <2> QED
    BY Zenon, <1>2, <2>1, <2>2, <2>3, <2>4
<1>5. CASE OnNotificationChannelConnected
  BY Zenon, <1>2, <1>5 DEF OnNotificationChannelConnected, history
<1> QED
  BY Zenon, <1>3, <1>4, <1>5 DEF Select

\* Callers close, post to or replace a transport they hold.
LEMMA ConstructedCaller ==
  ASSUME ConstantsAssumption, AnswersInv, Caller \/ Shutdown
  PROVE  Constructed'
<1>1. TypeOK /\ Constructed /\ tasks \in Seq(Task) /\ CallInv
      /\ xbdm_transport_ \in Transport \cup {None}
      /\ \A h \in Handler : dedicated_transports_[h] \in Transport \cup {None}
  BY Zenon, Parts DEF TypeOK
<1>2. ASSUME UNCHANGED <<main, socket_, contested>>, UNCHANGED exec,
             \A i \in DOMAIN tasks' : tasks'[i].transport \in Known,
             \/ UNCHANGED <<op, is_shutdown_>>
             \/ Reconnect("app")
             \/ \E t \in Transport \cup {None}, then \in Then :
                  t # None /\ t \in Known /\ BeginClose("app", t, then)
      PROVE  Constructed'
  <2>1. /\ \A b \in Actor : op'[b].t \in Known
        /\ \A u \in Transport \ Known : is_shutdown_'[u] = is_shutdown_[u]
    BY Zenon, <1>1, <1>2, Holders, KnownConnect, KnownBeginClose, Names
  <2> QED
    BY Zenon, <1>1, <1>2, <2>1, Holders, ConstructedFrame
<1>3. ASSUME NEW r \in Request, SendCommand(r)
      PROVE  Constructed'
  <2> PICK t \in {xbdm_transport_} \cup {dedicated_transports_[h] : h \in Handler} :
        t # None /\ tasks' = Append(tasks, [request |-> r, transport |-> t])
    BY Zenon, <1>3 DEF SendCommand
  <2>1. t \in Known /\ t \in Transport
    BY Zenon, <1>1, Holders
  <2>2. \A i \in DOMAIN tasks' : \/ i \in DOMAIN tasks /\ tasks'[i] = tasks[i]
                                \/ tasks'[i].transport = t
    BY <1>1, <2>1 DEF Task
  <2>3. \A i \in DOMAIN tasks' : tasks'[i].transport \in Known
    BY Zenon, <1>1, <2>1, <2>2, Holders
  <2> QED
    BY Zenon, <1>2, <1>3, <2>3 DEF SendCommand, conn, history
<1>4. \A i \in DOMAIN tasks : tasks[i].transport \in Known
  BY Zenon, <1>1, Holders
<1>5. CASE CloseActiveConnections
  BY Zenon, <1>1, <1>2, <1>4, <1>5, Holders, Names DEF CloseActiveConnections, history
<1>6. CASE ReconnectXBDM
  BY Zenon, <1>2, <1>4, <1>6 DEF ReconnectXBDM, history
<1>7. ASSUME NEW h \in Handler, CreateDedicatedChannel(h)
      PROVE  Constructed'
  BY Zenon, <1>1, <1>7, ConstructedAllocate, Names DEF CreateDedicatedChannel, history
<1>8. ASSUME NEW h \in Handler, DestroyDedicatedChannel(h)
      PROVE  Constructed'
  BY Zenon, <1>1, <1>2, <1>4, <1>8, Holders, Names DEF DestroyDedicatedChannel, history
<1>9. CASE StopSelectThread \/ JoinExecutor
  BY Zenon, <1>2, <1>4, <1>9 DEF StopSelectThread, JoinExecutor, conn, history
<1>10. CASE ShutdownClose
  <2>1. xbdm_transport_ # None
    BY Zenon, <1>1, <1>10 DEF ShutdownClose, CallInv
  <2>2. \E t \in Transport \cup {None}, then \in Then :
          t # None /\ t \in Known /\ BeginClose("app", t, then)
    BY Zenon, <1>1, <1>10, <2>1, Holders, Names DEF ShutdownClose
  <2> QED
    BY Zenon, <1>2, <1>4, <1>10, <2>2 DEF ShutdownClose, history
<1>11. CASE StopExecutor
  <2>1. \A i \in DOMAIN tasks' : FALSE
    BY <1>11 DEF StopExecutor
  <2> QED
    BY Zenon, <1>2, <1>11, <2>1 DEF StopExecutor, conn, history
<1> QED
  BY Zenon, <1>3, <1>5, <1>6, <1>7, <1>8, <1>9, <1>10, <1>11 DEF Caller, Shutdown

\* Every step of the program and of the target keeps Constructed.
LEMMA NextConstructed ==
  ASSUME ConstantsAssumption, AnswersInv, Next
  PROVE  Constructed'
<1>1. CASE Target
  <2>1. UNCHANGED <<main, socket_, contested>> /\ UNCHANGED <<tasks, exec, op, is_shutdown_>>
    BY Zenon, <1>1 DEF Target, TargetResponds, TargetCloses, conn, history
  <2> QED
    BY Zenon, <2>1, Parts, Holders, ConstructedFrame
<1> QED
  BY Zenon, <1>1, ConstructedCallProgress, ConstructedExecutor, ConstructedSelect,
     ConstructedCaller DEF Next

----------------------------------------------------------------------------
(* The front of the queue that OnBytesRead has looked at                   *)

Fronts == FrontIsStable /\ FrontHasSocket

\* A step that leaves the queue and the socket OnBytesRead works on alone.
LEMMA FrontFrame ==
  ASSUME Fronts, reading' = reading, contested \subseteq contested',
         reading # None /\ reading.t \notin contested' =>
           /\ request_queue_'[reading.t] = request_queue_[reading.t]
           /\ reading.request # None => socket_'[reading.t] = socket_[reading.t]
  PROVE  Fronts'
<1>1. reading # None /\ reading.t \notin contested' => reading.t \notin contested
  BY Zenon
<1>2. FrontIsStable'
  BY Zenon, <1>1 DEF Fronts, FrontIsStable
<1>3. FrontHasSocket'
  BY Zenon, <1>1 DEF Fronts, FrontHasSocket
<1> QED
  BY Zenon, <1>2, <1>3 DEF Fronts

\* A step that leaves every queue and every socket alone.
LEMMA FrontElsewhere ==
  ASSUME Fronts, UNCHANGED <<reading, request_queue_, socket_, contested>>
  PROVE  Fronts'
BY Zenon, FrontFrame

\* Outside OnBytesRead there is nothing to keep.
LEMMA FrontNone ==
  ASSUME reading' = None
  PROVE  Fronts'
BY Zenon DEF Fronts, FrontIsStable, FrontHasSocket

\* While OnBytesRead holds a request the executor uses the transport, and no
\* thread connects it.
LEMMA FrontUsed ==
  ASSUME ConstantsAssumption, AnswersInv, reading # None, reading.t \notin contested
  PROVE  /\ reading.t \in Transport /\ passed = reading.t /\ passed # None
         /\ reading.request = None <=> request_queue_[reading.t] = <<>>
         /\ reading.request # None =>
              /\ Uses(reading.t)
              /\ \A a \in Actor : ~Connects(a, reading.t)
<1>1. reading.t \in Transport
  BY Zenon, Parts, ReadingFields
<1>2. passed = reading.t
  BY Zenon, Parts DEF ReadingInv
<1>3. passed # None
  BY Zenon, <1>1, <1>2 DEF ConstantsAssumption, Transport
<1>4. request_queue_[reading.t] = <<>> => reading.request = None
  BY Zenon, Parts DEF FrontIsStable
<1>5. request_queue_[reading.t] # <<>> => /\ Uses(reading.t) /\ reading.request # None
  BY Zenon, <1>1, ReadsItsAnswer DEF ConstantsAssumption
<1>6. Uses(reading.t) => \A a \in Actor : ~Connects(a, reading.t)
  BY Zenon, <1>1, ConnectingUnused
<1> QED
  BY Zenon, <1>1, <1>2, <1>3, <1>4, <1>5, <1>6

\* The later steps of Close, Connect and Reconnect. Close empties no queue that
\* OnBytesRead has seen filled: socket_lock_ holds it up until the socket is
\* gone, and a Close that finds no socket means that the queue is empty.
LEMMA FrontCallProgress ==
  ASSUME ConstantsAssumption, AnswersInv, NEW a \in Actor, CallProgress(a)
  PROVE  Fronts'
<1>1. /\ TypeOK /\ Fronts /\ LockInv /\ op[a].t \in Transport \cup {None}
      /\ socket_ \in [Transport -> {"none", "opening", "open"}]
      /\ request_queue_ \in [Transport -> Seq(Request)]
  BY Zenon, Parts, CallFields DEF TypeOK, Fronts
<1>2. reading' = reading /\ contested \subseteq contested'
  BY Zenon DEF CallProgress, CloseSocket, CloseAbandon, Install, OpenSocket, ConnectSocket,
       ConnectFails, history
<1> SUFFICES ASSUME reading # None, reading.t \notin contested'
             PROVE  /\ request_queue_'[reading.t] = request_queue_[reading.t]
                    /\ reading.request # None => socket_'[reading.t] = socket_[reading.t]
  BY Zenon, <1>1, <1>2, FrontFrame
<1>3. reading.t \notin contested
  BY Zenon, <1>2
<1>4. /\ reading.t \in Transport /\ passed = reading.t /\ passed # None
      /\ reading.request = None <=> request_queue_[reading.t] = <<>>
      /\ reading.request # None =>
           Uses(reading.t) /\ \A b \in Actor : ~Connects(b, reading.t)
  BY Zenon, <1>3, FrontUsed
<1>5. CASE CloseSocket(a)
  <2>1. op[a].at # "idle"
    BY Zenon, <1>5 DEF CloseSocket
  <2>2. a # "select"
    BY Zenon, <1>1, <1>4, <2>1, SelectBusy
  <2>3. socket_'[reading.t] = socket_[reading.t]
    BY Zenon, <1>1, <1>4, <1>5, <2>2 DEF CloseSocket
  <2> QED
    BY Zenon, <1>5, <2>3 DEF CloseSocket
<1>6. CASE CloseAbandon(a)
  <2>1. socket_' = socket_
    BY Zenon, <1>6 DEF CloseAbandon, conn
  <2>2. CASE op[a].t # reading.t
    BY Zenon, <1>1, <1>4, <1>6, <2>1, <2>2 DEF CloseAbandon
  <2>3. CASE op[a].t = reading.t /\ request_queue_[reading.t] = <<>>
    BY Zenon, <1>1, <1>4, <1>6, <2>1, <2>3 DEF CloseAbandon
  <2>4. CASE op[a].t = reading.t /\ request_queue_[reading.t] # <<>>
    <3>1. socket_[reading.t] = "open" /\ Uses(reading.t) /\ op[a].at = "close_abandon"
      BY Zenon, <1>3, <1>4, <1>6, <2>4, Parts DEF FrontHasSocket, CloseAbandon
    <3>2. Engaged(reading.t)
      BY Zenon, <1>3, <1>4, Parts DEF Sound
    <3> QED
      BY Zenon, <1>4, <2>4, <3>1, <3>2 DEF Engaged
  <2> QED
    BY Zenon, <2>2, <2>3, <2>4
<1>7. CASE Install(a)
  BY Zenon, <1>7 DEF Install
<1>8. CASE OpenSocket(a) \/ ConnectSocket(a) \/ ConnectFails(a)
  <2>1. /\ request_queue_' = request_queue_ /\ op[a].at \in {"open", "connect"}
        /\ \E s : socket_' = [socket_ EXCEPT ![op[a].t] = s]
    BY Zenon, <1>8 DEF OpenSocket, ConnectSocket, ConnectFails
  <2>2. op[a].t = reading.t => Connects(a, reading.t)
    BY Zenon, <2>1 DEF Connects
  <2>3. op[a].t # reading.t => socket_'[reading.t] = socket_[reading.t]
    BY Zenon, <1>1, <1>4, <2>1
  <2> QED
    BY Zenon, <1>4, <2>1, <2>2, <2>3
<1> QED
  BY Zenon, <1>5, <1>6, <1>7, <1>8 DEF CallProgress

\* Send does not run while OnBytesRead works on the transport: what is read
\* would have been in the buffer before the request was written.
LEMMA FrontExecutor ==
  ASSUME ConstantsAssumption, AnswersInv, Executor
  PROVE  Fronts'
<1>1. Fronts /\ TypeOK /\ ExecutorInv /\ request_queue_ \in [Transport -> Seq(Request)]
  BY Zenon, Parts DEF Fronts, TypeOK
<1>2. CASE Send
  <2>1. reading' = reading /\ contested' = contested /\ socket_' = socket_
    BY Zenon, <1>2 DEF Send, conn
  <2>2. exec.at = "send"
    BY Zenon, <1>2 DEF Send, ExecStep
  <2>3. ASSUME reading # None, reading.t \notin contested
        PROVE  exec.transport # reading.t
    <3>1. reading.t \in Transport /\ passed = reading.t /\ read_buffer_[reading.t] # <<>>
      BY Zenon, <2>3, Parts, ReadingFields DEF ReadingInv
    <3>2. Engaged(reading.t)
      BY Zenon, <2>3, <3>1, Parts DEF Sound
    <3> QED
      BY Zenon, <2>2, <3>1, <3>2 DEF Engaged, Uses, Silent
  <2>4. ASSUME NEW u \in Transport, exec.transport # u
        PROVE  request_queue_'[u] = request_queue_[u]
    BY Zenon, <1>1, <1>2, <2>4 DEF Send
  <2>5. reading # None => reading.t \in Transport
    BY Zenon, <1>1, ReadingFields
  <2> QED
    BY Zenon, <1>1, <2>1, <2>3, <2>4, <2>5, FrontFrame
<1>3. CASE Dequeue \/ Check \/ Dial \/ Poll \/ Wait \/ Return
  BY Zenon, <1>1, <1>3, FrontElsewhere
  DEF Dequeue, Check, Dial, Poll, Wait, Return, conn, history
<1> QED
  BY Zenon, <1>2, <1>3 DEF Executor

\* Every step keeps what OnBytesRead has seen.
LEMMA NextFronts ==
  ASSUME ConstantsAssumption, AnswersInv, Next
  PROVE  Fronts'
<1>1. Fronts /\ TypeOK /\ LockInv
  BY Zenon, Parts DEF Fronts
<1>2. ASSUME NEW t \in Transport,
             \/ Remove(t) \/ Process(t) \/ ProcessReturns(t) \/ DoSend(t) \/ SocketError(t)
      PROVE  Fronts'
  BY Zenon, <1>1, <1>2, FrontElsewhere
  DEF Remove, Process, ProcessReturns, DoSend, SocketError, conn, history
<1>3. ASSUME NEW t \in Transport, DoReceive(t)
      PROVE  Fronts'
  <2>1. /\ reading' = [t |-> t, request |-> IF request_queue_[t] = <<>> THEN None
                                            ELSE Head(request_queue_[t])]
        /\ request_queue_' = request_queue_ /\ socket_' = socket_ /\ socket_[t] = "open"
    BY Zenon, <1>3 DEF DoReceive, conn
  <2>2. /\ reading'.t = t
        /\ reading'.request = IF request_queue_[t] = <<>> THEN None ELSE Head(request_queue_[t])
    BY Zenon, <2>1
  <2> QED
    BY Zenon, <2>1, <2>2 DEF Fronts, FrontIsStable, FrontHasSocket
<1>4. CASE OnBytesRead
  BY Zenon, <1>4, FrontNone DEF OnBytesRead
<1>5. CASE OnNotificationChannelConnected \/ Caller \/ Shutdown \/ Target
  BY Zenon, <1>1, <1>5, FrontElsewhere
  DEF OnNotificationChannelConnected, Caller, SendCommand, CloseActiveConnections,
      ReconnectXBDM, CreateDedicatedChannel, DestroyDedicatedChannel, StopSelectThread,
      Shutdown, ShutdownClose, StopExecutor, JoinExecutor, Target, TargetResponds,
      TargetCloses, conn, history
<1> QED
  BY Zenon, <1>2, <1>3, <1>4, <1>5, FrontCallProgress, FrontExecutor DEF Next, Select

----------------------------------------------------------------------------
(* A completed request has its own answer                                  *)

\* A transport that was contested stays so.
LEMMA ContestedGrows ==
  ASSUME Next
  PROVE  contested \subseteq contested'
<1>1. CASE \E a \in Actor : OpenSocket(a)
  BY Zenon, <1>1 DEF OpenSocket
<1>2. CASE Next /\ ~\E a \in Actor : OpenSocket(a)
  <2>1. contested' = contested
    BY Zenon, <1>2 DEF Next, CallProgress, CloseSocket, CloseAbandon, Install, ConnectSocket,
      ConnectFails, Executor, Dequeue, Check, Dial, Poll, Send, Wait, Return,
      Select, Remove, Process, ProcessReturns, DoSend, SocketError, DoReceive, OnBytesRead,
      OnNotificationChannelConnected, Caller, SendCommand, CloseActiveConnections,
      ReconnectXBDM, CreateDedicatedChannel, DestroyDedicatedChannel, StopSelectThread,
      Shutdown, ShutdownClose, StopExecutor, JoinExecutor, Target, TargetResponds,
      TargetCloses, history
  <2> QED
    BY Zenon, <2>1
<1> QED
  BY Zenon, <1>1, <1>2

\* A step that completes no request.
LEMMA ResponseFrame ==
  ASSUME ResponseMatches, contested \subseteq contested',
         \A r \in Request : status'[r] = "OK" => status[r] = "OK" /\ answer'[r] = answer[r]
  PROVE  ResponseMatches'
<1>1. contested' = {} => contested = {}
  BY Zenon
<1> QED
  BY Zenon, <1>1 DEF ResponseMatches

\* XBDMConnect fails: the status is not OK.
LEMMA ResponseNotConnected ==
  ASSUME status \in [Request -> StatusCode], NotConnected, NEW r \in Request, status'[r] = "OK"
  PROVE  status[r] = "OK" /\ answer'[r] = answer[r]
<1>1. status' = [status EXCEPT ![exec.request] = "ERR_NOT_CONNECTED"] /\ answer' = answer
  BY Zenon DEF NotConnected
<1> QED
  BY Zenon, <1>1

\* OnBytesRead completes the request it holds with the answer to that request.
LEMMA ResponseOnBytesRead ==
  ASSUME ConstantsAssumption, AnswersInv, OnBytesRead
  PROVE  ResponseMatches'
<1>1. /\ ResponseMatches /\ reading # None /\ contested' = contested
      /\ status \in [Request -> StatusCode] /\ answer \in [Request -> Request \cup {None}]
      /\ reading.t \in Transport /\ read_buffer_[reading.t] # <<>>
  BY Zenon, Parts, OnBytesReadFacts DEF OnBytesRead, TypeOK
<1> PICK t \in Transport : t = reading.t
  BY Zenon, <1>1
<1>2. CASE UNCHANGED <<status, answer>>
  BY Zenon, <1>1, <1>2 DEF ResponseMatches
<1>3. CASE /\ request_queue_[t] # <<>>
           /\ Complete(reading.request, Head(read_buffer_[t]).of)
  <2> SUFFICES ASSUME contested = {}, NEW r \in Request, status'[r] = "OK"
               PROVE  answer'[r] = r
    BY Zenon, <1>1 DEF ResponseMatches
  <2>1. t \in Transport \ contested
    BY Zenon
  <2>2. exec.request \in Request /\ reading.request = exec.request
    BY Zenon, <1>1, <1>3, <2>1, ReadsItsAnswer
  <2>3. PICK m \in Response : m.of = exec.request /\ Arriving(t, m)
    BY Zenon, <1>1, <1>3, <2>1, ReadsItsAnswer
  <2>4. read_buffer_[t] = <<m>>
    BY Zenon, <1>1, <2>3 DEF Arriving
  <2>5. Head(read_buffer_[t]).of = exec.request
    BY Zenon, <2>3, <2>4, OneMessage
  <2>6. /\ status' = [status EXCEPT ![exec.request] = "OK"]
        /\ answer' = [answer EXCEPT ![exec.request] = exec.request]
    BY Zenon, <1>3, <2>2, <2>5 DEF Complete
  <2>7. CASE r = exec.request
    BY Zenon, <1>1, <2>2, <2>6, <2>7
  <2>8. CASE r # exec.request
    <3>1. status[r] = "OK" /\ answer'[r] = answer[r]
      BY Zenon, <1>1, <2>2, <2>6, <2>8
    <3> QED
      BY Zenon, <1>1, <3>1 DEF ResponseMatches
  <2> QED
    BY Zenon, <2>7, <2>8
<1> QED
  BY Zenon, <1>2, <1>3
  DEF OnBytesRead, HandleInitialConnectResponse, HandleResponse, results

\* Every step keeps the answers of the completed requests their own.
LEMMA NextResponseMatches ==
  ASSUME ConstantsAssumption, AnswersInv, Next
  PROVE  ResponseMatches'
<1>1. /\ ResponseMatches /\ contested \subseteq contested' /\ TypeOK
      /\ status \in [Request -> StatusCode]
  BY Zenon, Parts, ContestedGrows DEF TypeOK
<1>2. CASE UNCHANGED <<status, answer>>
  BY Zenon, <1>1, <1>2, ResponseFrame
<1>3. ASSUME NEW a \in Actor, CloseAbandon(a)
      PROVE  ResponseMatches'
  <2>1. PICK rs : Abandon(rs)
    BY Zenon, <1>3 DEF CloseAbandon
  <2>2. /\ answer' = answer
        /\ status' = [r \in Request |-> IF r \in rs THEN "ERR_ABANDONED" ELSE status[r]]
    BY Zenon, <2>1 DEF Abandon
  <2>3. \A r \in Request : status'[r] = "OK" => status[r] = "OK"
    BY Zenon, <2>2
  <2> QED
    BY Zenon, <1>1, <2>2, <2>3, ResponseFrame
<1>4. ASSUME NEW a \in Actor, ConnectSocket(a) \/ ConnectFails(a)
      PROVE  ResponseMatches'
  <2>1. UNCHANGED <<status, answer>> \/ NotConnected
    BY Zenon, <1>4 DEF ConnectSocket, ConnectFails, ConnectReturned, results
  <2> QED
    BY Zenon, <1>1, <1>2, <2>1, ResponseNotConnected, ResponseFrame
<1>5. CASE \/ Quiet \/ Executor \/ StopExecutor \/ JoinExecutor
           \/ \E r \in Request : SendCommand(r)
  <2>1. Quiet => UNCHANGED <<status, answer>>
    BY Zenon, QuietFacts
  <2> QED
    BY Zenon, <1>2, <1>5, <2>1
    DEF Executor, Dequeue, Check, Dial, Poll, Send, Wait, Return, StopExecutor, JoinExecutor,
        SendCommand, results
<1> QED
  BY Zenon, <1>3, <1>4, <1>5, NextCases, ResponseOnBytesRead

----------------------------------------------------------------------------
(* The theorems                                                            *)

\* Every step keeps the messages in flight on an uncontested transport in order.
LEMMA NextSound ==
  ASSUME ConstantsAssumption, SpuriousWakeups = FALSE, AnswersInv, Next,
         NEW u \in Transport \ contested'
  PROVE  Sound(u)'
<1>1. u \in Transport \ contested
  BY Zenon, ContestedGrows
<1> QED
  BY Zenon, <1>1, SoundCallProgress, SoundExecutor, SoundSelect, SoundCaller, SoundTarget
  DEF Next

\* At the start no transport has a socket and nothing is in flight.
LEMMA InitAnswersInv ==
  ASSUME ConstantsAssumption, Init
  PROVE  AnswersInv
<1>1. IndInv
  BY Zenon, InitIndInv
<1>2. \A a \in Actor : op[a].at = "idle" /\ op[a].then = "idle" /\ op[a].t = None
  BY Zenon, IdleFields DEF Init
<1>3. /\ exec.at = "idle" /\ exec.transport = None /\ reading = None /\ contested = {}
      /\ xbdm_transport_ = 1 /\ allocated = 1 /\ passed = None
      /\ DOMAIN tasks = {} /\ \A h \in Handler : dedicated_transports_[h] = None
  BY SMTT(30) DEF Init
<1>4. \A t \in Transport : /\ Still(t) /\ state_[t] = "INIT" /\ socket_[t] = "none"
                           /\ is_shutdown_[t] = FALSE
  BY Zenon DEF Init, Still
<1>5. OwnCalls
  BY Zenon, <1>2, Names DEF OwnCalls
<1>6. Constructed
  <2>1. 1 \in Known /\ None \in Known
    BY <1>3 DEF Known
  <2> QED
    BY Zenon, <1>2, <1>3, <1>4, <2>1 DEF Constructed
<1>7. ASSUME NEW t \in Transport
      PROVE  Sound(t)
  <2>1. /\ socket_[t] # "open" /\ socket_[t] # "opening" /\ state_[t] # "CONNECTED"
        /\ ~Uses(t)
        /\ \A a \in Actor : op[a].at # "open" /\ op[a].at # "connect" /\ ~Connects(a, t)
    BY Zenon, <1>2, <1>3, <1>4 DEF Uses, Connects
  <2> QED
    BY Zenon, <1>4, <2>1 DEF Sound, Fresh, Virgin, Engaged
<1>8. FrontIsStable /\ FrontHasSocket
  BY Zenon, <1>3 DEF FrontIsStable, FrontHasSocket
<1>9. ResponseMatches
  <2>1. \A r \in Request : status[r] = "INVALID"
    BY Zenon DEF Init
  <2>2. \A r \in Request : status[r] # "OK"
    BY Zenon, <2>1
  <2> QED
    BY Zenon, <2>2 DEF ResponseMatches
<1> QED
  BY Zenon, <1>1, <1>5, <1>6, <1>7, <1>8, <1>9 DEF AnswersInv

\* AnswersInv speaks only of the variables.
LEMMA StutterAnswersInv ==
  ASSUME AnswersInv, UNCHANGED vars
  PROVE  AnswersInv'
<1> USE DEF vars, main, conn, buffers, results, bounds, history
<1>1. IndInv' /\ TypeOK
  BY Zenon, StutterIndInv, Parts DEF AnswersInv
<1>2. OwnCalls' /\ Constructed' /\ FrontIsStable' /\ FrontHasSocket' /\ ResponseMatches'
  BY Zenon DEF AnswersInv, OwnCalls, Constructed, Known, FrontIsStable, FrontHasSocket,
     ResponseMatches
<1>3. contested' = contested
  BY Zenon
<1>4. ASSUME NEW t \in Transport \ contested
      PROVE  Sound(t)'
  <2>1. SamePipe(t) /\ SameAt(t) /\ NoNewCall(t) /\ OnlyExecOpens(t) /\ SameUse(t)
    BY Zenon DEF SamePipe, SameAt, NoNewCall, OnlyExecOpens, SameUse, Uses
  <2> QED
    BY Zenon, <1>1, <2>1, Parts, Frame
<1> QED
  BY Zenon, <1>1, <1>2, <1>3, <1>4 DEF AnswersInv

\* AnswersInv is an invariant of the context, whatever the numbers of commands,
\* channels and transports and however the threads interleave.
THEOREM AnswersInductive ==
  ASSUME SpuriousWakeups = FALSE
  PROVE  Spec => []AnswersInv
<1>1. Init => AnswersInv
  BY Zenon, InitAnswersInv, ConstantsAssumption
<1>2. AnswersInv /\ [Next]_vars => AnswersInv'
  <2> SUFFICES ASSUME AnswersInv, [Next]_vars
               PROVE  AnswersInv'
    BY Zenon
  <2>1. CASE Next
    <3>1. IndInv'
      BY Zenon, <2>1, Parts, NextTypeOK, NextCommandInv, NextLockInv, ConstantsAssumption
      DEF IndInv, CommandInv, LockInv
    <3>2. OwnCalls' /\ Constructed' /\ FrontIsStable' /\ FrontHasSocket' /\ ResponseMatches'
      BY Zenon, <2>1, NextOwnCalls, NextConstructed, NextFronts, NextResponseMatches,
         ConstantsAssumption DEF Fronts
    <3>3. \A t \in Transport \ contested' : Sound(t)'
      BY Zenon, <2>1, NextSound, ConstantsAssumption
    <3> QED
      BY Zenon, <3>1, <3>2, <3>3 DEF AnswersInv
  <2>2. CASE UNCHANGED vars
    BY Zenon, <2>2, StutterAnswersInv
  <2> QED
    BY Zenon, <2>1, <2>2
<1> QED
  BY <1>1, <1>2, PTL DEF Spec

\* The request OnBytesRead takes from request_queue_ without request_queue_lock_
\* before it parses is still the front of the queue, or the queue is still empty,
\* when it applies the response, whichever thread sends, closes or reconnects
\* meanwhile: it never completes a null or a stale request.
THEOREM StableFront ==
  ASSUME SpuriousWakeups = FALSE
  PROVE  Spec => []FrontIsStable
<1>1. AnswersInv => FrontIsStable
  BY Zenon DEF AnswersInv
<1> QED
  BY <1>1, AnswersInductive, PTL

\* A request that OnBytesRead completes has the target's answer to its own
\* command, never the greeting, the "send binary" response or an answer to an
\* earlier request, as long as no two threads connected a transport at once.
THEOREM OwnAnswer ==
  ASSUME SpuriousWakeups = FALSE
  PROVE  Spec => []ResponseMatches
<1>1. AnswersInv => ResponseMatches
  BY Zenon DEF AnswersInv
<1> QED
  BY <1>1, AnswersInductive, PTL
============================================================================
