------------------------ MODULE XBDMContextMessages ------------------------
(***************************************************************************)
(* What is in flight on a transport that was never connected by two        *)
(* threads at once (not in "contested"): the inductive invariant           *)
(* AnswersInv, and the lemmas that the steps of Close and Connect, the     *)
(* executor and the select thread keep its part about the four buffers of  *)
(* a transport. These hold at most one message: the greeting, or the one   *)
(* request between Send and OnBytesRead, its payload or its answer.        *)
(***************************************************************************)
EXTENDS XBDMContextProofs

----------------------------------------------------------------------------
(* The four buffers of a transport                                         *)

\* What is left of the inbound bytes behind the last message.
Ends == {<<>>, <<EOF>>}

\* Nothing is in flight on t, except that the target may have closed.
Silent(t) ==
  /\ write_buffer_[t] = <<>> /\ outbound[t] = <<>>
  /\ read_buffer_[t] = <<>> /\ inbound[t] \in Ends

\* Nothing at all is in flight on t.
Still(t) ==
  /\ write_buffer_[t] = <<>> /\ outbound[t] = <<>>
  /\ read_buffer_[t] = <<>> /\ inbound[t] = <<>>

\* The only message in flight on t is m, on its way to the target.
Leaving(t, m) ==
  /\ read_buffer_[t] = <<>> /\ inbound[t] \in Ends
  /\ \/ write_buffer_[t] = <<m>> /\ outbound[t] = <<>>
     \/ write_buffer_[t] = <<>> /\ outbound[t] = <<m>>

\* The only message in flight on t is m, on its way from the target.
Arriving(t, m) ==
  /\ write_buffer_[t] = <<>> /\ outbound[t] = <<>>
  /\ \/ read_buffer_[t] = <<m>> /\ inbound[t] \in Ends
     \/ read_buffer_[t] = <<>> /\ inbound[t] \in {<<m>>, <<m, EOF>>}

\* The greeting is in flight; the request r, its payload or its answer is.
Greets(t) == \E m \in Greeting : Arriving(t, m)
Asks(t, r) ==
  \/ \E m \in ToTarget : m.of = r /\ Leaving(t, m)
  \/ \E m \in Response : m.of = r /\ Arriving(t, m)

----------------------------------------------------------------------------
(* The invariant                                                           *)

\* Actor a is between the start of Connect on t and the return of connect().
Connects(a, t) == op[a].t = t /\ op[a].at \in {"open", "connect"}

\* The executor is between XBDMConnect and the verdict of its request on t.
Uses(t) == exec.transport = t /\ exec.at \in {"send", "sent", "waiting"}

\* Until t is closed, at most one thread connects it, the first message in
\* flight is the greeting, and after it the one request the executor waits for.
Fresh(t) == ~is_shutdown_[t] =>
  /\ socket_[t] # "open" => Still(t) /\ state_[t] # "CONNECTED"
  /\ socket_[t] = "none" => \A a \in Actor : ~(op[a].t = t /\ op[a].at = "connect")
  /\ socket_[t] = "opening" => \A a, b \in Actor : Connects(a, t) /\ Connects(b, t) => a = b
  /\ socket_[t] = "open" => \A a \in Actor : ~Connects(a, t)
  /\ socket_[t] = "open" /\ state_[t] # "CONNECTED" => Greets(t)
  /\ state_[t] = "CONNECTED" =>
       IF request_queue_[t] = <<>> THEN Silent(t) ELSE Asks(t, exec.request)
  /\ Uses(t) => state_[t] = "CONNECTED"

\* Threads other than the executor call Connect only on a new transport.
Virgin(t) == \A a \in Actor \ {"exec"} : Connects(a, t) =>
  /\ Still(t) /\ state_[t] # "CONNECTED" /\ socket_[t] # "open" /\ ~Uses(t)
  /\ \A b \in Actor \ {a} : ~(op[b].t = t /\ op[b].at = "connect")
  /\ op[a].at = "open" => socket_[t] = "none"

\* While the select thread is in Process on t, a Close by another thread may
\* empty the buffers of the network but puts nothing there, and does not reach
\* the queue before the socket is gone.
Engaged(t) == passed = t /\ Uses(t) =>
  /\ exec.at = "send" => Silent(t)
  /\ request_queue_[t] # <<>> => Silent(t) \/ Asks(t, exec.request)
  /\ (exec.at = "send" \/ request_queue_[t] # <<>>) /\ socket_[t] = "open" =>
       \A a \in Actor : ~(op[a].t = t /\ op[a].at = "close_abandon")

Sound(t) == Fresh(t) /\ Virgin(t) /\ Engaged(t)

\* The executor is in a call of Close or Connect only inside XBDMConnect, and
\* only the executor reconnects a transport it has closed.
OwnCalls ==
  /\ exec.at \notin {"dial", "dialing", "redialing"} => op["exec"].at = "idle"
  /\ \A a \in Actor : op[a].then = "open" => a = "exec"

\* Nobody holds a transport that has not been constructed.
Known == 1..allocated \cup {None}
Constructed ==
  /\ \A a \in Actor : op[a].t \in Known
  /\ exec.transport \in Known
  /\ \A i \in DOMAIN tasks : tasks[i].transport \in Known
  /\ xbdm_transport_ \in Known /\ \A h \in Handler : dedicated_transports_[h] \in Known
  /\ \A t \in Transport \ Known : ~is_shutdown_[t] /\ socket_[t] = "none" /\ t \notin contested

\* While OnBytesRead holds a request, its transport has the socket.
FrontHasSocket ==
  reading # None /\ reading.t \notin contested /\ reading.request # None =>
    socket_[reading.t] = "open"

AnswersInv ==
  /\ IndInv
  /\ OwnCalls
  /\ Constructed
  /\ \A t \in Transport \ contested : Sound(t)
  /\ FrontIsStable
  /\ FrontHasSocket
  /\ ResponseMatches

----------------------------------------------------------------------------
(* Sequences of one message                                                *)

\* A sequence of one element, and the part of a sequence of length one.
LEMMA Single ==
  ASSUME NEW S, NEW s \in Seq(S), Len(s) = 1
  PROVE  s = <<s[1]>>
OBVIOUS

\* The same for two elements.
LEMMA Pair ==
  ASSUME NEW S, NEW s \in Seq(S), Len(s) = 2
  PROVE  s = <<s[1], s[2]>>
OBVIOUS

\* Cutting one element out of a sequence.
LEMMA CutOne ==
  ASSUME NEW S, NEW s \in Seq(S), NEW i \in 1..Len(s)
  PROVE  SubSeq(s, i, i) = <<s[i]>>
<1>1. SubSeq(s, i, i) \in Seq(S) /\ Len(SubSeq(s, i, i)) = 1
  BY SubSeqProperties
<1>2. SubSeq(s, i, i)[1] = s[i]
  BY SubSeqProperties
<1> QED
  BY Zenon, <1>1, <1>2, Single

\* Appending, cutting and taking apart sequences of one message.
LEMMA OneMessage ==
  ASSUME NEW m
  PROVE  /\ <<>> \o <<m>> = <<m>> /\ Append(<<>>, m) = <<m>>
         /\ Tail(<<m>>) = <<>> /\ Head(<<m>>) = m
         /\ Len(<<m>>) = 1 /\ <<m>>[1] = m /\ DOMAIN <<m>> = 1..1 /\ <<m>> # <<>>
         /\ SubSeq(<<m>>, 1, 1) = <<m>> /\ SubSeq(<<m>>, 2, 1) = <<>>
<1> DEFINE s == <<m>>
<1>1. s \in Seq({m}) /\ 1 \in 1..Len(s) /\ s[1] = m
  OBVIOUS
<1>2. /\ <<>> \o <<m>> = <<m>> /\ Append(<<>>, m) = <<m>>
      /\ Tail(<<m>>) = <<>> /\ Head(<<m>>) = m
      /\ Len(<<m>>) = 1 /\ <<m>>[1] = m /\ DOMAIN <<m>> = 1..1 /\ <<m>> # <<>>
  OBVIOUS
<1>3. SubSeq(<<m>>, 2, 1) = <<>>
  OBVIOUS
<1> HIDE DEF s
<1>4. SubSeq(s, 1, 1) = <<m>>
  BY Zenon, <1>1, CutOne
<1> QED
  BY Zenon, <1>2, <1>3, <1>4 DEF s

\* The same for two messages.
LEMMA TwoMessages ==
  ASSUME NEW m, NEW e
  PROVE  /\ Append(<<m>>, e) = <<m, e>>
         /\ Len(<<m, e>>) = 2 /\ <<m, e>>[1] = m /\ <<m, e>>[2] = e
         /\ DOMAIN <<m, e>> = 1..2
         /\ SubSeq(<<m, e>>, 1, 1) = <<m>> /\ SubSeq(<<m, e>>, 2, 2) = <<e>>
<1> DEFINE s == <<m, e>>
           u == Append(<<m>>, e)
<1>1. s \in Seq({m, e}) /\ 1 \in 1..Len(s) /\ 2 \in 1..Len(s) /\ s[1] = m /\ s[2] = e
  OBVIOUS
<1>2. Len(<<m, e>>) = 2 /\ <<m, e>>[1] = m /\ <<m, e>>[2] = e /\ DOMAIN <<m, e>> = 1..2
  OBVIOUS
<1>3. <<m>> \in Seq({m, e})
  OBVIOUS
<1>4. u \in Seq({m, e}) /\ Len(u) = 2
  BY <1>3
<1>5. u[1] = m /\ u[2] = e
  OBVIOUS
<1> HIDE DEF s, u
<1>6. SubSeq(s, 1, 1) = <<m>> /\ SubSeq(s, 2, 2) = <<e>>
  BY Zenon, <1>1, CutOne
<1>7. u = <<m, e>>
  BY Zenon, <1>4, <1>5, Pair
<1> QED
  BY Zenon, <1>2, <1>6, <1>7 DEF s, u

----------------------------------------------------------------------------
(* A step that leaves a transport alone                                    *)

\* The buffers of t are left alone.
SamePipe(t) ==
  /\ write_buffer_'[t] = write_buffer_[t] /\ outbound'[t] = outbound[t]
  /\ read_buffer_'[t] = read_buffer_[t] /\ inbound'[t] = inbound[t]

\* What is in flight depends on the four buffers only.
LEMMA SamePipeFacts ==
  ASSUME NEW t, SamePipe(t)
  PROVE  /\ Silent(t)' <=> Silent(t)
         /\ Still(t)' <=> Still(t)
         /\ Greets(t)' <=> Greets(t)
         /\ exec'.request = exec.request => (Asks(t, exec.request)' <=> Asks(t, exec.request))
<1>1. \A m : (Leaving(t, m)' <=> Leaving(t, m)) /\ (Arriving(t, m)' <=> Arriving(t, m))
  BY Zenon DEF SamePipe, Leaving, Arriving
<1>2. (Silent(t)' <=> Silent(t)) /\ (Still(t)' <=> Still(t))
  BY Zenon DEF SamePipe, Silent, Still
<1>3. exec'.request = exec.request => (Asks(t, exec.request)' <=> Asks(t, exec.request))
  BY SMT, <1>1 DEF Asks
<1> QED
  BY Zenon, <1>1, <1>2, <1>3 DEF Greets

----------------------------------------------------------------------------
(* Steps that leave a transport alone                                      *)

\* Nothing of t changes but who looks at it.
SameAt(t) ==
  /\ state_'[t] = state_[t] /\ is_shutdown_'[t] = is_shutdown_[t]
  /\ socket_'[t] = socket_[t] /\ request_queue_'[t] = request_queue_[t]
  /\ SamePipe(t)

\* Nobody comes to one of these places on t.
NoNewCall(t) ==
  \A a \in Actor : \A at \in {"open", "connect", "close_abandon"} :
    op'[a].t = t /\ op'[a].at = at => op[a].t = t /\ op[a].at = at

\* Nobody but the executor does, and it only at the start of Connect.
OnlyExecOpens(t) ==
  \A a \in Actor : \A at \in {"open", "connect", "close_abandon"} :
    op'[a].t = t /\ op'[a].at = at =>
      (op[a].t = t /\ op[a].at = at) \/ (a = "exec" /\ at = "open")

\* The executor does not come to t, and keeps the request it has there.
SameUse(t) ==
  /\ Uses(t)' => Uses(t) /\ (exec'.at = "send" => exec.at = "send")
  /\ request_queue_[t] # <<>> => exec'.request = exec.request

\* Fresh, for a transport the step leaves alone.
LEMMA FrameFresh ==
  ASSUME NEW t, Fresh(t), SameAt(t), OnlyExecOpens(t), NoNewCall(t) \/ socket_[t] = "none",
         SameUse(t)
  PROVE  Fresh(t)'
<1> SUFFICES ASSUME ~is_shutdown_'[t]
             PROVE  Fresh(t)'
  BY Zenon DEF Fresh
<1>1. /\ Silent(t)' <=> Silent(t)
      /\ Still(t)' <=> Still(t)
      /\ Greets(t)' <=> Greets(t)
  BY Zenon, SamePipeFacts DEF SameAt
<1>2. request_queue_[t] # <<>> => (Asks(t, exec.request)' <=> Asks(t, exec.request))
  BY Zenon, SamePipeFacts DEF SameAt, SameUse
<1>3. \A a \in Actor : /\ Connects(a, t)' => Connects(a, t) \/ socket_[t] = "none"
                       /\ op'[a].t = t /\ op'[a].at = "connect" =>
                            op[a].t = t /\ op[a].at = "connect"
  BY Zenon DEF NoNewCall, OnlyExecOpens, Connects
<1>4. ~is_shutdown_[t]
  BY Zenon DEF SameAt
<1>5. /\ socket_'[t] # "open" => Still(t)' /\ state_'[t] # "CONNECTED"
      /\ socket_'[t] = "open" /\ state_'[t] # "CONNECTED" => Greets(t)'
      /\ Uses(t)' => state_'[t] = "CONNECTED"
  BY Zenon, <1>1, <1>4 DEF Fresh, SameAt, SameUse
<1>6. state_'[t] = "CONNECTED" =>
        IF request_queue_'[t] = <<>> THEN Silent(t)' ELSE Asks(t, exec.request)'
  BY Zenon, <1>1, <1>2, <1>4 DEF Fresh, SameAt
<1>7. /\ socket_'[t] = "none" => \A a \in Actor : ~(op'[a].t = t /\ op'[a].at = "connect")
      /\ socket_'[t] = "opening" =>
           \A a, b \in Actor : Connects(a, t)' /\ Connects(b, t)' => a = b
      /\ socket_'[t] = "open" => \A a \in Actor : ~Connects(a, t)'
  BY Zenon, <1>3, <1>4 DEF Fresh, SameAt
<1> QED
  BY Zenon, <1>5, <1>6, <1>7 DEF Fresh

\* Virgin, likewise.
LEMMA FrameVirgin ==
  ASSUME NEW t, Virgin(t), SamePipe(t), socket_'[t] = socket_[t],
         state_'[t] = "CONNECTED" => state_[t] = "CONNECTED", OnlyExecOpens(t), SameUse(t)
  PROVE  Virgin(t)'
<1> SUFFICES ASSUME NEW a \in Actor \ {"exec"}, Connects(a, t)'
             PROVE  /\ Still(t)' /\ state_'[t] # "CONNECTED" /\ socket_'[t] # "open" /\ ~Uses(t)'
                    /\ \A b \in Actor \ {a} : ~(op'[b].t = t /\ op'[b].at = "connect")
                    /\ op'[a].at = "open" => socket_'[t] = "none"
  BY Zenon DEF Virgin
<1>1. Connects(a, t) /\ (op'[a].at = "open" => op[a].at = "open")
  BY Zenon DEF OnlyExecOpens, Connects
<1>2. Still(t)' <=> Still(t)
  BY Zenon, SamePipeFacts
<1>3. \A b \in Actor : op'[b].t = t /\ op'[b].at = "connect" =>
                         op[b].t = t /\ op[b].at = "connect"
  BY Zenon DEF OnlyExecOpens
<1> QED
  BY Zenon, <1>1, <1>2, <1>3 DEF Virgin, SameUse

\* Engaged, unless the select thread comes to t.
LEMMA FrameEngaged ==
  ASSUME NEW t, Engaged(t), SamePipe(t), socket_'[t] = socket_[t],
         request_queue_'[t] \in {<<>>, request_queue_[t]},
         OnlyExecOpens(t), SameUse(t), passed' = t => passed = t
  PROVE  Engaged(t)'
<1> SUFFICES ASSUME passed' = t, Uses(t)'
             PROVE  /\ exec'.at = "send" => Silent(t)'
                    /\ request_queue_'[t] # <<>> => Silent(t)' \/ Asks(t, exec.request)'
                    /\ (exec'.at = "send" \/ request_queue_'[t] # <<>>) /\ socket_'[t] = "open" =>
                         \A a \in Actor : ~(op'[a].t = t /\ op'[a].at = "close_abandon")
  BY Zenon DEF Engaged
<1>1. passed = t /\ Uses(t) /\ (exec'.at = "send" => exec.at = "send")
  BY Zenon DEF SameUse
<1>2. Silent(t)' <=> Silent(t)
  BY Zenon, SamePipeFacts
<1>3. request_queue_[t] # <<>> => (Asks(t, exec.request)' <=> Asks(t, exec.request))
  BY Zenon, SamePipeFacts DEF SameUse
<1>4. \A a \in Actor : op'[a].t = t /\ op'[a].at = "close_abandon" =>
                         op[a].t = t /\ op[a].at = "close_abandon"
  BY Zenon DEF OnlyExecOpens
<1> QED
  BY Zenon, <1>1, <1>2, <1>3, <1>4 DEF Engaged

\* A step that leaves a transport alone keeps it sound.
LEMMA Frame ==
  ASSUME NEW t, Sound(t), SameAt(t), OnlyExecOpens(t), NoNewCall(t) \/ socket_[t] = "none",
         SameUse(t), passed' = t => passed = t
  PROVE  Sound(t)'
<1>1. Fresh(t)'
  BY Zenon, FrameFresh DEF Sound
<1>2. Virgin(t)'
  BY Zenon, FrameVirgin DEF Sound, SameAt
<1>3. Engaged(t)'
  BY Zenon, FrameEngaged DEF Sound, SameAt
<1> QED
  BY Zenon, <1>1, <1>2, <1>3 DEF Sound

\* A step that closes a transport, or goes on closing it, keeps it sound.
LEMMA FrameClosed ==
  ASSUME NEW t, Sound(t), is_shutdown_'[t], SamePipe(t), socket_'[t] = socket_[t],
         state_'[t] = "CONNECTED" => state_[t] = "CONNECTED",
         request_queue_'[t] \in {<<>>, request_queue_[t]},
         OnlyExecOpens(t), SameUse(t), passed' = t => passed = t
  PROVE  Sound(t)'
<1>1. Fresh(t)'
  BY Zenon DEF Fresh
<1>2. Virgin(t)'
  BY Zenon, FrameVirgin DEF Sound
<1>3. Engaged(t)'
  BY Zenon, FrameEngaged DEF Sound
<1> QED
  BY Zenon, <1>1, <1>2, <1>3 DEF Sound

\* Entering Close, returning or going on to allocate are no new calls on t.
LEMMA EnterElsewhere ==
  ASSUME op \in [Actor -> Call], NEW a \in Actor, NEW at \in OpAt,
         NEW t \in Transport \cup {None}, NEW then \in Then, Enter(a, at, t, then),
         NEW u, at \notin {"open", "connect", "close_abandon"} \/ u # t
  PROVE  NoNewCall(u) /\ OnlyExecOpens(u)
<1>1. op'[a].at = at /\ op'[a].t = t /\ \A b \in Actor \ {a} : op'[b] = op[b]
  BY Zenon, EnterFacts
<1> QED
  BY Zenon, <1>1 DEF NoNewCall, OnlyExecOpens

\* Nor does anything change for a call when op does not.
LEMMA SameCalls ==
  ASSUME op' = op, NEW u
  PROVE  NoNewCall(u) /\ OnlyExecOpens(u)
BY Zenon DEF NoNewCall, OnlyExecOpens

\* The executor starts Connect.
LEMMA ExecOpens ==
  ASSUME op \in [Actor -> Call], NEW t \in Transport, NEW then \in Then,
         Enter("exec", "open", t, then), NEW u
  PROVE  OnlyExecOpens(u) /\ (u # t => NoNewCall(u))
<1>1. op'["exec"].at = "open" /\ op'["exec"].t = t
  BY EnterFacts, Names
<1>2. \A b \in Actor \ {"exec"} : op'[b] = op[b]
  BY Zenon, EnterFacts, Names
<1> QED
  BY Zenon, <1>1, <1>2 DEF NoNewCall, OnlyExecOpens

\* The executor stays where it is, or leaves the transports it may have used.
LEMMA SameUseFacts ==
  ASSUME NEW u, \/ exec' = exec
                \/ /\ exec'.at \notin {"send", "sent", "waiting"}
                   /\ exec'.request = exec.request \/ request_queue_[u] = <<>>
  PROVE  SameUse(u)
BY Zenon DEF SameUse, Uses

----------------------------------------------------------------------------
(* The first steps of Close, Connect and Reconnect                         *)

\* What a step that only starts a call leaves alone on u.
SameBut(u) ==
  /\ socket_'[u] = socket_[u] /\ request_queue_'[u] = request_queue_[u]
  /\ SamePipe(u) /\ SameUse(u)
  /\ passed' = u => passed = u

\* The first step of XBDMTransport::Close.
LEMMA SoundBeginClose ==
  ASSUME TypeOK, NEW u \in Transport, Sound(u), NEW a \in Actor, NEW t \in Transport,
         NEW then \in Then, BeginClose(a, t, then), SameBut(u)
  PROVE  Sound(u)'
<1>1. Enter(a, "close_socket", t, then)
  BY Zenon DEF BeginClose
<1>2. NoNewCall(u) /\ OnlyExecOpens(u)
  BY Zenon, <1>1, EnterElsewhere, Names DEF TypeOK
<1>3. /\ u = t => is_shutdown_'[u] /\ state_'[u] = "INIT"
      /\ u # t => is_shutdown_'[u] = is_shutdown_[u] /\ state_'[u] = state_[u]
  BY Zenon DEF BeginClose, TypeOK
<1>4. CASE u = t
  BY Zenon, <1>2, <1>3, <1>4, FrameClosed DEF SameBut
<1>5. CASE u # t
  BY Zenon, <1>2, <1>3, <1>5, Frame DEF SameBut, SameAt
<1> QED
  BY Zenon, <1>4, <1>5

\* The first step of XBDMTransport::Connect, which the executor calls.
LEMMA SoundConnect ==
  ASSUME TypeOK, NEW u \in Transport, Sound(u), NEW t \in Transport,
         Connect("exec", t), SameBut(u)
  PROVE  Sound(u)'
<1>1. CASE BeginClose("exec", t, "open")
  BY Zenon, <1>1, SoundBeginClose, Names
<1>2. CASE /\ socket_[t] = "none" /\ Enter("exec", "open", t, "idle")
           /\ UNCHANGED <<state_, is_shutdown_>>
  <2>1. OnlyExecOpens(u) /\ (u # t => NoNewCall(u))
    BY Zenon, <1>2, ExecOpens, Names DEF TypeOK
  <2> QED
    BY Zenon, <1>2, <2>1, Frame DEF SameBut, SameAt
<1> QED
  BY Zenon, <1>1, <1>2 DEF Connect

\* The first step of XBDMContext::Reconnect.
LEMMA SoundReconnect ==
  ASSUME TypeOK, NEW u \in Transport, Sound(u), NEW a \in Actor, Reconnect(a), SameBut(u)
  PROVE  Sound(u)'
<1>1. CASE xbdm_transport_ # None /\ BeginClose(a, xbdm_transport_, "install")
  BY Zenon, <1>1, SoundBeginClose, Names DEF TypeOK
<1>2. CASE Enter(a, "install", None, "idle") /\ UNCHANGED <<state_, is_shutdown_>>
  <2>1. NoNewCall(u) /\ OnlyExecOpens(u)
    BY Zenon, <1>2, EnterElsewhere, Names DEF TypeOK
  <2> QED
    BY Zenon, <1>2, <2>1, Frame DEF SameBut, SameAt
<1> QED
  BY Zenon, <1>1, <1>2 DEF Reconnect

----------------------------------------------------------------------------
(* The later steps of Close, Connect and Reconnect                         *)

\* The parts of the invariant by name.
LEMMA Parts ==
  ASSUME AnswersInv
  PROVE  /\ TypeOK /\ CommandInv /\ LockInv /\ ReadingInv /\ CallInv /\ ExecutorInv
         /\ RequestsAreSequenced /\ OwnCalls /\ Constructed
         /\ FrontIsStable /\ FrontHasSocket /\ ResponseMatches
         /\ \A t \in Transport \ contested : Sound(t)
BY Zenon DEF AnswersInv, IndInv, CommandInv, LockInv

\* When a socket is closed what is in the network is lost.
LEMMA LostBytes ==
  ASSUME NEW t, write_buffer_'[t] = write_buffer_[t], read_buffer_'[t] = read_buffer_[t],
         outbound'[t] = <<>>, inbound'[t] = <<>>
  PROVE  /\ Still(t) => Still(t)'
         /\ Silent(t) => Silent(t)'
         /\ exec' = exec /\ Asks(t, exec.request) => Silent(t)' \/ Asks(t, exec.request)'
<1>1. (Still(t) => Still(t)') /\ (Silent(t) => Silent(t)')
  BY Zenon DEF Still, Silent, Ends
<1>2. \A m : /\ Leaving(t, m) => Silent(t)' \/ Leaving(t, m)'
             /\ Arriving(t, m) => Silent(t)' \/ Arriving(t, m)'
  BY Zenon DEF Leaving, Arriving, Silent, Ends
<1> QED
  BY Zenon, <1>1, <1>2 DEF Asks

\* TCPSocketBase::Close
LEMMA SoundCloseSocket ==
  ASSUME AnswersInv, NEW a \in Actor, CloseSocket(a), NEW u \in Transport \ contested
  PROVE  Sound(u)'
<1>0. op[a].at = "close_socket" /\ op[a].t \in Transport
  BY Zenon, Parts DEF CallInv, CloseSocket
<1> PICK t \in Transport : t = op[a].t
  BY Zenon, <1>0
<1>1. /\ op[a].at = "close_socket" /\ Enter(a, "close_abandon", t, op[a].then)
      /\ UNCHANGED <<exec, passed, request_queue_, state_, is_shutdown_, write_buffer_, read_buffer_>>
      /\ socket_' = [socket_ EXCEPT ![t] = "none"]
      /\ outbound' = [outbound EXCEPT ![t] = <<>>]
      /\ inbound' = [inbound EXCEPT ![t] = <<>>]
  BY Zenon DEF CloseSocket
<1>2. is_shutdown_[t]
  BY Zenon, <1>1, Parts DEF CallInv, ReadingInv
<1>3. TypeOK /\ Sound(u) /\ op \in [Actor -> Call]
  BY Zenon, Parts DEF TypeOK
<1>4. op[a].then \in Then
  BY Zenon, <1>3, CallFields
<1>5. /\ op'[a].at = "close_abandon" /\ op'[a].t = t
      /\ \A b \in Actor \ {a} : op'[b] = op[b]
  BY <1>1, <1>2, <1>3, <1>4, EnterFacts, Names
<1>6. CASE u # t
  <2>1. NoNewCall(u) /\ OnlyExecOpens(u)
    BY <1>1, <1>2, <1>3, <1>4, <1>6, EnterElsewhere, Names
  <2>2. SameAt(u)
    BY Zenon, <1>1, <1>2, <1>3, <1>6 DEF TypeOK, SameAt, SamePipe
  <2> QED
    BY Zenon, <1>1, <1>3, <2>1, <2>2, Frame, SameUseFacts
<1>7. CASE u = t
  <2>1. /\ socket_'[t] = "none" /\ outbound'[t] = <<>> /\ inbound'[t] = <<>>
    BY Zenon, <1>1, <1>2, <1>3 DEF TypeOK
  <2>2. /\ Still(t) => Still(t)'
        /\ Silent(t) => Silent(t)'
        /\ Asks(t, exec.request) => Silent(t)' \/ Asks(t, exec.request)'
    BY Zenon, <1>1, <2>1, LostBytes
  <2>3. Fresh(t)'
    BY Zenon, <1>1, <1>2 DEF Fresh
  <2>4. Uses(t)' <=> Uses(t)
    BY Zenon, <1>1 DEF Uses
  <2>5. Virgin(t)'
    <3>1. \A b \in Actor : Connects(b, t)' => Connects(b, t) /\ op'[b] = op[b]
      BY Zenon, <1>5 DEF Connects
    <3>2. \A b \in Actor : op'[b].t = t /\ op'[b].at = "connect" =>
                             op[b].t = t /\ op[b].at = "connect"
      BY Zenon, <1>5
    <3> QED
      BY Zenon, <1>1, <1>3, <1>7, <2>1, <2>2, <2>4, <3>1, <3>2 DEF Virgin, Sound
  <2>6. Engaged(t)'
    BY Zenon, <1>1, <1>3, <1>7, <2>1, <2>2, <2>4 DEF Engaged, Sound
  <2> QED
    BY Zenon, <1>7, <2>3, <2>5, <2>6 DEF Sound
<1> QED
  BY Zenon, <1>6, <1>7

\* The end of XBDMTransport::Close
LEMMA SoundCloseAbandon ==
  ASSUME AnswersInv, NEW a \in Actor, CloseAbandon(a), NEW u \in Transport \ contested
  PROVE  Sound(u)'
<1>0. op[a].at = "close_abandon" /\ op[a].t \in Transport
  BY Zenon, Parts DEF CallInv, CloseAbandon
<1> PICK t \in Transport : t = op[a].t
  BY Zenon, <1>0
<1>1. /\ op[a].at = "close_abandon"
      /\ Notify({request_queue_[t][i] : i \in DOMAIN request_queue_[t]})
      /\ request_queue_' = [request_queue_ EXCEPT ![t] = <<>>]
      /\ \/ op[a].then \in {"install", "open"} /\ Enter(a, op[a].then, t, "idle")
         \/ Enter(a, "idle", None, "idle")
      /\ UNCHANGED <<passed, conn, buffers>>
  BY Zenon DEF CloseAbandon, Abandon, Leave
<1>2. is_shutdown_[t]
  BY Zenon, <1>1, Parts DEF CallInv, ReadingInv
<1>3. TypeOK /\ Sound(u) /\ op \in [Actor -> Call]
  BY Zenon, Parts DEF TypeOK
<1>4. op[a].then = "open" => a = "exec"
  BY Zenon, Parts DEF OwnCalls
<1>5. OnlyExecOpens(u) /\ (u # t => NoNewCall(u))
  <2>1. CASE Enter(a, "idle", None, "idle")
    BY Zenon, <1>3, <2>1, EnterElsewhere, Names
  <2>2. CASE Enter(a, "install", t, "idle")
    BY <1>2, <1>3, <2>2, EnterElsewhere, Names
  <2>3. CASE a = "exec" /\ Enter(a, "open", t, "idle")
    BY Zenon, <1>2, <1>3, <2>3, ExecOpens, Names
  <2> QED
    BY Zenon, <1>1, <1>4, <2>1, <2>2, <2>3
<1>6. SameUse(u)
  <2>1. exec' = exec \/ Goto("woken")
    BY Zenon, <1>1 DEF Notify
  <2>2. Goto("woken") => exec'.at = "woken" /\ exec'.request = exec.request
    BY DEF Goto
  <2> QED
    BY Zenon, <2>1, <2>2, SameUseFacts
<1>7. SamePipe(u) /\ UNCHANGED <<socket_, state_, is_shutdown_>>
  BY Zenon, <1>1 DEF SamePipe, buffers, conn
<1>8. CASE u # t
  <2>1. request_queue_'[u] = request_queue_[u]
    BY Zenon, <1>1, <1>3, <1>8 DEF TypeOK
  <2> QED
    BY Zenon, <1>1, <1>3, <1>5, <1>6, <1>7, <1>8, <2>1, Frame DEF SameAt
<1>9. CASE u = t
  <2>1. request_queue_'[u] = <<>>
    BY Zenon, <1>1, <1>3, <1>9 DEF TypeOK
  <2> QED
    BY Zenon, <1>1, <1>2, <1>3, <1>5, <1>6, <1>7, <1>9, <2>1, FrameClosed
<1> QED
  BY Zenon, <1>8, <1>9

\* A new XBDMTransport (Install, CreateDedicatedChannel)
LEMMA SoundAllocate ==
  ASSUME ConstantsAssumption, AnswersInv, NEW a \in Actor, NEW then \in Then, Allocate(a, then),
         UNCHANGED <<state_, is_shutdown_, socket_, request_queue_, buffers, exec, passed>>,
         NEW u \in Transport \ contested
  PROVE  Sound(u)'
<1>1. TypeOK /\ Sound(u) /\ op \in [Actor -> Call] /\ Constructed
  BY Zenon, Parts DEF TypeOK
<1>2. allocated + 1 \in Transport
  BY Zenon, <1>1, AllocateType DEF Allocate
<1> PICK t \in Transport : t = allocated + 1
  BY Zenon, <1>2
<1>3. Enter(a, "open", t, then)
  BY Zenon DEF Allocate
<1>4. /\ op'[a].at = "open" /\ op'[a].t = t
      /\ \A b \in Actor \ {a} : op'[b] = op[b]
  BY <1>1, <1>3, EnterFacts, Names
<1>5. SamePipe(u) /\ SameUse(u)
  BY Zenon, SameUseFacts DEF SamePipe, buffers
<1>6. CASE u # t
  <2>1. NoNewCall(u) /\ OnlyExecOpens(u)
    BY Zenon, <1>1, <1>3, <1>6, EnterElsewhere, Names
  <2> QED
    BY Zenon, <1>1, <1>5, <2>1, Frame DEF SameAt
<1>7. CASE u = t
  <2>0. allocated \in Nat /\ t # None
    <3>1. allocated \in Nat
      BY <1>1 DEF TypeOK, Transport
    <3>2. t # None
      BY Zenon DEF Transport, ConstantsAssumption
    <3> QED
      BY Zenon, <3>1, <3>2
  <2>1. t \notin Known
    BY <2>0 DEF Known
  <2>2. /\ ~is_shutdown_[t] /\ socket_[t] = "none"
        /\ \A b \in Actor : op[b].t # t
        /\ exec.transport # t
    BY Zenon, <1>1, <2>1 DEF Constructed
  <2>3. Still(t) /\ state_[t] # "CONNECTED"
    BY Zenon, <1>1, <1>7, <2>2 DEF Sound, Fresh
  <2>4. Still(t)' /\ state_'[t] # "CONNECTED" /\ socket_'[t] = "none" /\ ~Uses(t)'
    BY Zenon, <1>5, <1>7, <2>2, <2>3, SamePipeFacts DEF Uses
  <2>5. /\ \A b \in Actor \ {a} : op'[b].t # t
        /\ op'[a].at # "connect"
    BY Zenon, <1>4, <2>2
  <2>6. Fresh(t)'
    BY Zenon, <2>4, <2>5 DEF Fresh
  <2>7. Virgin(t)'
    BY Zenon, <2>4, <2>5 DEF Virgin, Connects
  <2>8. Engaged(t)'
    BY Zenon, <2>4 DEF Engaged
  <2> QED
    BY Zenon, <1>7, <2>6, <2>7, <2>8 DEF Sound
<1> QED
  BY Zenon, <1>6, <1>7

\* While a thread connects a transport the executor does not use it.
LEMMA ConnectingUnused ==
  ASSUME AnswersInv, NEW a \in Actor, NEW t \in Transport \ contested, Connects(a, t)
  PROVE  ~Uses(t)
<1>1. CASE a = "exec"
  BY Zenon, <1>1, Parts DEF OwnCalls, Uses, Connects
<1>2. CASE a # "exec"
  BY Zenon, <1>2, Parts DEF Sound, Virgin
<1> QED
  BY Zenon, <1>1, <1>2

\* socket_ = socket(...)
LEMMA SoundOpenSocket ==
  ASSUME AnswersInv, NEW a \in Actor, OpenSocket(a), NEW u \in Transport \ contested'
  PROVE  Sound(u)'
<1>0. op[a].at = "open" /\ op[a].t \in Transport
  BY Zenon, Parts DEF CallInv, OpenSocket
<1> PICK t \in Transport : t = op[a].t
  BY Zenon, <1>0
<1>1. /\ Enter(a, "connect", t, op[a].then)
      /\ UNCHANGED <<exec, passed, request_queue_, state_, is_shutdown_, buffers>>
      /\ socket_' = [socket_ EXCEPT ![t] = "opening"]
      /\ contested' = contested \cup {x \in {t} : \E b \in Actor \ {a} :
                                        op[b].t = x /\ op[b].at \in {"open", "connect"}}
  BY Zenon DEF OpenSocket
<1>2. u \notin contested /\ (u = t => \A b \in Actor \ {a} : ~Connects(b, t))
  BY Zenon, <1>1 DEF Connects
<1>3. TypeOK /\ Sound(u) /\ op \in [Actor -> Call] /\ op[a].then \in Then
  BY Zenon, <1>2, Parts, CallFields DEF TypeOK
<1>4. /\ op'[a].at = "connect" /\ op'[a].t = t
      /\ \A b \in Actor \ {a} : op'[b] = op[b]
  BY Zenon, <1>1, <1>3, EnterFacts, Names
<1>5. SamePipe(u) /\ SameUse(u)
  BY Zenon, <1>1, SameUseFacts DEF SamePipe, buffers
<1>6. CASE u # t
  <2>1. NoNewCall(u) /\ OnlyExecOpens(u)
    BY Zenon, <1>1, <1>3, <1>6, EnterElsewhere, Names
  <2>2. socket_'[u] = socket_[u]
    BY Zenon, <1>1, <1>3, <1>6 DEF TypeOK
  <2> QED
    BY Zenon, <1>1, <1>3, <1>5, <2>1, <2>2, Frame DEF SameAt
<1>7. CASE u = t
  <2>1. socket_'[t] = "opening" /\ Connects(a, t)
    BY Zenon, <1>0, <1>1, <1>3 DEF TypeOK, Connects
  <2>2. ~Uses(t) /\ ~Uses(t)'
    BY Zenon, <1>1, <1>2, <1>7, <2>1, ConnectingUnused DEF Uses
  <2>3. \A b \in Actor : Connects(b, t)' => b = a
    BY Zenon, <1>2, <1>4, <1>7 DEF Connects
  <2>4. Still(t)' <=> Still(t)
    BY Zenon, <1>5, <1>7, SamePipeFacts
  <2>5. Fresh(t)'
    <3>1. ~is_shutdown_[t] => Still(t) /\ state_[t] # "CONNECTED"
      BY Zenon, <1>3, <1>7, <2>1 DEF Sound, Fresh
    <3> QED
      BY Zenon, <1>1, <2>1, <2>2, <2>3, <2>4, <3>1 DEF Fresh
  <2>6. Virgin(t)'
    <3> SUFFICES ASSUME a # "exec"
                 PROVE  /\ Still(t)' /\ state_'[t] # "CONNECTED" /\ socket_'[t] # "open" /\ ~Uses(t)'
                        /\ \A b \in Actor \ {a} : ~(op'[b].t = t /\ op'[b].at = "connect")
                        /\ op'[a].at # "open"
      BY Zenon, <2>3 DEF Virgin
    <3>1. Still(t) /\ state_[t] # "CONNECTED"
      BY Zenon, <1>3, <1>7, <2>1 DEF Sound, Virgin
    <3>2. \A b \in Actor \ {a} : ~(op'[b].t = t /\ op'[b].at = "connect")
      BY Zenon, <1>2, <1>4, <1>7 DEF Connects
    <3> QED
      BY Zenon, <1>1, <1>4, <2>1, <2>2, <2>4, <3>1, <3>2
  <2>7. Engaged(t)'
    BY Zenon, <2>2 DEF Engaged
  <2> QED
    BY Zenon, <1>7, <2>5, <2>6, <2>7 DEF Sound
<1> QED
  BY Zenon, <1>6, <1>7

\* connect() returns, one way or the other: the socket and the network of t change.
LEMMA SoundConnectEnds ==
  ASSUME AnswersInv, NEW a \in Actor, ConnectSocket(a) \/ ConnectFails(a),
         NEW u \in Transport \ contested
  PROVE  Sound(u)'
<1>0. op[a].at = "connect" /\ op[a].t \in Transport
  BY Zenon, Parts DEF CallInv, ConnectSocket, ConnectFails
<1> PICK t \in Transport : t = op[a].t
  BY Zenon, <1>0
<1>1. /\ Enter(a, "idle", None, "idle")
      /\ UNCHANGED <<passed, request_queue_, state_, is_shutdown_, write_buffer_, read_buffer_>>
      /\ outbound' = [outbound EXCEPT ![t] = <<>>]
      /\ \/ /\ socket_[t] = "opening" /\ socket_' = [socket_ EXCEPT ![t] = "open"]
            /\ \E g \in Greeting : inbound' = [inbound EXCEPT ![t] = <<g>>]
         \/ /\ socket_' = [socket_ EXCEPT ![t] = "none"]
            /\ inbound' = [inbound EXCEPT ![t] = <<>>]
  BY Zenon DEF ConnectSocket, ConnectFails, Leave
<1>2. TypeOK /\ Sound(u) /\ op \in [Actor -> Call]
  BY Zenon, Parts DEF TypeOK
<1>3. /\ op'[a].at = "idle"
      /\ \A b \in Actor \ {a} : op'[b] = op[b]
  BY Zenon, <1>1, <1>2, LeaveFacts
<1>4. SameUse(u) /\ (Uses(u)' => Uses(u))
  <2>1. exec' = exec \/ (a = "exec" /\ (Goto("poll") \/ Fulfil(exec.request)))
    BY Zenon DEF ConnectSocket, ConnectFails, ConnectReturned, NotConnected
  <2>2. Goto("poll") => exec'.at = "poll" /\ exec'.request = exec.request
    BY DEF Goto
  <2>3. Fulfil(exec.request) => exec'.at = "idle"
    BY DEF Fulfil
  <2>4. a = "exec" => request_queue_[u] = <<>>
    BY Zenon, <1>0, Parts DEF OwnCalls, RequestsAreSequenced
  <2>5. SameUse(u)
    BY Zenon, <2>1, <2>2, <2>3, <2>4, SameUseFacts
  <2> QED
    BY Zenon, <2>5 DEF SameUse
<1>5. CASE u # t
  <2>1. NoNewCall(u) /\ OnlyExecOpens(u)
    BY Zenon, <1>1, <1>2, EnterElsewhere, Names
  <2>2. socket_'[u] = socket_[u] /\ SamePipe(u)
    BY Zenon, <1>1, <1>2, <1>5 DEF TypeOK, SamePipe
  <2> QED
    BY Zenon, <1>1, <1>2, <1>4, <2>1, <2>2, Frame DEF SameAt
<1>6. CASE u = t
  <2>1. Connects(a, t) /\ ~Uses(t) /\ ~Uses(t)'
    BY Zenon, <1>0, <1>4, <1>6, ConnectingUnused DEF Connects
  <2>2. ~is_shutdown_[t] =>
          /\ socket_[t] = "opening" /\ Still(t) /\ state_[t] # "CONNECTED"
          /\ \A b \in Actor \ {a} : ~Connects(b, t)
    <3>1. socket_[t] \in {"none", "opening", "open"}
      BY Zenon, <1>2 DEF TypeOK
    <3> QED
      BY Zenon, <1>0, <1>2, <1>6, <2>1, <3>1 DEF Sound, Fresh
  <2>3. outbound'[t] = <<>>
    BY Zenon, <1>1, <1>2 DEF TypeOK
  <2>4. \/ socket_'[t] = "open" /\ (Still(t) => Greets(t)')
        \/ socket_'[t] = "none" /\ (Still(t) => Still(t)')
    <3>1. CASE /\ socket_' = [socket_ EXCEPT ![t] = "open"]
               /\ \E g \in Greeting : inbound' = [inbound EXCEPT ![t] = <<g>>]
      <4>1. PICK g \in Greeting : inbound' = [inbound EXCEPT ![t] = <<g>>]
        BY Zenon, <3>1
      <4>2. inbound'[t] = <<g>> /\ socket_'[t] = "open"
        BY Zenon, <1>2, <3>1, <4>1 DEF TypeOK
      <4>3. Still(t) => Arriving(t, g)'
        BY Zenon, <1>1, <2>3, <4>2 DEF Still, Arriving
      <4> QED
        BY Zenon, <4>2, <4>3 DEF Greets
    <3>2. CASE /\ socket_' = [socket_ EXCEPT ![t] = "none"]
               /\ inbound' = [inbound EXCEPT ![t] = <<>>]
      <4>1. inbound'[t] = <<>> /\ socket_'[t] = "none"
        BY Zenon, <1>2, <3>2 DEF TypeOK
      <4> QED
        BY Zenon, <1>1, <2>3, <4>1 DEF Still
    <3> QED
      BY Zenon, <1>1, <3>1, <3>2
  <2>5. Fresh(t)'
    <3>1. ~is_shutdown_[t] => \A b \in Actor : ~Connects(b, t)'
      BY Zenon, <1>3, <2>2 DEF Connects
    <3>2. (\A b \in Actor : ~Connects(b, t)') =>
            \A b \in Actor : ~(op'[b].t = t /\ op'[b].at = "connect")
      BY Zenon DEF Connects
    <3> QED
      BY Zenon, <1>1, <2>1, <2>2, <2>4, <3>1, <3>2 DEF Fresh
  <2>6. Virgin(t)'
    <3>1. \A b \in Actor \ {"exec"} : Connects(b, t)' => b # a /\ Connects(b, t)
      BY Zenon, <1>3 DEF Connects
    <3>2. \A b \in Actor \ {"exec"} : b # a => ~Connects(b, t)
      BY Zenon, <1>0, <1>2, <1>6 DEF Sound, Virgin
    <3> QED
      BY Zenon, <3>1, <3>2 DEF Virgin
  <2>7. Engaged(t)'
    BY Zenon, <2>1 DEF Engaged
  <2> QED
    BY Zenon, <1>6, <2>5, <2>6, <2>7 DEF Sound
<1> QED
  BY Zenon, <1>5, <1>6

\* The steps of Close, Connect and Reconnect keep the transports sound.
LEMMA SoundCallProgress ==
  ASSUME ConstantsAssumption, AnswersInv, NEW a \in Actor, CallProgress(a),
         NEW u \in Transport \ contested'
  PROVE  Sound(u)'
<1>1. CASE OpenSocket(a)
  BY Zenon, <1>1, SoundOpenSocket
<1>2. contested' = contested => u \in Transport \ contested
  BY Zenon
<1>3. CASE Install(a)
  BY Zenon, <1>2, <1>3, SoundAllocate, Names DEF Install, history
<1>4. CASE CloseSocket(a)
  BY Zenon, <1>2, <1>4, SoundCloseSocket DEF CloseSocket, history
<1>5. CASE CloseAbandon(a)
  BY Zenon, <1>2, <1>5, SoundCloseAbandon DEF CloseAbandon
<1>6. CASE ConnectSocket(a) \/ ConnectFails(a)
  BY Zenon, <1>2, <1>6, SoundConnectEnds DEF ConnectSocket, ConnectFails, history
<1> QED
  BY Zenon, <1>1, <1>3, <1>4, <1>5, <1>6 DEF CallProgress

----------------------------------------------------------------------------
(* ExecuteXBDMPromise                                                      *)

\* XBDMConnect returns true: the executor comes to a transport that is ready.
LEMMA SoundGotoSend ==
  ASSUME ConstantsAssumption, AnswersInv, exec.at \in {"check", "poll"},
         state_[exec.transport] = "CONNECTED",
         Goto("send"), UNCHANGED <<op, state_, is_shutdown_>>,
         UNCHANGED <<socket_, request_queue_, buffers, passed>>,
         NEW u \in Transport \ contested
  PROVE  Sound(u)'
<1>1. exec'.at = "send" /\ exec'.transport = exec.transport /\ exec'.request = exec.request
  BY Zenon DEF Goto
<1>2. request_queue_[u] = <<>> /\ ~Uses(u)
  BY Zenon, Parts DEF RequestsAreSequenced, Uses
<1>3. Sound(u) /\ SamePipe(u)
  BY Zenon, Parts DEF SamePipe, buffers
<1>4. NoNewCall(u) /\ OnlyExecOpens(u)
  BY Zenon, SameCalls
<1>5. CASE u # exec.transport
  <2>1. SameUse(u)
    BY Zenon, <1>1, <1>5 DEF SameUse, Uses
  <2> QED
    BY Zenon, <1>3, <1>4, <2>1, Frame DEF SameAt
<1>6. CASE u = exec.transport
  <2>1. state_[u] = "CONNECTED" /\ (Silent(u)' <=> Silent(u))
    BY Zenon, <1>3, <1>6, SamePipeFacts
  <2>2. ~is_shutdown_[u] => Silent(u) /\ socket_[u] = "open" /\ \A b \in Actor : ~Connects(b, u)
    BY Zenon, <1>2, <1>3, <2>1 DEF Sound, Fresh
  <2>3. \A b \in Actor : Connects(b, u)' <=> Connects(b, u)
    BY Zenon DEF Connects
  <2>4. Fresh(u)'
    BY Zenon, <1>2, <2>1, <2>2, <2>3 DEF Fresh
  <2>5. Virgin(u)'
    BY Zenon, <1>3, <2>1, <2>3 DEF Sound, Virgin
  <2>6. Engaged(u)'
    <3>1. passed = u => ~is_shutdown_[u]
      BY Zenon, <2>1, Parts, ConstantsAssumption DEF ReadingInv, ConstantsAssumption, Transport
    <3>2. ~is_shutdown_[u] => \A b \in Actor : ~(op[b].t = u /\ op[b].at = "close_abandon")
      BY Zenon, Parts DEF ReadingInv
    <3> QED
      BY Zenon, <1>2, <2>1, <2>2, <3>1, <3>2 DEF Engaged
  <2> QED
    BY Zenon, <2>4, <2>5, <2>6 DEF Sound
<1> QED
  BY Zenon, <1>5, <1>6

\* XBDMTransport::Send
LEMMA SoundSend ==
  ASSUME AnswersInv, Send, NEW u \in Transport \ contested
  PROVE  Sound(u)'
<1>0. /\ exec.at = "send" /\ exec.transport \in Transport /\ exec.request \in Request
  BY Zenon, Parts, Busy DEF Send, ExecStep
<1> PICK t \in Transport : t = exec.transport
  BY Zenon, <1>0
<1> PICK r \in Request : r = exec.request
  BY Zenon, <1>0
<1>1. TypeOK /\ Sound(u) /\ request_queue_[t] = <<>> /\ request_queue_[u] = <<>>
  BY Zenon, <1>0, Parts DEF RequestsAreSequenced
<1>2. exec'.at = "sent" /\ exec'.transport = t /\ exec'.request = r
  BY Zenon DEF Send, Goto
<1>3. /\ UNCHANGED <<op, passed, state_, is_shutdown_, socket_>>
      /\ UNCHANGED <<read_buffer_, outbound, inbound>>
  BY Zenon DEF Send, conn
<1>4. NoNewCall(u) /\ OnlyExecOpens(u)
  BY Zenon, <1>3, SameCalls
<1>5. CASE u # t
  <2>1. request_queue_'[u] = request_queue_[u]
    BY Zenon, <1>1, <1>5 DEF Send, TypeOK
  <2>2. write_buffer_'[u] = write_buffer_[u]
    BY Zenon, <1>1, <1>5 DEF Send, WriteNextRequest, TypeOK
  <2>3. SameUse(u)
    BY Zenon, <1>1, <1>2, <1>5 DEF SameUse, Uses
  <2> QED
    BY Zenon, <1>1, <1>3, <1>4, <2>1, <2>2, <2>3, Frame DEF SameAt, SamePipe
<1>6. CASE u = t
  <2> DEFINE m == [kind |-> "command", of |-> r]
  <2>1. m \in ToTarget /\ m.of = r
    BY Zenon DEF ToTarget
  <2>2. Append(request_queue_[t], r) = <<r>> /\ <<r>> # <<>> /\ Head(<<r>>) = r
    BY Zenon, <1>1, OneMessage
  <2>3. request_queue_'[t] = <<r>>
    BY Zenon, <1>1, <2>2 DEF Send, TypeOK
  <2>4. /\ state_[t] = "CONNECTED" => write_buffer_'[t] = Append(write_buffer_[t], m)
        /\ state_[t] # "CONNECTED" => write_buffer_'[t] = write_buffer_[t]
    BY Zenon, <1>1, <2>2 DEF Send, WriteNextRequest, TypeOK
  <2> HIDE DEF m
  <2>5. Silent(t) => IF state_[t] = "CONNECTED" THEN Leaving(t, m)' ELSE Silent(t)'
    <3>1. Append(<<>>, m) = <<m>>
      BY Zenon, OneMessage
    <3> QED
      BY Zenon, <1>3, <2>4, <3>1 DEF Silent, Leaving
  <2>6. Leaving(t, m)' => Asks(t, exec.request)'
    BY Zenon, <1>2, <2>1 DEF Asks
  <2>7. Uses(t) /\ Uses(t)'
    BY Zenon, <1>0, <1>2 DEF Uses
  <2>8. \A b \in Actor : Connects(b, t)' <=> Connects(b, t)
    BY Zenon, <1>3 DEF Connects
  <2>9. Fresh(t)'
    <3> SUFFICES ASSUME ~is_shutdown_[t]
                 PROVE  Fresh(t)'
      BY Zenon, <1>3 DEF Fresh
    <3>1. state_[t] = "CONNECTED" /\ socket_[t] = "open" /\ Silent(t)
      BY Zenon, <1>1, <1>6, <2>7 DEF Sound, Fresh
    <3>2. \A b \in Actor : ~Connects(b, t)
      BY Zenon, <1>1, <1>6, <3>1 DEF Sound, Fresh
    <3> QED
      BY Zenon, <1>3, <2>2, <2>3, <2>5, <2>6, <2>8, <3>1, <3>2 DEF Fresh
  <2>10. Virgin(t)'
    BY Zenon, <1>1, <1>6, <2>7, <2>8 DEF Sound, Virgin
  <2>11. Engaged(t)'
    BY Zenon, <1>0, <1>1, <1>2, <1>3, <1>6, <2>5, <2>6, <2>7 DEF Sound, Engaged
  <2> QED
    BY Zenon, <1>6, <2>9, <2>10, <2>11 DEF Sound
<1> QED
  BY Zenon, <1>5, <1>6

\* The steps of the executor keep the transports sound.
LEMMA SoundExecutor ==
  ASSUME ConstantsAssumption, SpuriousWakeups = FALSE, AnswersInv, Executor,
         NEW u \in Transport \ contested
  PROVE  Sound(u)'
<1>1. TypeOK /\ Sound(u) /\ RequestsAreSequenced
  BY Zenon, Parts
<1>2. CASE Dequeue \/ Wait \/ Return
  <2>1. UNCHANGED <<op, passed, state_, is_shutdown_, socket_, request_queue_, buffers>>
    BY Zenon, <1>2 DEF Dequeue, Wait, Return, conn
  <2>2. SameUse(u)
    <3>1. CASE Wait
      <4>1. exec.at = "sent" /\ exec'.at = "waiting" /\ exec'.request = exec.request
            /\ exec'.transport = exec.transport
        BY Zenon, <3>1 DEF Wait, ExecStep, Goto
      <4> QED
        BY Zenon, <4>1 DEF SameUse, Uses
    <3>2. CASE Dequeue \/ Return
      <4>1. exec.at \notin {"sent", "waiting"} /\ exec'.at \in {"check", "idle"}
        BY <3>2 DEF Dequeue, Return, ExecStep, Fulfil
      <4> QED
        BY Zenon, <1>1, <4>1, SameUseFacts DEF RequestsAreSequenced
    <3> QED
      BY Zenon, <1>2, <3>1, <3>2
  <2> QED
    BY Zenon, <1>1, <2>1, <2>2, Frame, SameCalls DEF SameAt, SamePipe, buffers
<1>3. CASE Send
  BY Zenon, <1>3, SoundSend
<1>4. CASE Check \/ Dial \/ Poll
  <2>1. /\ UNCHANGED <<passed, socket_, request_queue_, buffers>>
        /\ exec.at \in {"check", "dial", "poll"}
    BY Zenon, <1>4 DEF Check, Dial, Poll, ExecStep
  <2>2. exec.transport \in Transport
    BY Zenon, <2>1, Parts, Busy
  <2>3. \/ exec.at \in {"check", "poll"} /\ state_[exec.transport] = "CONNECTED" /\ Goto("send")
           /\ UNCHANGED <<op, state_, is_shutdown_>>
        \/ /\ Goto("dial") \/ Goto("poll") \/ Goto("dialing") \/ Goto("redialing")
           /\ \/ UNCHANGED <<op, state_, is_shutdown_>>
              \/ Reconnect("exec")
              \/ Connect("exec", exec.transport)
    BY Zenon, <1>4 DEF Check, Dial, Poll, ExecStep
  <2>4. CASE exec.at \in {"check", "poll"} /\ state_[exec.transport] = "CONNECTED" /\ Goto("send")
             /\ UNCHANGED <<op, state_, is_shutdown_>>
    BY Zenon, <2>1, <2>4, SoundGotoSend
  <2>5. ASSUME Goto("dial") \/ Goto("poll") \/ Goto("dialing") \/ Goto("redialing"),
               \/ UNCHANGED <<op, state_, is_shutdown_>>
               \/ Reconnect("exec")
               \/ Connect("exec", exec.transport)
        PROVE  Sound(u)'
    <3>1. exec'.at \in {"dial", "poll", "dialing", "redialing"} /\ exec'.request = exec.request
      BY <2>5 DEF Goto
    <3>2. SameUse(u)
      BY Zenon, <3>1, SameUseFacts
    <3>3. SameBut(u)
      BY Zenon, <2>1, <3>2 DEF SameBut, SamePipe, buffers
    <3>4. CASE UNCHANGED <<op, state_, is_shutdown_>>
      BY Zenon, <1>1, <3>3, <3>4, Frame, SameCalls DEF SameAt, SameBut
    <3>5. CASE Reconnect("exec")
      BY Zenon, <1>1, <3>3, <3>5, SoundReconnect, Names
    <3>6. CASE Connect("exec", exec.transport)
      BY Zenon, <1>1, <2>2, <3>3, <3>6, SoundConnect
    <3> QED
      BY Zenon, <2>5, <3>4, <3>5, <3>6
  <2> QED
    BY Zenon, <2>3, <2>4, <2>5
<1> QED
  BY Zenon, <1>2, <1>3, <1>4 DEF Executor

----------------------------------------------------------------------------
(* How the message moves                                                   *)

\* DoSend moves the request from the write buffer to the network.
LEMMA MessageSent ==
  ASSUME NEW t, NEW m, Leaving(t, m), write_buffer_[t] # <<>>,
         outbound'[t] = outbound[t] \o write_buffer_[t], write_buffer_'[t] = <<>>,
         UNCHANGED <<read_buffer_, inbound>>
  PROVE  Leaving(t, m)'
<1>1. write_buffer_[t] = <<m>> /\ outbound[t] = <<>>
  BY Zenon DEF Leaving
<1>2. outbound'[t] = <<m>>
  BY Zenon, <1>1, OneMessage
<1> QED
  BY Zenon, <1>2 DEF Leaving

\* recv delivers n bytes of s, and not the end of the stream; they are m.
Delivers(s, n) == n \in 1..Len(s) /\ EOF \notin {s[i] : i \in 1..n}
Delivered(s, n, m) == SubSeq(s, 1, n) = <<m>> /\ SubSeq(s, n + 1, Len(s)) \in Ends

\* The bytes before the end of the stream.
LEMMA BeforeEOF ==
  ASSUME NEW s, NEW m, s \in Ends \cup {<<m>>, <<m, EOF>>}, NEW n, Delivers(s, n)
  PROVE  s \notin Ends /\ Delivered(s, n, m)
<1> USE DEF Delivered
<1>1. s # <<>> /\ n \in 1..Len(s)
  BY DEF Delivers
<1>2. s[1] # EOF /\ (n = 2 => s[2] # EOF)
  BY DEF Delivers
<1>3. s # <<EOF>>
  BY Zenon, <1>2, OneMessage
<1>4. CASE s = <<m>>
  <2>1. Len(s) = 1 /\ n = 1
    BY <1>1, <1>4, OneMessage
  <2> QED
    BY <1>1, <1>3, <1>4, <2>1, OneMessage DEF Ends
<1>5. CASE s = <<m, EOF>>
  <2>1. Len(s) = 2 /\ n = 1
    BY <1>1, <1>2, <1>5, TwoMessages
  <2>2. SubSeq(s, 1, 1) = <<m>> /\ SubSeq(s, 2, 2) = <<EOF>>
    BY Zenon, <1>5, TwoMessages
  <2> QED
    BY <1>1, <1>3, <2>1, <2>2 DEF Ends
<1> QED
  BY Zenon, <1>1, <1>3, <1>4, <1>5 DEF Ends

\* DoReceive moves the message from the network to the read buffer.
LEMMA MessageReceived ==
  ASSUME NEW t, NEW n \in 1..Len(inbound[t]), EOF \notin {inbound[t][i] : i \in 1..n},
         read_buffer_'[t] = read_buffer_[t] \o SubSeq(inbound[t], 1, n),
         inbound'[t] = SubSeq(inbound[t], n + 1, Len(inbound[t])),
         UNCHANGED <<write_buffer_, outbound>>
  PROVE  /\ inbound[t] \notin Ends
         /\ \A m : Arriving(t, m) => Arriving(t, m)'
<1>1. Delivers(inbound[t], n)
  BY Zenon DEF Delivers
<1>2. inbound[t] \notin Ends
  BY Zenon, <1>1, BeforeEOF
<1>3. ASSUME NEW m, Arriving(t, m)
      PROVE  Arriving(t, m)'
  <2>1. inbound[t] \in Ends \cup {<<m>>, <<m, EOF>>} /\ read_buffer_[t] = <<>>
    BY Zenon, <1>2, <1>3 DEF Arriving
  <2>2. Delivered(inbound[t], n, m)
    BY Zenon, <1>1, <2>1, BeforeEOF
  <2>3. read_buffer_'[t] = <<m>> /\ inbound'[t] \in Ends
    BY Zenon, <2>1, <2>2, OneMessage DEF Delivered
  <2> QED
    BY Zenon, <1>3, <2>3 DEF Arriving
<1> QED
  BY Zenon, <1>2, <1>3

\* The target takes the request and puts an answer x in its place.
LEMMA MessageAnswered ==
  ASSUME NEW t, NEW m, NEW x, Leaving(t, m), outbound[t] # <<>>,
         EOF \notin {inbound[t][i] : i \in DOMAIN inbound[t]},
         outbound'[t] = Tail(outbound[t]), inbound'[t] = Append(inbound[t], x),
         UNCHANGED <<write_buffer_, read_buffer_>>
  PROVE  Head(outbound[t]) = m /\ Arriving(t, x)'
<1>1. outbound[t] = <<m>> /\ write_buffer_[t] = <<>>
  BY Zenon DEF Leaving
<1>2. inbound[t] = <<>>
  <2>1. inbound[t] # <<EOF>>
    BY OneMessage
  <2> QED
    BY Zenon, <2>1 DEF Leaving, Ends
<1>3. Head(<<m>>) = m /\ Tail(<<m>>) = <<>> /\ Append(<<>>, x) = <<x>>
  BY Zenon, OneMessage
<1>4. Head(outbound[t]) = m /\ outbound'[t] = <<>> /\ inbound'[t] = <<x>>
  BY Zenon, <1>1, <1>2, <1>3
<1> QED
  BY Zenon, <1>1, <1>4 DEF Leaving, Arriving

\* The target closes its end behind the message.
LEMMA EndOfStream ==
  ASSUME NEW t, EOF \notin {inbound[t][i] : i \in DOMAIN inbound[t]},
         inbound'[t] = Append(inbound[t], EOF),
         UNCHANGED <<write_buffer_, read_buffer_, outbound, exec>>
  PROVE  /\ Silent(t) => Silent(t)'
         /\ Greets(t) => Greets(t)'
         /\ Asks(t, exec.request) => Asks(t, exec.request)'
<1>1. inbound[t] \in Ends => inbound'[t] \in Ends
  <2>1. inbound[t] # <<EOF>>
    BY OneMessage
  <2>2. inbound[t] = <<>> => inbound'[t] = <<EOF>>
    BY Zenon, OneMessage
  <2> QED
    BY Zenon, <2>1, <2>2 DEF Ends
<1>2. ASSUME NEW m
      PROVE  /\ Leaving(t, m) => Leaving(t, m)'
             /\ Arriving(t, m) => Arriving(t, m)'
  <2>1. inbound[t] # <<m, EOF>>
    BY TwoMessages
  <2>2. Append(<<m>>, EOF) = <<m, EOF>>
    BY Zenon, TwoMessages
  <2>3. inbound[t] = <<m>> => inbound'[t] = <<m, EOF>>
    BY Zenon, <2>2
  <2> QED
    BY Zenon, <1>1, <2>1, <2>3 DEF Leaving, Arriving
<1>3. Silent(t) => Silent(t)'
  BY Zenon, <1>1 DEF Silent
<1> QED
  BY Zenon, <1>2, <1>3 DEF Greets, Asks

\* OnBytesRead takes the message from the read buffer and may send a payload x.
LEMMA MessageParsed ==
  ASSUME NEW t, NEW m, Arriving(t, m), read_buffer_[t] # <<>>,
         read_buffer_'[t] = Tail(read_buffer_[t]), UNCHANGED <<outbound, inbound>>
  PROVE  /\ Head(read_buffer_[t]) = m
         /\ write_buffer_'[t] = write_buffer_[t] => Silent(t)'
         /\ \A x : write_buffer_'[t] = Append(write_buffer_[t], x) => Leaving(t, x)'
<1>1. /\ read_buffer_[t] = <<m>> /\ inbound[t] \in Ends
      /\ write_buffer_[t] = <<>> /\ outbound[t] = <<>>
  BY Zenon DEF Arriving
<1>2. Head(read_buffer_[t]) = m /\ read_buffer_'[t] = <<>>
  <2>1. Head(<<m>>) = m /\ Tail(<<m>>) = <<>>
    BY Zenon, OneMessage
  <2> QED
    BY Zenon, <1>1, <2>1
<1>3. \A x : Append(<<>>, x) = <<x>>
  BY Zenon, OneMessage
<1> QED
  BY Zenon, <1>1, <1>2, <1>3 DEF Silent, Leaving

----------------------------------------------------------------------------
(* The select thread                                                       *)

\* Remove, and Process up to socket_lock_ or when it finds nothing to do.
LEMMA SoundProcess ==
  ASSUME ConstantsAssumption, AnswersInv, NEW t \in Transport,
         Remove(t) \/ Process(t) \/ ProcessReturns(t), NEW u \in Transport \ contested
  PROVE  Sound(u)'
<1>1. TypeOK /\ Sound(u) /\ ReadingInv
  BY Zenon, Parts
<1>2. UNCHANGED <<is_shutdown_, socket_, request_queue_, buffers, exec, op>>
  BY Zenon DEF Remove, Process, ProcessReturns, conn
<1>3. SamePipe(u) /\ SameUse(u) /\ NoNewCall(u) /\ OnlyExecOpens(u)
  BY Zenon, <1>2, SameUseFacts, SameCalls DEF SamePipe, buffers
<1>4. /\ state_'[u] = state_[u] \/ (is_shutdown_[u] /\ state_'[u] = "DISCONNECTED")
      /\ passed' \in {None, passed} \/ (passed' = t /\ ~is_shutdown_[t] /\ state_' = state_)
  BY Zenon, <1>1 DEF Remove, Process, ProcessReturns, SelectStep, TypeOK, conn
<1>5. CASE passed' = u => passed = u
  <2>1. CASE state_'[u] = state_[u]
    BY Zenon, <1>1, <1>2, <1>3, <1>5, <2>1, Frame DEF SameAt
  <2>2. CASE is_shutdown_[u] /\ state_'[u] = "DISCONNECTED"
    BY Zenon, <1>1, <1>2, <1>3, <1>5, <2>2, FrameClosed
  <2> QED
    BY Zenon, <1>4, <2>1, <2>2
<1>6. CASE passed' = u /\ passed # u
  <2>1. ~is_shutdown_[u] /\ state_'[u] = state_[u]
    BY Zenon, <1>4, <1>6, ConstantsAssumption DEF ConstantsAssumption, Transport
  <2>2. Fresh(u)' /\ Virgin(u)'
    BY Zenon, <1>1, <1>2, <1>3, <2>1, FrameFresh, FrameVirgin DEF Sound, SameAt
  <2>3. Engaged(u)'
    <3>1. Fresh(u)' /\ ~is_shutdown_'[u]
      BY Zenon, <1>2, <2>1, <2>2
    <3>2. \A a \in Actor : ~(op'[a].t = u /\ op'[a].at = "close_abandon")
      BY Zenon, <1>1, <1>2, <2>1 DEF ReadingInv
    <3>3. exec.at = "send" => request_queue_[u] = <<>>
      BY Zenon, Parts DEF RequestsAreSequenced
    <3> QED
      BY Zenon, <1>2, <3>1, <3>2, <3>3 DEF Engaged, Fresh
  <2> QED
    BY Zenon, <2>2, <2>3 DEF Sound
<1> QED
  BY Zenon, <1>5, <1>6

\* SocketError: the select thread starts Close.
LEMMA SoundSocketError ==
  ASSUME ConstantsAssumption, AnswersInv, NEW t \in Transport, SocketError(t),
         NEW u \in Transport \ contested
  PROVE  Sound(u)'
<1>1. TypeOK /\ Sound(u)
  BY Zenon, Parts
<1>2. /\ BeginClose("select", t, "idle") /\ passed' = None
      /\ UNCHANGED <<socket_, request_queue_, buffers, exec>>
  BY Zenon DEF SocketError
<1>3. SameBut(u)
  BY Zenon, <1>2, SameUseFacts, ConstantsAssumption
  DEF SameBut, SamePipe, buffers, ConstantsAssumption, Transport
<1> QED
  BY Zenon, <1>1, <1>2, <1>3, SoundBeginClose, Names

\* A message moves on an open socket: what Sound says survives if the message
\* in flight stays the same one, or is followed by its answer.
LEMMA SoundMove ==
  ASSUME AnswersInv, NEW u \in Transport \ contested, socket_[u] = "open",
         UNCHANGED <<op, exec>>, UNCHANGED <<state_, is_shutdown_, socket_, request_queue_, passed>>,
         Silent(u) => Silent(u)',
         Greets(u) => Greets(u)',
         Asks(u, exec.request) => Asks(u, exec.request)'
  PROVE  Sound(u)'
<1>1. Sound(u)
  BY Zenon, Parts
<1>2. \A a \in Actor : Connects(a, u)' <=> Connects(a, u)
  BY Zenon DEF Connects
<1>3. Uses(u)' <=> Uses(u)
  BY Zenon DEF Uses
<1>4. Fresh(u)'
  BY Zenon, <1>1, <1>2, <1>3 DEF Sound, Fresh
<1>5. Virgin(u)'
  BY Zenon, <1>1, <1>2 DEF Sound, Virgin
<1>6. Engaged(u)'
  BY Zenon, <1>1, <1>3 DEF Sound, Engaged
<1> QED
  BY Zenon, <1>4, <1>5, <1>6 DEF Sound

\* DoSend
LEMMA SoundDoSend ==
  ASSUME AnswersInv, NEW t \in Transport, DoSend(t), NEW u \in Transport \ contested
  PROVE  Sound(u)'
<1>1. TypeOK /\ Sound(u)
  BY Zenon, Parts
<1>2. /\ socket_[t] = "open" /\ write_buffer_[t] # <<>>
      /\ outbound' = [outbound EXCEPT ![t] = outbound[t] \o write_buffer_[t]]
      /\ write_buffer_' = [write_buffer_ EXCEPT ![t] = <<>>]
      /\ UNCHANGED <<op, exec>>
      /\ UNCHANGED <<state_, is_shutdown_, socket_, request_queue_, passed>>
      /\ UNCHANGED <<read_buffer_, inbound>>
  BY Zenon DEF DoSend, conn
<1>3. CASE u # t
  <2>1. SamePipe(u)
    BY Zenon, <1>1, <1>2, <1>3 DEF TypeOK, SamePipe
  <2> QED
    BY Zenon, <1>1, <1>2, <2>1, Frame, SameUseFacts, SameCalls DEF SameAt
<1>4. CASE u = t
  <2>1. outbound'[u] = outbound[u] \o write_buffer_[u] /\ write_buffer_'[u] = <<>>
    BY Zenon, <1>1, <1>2, <1>4 DEF TypeOK
  <2>2. ~Silent(u) /\ (\A m : ~Arriving(u, m)) /\ (\A m : Leaving(u, m) => Leaving(u, m)')
    BY Zenon, <1>2, <1>4, <2>1, MessageSent DEF Silent, Arriving
  <2>3. ~Greets(u) /\ (Asks(u, exec.request) => Asks(u, exec.request)')
    BY Zenon, <1>2, <2>2 DEF Greets, Asks
  <2> QED
    BY Zenon, <1>2, <1>4, <2>2, <2>3, SoundMove
<1> QED
  BY Zenon, <1>3, <1>4

\* DoReceive
LEMMA SoundDoReceive ==
  ASSUME AnswersInv, NEW t \in Transport, DoReceive(t), NEW u \in Transport \ contested
  PROVE  Sound(u)'
<1>1. TypeOK /\ Sound(u)
  BY Zenon, Parts
<1>2. PICK n \in 1..Len(inbound[t]) :
        /\ EOF \notin {inbound[t][i] : i \in 1..n}
        /\ read_buffer_' = [read_buffer_ EXCEPT ![t] = read_buffer_[t] \o SubSeq(inbound[t], 1, n)]
        /\ inbound' = [inbound EXCEPT ![t] = SubSeq(inbound[t], n + 1, Len(inbound[t]))]
  BY Zenon DEF DoReceive
<1>3. /\ socket_[t] = "open" /\ UNCHANGED <<op, exec>>
      /\ UNCHANGED <<state_, is_shutdown_, socket_, request_queue_, passed>>
      /\ UNCHANGED <<write_buffer_, outbound>>
  BY Zenon DEF DoReceive, conn
<1>4. CASE u # t
  <2>1. SamePipe(u)
    BY Zenon, <1>1, <1>2, <1>3, <1>4 DEF TypeOK, SamePipe
  <2> QED
    BY Zenon, <1>1, <1>3, <2>1, Frame, SameUseFacts, SameCalls DEF SameAt
<1>5. CASE u = t
  <2>1. /\ read_buffer_'[u] = read_buffer_[u] \o SubSeq(inbound[u], 1, n)
        /\ inbound'[u] = SubSeq(inbound[u], n + 1, Len(inbound[u]))
    BY Zenon, <1>1, <1>2, <1>5 DEF TypeOK
  <2>2. inbound[u] \notin Ends /\ \A m : Arriving(u, m) => Arriving(u, m)'
    BY Zenon, <1>2, <1>3, <1>5, <2>1, MessageReceived
  <2>3. ~Silent(u) /\ \A m : ~Leaving(u, m)
    BY Zenon, <2>2 DEF Silent, Leaving
  <2>4. /\ Greets(u) => Greets(u)'
        /\ Asks(u, exec.request) => Asks(u, exec.request)'
    BY Zenon, <1>3, <2>2, <2>3 DEF Greets, Asks
  <2> QED
    BY Zenon, <1>3, <1>5, <2>3, <2>4, SoundMove
<1> QED
  BY Zenon, <1>4, <1>5

\* The request OnBytesRead finds pending is the one the executor waits for, and
\* the response it has read answers it.
LEMMA ReadsItsAnswer ==
  ASSUME ConstantsAssumption, AnswersInv, reading # None, NEW t \in Transport \ contested,
         t = reading.t, request_queue_[t] # <<>>
  PROVE  /\ exec.request \in Request /\ request_queue_[t] = <<exec.request>>
         /\ reading.request = exec.request
         /\ Uses(t)
         /\ \E m \in Response : m.of = exec.request /\ Arriving(t, m)
<1>1. /\ request_queue_[t] = <<exec.request>> /\ Uses(t)
      /\ exec.at # "idle"
  BY Zenon, Parts DEF RequestsAreSequenced, Uses
<1>2. exec.request \in Request
  BY Zenon, <1>1, Parts, Busy
<1>3. reading.request = exec.request
  <2>1. Head(<<exec.request>>) = exec.request
    BY Zenon, OneMessage
  <2> QED
    BY Zenon, <1>1, <2>1, Parts DEF FrontIsStable
<1>4. passed = t /\ read_buffer_[t] # <<>>
  BY Zenon, Parts DEF ReadingInv
<1>5. Silent(t) \/ Asks(t, exec.request)
  BY Zenon, <1>1, <1>4, Parts DEF Sound, Engaged
<1>6. ~Silent(t) /\ \A m : ~Leaving(t, m)
  BY Zenon, <1>4 DEF Silent, Leaving
<1> QED
  BY Zenon, <1>1, <1>2, <1>3, <1>5, <1>6 DEF Asks

\* What every way through OnBytesRead does to a transport t it reads from.
LEMMA OnBytesReadFacts ==
  ASSUME ConstantsAssumption, AnswersInv, OnBytesRead
  PROVE  /\ reading.t \in Transport /\ passed = reading.t /\ read_buffer_[reading.t] # <<>>
         /\ \A u \in Transport : NoNewCall(u) /\ OnlyExecOpens(u) /\ SameUse(u)
         /\ passed' = None /\ contested' = contested
         /\ UNCHANGED <<socket_, outbound, inbound>>
         /\ \A u \in Transport \ {reading.t} :
              /\ read_buffer_'[u] = read_buffer_[u] /\ write_buffer_'[u] = write_buffer_[u]
              /\ state_'[u] = state_[u] /\ is_shutdown_'[u] = is_shutdown_[u]
              /\ request_queue_'[u] = request_queue_[u]
<1>1. TypeOK /\ op \in [Actor -> Call]
  BY Zenon, Parts DEF TypeOK
<1>2. reading # None /\ reading.t \in Transport
  BY Zenon, <1>1 DEF OnBytesRead, TypeOK, Reading
<1> PICK t \in Transport : t = reading.t
  BY Zenon, <1>2
<1>3. passed = t /\ read_buffer_[t] # <<>>
  BY Zenon, <1>2, Parts DEF ReadingInv
<1>4. /\ passed' = None /\ contested' = contested
      /\ UNCHANGED <<socket_, outbound, inbound>>
      /\ read_buffer_' = [read_buffer_ EXCEPT ![t] = Tail(read_buffer_[t])]
  BY Zenon DEF OnBytesRead
<1> PICK m : HandleInitialConnectResponse(t, m) \/ HandleResponse(t, m)
  BY Zenon DEF OnBytesRead
<1>5. ASSUME NEW u \in Transport
      PROVE  NoNewCall(u) /\ OnlyExecOpens(u)
  <2>1. \/ op' = op
        \/ BeginClose("select", t, "idle")
        \/ op' = [a \in Actor |-> Idle]
    BY Zenon DEF HandleInitialConnectResponse, HandleResponse
  <2>2. CASE BeginClose("select", t, "idle")
    <3>1. Enter("select", "close_socket", t, "idle")
      BY Zenon, <2>2 DEF BeginClose
    <3> QED
      BY <1>1, <3>1, EnterElsewhere, Names
  <2>3. CASE op' = [a \in Actor |-> Idle]
    BY Zenon, <2>3, IdleFields DEF NoNewCall, OnlyExecOpens
  <2> QED
    BY Zenon, <2>1, <2>2, <2>3, SameCalls
<1>6. ASSUME NEW u \in Transport
      PROVE  SameUse(u)
  <2>1. exec' = exec \/ Goto("woken")
    BY Zenon DEF HandleInitialConnectResponse, HandleResponse, Complete, Notify
  <2>2. Goto("woken") => exec'.at = "woken" /\ exec'.request = exec.request
    BY DEF Goto
  <2> QED
    BY Zenon, <2>1, <2>2, SameUseFacts
<1>7. ASSUME NEW u \in Transport \ {t}
      PROVE  /\ read_buffer_'[u] = read_buffer_[u] /\ write_buffer_'[u] = write_buffer_[u]
             /\ state_'[u] = state_[u] /\ is_shutdown_'[u] = is_shutdown_[u]
             /\ request_queue_'[u] = request_queue_[u]
  <2>1. read_buffer_'[u] = read_buffer_[u]
    BY Zenon, <1>1, <1>4 DEF TypeOK
  <2>2. CASE HandleInitialConnectResponse(t, m)
    BY ZenonT(30), <1>1, <2>1, <2>2 DEF HandleInitialConnectResponse, BeginClose, TypeOK
  <2>3. CASE HandleResponse(t, m)
    BY ZenonT(30), <1>1, <2>1, <2>3 DEF HandleResponse, WriteNextRequest, TypeOK
  <2> QED
    BY Zenon, <2>2, <2>3
<1> QED
  BY Zenon, <1>3, <1>4, <1>5, <1>6, <1>7

\* OnBytesRead
LEMMA SoundOnBytesRead ==
  ASSUME ConstantsAssumption, AnswersInv, OnBytesRead, NEW u \in Transport \ contested
  PROVE  Sound(u)'
<1>1. TypeOK /\ Sound(u)
  BY Zenon, Parts
<1>2. /\ NoNewCall(u) /\ OnlyExecOpens(u) /\ SameUse(u)
      /\ passed' # u /\ socket_'[u] = socket_[u]
      /\ UNCHANGED <<outbound, inbound>>
  BY ZenonT(30), OnBytesReadFacts, ConstantsAssumption DEF ConstantsAssumption, Transport
<1>3. CASE u # reading.t
  <2>1. /\ read_buffer_'[u] = read_buffer_[u] /\ write_buffer_'[u] = write_buffer_[u]
        /\ state_'[u] = state_[u] /\ is_shutdown_'[u] = is_shutdown_[u]
        /\ request_queue_'[u] = request_queue_[u]
    BY Zenon, <1>3, OnBytesReadFacts
  <2> QED
    BY Zenon, <1>1, <1>2, <2>1, Frame DEF SameAt, SamePipe
<1>4. CASE u = reading.t
  <2>1. /\ reading # None /\ read_buffer_[u] # <<>>
        /\ read_buffer_'[u] = Tail(read_buffer_[u])
    <3>1. read_buffer_' = [read_buffer_ EXCEPT ![u] = Tail(read_buffer_[u])]
      BY Zenon, <1>4 DEF OnBytesRead
    <3> QED
      BY Zenon, <1>1, <1>4, <3>1, OnBytesReadFacts DEF OnBytesRead, TypeOK
  <2> PICK m : HandleInitialConnectResponse(u, m) \/ HandleResponse(u, m)
    BY Zenon, <1>4 DEF OnBytesRead
  <2>2. ~Silent(u) /\ ~Still(u)
    BY Zenon, <2>1 DEF Silent, Still
  <2>3. \A b \in Actor : Connects(b, u)' => Connects(b, u)
    BY Zenon, <1>2 DEF NoNewCall, Connects
  <2>4. Virgin(u)'
    BY Zenon, <1>1, <2>2, <2>3 DEF Sound, Virgin
  <2>5. Engaged(u)'
    BY Zenon, <1>2 DEF Engaged
  <2>6. ASSUME is_shutdown_'[u]
        PROVE  Sound(u)'
    BY Zenon, <2>4, <2>5, <2>6 DEF Sound, Fresh
  \* The greeting: the queue is empty and state_ is not yet CONNECTED.
  <2>7. CASE HandleInitialConnectResponse(u, m)
    <3>1. CASE BeginClose("select", u, "idle")
      <4>1. is_shutdown_'[u]
        BY Zenon, <1>1, <3>1 DEF BeginClose, TypeOK
      <4> QED
        BY Zenon, <2>6, <4>1
    <3>2. CASE state_' = [state_ EXCEPT ![u] = "CONNECTED"] /\ UNCHANGED is_shutdown_
      <4> SUFFICES ASSUME ~is_shutdown_[u]
                   PROVE  Sound(u)'
        BY Zenon, <2>6, <3>2
      <4>1. request_queue_[u] = <<>> /\ UNCHANGED <<request_queue_, write_buffer_>>
        BY Zenon, <2>7 DEF HandleInitialConnectResponse
      <4>2. socket_[u] = "open" /\ Greets(u) /\ \A b \in Actor : ~Connects(b, u)
        BY Zenon, <1>1, <2>2, <4>1 DEF Sound, Fresh
      <4>3. PICK g \in Greeting : Arriving(u, g)
        BY Zenon, <4>2 DEF Greets
      <4>4. Silent(u)'
        BY Zenon, <1>2, <2>1, <4>1, <4>3, MessageParsed
      <4>5. state_'[u] = "CONNECTED"
        BY Zenon, <1>1, <3>2 DEF TypeOK
      <4>6. Fresh(u)'
        BY Zenon, <1>2, <2>3, <4>1, <4>2, <4>4, <4>5 DEF Fresh
      <4> QED
        BY Zenon, <2>4, <2>5, <4>6 DEF Sound
    <3> QED
      BY Zenon, <2>7, <3>1, <3>2 DEF HandleInitialConnectResponse
  \* A response: the queue holds the one request of the executor.
  <2>8. CASE HandleResponse(u, m)
    <3>1. request_queue_[u] # <<>> /\ UNCHANGED <<state_, is_shutdown_>>
      BY Zenon, <2>8 DEF HandleResponse
    <3> SUFFICES ASSUME ~is_shutdown_[u]
                 PROVE  Sound(u)'
      BY Zenon, <2>6, <3>1
    <3>2. /\ exec.request \in Request /\ request_queue_[u] = <<exec.request>>
          /\ reading.request = exec.request
          /\ Uses(u)
          /\ \E x \in Response : x.of = exec.request /\ Arriving(u, x)
      BY Zenon, <1>4, <2>1, <3>1, ReadsItsAnswer
    <3>3. PICK x \in Response : Arriving(u, x)
      BY Zenon, <3>2
    <3>4. state_[u] = "CONNECTED" /\ socket_[u] = "open" /\ \A b \in Actor : ~Connects(b, u)
      BY Zenon, <1>1, <2>2, <3>2 DEF Sound, Fresh
    <3>5. reading.request # None
      BY Zenon, <3>2, ConstantsAssumption DEF ConstantsAssumption
    <3>6. ASSUME IF request_queue_'[u] = <<>> THEN Silent(u)' ELSE Asks(u, exec.request)'
          PROVE  Sound(u)'
      <4>1. Fresh(u)'
        BY Zenon, <1>2, <2>3, <3>1, <3>4, <3>6 DEF Fresh
      <4> QED
        BY Zenon, <2>4, <2>5, <4>1 DEF Sound
    <3>7. CASE /\ write_buffer_' = [write_buffer_ EXCEPT ![u] =
                    Append(write_buffer_[u], [kind |-> "payload", of |-> reading.request])]
               /\ UNCHANGED <<request_queue_, exec>>
      <4> DEFINE p == [kind |-> "payload", of |-> exec.request]
      <4>1. p \in ToTarget /\ p.of = exec.request
        BY Zenon, <3>2 DEF ToTarget
      <4>2. write_buffer_'[u] = Append(write_buffer_[u], p)
        BY Zenon, <1>1, <3>2, <3>7 DEF TypeOK
      <4>3. PICK y \in ToTarget : y = p
        BY Zenon, <4>1
      <4> HIDE DEF p
      <4>4. Leaving(u, y)'
        BY Zenon, <1>2, <2>1, <3>3, <4>2, <4>3, MessageParsed
      <4>5. Asks(u, exec.request)'
        BY Zenon, <3>7, <4>1, <4>3, <4>4 DEF Asks
      <4> QED
        BY Zenon, <3>1, <3>6, <3>7, <4>5
    <3>8. CASE /\ request_queue_' = [request_queue_ EXCEPT ![u] = Tail(request_queue_[u])]
               /\ WriteNextRequest(u, Tail(request_queue_[u]))
      <4>1. Tail(request_queue_[u]) = <<>>
        BY Zenon, <3>2, OneMessage
      <4>2. request_queue_'[u] = <<>> /\ write_buffer_' = write_buffer_
        BY Zenon, <1>1, <3>8, <4>1 DEF WriteNextRequest, TypeOK
      <4>3. Silent(u)'
        BY Zenon, <1>2, <2>1, <3>3, <4>2, MessageParsed
      <4> QED
        BY Zenon, <3>6, <4>2, <4>3
    <3> QED
      BY Zenon, <2>8, <3>5, <3>7, <3>8 DEF HandleResponse
  <2> QED
    BY Zenon, <2>7, <2>8
<1> QED
  BY Zenon, <1>3, <1>4

\* The steps of the select thread keep the transports sound.
LEMMA SoundSelect ==
  ASSUME ConstantsAssumption, AnswersInv, Select, NEW u \in Transport \ contested
  PROVE  Sound(u)'
<1>1. CASE OnNotificationChannelConnected
  <2>1. TypeOK /\ Sound(u)
    BY Zenon, Parts
  <2>2. /\ UNCHANGED <<socket_, request_queue_, buffers, exec, passed>>
        /\ UNCHANGED <<op, state_, is_shutdown_>> \/ Reconnect("select")
    BY Zenon, <1>1 DEF OnNotificationChannelConnected
  <2>3. SameBut(u)
    BY Zenon, <2>2, SameUseFacts DEF SameBut, SamePipe, buffers
  <2>4. CASE UNCHANGED <<op, state_, is_shutdown_>>
    BY Zenon, <2>1, <2>3, <2>4, Frame, SameCalls DEF SameAt, SameBut
  <2>5. CASE Reconnect("select")
    BY Zenon, <2>1, <2>3, <2>5, SoundReconnect, Names
  <2> QED
    BY Zenon, <2>2, <2>4, <2>5
<1> QED
  BY Zenon, <1>1, SoundProcess, SoundSocketError, SoundDoSend, SoundDoReceive, SoundOnBytesRead
  DEF Select
============================================================================
