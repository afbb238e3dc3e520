---------------------------- MODULE XBDMContext ----------------------------
(***************************************************************************)
(* The path of an RDCP command from a caller to the target and back:       *)
(* XBDMContext::SendCommand hands the command to xbdm_control_executor_    *)
(* (one thread), which connects if it must, puts the request on the queue  *)
(* of an XBDMTransport and blocks in RDCPProcessedRequest::                *)
(* WaitUntilCompleted; the select thread moves the bytes and completes the *)
(* request; any thread may close the transport, which abandons it.         *)
(*                                                                         *)
(* Three kinds of thread call into a transport (Actor): "exec" is          *)
(* xbdm_control_executor_, "select" the SelectThread and "app" the threads *)
(* of the shell, of the GDB server and of the notification executor.       *)
(* A Close is three steps, because only its middle part holds socket_lock_ *)
(* and only its last part holds request_queue_lock_.                       *)
(***************************************************************************)
EXTENDS Naturals, Sequences

CONSTANTS
  Request,          \* the commands the callers send, each once
  BinaryRequest,    \* the ones the target answers with OK_SEND_BINARY_DATA
  Handler,          \* names of dedicated channels
  MaxTransports,    \* bound on the XBDMTransport objects ever created
  MaxNotifyConnects,\* bound on connections to the notification server
  MaxAppCalls,      \* bound on Close/Reconnect/Create calls by "app"
  SpuriousWakeups,  \* whether condition_variable::wait may return unnotified
  None

ASSUME ConstantsAssumption ==
  /\ BinaryRequest \subseteq Request
  /\ MaxTransports \in Nat \ {0}
  /\ MaxNotifyConnects \in Nat
  /\ MaxAppCalls \in Nat
  /\ SpuriousWakeups \in BOOLEAN
  /\ None \notin Request
  /\ Handler \cap {"idle", "install", "open", "erase", "reset"} = {}
  /\ None \notin 1..MaxTransports

Transport == 1..MaxTransports
Actor == {"app", "select", "exec"}

\* RDCPRequest objects as they travel to the target: the command line, or the
\* binary payload that follows an OK_SEND_BINARY_DATA response.
ToTarget == [kind : {"command", "payload"}, of : Request]

\* What the target sends: the greeting of a new connection (OK_CONNECTED or a
\* refusal), a response to a request, and the end of the stream.
Greeting == [kind : {"connected", "refused"}, of : {None}]
Response == [kind : {"send_binary", "done"}, of : Request]
EOF == [kind |-> "eof", of |-> None]
FromTarget == Greeting \cup Response

VARIABLES
  xbdm_transport_,        \* the main transport, None after Shutdown
  dedicated_transports_,  \* handler -> transport or None
  allocated,              \* transports 1..allocated have been constructed
  state_, is_shutdown_,   \* XBDMTransport::state_, SelectableBase::is_shutdown_
  socket_,                \* "none" (-1), "opening" (before connect), "open"
  selected,               \* transport is in SelectThread::selectables_
  request_queue_, write_buffer_, read_buffer_,
  outbound, inbound,      \* bytes in the network and at the target
  tasks,                  \* queue of xbdm_control_executor_
  exec,                   \* where ExecuteXBDMPromise stands
  op,                     \* per actor, the Close/Reconnect/Connect under way
  passed,                 \* the transport whose Process the select thread is in
  reading,                \* the OnBytesRead the select thread is in, or None
  status, answer, promise,\* per request: status, the response, the promise
  phase,                  \* life of the context
  notifyConnects, appCalls,
  stranded,               \* history: requests whose wake-up cannot come
  contested               \* history: transports two threads connected at once

main == <<xbdm_transport_, dedicated_transports_, allocated>>
conn == <<state_, is_shutdown_, socket_, selected>>
buffers == <<write_buffer_, read_buffer_, outbound, inbound>>
results == <<status, answer, promise>>
bounds == <<notifyConnects, appCalls>>
history == <<stranded, contested>>
vars == <<main, conn, request_queue_, buffers, tasks, exec, op, passed, reading,
          results, phase, bounds, history>>

Idle == [at |-> "idle", t |-> None, then |-> "idle"]

OpAt == {"idle", "close_socket", "close_abandon", "install", "open", "connect"}
ExecAt == {"idle", "check", "dial", "dialing", "poll", "redialing", "send",
           "sent", "waiting", "woken"}
Then == {"idle", "install", "open", "erase", "reset"} \cup Handler

\* A posted ExecuteXBDMPromise; the one that runs; a Close, Connect or Reconnect
\* under way; the front of the queue that OnBytesRead saw on a transport.
Task == [request : Request, transport : Transport]
Execution ==
  [at : ExecAt, request : Request \cup {None}, transport : Transport \cup {None}]
Call == [at : OpAt, t : Transport \cup {None}, then : Then]
Reading == [t : Transport, request : Request \cup {None}]

Accepting == {"running", "closing", "stopping"}
StatusCode == {"INVALID", "OK", "ERR_NOT_CONNECTED", "ERR_ABANDONED"}
Verdict == [status : StatusCode \ {"INVALID"}, answer : Request \cup {None}]

TypeOK ==
  /\ xbdm_transport_ \in Transport \cup {None}
  /\ dedicated_transports_ \in [Handler -> Transport \cup {None}]
  /\ allocated \in Transport
  /\ state_ \in [Transport -> {"DISCONNECTED", "INIT", "CONNECTED"}]
  /\ is_shutdown_ \in [Transport -> BOOLEAN]
  /\ socket_ \in [Transport -> {"none", "opening", "open"}]
  /\ selected \in [Transport -> BOOLEAN]
  /\ request_queue_ \in [Transport -> Seq(Request)]
  /\ write_buffer_ \in [Transport -> Seq(ToTarget)]
  /\ read_buffer_ \in [Transport -> Seq(FromTarget)]
  /\ outbound \in [Transport -> Seq(ToTarget)]
  /\ inbound \in [Transport -> Seq(FromTarget \cup {EOF})]
  /\ tasks \in Seq(Task)
  /\ exec \in Execution
  /\ op \in [Actor -> Call]
  /\ passed \in Transport \cup {None}
  /\ reading \in Reading \cup {None}
  /\ status \in [Request -> StatusCode]
  /\ answer \in [Request -> Request \cup {None}]
  /\ promise \in [Request -> {"none", "pending", "set", "broken"}]
  /\ phase \in {"running", "closing", "stopping", "joining", "down", "crashed"}
  /\ notifyConnects \in Nat
  /\ appCalls \in Nat
  /\ stranded \subseteq Request
  /\ contested \subseteq Transport

\* XBDMContext::XBDMContext: the main transport exists and is selected, but
\* nothing is connected before the first command.
Init ==
  /\ xbdm_transport_ = 1
  /\ dedicated_transports_ = [h \in Handler |-> None]
  /\ allocated = 1
  /\ state_ = [t \in Transport |-> "INIT"]
  /\ is_shutdown_ = [t \in Transport |-> FALSE]
  /\ socket_ = [t \in Transport |-> "none"]
  /\ selected = [t \in Transport |-> t = 1]
  /\ request_queue_ = [t \in Transport |-> <<>>]
  /\ write_buffer_ = [t \in Transport |-> <<>>]
  /\ read_buffer_ = [t \in Transport |-> <<>>]
  /\ outbound = [t \in Transport |-> <<>>]
  /\ inbound = [t \in Transport |-> <<>>]
  /\ tasks = <<>>
  /\ exec = [at |-> "idle", request |-> None, transport |-> None]
  /\ op = [a \in Actor |-> Idle]
  /\ passed = None
  /\ reading = None
  /\ status = [r \in Request |-> "INVALID"]
  /\ answer = [r \in Request |-> None]
  /\ promise = [r \in Request |-> "none"]
  /\ phase = "running"
  /\ notifyConnects = 0
  /\ appCalls = 0
  /\ stranded = {}
  /\ contested = {}

\* The executor goes on to "at" with the same request and transport.
Goto(at) == exec' = [at |-> at, request |-> exec.request, transport |-> exec.transport]

\* Actor a is at "at" of a call on transport t; "then" is what follows Close.
Enter(a, at, t, then) == op' = [op EXCEPT ![a] = [at |-> at, t |-> t, then |-> then]]
Leave(a) == Enter(a, "idle", None, "idle")

----------------------------------------------------------------------------
(***************************************************************************)
(* RDCPProcessedRequest                                                    *)
(***************************************************************************)

\* completed_.notify_all() of the requests rs: it wakes the executor only if it
\* is already blocked in wait. A wake-up nobody waits for is gone.
Notify(rs) ==
  /\ IF exec.at = "waiting" /\ exec.request \in rs THEN Goto("woken") ELSE UNCHANGED exec
  /\ stranded' = stranded \cup {r \in rs : exec.request = r /\ exec.at = "sent"}

\* Seeded fault: Abandon forgets notify_all.
AbandonSilently(rs) ==
  /\ status' = [r \in Request |-> IF r \in rs THEN "ERR_ABANDONED" ELSE status[r]]
  /\ UNCHANGED <<answer, promise, exec, stranded>>

\* RDCPProcessedRequest::Abandon for each request of a set.
Abandon(rs) ==
  /\ status' = [r \in Request |-> IF r \in rs THEN "ERR_ABANDONED" ELSE status[r]]
  /\ Notify(rs)
  /\ UNCHANGED <<answer, promise>>

\* RDCPProcessedRequest::Complete with a response to request "of".
Complete(r, of) ==
  /\ status' = [status EXCEPT ![r] = "OK"]
  /\ answer' = [answer EXCEPT ![r] = of]
  /\ Notify({r})
  /\ UNCHANGED promise

----------------------------------------------------------------------------
(***************************************************************************)
(* XBDMTransport: Close and Connect, called by any actor                   *)
(***************************************************************************)

\* Close, before it takes a lock: state_ = INIT, the signalling pipe is closed
\* and is_shutdown_ is set. "then" is what the caller does after Close.
BeginClose(a, t, then) ==
  /\ state_' = [state_ EXCEPT ![t] = "INIT"]
  /\ is_shutdown_' = [is_shutdown_ EXCEPT ![t] = TRUE]
  /\ Enter(a, "close_socket", t, then)

\* Seeded fault: the socket is closed without socket_lock_.
CloseSocketUnlocked(a) ==
  LET t == op[a].t IN
  /\ op[a].at = "close_socket"
  /\ socket_' = [socket_ EXCEPT ![t] = "none"]
  /\ outbound' = [outbound EXCEPT ![t] = <<>>]
  /\ inbound' = [inbound EXCEPT ![t] = <<>>]
  /\ Enter(a, "close_abandon", t, op[a].then)
  /\ UNCHANGED <<main, state_, is_shutdown_, selected, request_queue_,
                 write_buffer_, read_buffer_, tasks, exec, passed, reading, results,
                 phase, bounds, history>>

\* TCPSocketBase::Close: nothing if there is no socket, else under socket_lock_,
\* which TCPConnection::Process holds while the select thread is in OnBytesRead.
\* The bytes in flight are lost.
CloseSocket(a) ==
  LET t == op[a].t IN
  /\ op[a].at = "close_socket"
  /\ a # "select" /\ reading # None /\ socket_[t] # "none" => reading.t # t
  /\ socket_' = [socket_ EXCEPT ![t] = "none"]
  /\ outbound' = [outbound EXCEPT ![t] = <<>>]
  /\ inbound' = [inbound EXCEPT ![t] = <<>>]
  /\ Enter(a, "close_abandon", t, op[a].then)
  /\ UNCHANGED <<main, state_, is_shutdown_, selected, request_queue_,
                 write_buffer_, read_buffer_, tasks, exec, passed, reading, results,
                 phase, bounds, history>>

\* The end of Close under request_queue_lock_: every queued request is
\* abandoned and the queue cleared. write_buffer_ and read_buffer_ stay.
CloseAbandon(a) ==
  LET t == op[a].t IN
  /\ op[a].at = "close_abandon"
  /\ Abandon({request_queue_[t][i] : i \in DOMAIN request_queue_[t]})
  /\ request_queue_' = [request_queue_ EXCEPT ![t] = <<>>]
  /\ IF op[a].then \in {"install", "open"} THEN Enter(a, op[a].then, t, "idle") ELSE Leave(a)
  /\ IF op[a].then = "reset"
     THEN xbdm_transport_' = None /\ phase' = "stopping"
     ELSE UNCHANGED <<xbdm_transport_, phase>>
  /\ dedicated_transports_' = [h \in Handler |->
       IF op[a].then = "erase" /\ dedicated_transports_[h] = t THEN None
       ELSE dedicated_transports_[h]]
  /\ UNCHANGED <<allocated, conn, buffers, tasks,
                 passed, reading, bounds, contested>>

\* Connect up to the socket() call: an open socket is closed first.
Connect(a, t) ==
  \/ /\ socket_[t] # "none"
     /\ BeginClose(a, t, "open")
  \/ /\ socket_[t] = "none"
     /\ Enter(a, "open", t, "idle")
     /\ UNCHANGED <<state_, is_shutdown_>>

\* socket_ = socket(...): from here the select thread sees the descriptor.
\* Connect takes no lock: another thread may be between here and connect().
OpenSocket(a) ==
  LET t == op[a].t IN
  /\ op[a].at = "open"
  /\ socket_' = [socket_ EXCEPT ![t] = "opening"]
  /\ Enter(a, "connect", t, op[a].then)
  /\ contested' = contested \cup
       {u \in {t} : \E b \in Actor \ {a} : op[b].t = u /\ op[b].at \in {"open", "connect"}}
  /\ UNCHANGED <<main, state_, is_shutdown_, selected, request_queue_, buffers,
                 tasks, exec, passed, reading, results, phase, bounds, stranded>>

----------------------------------------------------------------------------
(***************************************************************************)
(* XBDMContext: reconnecting                                               *)
(***************************************************************************)

\* Reconnect: close the current main transport, if there is one.
Reconnect(a) ==
  \/ /\ xbdm_transport_ # None
     /\ BeginClose(a, xbdm_transport_, "install")
  \/ /\ xbdm_transport_ = None
     /\ Enter(a, "install", None, "idle")
     /\ UNCHANGED <<state_, is_shutdown_>>

\* A new XBDMTransport object, handed to SelectThread::AddConnection.
Allocate(a, then) ==
  /\ allocated < MaxTransports
  /\ allocated' = allocated + 1
  /\ selected' = [selected EXCEPT ![allocated + 1] = TRUE]
  /\ Enter(a, "open", allocated + 1, then)

\* The rest of Reconnect: the new transport becomes the main one and Connect is
\* called on it.
Install(a) ==
  /\ op[a].at = "install"
  /\ Allocate(a, "idle")
  /\ xbdm_transport_' = allocated + 1
  /\ UNCHANGED <<dedicated_transports_, state_, is_shutdown_, socket_,
                 request_queue_, buffers, tasks, exec, passed, reading, results,
                 phase, bounds, history>>

\* The end of ExecuteXBDMPromise: promise.set_value.
Fulfil(r) ==
  /\ promise' = [promise EXCEPT ![r] = "set"]
  /\ exec' = [at |-> "idle", request |-> None, transport |-> None]

\* Seeded fault: the status is not set before the promise is.
NotConnectedSilently == Fulfil(exec.request) /\ UNCHANGED <<status, answer>>

\* XBDMConnect returned false.
NotConnected ==
  /\ status' = [status EXCEPT ![exec.request] = "ERR_NOT_CONNECTED"]
  /\ Fulfil(exec.request)
  /\ UNCHANGED answer

\* Seeded fault: XBDMConnect does not wait for the greeting.
ConnectReturnedEarly(a) ==
  \/ a = "exec" /\ exec.at = "dialing" /\ Goto("send") /\ UNCHANGED results
  \/ a = "exec" /\ exec.at = "redialing" /\ NotConnected
  \/ (a # "exec" \/ exec.at = "dial") /\ UNCHANGED <<exec, results>>

\* What XBDMConnect does when its own calls of Connect return true. The result
\* of the Connect inside Reconnect (exec.at = "dial") is ignored.
ConnectReturned(a) ==
  \/ a = "exec" /\ exec.at = "dialing" /\ Goto("poll") /\ UNCHANGED results
  \/ a = "exec" /\ exec.at = "redialing" /\ NotConnected
  \/ (a # "exec" \/ exec.at = "dial") /\ UNCHANGED <<exec, results>>

\* connect() succeeds on the new socket. The target greets the connection.
ConnectSocket(a) ==
  LET t == op[a].t IN
  /\ op[a].at = "connect" /\ socket_[t] = "opening"
  /\ socket_' = [socket_ EXCEPT ![t] = "open"]
  /\ \E g \in Greeting : inbound' = [inbound EXCEPT ![t] = <<g>>]
  /\ outbound' = [outbound EXCEPT ![t] = <<>>]
  /\ dedicated_transports_' = [h \in Handler |->
       IF op[a].then = h THEN t ELSE dedicated_transports_[h]]
  /\ ConnectReturned(a)
  /\ Leave(a)
  /\ UNCHANGED <<xbdm_transport_, allocated, state_, is_shutdown_, selected,
                 request_queue_, write_buffer_, read_buffer_, tasks, passed, reading,
                 phase, bounds, history>>

\* connect() fails: the target does not accept, or another thread has closed or
\* replaced the descriptor meanwhile. The descriptor is closed.
ConnectFails(a) ==
  LET t == op[a].t IN
  /\ op[a].at = "connect"
  /\ socket_' = [socket_ EXCEPT ![t] = "none"]
  /\ inbound' = [inbound EXCEPT ![t] = <<>>]
  /\ outbound' = [outbound EXCEPT ![t] = <<>>]
  /\ \/ a = "exec" /\ exec.at \in {"dialing", "redialing"} /\ NotConnected
     \/ (a # "exec" \/ exec.at = "dial") /\ UNCHANGED <<exec, results>>
  /\ Leave(a)
  /\ UNCHANGED <<main, state_, is_shutdown_, selected, request_queue_,
                 write_buffer_, read_buffer_, tasks, passed, reading, phase, bounds, history>>

----------------------------------------------------------------------------
(***************************************************************************)
(* xbdm_control_executor_: ExecuteXBDMPromise and XBDMConnect              *)
(***************************************************************************)

ExecStep(from) == exec.at = from /\ op["exec"] = Idle /\ phase # "crashed"

\* The thread pool runs the next posted ExecuteXBDMPromise.
Dequeue ==
  /\ ExecStep("idle") /\ phase \in Accepting
  /\ tasks # <<>>
  /\ exec' = [at |-> "check", request |-> Head(tasks).request,
              transport |-> Head(tasks).transport]
  /\ tasks' = Tail(tasks)
  /\ UNCHANGED <<main, conn, request_queue_, buffers, op, passed, reading, results,
                 phase, bounds, history>>

\* XBDMConnect, first two conditions. Reconnect replaces the MAIN transport,
\* whichever transport the command was meant for.
Check ==
  LET t == exec.transport IN
  /\ ExecStep("check")
  /\ \/ /\ state_[t] = "CONNECTED"
        /\ Goto("send")
        /\ UNCHANGED <<state_, is_shutdown_, op>>
     \/ /\ state_[t] # "CONNECTED" /\ is_shutdown_[t]
        /\ Goto("dial")
        /\ Reconnect("exec")
     \/ /\ state_[t] # "CONNECTED" /\ ~is_shutdown_[t]
        /\ Goto("dial")
        /\ UNCHANGED <<state_, is_shutdown_, op>>
  /\ UNCHANGED <<main, socket_, selected, request_queue_, buffers, tasks,
                 passed, reading, results, phase, bounds, history>>

\* "!transport->IsConnected() && !transport->Connect(xbox_address_)"
Dial ==
  LET t == exec.transport IN
  /\ ExecStep("dial")
  /\ \/ /\ socket_[t] # "none"
        /\ Goto("poll")
        /\ UNCHANGED <<state_, is_shutdown_, op>>
     \/ /\ socket_[t] = "none"
        /\ Goto("dialing")
        /\ Connect("exec", t)
  /\ UNCHANGED <<main, socket_, selected, request_queue_, buffers, tasks,
                 passed, reading, results, phase, bounds, history>>

\* The busy wait: it ends when the greeting has been processed, or after five
\* seconds with one more Connect whose result does not matter.
Poll ==
  LET t == exec.transport IN
  /\ ExecStep("poll")
  /\ \/ /\ state_[t] = "CONNECTED"
        /\ Goto("send")
        /\ UNCHANGED <<state_, is_shutdown_, op>>
     \/ /\ state_[t] # "CONNECTED"
        /\ Goto("redialing")
        /\ Connect("exec", t)
  /\ UNCHANGED <<main, socket_, selected, request_queue_, buffers, tasks,
                 passed, reading, results, phase, bounds, history>>

\* WriteNextRequest: the FRONT of the queue goes to the write buffer.
WriteNextRequest(t, queue) ==
  write_buffer_' =
    IF state_[t] = "CONNECTED" /\ queue # <<>>
    THEN [write_buffer_ EXCEPT ![t] =
            Append(@, [kind |-> "command", of |-> Head(queue)])]
    ELSE write_buffer_

\* XBDMTransport::Send under request_queue_lock_.
Send ==
  LET t == exec.transport
      queue == Append(request_queue_[t], exec.request) IN
  /\ ExecStep("send")
  /\ request_queue_' = [request_queue_ EXCEPT ![t] = queue]
  /\ WriteNextRequest(t, queue)
  /\ Goto("sent")
  /\ stranded' = IF is_shutdown_[t] \/ t \in contested
                 THEN stranded \cup {exec.request} ELSE stranded
  /\ UNCHANGED <<main, conn, read_buffer_, outbound, inbound, tasks, op,
                 passed, reading, results, phase, bounds, contested>>

\* Seeded fault: WaitUntilCompleted does not block.
WaitNot ==
  /\ ExecStep("sent")
  /\ Goto("woken")
  /\ UNCHANGED <<main, conn, request_queue_, buffers, tasks, op, passed, reading,
                 results, phase, bounds, history>>

\* WaitUntilCompleted blocks: there is no predicate, whatever the status is.
Wait ==
  /\ ExecStep("sent")
  /\ Goto("waiting")
  /\ UNCHANGED <<main, conn, request_queue_, buffers, tasks, op, passed, reading,
                 results, phase, bounds, history>>

\* WaitUntilCompleted returns, notified or (SpuriousWakeups) not.
Return ==
  /\ \/ ExecStep("woken")
     \/ SpuriousWakeups /\ ExecStep("waiting")
  /\ Fulfil(exec.request)
  /\ UNCHANGED <<main, conn, request_queue_, buffers, tasks, op, passed, reading,
                 status, answer, phase, bounds, history>>

----------------------------------------------------------------------------
(***************************************************************************)
(* SelectThread, while it runs                                             *)
(***************************************************************************)

\* Between two calls of Process, and inside the one for t.
SelectStep == phase = "running" /\ op["select"] = Idle /\ reading = None /\ passed = None
Processing(t) == op["select"] = Idle /\ reading = None /\ passed = t

\* select reports the socket of t: there is something to read or to write.
Ready(t) ==
  \/ socket_[t] = "opening"
  \/ socket_[t] = "open" /\ (inbound[t] # <<>> \/ write_buffer_[t] # <<>>)

\* Process (or Select) finds the pipe closed: the transport is erased from
\* selectables_ and NotifyRemoved runs, even if it has a new socket by then.
Remove(t) ==
  /\ SelectStep /\ selected[t] /\ is_shutdown_[t]
  /\ selected' = [selected EXCEPT ![t] = FALSE]
  /\ state_' = [state_ EXCEPT ![t] = "DISCONNECTED"]
  /\ UNCHANGED <<main, is_shutdown_, socket_, request_queue_, buffers, tasks,
                 exec, op, passed, reading, results, phase, bounds, history>>

\* TCPConnection::Process finds the pipe open and goes on to take socket_lock_.
\* Another thread may close the transport, or connect it anew, before it does.
Process(t) ==
  /\ SelectStep /\ selected[t] /\ ~is_shutdown_[t] /\ Ready(t)
  /\ passed' = t
  /\ UNCHANGED <<main, conn, request_queue_, buffers, tasks, exec, op, reading,
                 results, phase, bounds, history>>

\* Process returns: it found no socket (then a closed transport is removed), or
\* nothing (more) to do, or the descriptor is not the one select looked at.
ProcessReturns(t) ==
  /\ Processing(t)
  /\ passed' = None
  /\ \/ /\ socket_[t] = "none" /\ is_shutdown_[t]
        /\ selected' = [selected EXCEPT ![t] = FALSE]
        /\ state_' = [state_ EXCEPT ![t] = "DISCONNECTED"]
     \/ /\ IF socket_[t] = "none" THEN ~is_shutdown_[t] ELSE is_shutdown_[t] \/ ~Ready(t)
        /\ UNCHANGED <<selected, state_>>
  /\ UNCHANGED <<main, is_shutdown_, socket_, request_queue_, buffers, tasks,
                 exec, op, reading, results, phase, bounds, history>>

\* DoSend: the write buffer goes to the socket.
DoSend(t) ==
  /\ Processing(t) /\ socket_[t] = "open" /\ write_buffer_[t] # <<>>
  /\ outbound' = [outbound EXCEPT ![t] = @ \o write_buffer_[t]]
  /\ write_buffer_' = [write_buffer_ EXCEPT ![t] = <<>>]
  /\ UNCHANGED <<main, conn, request_queue_, read_buffer_, inbound, tasks, exec,
                 op, passed, reading, results, phase, bounds, history>>

\* recv returns nothing or an error, or send fails, or select reports an
\* exception: the target is gone, or the socket is not connected yet.
SocketError(t) ==
  /\ Processing(t)
  /\ \/ socket_[t] = "opening"
     \/ /\ socket_[t] = "open" /\ inbound[t] # <<>>
        /\ \/ Head(inbound[t]) = EOF
           \/ write_buffer_[t] # <<>> /\ inbound[t][Len(inbound[t])] = EOF
  /\ BeginClose("select", t, "idle")
  /\ passed' = None
  /\ UNCHANGED <<main, socket_, selected, request_queue_, buffers, tasks, exec,
                 reading, results, phase, bounds, history>>

\* DoReceive, then OnBytesRead up to the point where it has looked at the front
\* of request_queue_, without request_queue_lock_.
DoReceive(t) ==
  /\ Processing(t) /\ socket_[t] = "open"
  /\ \E n \in 1..Len(inbound[t]) :
       /\ EOF \notin {inbound[t][i] : i \in 1..n}
       /\ read_buffer_' = [read_buffer_ EXCEPT ![t] = @ \o SubSeq(inbound[t], 1, n)]
       /\ inbound' = [inbound EXCEPT ![t] = SubSeq(@, n + 1, Len(@))]
  /\ reading' = [t |-> t, request |->
       IF request_queue_[t] = <<>> THEN None ELSE Head(request_queue_[t])]
  /\ UNCHANGED <<main, conn, request_queue_, write_buffer_, outbound, tasks,
                 exec, op, passed, results, phase, bounds, history>>

\* OnBytesRead with an empty queue: HandleInitialConnectResponse.
HandleInitialConnectResponse(t, m) ==
  /\ request_queue_[t] = <<>>
  /\ \/ /\ m.kind = "connected"
        /\ state_' = [state_ EXCEPT ![t] = "CONNECTED"]
        /\ UNCHANGED <<is_shutdown_, op>>
     \/ /\ m.kind # "connected"
        /\ BeginClose("select", t, "idle")
  /\ UNCHANGED <<request_queue_, write_buffer_, exec, results, phase, stranded>>

\* OnBytesRead with a pending request: the payload is sent, or the queue is
\* popped, the next request written and the request seen earlier completed. If
\* none was seen earlier, the null request is dereferenced.
HandleResponse(t, m) ==
  /\ request_queue_[t] # <<>>
  /\ \/ /\ reading.request = None
        /\ phase' = "crashed"
        /\ op' = [a \in Actor |-> Idle]
        /\ UNCHANGED <<request_queue_, write_buffer_, exec, results, stranded>>
     \/ /\ reading.request # None /\ m.kind = "send_binary"
        /\ write_buffer_' = [write_buffer_ EXCEPT ![t] =
             Append(@, [kind |-> "payload", of |-> reading.request])]
        /\ UNCHANGED <<request_queue_, exec, results, op, phase, stranded>>
     \/ /\ reading.request # None /\ m.kind # "send_binary"
        /\ request_queue_' = [request_queue_ EXCEPT ![t] = Tail(@)]
        /\ WriteNextRequest(t, Tail(request_queue_[t]))
        /\ Complete(reading.request, m.of)
        /\ UNCHANGED <<op, phase>>
  /\ UNCHANGED <<state_, is_shutdown_>>

\* OnBytesRead from RDCPResponse::Parse on. One response is taken per read.
OnBytesRead ==
  /\ reading # None
  /\ LET t == reading.t
         m == Head(read_buffer_[t]) IN
     /\ read_buffer_' = [read_buffer_ EXCEPT ![t] = Tail(@)]
     /\ HandleInitialConnectResponse(t, m) \/ HandleResponse(t, m)
  /\ reading' = None /\ passed' = None
  /\ UNCHANGED <<main, socket_, selected, outbound, inbound, tasks, bounds, contested>>

\* OnNotificationChannelConnected: the target connects to the notification
\* server, typically after a reboot.
OnNotificationChannelConnected ==
  /\ SelectStep /\ notifyConnects < MaxNotifyConnects
  /\ notifyConnects' = notifyConnects + 1
  /\ \/ /\ xbdm_transport_ # None
        /\ state_[xbdm_transport_] = "CONNECTED"
        /\ UNCHANGED <<state_, is_shutdown_, op>>
     \/ /\ xbdm_transport_ # None => state_[xbdm_transport_] # "CONNECTED"
        /\ Reconnect("select")
  /\ UNCHANGED <<main, socket_, selected, request_queue_, buffers, tasks, exec,
                 passed, reading, results, phase, appCalls, history>>

----------------------------------------------------------------------------
(***************************************************************************)
(* Callers: SendCommand, channels, CloseActiveConnections, Shutdown        *)
(***************************************************************************)

\* SendCommand captures the transport of the moment of the call.
SendCommand(r) ==
  /\ promise[r] = "none" /\ phase \in Accepting
  /\ \E t \in {xbdm_transport_} \cup {dedicated_transports_[h] : h \in Handler} :
       /\ t # None
       /\ tasks' = Append(tasks, [request |-> r, transport |-> t])
  /\ promise' = [promise EXCEPT ![r] = "pending"]
  /\ UNCHANGED <<main, conn, request_queue_, buffers, exec, op, passed, reading, status,
                 answer, phase, bounds, history>>

AppIdle == phase = "running" /\ op["app"] = Idle
AppCall == AppIdle /\ appCalls < MaxAppCalls /\ appCalls' = appCalls + 1

\* CloseActiveConnections, as far as the command transport goes.
CloseActiveConnections ==
  /\ AppCall
  /\ xbdm_transport_ # None
  /\ BeginClose("app", xbdm_transport_, "idle")
  /\ UNCHANGED <<main, socket_, selected, request_queue_, buffers, tasks, exec,
                 passed, reading, results, phase, notifyConnects, history>>

\* XBOXInterface::ReconnectXBDM, the shell's reconnect command.
ReconnectXBDM ==
  /\ AppCall
  /\ Reconnect("app")
  /\ UNCHANGED <<main, socket_, selected, request_queue_, buffers, tasks, exec,
                 passed, reading, results, phase, notifyConnects, history>>

CreateDedicatedChannel(h) ==
  /\ AppCall
  /\ dedicated_transports_[h] = None
  /\ Allocate("app", h)
  /\ UNCHANGED <<xbdm_transport_, dedicated_transports_, state_, is_shutdown_,
                 socket_, request_queue_, buffers, tasks, exec, passed, reading,
                 results, phase, notifyConnects, history>>

\* As many times as there are channels to destroy
DestroyDedicatedChannel(h) ==
  /\ AppIdle
  /\ dedicated_transports_[h] # None
  /\ BeginClose("app", dedicated_transports_[h], "erase")
  /\ UNCHANGED <<main, socket_, selected, request_queue_,
                 buffers, tasks, exec, passed, reading, results, phase, bounds, history>>

\* XBOXInterface::Stop: the select thread is stopped and joined first.
StopSelectThread ==
  /\ SelectStep /\ op["app"] = Idle
  /\ phase' = "closing"
  /\ UNCHANGED <<main, conn, request_queue_, buffers, tasks, exec, op, passed, reading,
                 results, bounds, history>>

\* XBDMContext::Shutdown: the dedicated transports, then the main one, which
\* every earlier step leaves non-null.
ShutdownClose ==
  /\ phase = "closing" /\ op["app"] = Idle
  /\ \/ \E h \in Handler :
          /\ dedicated_transports_[h] # None
          /\ BeginClose("app", dedicated_transports_[h], "erase")
     \/ /\ \A h \in Handler : dedicated_transports_[h] = None
        /\ BeginClose("app", xbdm_transport_, "reset")
  /\ UNCHANGED <<main, socket_, selected, request_queue_,
                 buffers, tasks, exec, passed, reading, results, phase, bounds, history>>

\* Seeded fault: the promises of the dropped tasks are leaked.
StopExecutorLeaks ==
  /\ phase = "stopping"
  /\ phase' = "joining"
  /\ tasks' = <<>>
  /\ UNCHANGED <<main, conn, request_queue_, buffers, exec, op, passed, reading, results,
                 bounds, history>>

\* Shutdown: xbdm_control_executor_->stop() drops the tasks not yet started,
\* and with them their promises.
StopExecutor ==
  /\ phase = "stopping"
  /\ phase' = "joining"
  /\ promise' = [r \in Request |->
       IF \E i \in DOMAIN tasks : tasks[i].request = r THEN "broken" ELSE promise[r]]
  /\ tasks' = <<>>
  /\ UNCHANGED <<main, conn, request_queue_, buffers, exec, op, passed, reading, status,
                 answer, bounds, history>>

\* Shutdown: xbdm_control_executor_->join() returns.
JoinExecutor ==
  /\ phase = "joining" /\ ExecStep("idle")
  /\ phase' = "down"
  /\ UNCHANGED <<main, conn, request_queue_, buffers, tasks, exec, op, passed, reading,
                 results, bounds, history>>

----------------------------------------------------------------------------
(***************************************************************************)
(* The target (XBDM on the Xbox), external                                 *)
(***************************************************************************)

Listening(t) ==
  /\ socket_[t] = "open" /\ phase # "crashed"
  /\ EOF \notin {inbound[t][i] : i \in DOMAIN inbound[t]}

\* The target answers what it receives, in order.
TargetResponds(t) ==
  /\ Listening(t) /\ outbound[t] # <<>>
  /\ LET m == Head(outbound[t])
         kind == IF m.kind = "command" /\ m.of \in BinaryRequest
                 THEN "send_binary" ELSE "done" IN
     inbound' = [inbound EXCEPT ![t] = Append(@, [kind |-> kind, of |-> m.of])]
  /\ outbound' = [outbound EXCEPT ![t] = Tail(@)]
  /\ UNCHANGED <<main, conn, request_queue_, write_buffer_, read_buffer_, tasks,
                 exec, op, passed, reading, results, phase, bounds, history>>

\* The target closes the connection, or reboots.
TargetCloses(t) ==
  /\ Listening(t)
  /\ inbound' = [inbound EXCEPT ![t] = Append(@, EOF)]
  /\ UNCHANGED <<main, conn, request_queue_, write_buffer_, read_buffer_,
                 outbound, tasks, exec, op, passed, reading, results, phase, bounds,
                 history>>

----------------------------------------------------------------------------
CallProgress(a) ==
  \/ CloseSocket(a) \/ CloseAbandon(a) \/ Install(a)
  \/ OpenSocket(a) \/ ConnectSocket(a) \/ ConnectFails(a)

Executor == Dequeue \/ Check \/ Dial \/ Poll \/ Send \/ Wait \/ Return

Select ==
  \/ \E t \in Transport :
       \/ Remove(t) \/ Process(t) \/ ProcessReturns(t)
       \/ DoSend(t) \/ SocketError(t) \/ DoReceive(t)
  \/ OnBytesRead
  \/ OnNotificationChannelConnected

Caller ==
  \/ \E r \in Request : SendCommand(r)
  \/ CloseActiveConnections
  \/ ReconnectXBDM
  \/ \E h \in Handler : CreateDedicatedChannel(h) \/ DestroyDedicatedChannel(h)
  \/ StopSelectThread

Shutdown == ShutdownClose \/ StopExecutor \/ JoinExecutor

Target == \E t \in Transport : TargetResponds(t) \/ TargetCloses(t)

Next ==
  \/ \E a \in Actor : CallProgress(a)
  \/ Executor
  \/ Select
  \/ Caller
  \/ Shutdown
  \/ Target

Spec == Init /\ [][Next]_vars

\* Every thread the operating system schedules makes progress, and an accepted
\* connection is answered (or closed) by the target. Callers owe nothing, and no
\* wake-up without a notification is owed.
Fairness ==
  /\ \A a \in Actor : WF_vars(CallProgress(a))
  /\ WF_vars(~ExecStep("waiting") /\ Executor)
  /\ \A t \in Transport :
       /\ WF_vars(Remove(t))
       /\ WF_vars(Process(t))
       /\ WF_vars(ProcessReturns(t) \/ DoSend(t) \/ SocketError(t) \/ DoReceive(t))
       /\ WF_vars(TargetResponds(t))
  /\ WF_vars(OnBytesRead)
  /\ WF_vars(Shutdown)

FairSpec == Spec /\ Fairness

----------------------------------------------------------------------------
(***************************************************************************)
(* Properties                                                              *)
(***************************************************************************)

\* The single-threaded executor sequences the requests: a transport never holds
\* more than the one request the executor is waiting for (Send, OnBytesRead and
\* Close agree on who removes it).
RequestsAreSequenced ==
  \A t \in Transport : request_queue_[t] # <<>> =>
    /\ request_queue_[t] = <<exec.request>>
    /\ exec.transport = t
    /\ exec.at \in {"sent", "waiting"}

\* The request OnBytesRead took from the queue before parsing is still the front
\* of the queue, or the queue is still empty, when the response is applied: the
\* unlocked read of request_queue_ never completes a null or a stale request.
FrontIsStable ==
  reading # None /\ reading.t \notin contested =>
    reading.request = IF request_queue_[reading.t] = <<>> THEN None
                      ELSE Head(request_queue_[reading.t])

\* A request that completes with the target's answer has the answer to its own
\* command, never the greeting or an answer to an earlier request.
ResponseMatches ==
  contested = {} => \A r \in Request : status[r] = "OK" => answer[r] = r

\* The commands posted and not started, and the results the callers may read.
Submitted == [i \in DOMAIN tasks |-> tasks[i].request]
Settled == [r \in Request |->
  IF promise[r] = "set" THEN [status |-> status[r], answer |-> answer[r]] ELSE None]
Open == phase \notin {"joining", "down"}

Service == INSTANCE CommandService WITH
  Verdict <- Verdict,
  queue <- Submitted,
  current <- exec.request,
  future <- promise,
  verdict <- Settled,
  open <- Open

\* The context implements the service: commands run one at a time, in the order
\* of the SendCommand calls; a future becomes ready once, with a verdict (the
\* answer, ERR_NOT_CONNECTED or ERR_ABANDONED), and from then on neither a late
\* response nor a late Close writes to the request its caller is reading.
ImplementsService == Service!Spec

\* After Shutdown no caller is left with a future that never becomes ready.
NoCallerLeftBehind ==
  phase = "down" => \A r \in Request : promise[r] # "pending"

\* Every command is settled, unless the executor is in one of the windows where
\* the wake-up cannot reach it: the signal came between Send and wait, or Send
\* used a transport closed since XBDMConnect or connected by two threads.
CommandsSettleUnlessStranded ==
  \A r \in Request :
    promise[r] = "pending" ~>
      \/ promise[r] # "pending"
      \/ \E s \in stranded : promise[s] = "pending"

----------------------------------------------------------------------------
(***************************************************************************)
(* What makes RequestsAreSequenced, NoCallerLeftBehind and                 *)
(* ImplementsService inductive                                             *)
(***************************************************************************)

\* The executor has a request and a transport exactly while it is not idle, and
\* a request it was woken for has its verdict.
ExecutorInv ==
  /\ exec.at = "idle" <=> exec.request = None
  /\ exec.at = "idle" <=> exec.transport = None
  /\ exec.at = "woken" => status[exec.request] # "INVALID"

\* A future is pending exactly while its command waits in tasks, once, or runs.
PendingInv ==
  /\ \A r \in Request : promise[r] = "pending" <=>
       r = exec.request \/ \E i \in DOMAIN tasks : tasks[i].request = r
  /\ \A i \in DOMAIN tasks : tasks[i].request # exec.request
  /\ \A i, j \in DOMAIN tasks : tasks[i].request = tasks[j].request => i = j

\* While the select thread is in Process nobody else marks the transport ready
\* for commands. Close may empty the queue under OnBytesRead (when it finds no
\* socket it skips socket_lock_), but nothing is queued there in its place.
ReadingInv ==
  /\ \A a \in Actor :
       op[a].at \in {"close_socket", "close_abandon"} => is_shutdown_[op[a].t]
  /\ passed # None =>
       /\ phase = "running"
       /\ op["select"] = Idle
       /\ is_shutdown_[passed] => state_[passed] # "CONNECTED"
  /\ reading # None =>
       /\ passed = reading.t
       /\ read_buffer_[passed] # <<>>
       /\ reading.request # None =>
            \/ request_queue_[passed] = <<reading.request>>
            \/ /\ request_queue_[passed] = <<>> /\ is_shutdown_[passed]
               /\ ~(exec.at = "send" /\ exec.transport = passed)

\* A call under way has a transport; Shutdown resets the main one, once.
CallInv ==
  /\ \A a \in Actor : op[a].at \notin {"idle", "install"} => op[a].t \in Transport
  /\ \A a \in Actor : op[a].then = "reset" => a = "app" /\ phase = "closing"
  /\ phase \in {"running", "closing"} => xbdm_transport_ # None

\* Nothing is left to run after the executor has been stopped and joined.
PhaseInv ==
  /\ phase \in {"joining", "down"} => tasks = <<>>
  /\ phase = "down" => exec.at = "idle"

IndInv ==
  /\ TypeOK
  /\ RequestsAreSequenced
  /\ ExecutorInv
  /\ PendingInv
  /\ ReadingInv
  /\ CallInv
  /\ PhaseInv

=============================================================================
