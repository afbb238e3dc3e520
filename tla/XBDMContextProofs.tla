------------------------- MODULE XBDMContextProofs -------------------------
(***************************************************************************)
(* Theorems about XBDMContext, for any number of commands, channels and    *)
(* transports: the inductive invariant IndInv, from which follow the       *)
(* sequencing of the requests, that nobody waits for ever after Shutdown,  *)
(* and that the context implements CommandService. They assume that        *)
(* condition_variable::wait does not return unnotified.                    *)
(*                                                                         *)
(* First come the types and how the request queues, the executor and the   *)
(* promises belong together, one lemma per action; then the calls under    *)
(* way, the theorems and the refinement.                                   *)
(***************************************************************************)
EXTENDS XBDMContext, SequenceTheorems, TLAPS

----------------------------------------------------------------------------
(* The records exec and op[a]                                              *)

\* The actors, program points and continuations the actions name exist.
LEMMA Names ==
  /\ \A x \in {"idle", "close_socket", "close_abandon", "install", "open", "connect"} :
       x \in OpAt
  /\ \A x \in {"idle", "install", "open", "erase", "reset"} \cup Handler : x \in Then
  /\ \A x \in {"idle", "check", "dial", "dialing", "poll", "redialing", "send",
               "sent", "waiting", "woken"} : x \in ExecAt
  /\ "app" \in Actor /\ "select" \in Actor /\ "exec" \in Actor
BY Zenon DEF OpAt, Then, ExecAt, Actor

\* Goto moves the executor and keeps its request and transport.
LEMMA GotoFacts ==
  ASSUME exec \in Execution, NEW at \in ExecAt, Goto(at)
  PROVE  /\ exec' \in Execution
         /\ exec'.at = at
         /\ exec'.request = exec.request
         /\ exec'.transport = exec.transport
BY Zenon DEF Goto, Execution

\* Enter sets the record of one actor and leaves the other actors alone.
LEMMA EnterFacts ==
  ASSUME op \in [Actor -> Call], NEW a \in Actor, NEW at \in OpAt,
         NEW t \in Transport \cup {None}, NEW then \in Then, Enter(a, at, t, then)
  PROVE  /\ op' \in [Actor -> Call]
         /\ op'[a].at = at /\ op'[a].t = t /\ op'[a].then = then
         /\ \A b \in Actor \ {a} : op'[b] = op[b]
<1>1. [at |-> at, t |-> t, then |-> then] \in Call
  BY Zenon DEF Call
<1> QED
  BY Zenon, <1>1 DEF Enter

\* After Leave the actor is in no call.
LEMMA LeaveFacts ==
  ASSUME op \in [Actor -> Call], NEW a \in Actor, Enter(a, "idle", None, "idle")
  PROVE  /\ op'[a].at = "idle" /\ op'[a].t = None /\ op'[a].then = "idle"
         /\ \A b \in Actor \ {a} : op'[b] = op[b]
BY EnterFacts, Names

\* The fields of an actor's call have their types.
LEMMA CallFields ==
  ASSUME TypeOK, NEW a \in Actor
  PROVE  op[a].at \in OpAt /\ op[a].t \in Transport \cup {None} /\ op[a].then \in Then
BY Zenon DEF TypeOK, Call

\* The fields of an actor that is in no call.
LEMMA IdleFields == Idle.at = "idle" /\ Idle.t = None /\ Idle.then = "idle" /\ Idle \in Call
BY Zenon DEF Idle, Call, OpAt, Then

\* An executor that is not idle has a request and a transport.
LEMMA Busy ==
  ASSUME TypeOK, ExecutorInv, exec.at # "idle"
  PROVE  exec.request \in Request /\ exec.transport \in Transport
BY Zenon DEF TypeOK, ExecutorInv, Execution

----------------------------------------------------------------------------
(* Type correctness                                                        *)

\* What Close, Connect and Reconnect write before they take a lock.
CallTypes ==
  /\ state_ \in [Transport -> {"DISCONNECTED", "INIT", "CONNECTED"}]
  /\ is_shutdown_ \in [Transport -> BOOLEAN]
  /\ op \in [Actor -> Call]

\* The first step of XBDMTransport::Close keeps the types.
LEMMA BeginCloseType ==
  ASSUME TypeOK, NEW a \in Actor, NEW t \in Transport, NEW then \in Then,
         BeginClose(a, t, then)
  PROVE  CallTypes'
BY Zenon, EnterFacts, Names DEF BeginClose, TypeOK, CallTypes

\* The first step of XBDMTransport::Connect keeps the types.
LEMMA ConnectType ==
  ASSUME TypeOK, NEW a \in Actor, NEW t \in Transport, Connect(a, t)
  PROVE  CallTypes'
BY Zenon, BeginCloseType, EnterFacts, Names DEF Connect, TypeOK, CallTypes

\* The first step of XBDMContext::Reconnect keeps the types.
LEMMA ReconnectType ==
  ASSUME TypeOK, NEW a \in Actor, Reconnect(a)
  PROVE  CallTypes'
BY Zenon, BeginCloseType, EnterFacts, Names DEF Reconnect, TypeOK, CallTypes

\* Notify for the requests of a set, all of them known.
LEMMA NotifyType ==
  ASSUME TypeOK, NEW rs \in SUBSET Request, Notify(rs)
  PROVE  exec' \in Execution /\ stranded' \subseteq Request
BY Zenon, GotoFacts, Names DEF Notify, TypeOK

\* promise.set_value at the end of ExecuteXBDMPromise keeps the types.
LEMMA FulfilType ==
  ASSUME TypeOK, NEW r \in Request, Fulfil(r)
  PROVE  /\ exec' \in Execution
         /\ promise' \in [Request -> {"none", "pending", "set", "broken"}]
BY Zenon DEF Fulfil, TypeOK, Execution, ExecAt

\* Emptying one queue or buffer keeps the types (socket close, Close).
LEMMA EmptySequences ==
  /\ <<>> \in Seq(Request)
  /\ <<>> \in Seq(ToTarget)
  /\ <<>> \in Seq(FromTarget)
  /\ <<>> \in Seq(FromTarget \cup {EOF})
  /\ <<>> \in Seq(Task)
OBVIOUS

\* What Close abandons is a set of requests.
LEMMA QueueElements ==
  ASSUME TypeOK, NEW t \in Transport
  PROVE  {request_queue_[t][i] : i \in DOMAIN request_queue_[t]} \in SUBSET Request
BY DEF TypeOK

\* TCPSocketBase::Close keeps the types.
LEMMA TypeCloseSocket ==
  ASSUME TypeOK, CallInv, NEW a \in Actor, CloseSocket(a)
  PROVE  TypeOK'
<1>1. op' \in [Actor -> Call]
  <2>1. op[a].t \in Transport \cup {None} /\ op[a].then \in Then
    BY Zenon, CallFields
  <2>2. Enter(a, "close_abandon", op[a].t, op[a].then)
    BY Zenon DEF CloseSocket
  <2> QED
    BY Zenon, <2>1, <2>2, EnterFacts, Names DEF TypeOK
<1> QED
  BY Zenon, <1>1, EmptySequences DEF CloseSocket, TypeOK, main, results, bounds, history

\* The end of XBDMTransport::Close, and what follows it, keep the types.
LEMMA TypeCloseAbandon ==
  ASSUME TypeOK, CallInv, NEW a \in Actor, CloseAbandon(a)
  PROVE  TypeOK'
<1> DEFINE t == op[a].t
<1>1. t \in Transport
  BY Zenon DEF CloseAbandon, CallInv
<1>2. op' \in [Actor -> Call]
  <2>1. CASE op[a].then \in {"install", "open"}
    BY Zenon, <1>1, <2>1, EnterFacts, Names DEF CloseAbandon, TypeOK
  <2>2. CASE op[a].then \notin {"install", "open"}
    BY Zenon, <2>2, EnterFacts, Names DEF CloseAbandon, Leave, TypeOK
  <2> QED
    BY Zenon, <2>1, <2>2
<1>3. exec' \in Execution /\ stranded' \subseteq Request
  BY Zenon, <1>1, QueueElements, NotifyType DEF CloseAbandon, Abandon
<1>4. status' \in [Request -> StatusCode]
  BY Zenon DEF CloseAbandon, Abandon, TypeOK, StatusCode
<1>5. request_queue_' \in [Transport -> Seq(Request)]
  BY Zenon, EmptySequences DEF CloseAbandon, TypeOK
<1>6. dedicated_transports_' \in [Handler -> Transport \cup {None}]
  BY Zenon DEF CloseAbandon, TypeOK
<1> QED
  BY Zenon, <1>2, <1>3, <1>4, <1>5, <1>6 DEF CloseAbandon, Abandon, TypeOK, conn, buffers, bounds

\* The socket() call of Connect keeps the types.
LEMMA TypeOpenSocket ==
  ASSUME TypeOK, CallInv, NEW a \in Actor, OpenSocket(a)
  PROVE  TypeOK'
<1>1. op' \in [Actor -> Call]
  BY Zenon, EnterFacts, CallFields, Names DEF OpenSocket, TypeOK
<1>2. op[a].t \in Transport
  BY Zenon DEF OpenSocket, CallInv
<1> QED
  BY Zenon, <1>1, <1>2 DEF OpenSocket, TypeOK, main, buffers, results, bounds

\* A new transport is one of the Transport objects.
LEMMA AllocateType ==
  ASSUME ConstantsAssumption, TypeOK, NEW a \in Actor, NEW then \in Then, Allocate(a, then)
  PROVE  /\ allocated' \in Transport
         /\ allocated' = allocated + 1
         /\ selected' \in [Transport -> BOOLEAN]
         /\ op' \in [Actor -> Call]
<1>1. allocated' \in Transport /\ allocated' = allocated + 1
  BY DEF Allocate, TypeOK, Transport, ConstantsAssumption
<1> QED
  BY Zenon, <1>1, EnterFacts, Names DEF Allocate, TypeOK

\* The second half of Reconnect keeps the types.
LEMMA TypeInstall ==
  ASSUME ConstantsAssumption, TypeOK, NEW a \in Actor, Install(a)
  PROVE  TypeOK'
BY Zenon, AllocateType, Names DEF Install, TypeOK, buffers, results, bounds, history

\* ExecuteXBDMPromise giving up with ERR_NOT_CONNECTED keeps the types.
LEMMA NotConnectedType ==
  ASSUME TypeOK, exec.request \in Request, NotConnected
  PROVE  /\ exec' \in Execution
         /\ status' \in [Request -> StatusCode]
         /\ answer' \in [Request -> Request \cup {None}]
         /\ promise' \in [Request -> {"none", "pending", "set", "broken"}]
BY Zenon, FulfilType DEF NotConnected, TypeOK, StatusCode

\* A connect() that succeeds keeps the types.
LEMMA TypeConnectSocket ==
  ASSUME TypeOK, ExecutorInv, CallInv, NEW a \in Actor, ConnectSocket(a)
  PROVE  TypeOK'
<1>1. op[a].t \in Transport
  BY Zenon DEF ConnectSocket, CallInv
<1>2. op' \in [Actor -> Call]
  BY Zenon, EnterFacts, Names DEF ConnectSocket, Leave, TypeOK
<1>3. /\ exec' \in Execution
      /\ status' \in [Request -> StatusCode]
      /\ answer' \in [Request -> Request \cup {None}]
      /\ promise' \in [Request -> {"none", "pending", "set", "broken"}]
  BY Zenon, Busy, NotConnectedType, GotoFacts, Names
  DEF ConnectSocket, ConnectReturned, results, TypeOK
<1>4. inbound' \in [Transport -> Seq(FromTarget \cup {EOF})]
  <2>1. \A g \in Greeting : <<g>> \in Seq(FromTarget \cup {EOF})
    BY DEF FromTarget
  <2> QED
    BY <1>1, <2>1 DEF ConnectSocket, TypeOK
<1> QED
  BY Zenon, <1>1, <1>2, <1>3, <1>4, EmptySequences DEF ConnectSocket, TypeOK, bounds, history

\* A connect() that fails keeps the types.
LEMMA TypeConnectFails ==
  ASSUME TypeOK, ExecutorInv, CallInv, NEW a \in Actor, ConnectFails(a)
  PROVE  TypeOK'
<1>1. op' \in [Actor -> Call]
  BY Zenon, EnterFacts, Names DEF ConnectFails, Leave, TypeOK
<1>2. /\ exec' \in Execution
      /\ status' \in [Request -> StatusCode]
      /\ answer' \in [Request -> Request \cup {None}]
      /\ promise' \in [Request -> {"none", "pending", "set", "broken"}]
  BY Zenon, Busy, NotConnectedType DEF ConnectFails, results, TypeOK
<1> QED
  BY Zenon, <1>1, <1>2, EmptySequences DEF ConnectFails, TypeOK, main, bounds, history

\* The thread pool taking a task keeps the types.
LEMMA TypeDequeue ==
  ASSUME TypeOK, Dequeue
  PROVE  TypeOK'
<1>1. Head(tasks) \in Task /\ tasks' \in Seq(Task)
  BY Zenon, HeadTailProperties DEF Dequeue, TypeOK
<1>2. exec' \in Execution
  BY Zenon, <1>1 DEF Dequeue, Execution, Task, ExecAt
<1> QED
  BY Zenon, <1>1, <1>2 DEF Dequeue, TypeOK, main, conn, buffers, results, bounds, history

\* The first conditions of XBDMConnect keep the types.
LEMMA TypeCheck ==
  ASSUME TypeOK, Check
  PROVE  TypeOK'
<1>1. exec' \in Execution
  BY Zenon, GotoFacts, Names DEF Check, TypeOK
<1>2. CallTypes'
  BY Zenon, ReconnectType, Names DEF Check, TypeOK, CallTypes
<1> QED
  BY Zenon, <1>1, <1>2 DEF Check, CallTypes, TypeOK, main, results, buffers, bounds, history

\* The Connect of XBDMConnect keeps the types.
LEMMA TypeDial ==
  ASSUME TypeOK, ExecutorInv, Dial
  PROVE  TypeOK'
<1>1. exec' \in Execution
  BY Zenon, GotoFacts, Names DEF Dial, TypeOK
<1>2. exec.transport \in Transport
  BY Zenon, Busy DEF Dial, ExecStep
<1>3. CallTypes'
  BY Zenon, <1>2, ConnectType, Names DEF Dial, TypeOK, CallTypes
<1> QED
  BY Zenon, <1>1, <1>3 DEF Dial, CallTypes, TypeOK, main, results, buffers, bounds, history

\* The busy wait of XBDMConnect keeps the types.
LEMMA TypePoll ==
  ASSUME TypeOK, ExecutorInv, Poll
  PROVE  TypeOK'
<1>1. exec' \in Execution
  BY Zenon, GotoFacts, Names DEF Poll, TypeOK
<1>2. exec.transport \in Transport
  BY Zenon, Busy DEF Poll, ExecStep
<1>3. CallTypes'
  BY Zenon, <1>2, ConnectType, Names DEF Poll, TypeOK, CallTypes
<1> QED
  BY Zenon, <1>1, <1>3 DEF Poll, CallTypes, TypeOK, main, results, buffers, bounds, history

\* WriteNextRequest appends one command to a write buffer.
LEMMA WriteNextRequestType ==
  ASSUME TypeOK, NEW t \in Transport, NEW queue \in Seq(Request),
         WriteNextRequest(t, queue)
  PROVE  write_buffer_' \in [Transport -> Seq(ToTarget)]
<1>1. CASE queue # <<>>
  <2>1. [kind |-> "command", of |-> Head(queue)] \in ToTarget
    BY Zenon, <1>1, HeadTailProperties DEF ToTarget
  <2>2. Append(write_buffer_[t], [kind |-> "command", of |-> Head(queue)]) \in Seq(ToTarget)
    BY Zenon, <2>1, AppendProperties DEF TypeOK
  <2> QED
    BY Zenon, <2>2 DEF WriteNextRequest, TypeOK
<1> QED
  BY Zenon, <1>1 DEF WriteNextRequest, TypeOK

\* XBDMTransport::Send keeps the types.
LEMMA TypeSend ==
  ASSUME TypeOK, ExecutorInv, Send
  PROVE  TypeOK'
<1> DEFINE t == exec.transport
           queue == Append(request_queue_[t], exec.request)
<1>1. t \in Transport /\ exec.request \in Request
  BY Zenon, Busy DEF Send, ExecStep
<1>2. queue \in Seq(Request)
  BY <1>1, AppendProperties DEF TypeOK
<1>3. request_queue_' \in [Transport -> Seq(Request)]
  BY Zenon, <1>1, <1>2 DEF Send, TypeOK
<1>4. write_buffer_' \in [Transport -> Seq(ToTarget)]
  BY Zenon, <1>1, <1>2, WriteNextRequestType DEF Send
<1>5. exec' \in Execution
  BY Zenon, GotoFacts, Names DEF Send, TypeOK
<1> QED
  BY Zenon, <1>1, <1>3, <1>4, <1>5 DEF Send, TypeOK, main, conn, results, bounds

\* Blocking in WaitUntilCompleted keeps the types.
LEMMA TypeWait ==
  ASSUME TypeOK, Wait
  PROVE  TypeOK'
<1>1. exec' \in Execution
  BY Zenon, GotoFacts, Names DEF Wait, TypeOK
<1> QED
  BY Zenon, <1>1 DEF Wait, TypeOK, main, conn, results, buffers, bounds, history

\* The return of WaitUntilCompleted keeps the types.
LEMMA TypeReturn ==
  ASSUME TypeOK, ExecutorInv, Return
  PROVE  TypeOK'
<1>1. exec.request \in Request
  BY Zenon, Busy DEF Return, ExecStep
<1> QED
  BY Zenon, <1>1, FulfilType DEF Return, TypeOK, main, conn, buffers, bounds, history

\* The removal of a closed transport by the select thread keeps the types.
LEMMA TypeRemove ==
  ASSUME TypeOK, NEW t \in Transport, Remove(t)
  PROVE  TypeOK'
BY Zenon DEF Remove, TypeOK, main, results, buffers, bounds, history

\* Entering and leaving TCPConnection::Process keeps the types.
LEMMA TypeProcess ==
  ASSUME TypeOK, NEW t \in Transport, Process(t) \/ ProcessReturns(t)
  PROVE  TypeOK'
<1>1. CASE Process(t)
  BY Zenon, <1>1 DEF Process, TypeOK, main, conn, buffers, results, bounds, history
<1>2. CASE ProcessReturns(t)
  BY Zenon, <1>2 DEF ProcessReturns, TypeOK, main, buffers, results, bounds, history
<1> QED
  BY Zenon, <1>1, <1>2

\* TCPConnection::DoSend keeps the types.
LEMMA TypeDoSend ==
  ASSUME TypeOK, NEW t \in Transport, DoSend(t)
  PROVE  TypeOK'
<1>1. outbound[t] \o write_buffer_[t] \in Seq(ToTarget)
  BY Zenon, ConcatProperties DEF TypeOK
<1> QED
  BY Zenon, <1>1, EmptySequences DEF DoSend, TypeOK, main, conn, results, bounds, history

\* A failed recv or send in TCPConnection::Process keeps the types.
LEMMA TypeSocketError ==
  ASSUME TypeOK, NEW t \in Transport, SocketError(t)
  PROVE  TypeOK'
<1>1. CallTypes'
  BY Zenon, BeginCloseType, Names DEF SocketError
<1> QED
  BY Zenon, <1>1 DEF SocketError, CallTypes, TypeOK, main, results, buffers, bounds, history

\* A prefix of inbound without the end of the stream, and the rest.
LEMMA Prefix ==
  ASSUME TypeOK, NEW t \in Transport, NEW n \in 1..Len(inbound[t]),
         EOF \notin {inbound[t][i] : i \in 1..n}
  PROVE  /\ SubSeq(inbound[t], 1, n) \in Seq(FromTarget)
         /\ Len(SubSeq(inbound[t], 1, n)) = n
         /\ SubSeq(inbound[t], n + 1, Len(inbound[t])) \in Seq(FromTarget \cup {EOF})
<1>1. inbound[t] \in Seq(FromTarget \cup {EOF}) /\ Len(inbound[t]) \in Nat
  BY Zenon, LenProperties DEF TypeOK
<1>2. \A i \in 1..Len(inbound[t]) : inbound[t][i] \in FromTarget \cup {EOF}
  BY Zenon, <1>1, ElementOfSeq
<1>3. \A i \in 1..n : inbound[t][i] \in FromTarget
  BY <1>1, <1>2
<1>4. \A i \in n+1..Len(inbound[t]) : inbound[t][i] \in FromTarget \cup {EOF}
  BY <1>1, <1>2
<1>5. SubSeq(inbound[t], 1, n) \in Seq(FromTarget) /\ Len(SubSeq(inbound[t], 1, n)) = n
  BY <1>1, <1>3, SubSeqProperties
<1>6. SubSeq(inbound[t], n + 1, Len(inbound[t])) \in Seq(FromTarget \cup {EOF})
  BY <1>1, <1>4, SubSeqProperties
<1> QED
  BY Zenon, <1>5, <1>6

\* TCPConnection::DoReceive keeps the types.
LEMMA TypeDoReceive ==
  ASSUME TypeOK, NEW t \in Transport, DoReceive(t)
  PROVE  TypeOK'
<1> PICK n \in 1..Len(inbound[t]) :
      /\ EOF \notin {inbound[t][i] : i \in 1..n}
      /\ read_buffer_' = [read_buffer_ EXCEPT ![t] = @ \o SubSeq(inbound[t], 1, n)]
      /\ inbound' = [inbound EXCEPT ![t] = SubSeq(@, n + 1, Len(@))]
  BY Zenon DEF DoReceive
<1>1. inbound' \in [Transport -> Seq(FromTarget \cup {EOF})]
  BY Zenon, Prefix DEF TypeOK
<1>2. read_buffer_[t] \o SubSeq(inbound[t], 1, n) \in Seq(FromTarget)
  BY Zenon, Prefix, ConcatProperties DEF TypeOK
<1>3. read_buffer_' \in [Transport -> Seq(FromTarget)]
  BY ZenonT(30), <1>2 DEF TypeOK
<1>4. reading' \in Reading
  BY Zenon, HeadTailProperties DEF DoReceive, TypeOK, Reading
<1> QED
  BY Zenon, <1>1, <1>3, <1>4 DEF DoReceive, TypeOK, main, conn, results, bounds, history

\* An answer of the target keeps the types.
LEMMA TypeTargetResponds ==
  ASSUME TypeOK, NEW t \in Transport, TargetResponds(t)
  PROVE  TypeOK'
<1> DEFINE m == Head(outbound[t])
           kind == IF m.kind = "command" /\ m.of \in BinaryRequest
                   THEN "send_binary" ELSE "done"
<1>1. m \in ToTarget /\ Tail(outbound[t]) \in Seq(ToTarget)
  BY Zenon, HeadTailProperties DEF TargetResponds, TypeOK
<1>2. [kind |-> kind, of |-> m.of] \in FromTarget \cup {EOF}
  BY Zenon, <1>1 DEF ToTarget, FromTarget, Response
<1>3. Append(inbound[t], [kind |-> kind, of |-> m.of]) \in Seq(FromTarget \cup {EOF})
  BY Zenon, <1>2, AppendProperties DEF TypeOK
<1> HIDE DEF kind
<1> QED
  BY Zenon, <1>1, <1>3 DEF TargetResponds, TypeOK, main, conn, results, bounds, history, kind

\* The end of the stream from the target keeps the types.
LEMMA TypeTargetCloses ==
  ASSUME TypeOK, NEW t \in Transport, TargetCloses(t)
  PROVE  TypeOK'
<1>1. Append(inbound[t], EOF) \in Seq(FromTarget \cup {EOF})
  BY Zenon, AppendProperties DEF TypeOK
<1> QED
  BY Zenon, <1>1 DEF TargetCloses, TypeOK, main, conn, results, bounds, history

\* XBDMContext::SendCommand keeps the types.
LEMMA TypeSendCommand ==
  ASSUME TypeOK, NEW r \in Request, SendCommand(r)
  PROVE  TypeOK'
<1> PICK t \in {xbdm_transport_} \cup {dedicated_transports_[h] : h \in Handler} :
      t # None /\ tasks' = Append(tasks, [request |-> r, transport |-> t])
  BY Zenon DEF SendCommand
<1>1. t \in Transport
  BY DEF TypeOK
<1>2. [request |-> r, transport |-> t] \in Task
  BY Zenon, <1>1 DEF Task
<1>3. tasks' \in Seq(Task)
  BY Zenon, <1>2, AppendProperties DEF TypeOK
<1> QED
  BY Zenon, <1>3 DEF SendCommand, TypeOK, main, conn, buffers, bounds, history

\* RDCPProcessedRequest::Complete keeps the types.
LEMMA CompleteType ==
  ASSUME TypeOK, NEW r \in Request, NEW of \in Request \cup {None}, Complete(r, of)
  PROVE  /\ exec' \in Execution /\ stranded' \subseteq Request
         /\ status' \in [Request -> StatusCode]
         /\ answer' \in [Request -> Request \cup {None}]
         /\ promise' \in [Request -> {"none", "pending", "set", "broken"}]
<1>1. {r} \in SUBSET Request
  BY Zenon
<1>2. exec' \in Execution /\ stranded' \subseteq Request
  BY Zenon, <1>1, NotifyType DEF Complete
<1> QED
  BY Zenon, <1>2 DEF Complete, TypeOK, StatusCode

\* XBDMTransport::OnBytesRead keeps the types.
LEMMA TypeOnBytesRead ==
  ASSUME TypeOK, ReadingInv, OnBytesRead
  PROVE  TypeOK'
<1> DEFINE t == reading.t
           m == Head(read_buffer_[t])
<1>1. t \in Transport /\ reading.request \in Request \cup {None}
  BY Zenon DEF OnBytesRead, TypeOK, Reading
<1>2. m \in FromTarget /\ Tail(read_buffer_[t]) \in Seq(FromTarget)
  BY Zenon, <1>1, HeadTailProperties DEF OnBytesRead, ReadingInv, TypeOK
<1>3. m.of \in Request \cup {None}
  BY Zenon, <1>2 DEF FromTarget, Greeting, Response
<1>4. HandleInitialConnectResponse(t, m) \/ HandleResponse(t, m)
  BY Zenon DEF OnBytesRead
<1> HIDE DEF m
<1>5. CASE HandleInitialConnectResponse(t, m)
  <2>1. CallTypes'
    BY Zenon, <1>1, <1>5, BeginCloseType, Names
    DEF HandleInitialConnectResponse, CallTypes, TypeOK
  <2> QED
    BY Zenon, <1>1, <1>2, <1>5, <2>1
    DEF OnBytesRead, HandleInitialConnectResponse, CallTypes, TypeOK, main, results, bounds
<1>6. CASE HandleResponse(t, m)
  <2> DEFINE queue == request_queue_[t]
  <2>1. queue # <<>> /\ Tail(queue) \in Seq(Request)
    BY Zenon, <1>1, <1>6, HeadTailProperties DEF HandleResponse, TypeOK
  <2>2. CASE reading.request = None
    <3>1. op' \in [Actor -> Call]
      BY Zenon, <1>6, <2>2, IdleFields DEF HandleResponse
    <3> QED
      BY ZenonT(30), <1>1, <1>2, <1>6, <2>2, <3>1
      DEF OnBytesRead, HandleResponse, TypeOK, main, results, bounds
  <2>3. CASE reading.request # None /\ m.kind = "send_binary"
    <3>1. [kind |-> "payload", of |-> reading.request] \in ToTarget
      BY Zenon, <1>1, <2>3 DEF ToTarget
    <3>2. Append(write_buffer_[t], [kind |-> "payload", of |-> reading.request]) \in Seq(ToTarget)
      BY Zenon, <1>1, <3>1, AppendProperties DEF TypeOK
    <3> QED
      BY ZenonT(30), <1>1, <1>2, <1>6, <2>3, <3>2
      DEF OnBytesRead, HandleResponse, TypeOK, main, results, bounds
  <2>4. CASE reading.request # None /\ m.kind # "send_binary"
    <3>1. write_buffer_' \in [Transport -> Seq(ToTarget)]
      BY Zenon, <1>1, <1>6, <2>1, <2>4, WriteNextRequestType DEF HandleResponse
    <3>2. request_queue_' \in [Transport -> Seq(Request)]
      BY ZenonT(30), <1>1, <1>6, <2>1, <2>4 DEF HandleResponse, TypeOK
    <3>3. /\ exec' \in Execution /\ stranded' \subseteq Request
          /\ status' \in [Request -> StatusCode]
          /\ answer' \in [Request -> Request \cup {None}]
          /\ promise' \in [Request -> {"none", "pending", "set", "broken"}]
      BY Zenon, <1>1, <1>3, <1>6, <2>4, CompleteType DEF HandleResponse
    <3> QED
      BY ZenonT(30), <1>1, <1>2, <1>6, <2>4, <3>1, <3>2, <3>3
      DEF OnBytesRead, HandleResponse, TypeOK, main, bounds
  <2> QED
    BY Zenon, <2>2, <2>3, <2>4
<1> QED
  BY Zenon, <1>4, <1>5, <1>6

\* A connection to the notification server keeps the types.
LEMMA TypeOnNotificationChannelConnected ==
  ASSUME TypeOK, OnNotificationChannelConnected
  PROVE  TypeOK'
<1>1. CallTypes'
  BY Zenon, ReconnectType, Names DEF OnNotificationChannelConnected, CallTypes, TypeOK
<1>2. notifyConnects' \in Nat
  BY DEF OnNotificationChannelConnected, TypeOK
<1> QED
  BY Zenon, <1>1, <1>2 DEF OnNotificationChannelConnected, CallTypes, TypeOK, main, results, buffers, history

\* CloseActiveConnections keeps the types.
LEMMA TypeCloseActiveConnections ==
  ASSUME TypeOK, CloseActiveConnections
  PROVE  TypeOK'
<1>1. xbdm_transport_ \in Transport
  BY Zenon DEF CloseActiveConnections, TypeOK
<1>2. CallTypes'
  BY Zenon, <1>1, BeginCloseType, Names DEF CloseActiveConnections
<1>3. appCalls' \in Nat
  BY DEF CloseActiveConnections, AppCall, TypeOK
<1> QED
  BY Zenon, <1>2, <1>3 DEF CloseActiveConnections, CallTypes, TypeOK, main, results, buffers, history

\* ReconnectXBDM keeps the types.
LEMMA TypeReconnectXBDM ==
  ASSUME TypeOK, ReconnectXBDM
  PROVE  TypeOK'
<1>1. CallTypes'
  BY Zenon, ReconnectType, Names DEF ReconnectXBDM
<1>2. appCalls' \in Nat
  BY DEF ReconnectXBDM, AppCall, TypeOK
<1> QED
  BY Zenon, <1>1, <1>2 DEF ReconnectXBDM, CallTypes, TypeOK, main, results, buffers, history

\* CreateDedicatedChannel keeps the types.
LEMMA TypeCreateDedicatedChannel ==
  ASSUME ConstantsAssumption, TypeOK, NEW h \in Handler, CreateDedicatedChannel(h)
  PROVE  TypeOK'
<1>1. h \in Then
  BY Zenon, Names
<1>2. Allocate("app", h)
  BY Zenon DEF CreateDedicatedChannel
<1>3. /\ allocated' \in Transport
      /\ selected' \in [Transport -> BOOLEAN]
      /\ op' \in [Actor -> Call]
  BY Zenon, <1>1, <1>2, AllocateType, Names
<1>4. appCalls' \in Nat
  BY DEF CreateDedicatedChannel, AppCall, TypeOK
<1> QED
  BY Zenon, <1>3, <1>4 DEF CreateDedicatedChannel, TypeOK, results, buffers, history

\* DestroyDedicatedChannel keeps the types.
LEMMA TypeDestroyDedicatedChannel ==
  ASSUME TypeOK, NEW h \in Handler, DestroyDedicatedChannel(h)
  PROVE  TypeOK'
<1>1. dedicated_transports_[h] \in Transport
  BY Zenon DEF DestroyDedicatedChannel, TypeOK
<1>2. CallTypes'
  BY Zenon, <1>1, BeginCloseType, Names DEF DestroyDedicatedChannel
<1> QED
  BY Zenon, <1>2
     DEF DestroyDedicatedChannel, CallTypes, TypeOK, main, results, buffers, bounds, history

\* The closing of the transports in Shutdown keeps the types.
LEMMA TypeShutdownClose ==
  ASSUME TypeOK, CallInv, ShutdownClose
  PROVE  TypeOK'
<1>1. xbdm_transport_ \in Transport
  BY Zenon DEF ShutdownClose, TypeOK, CallInv
<1>2. CallTypes'
  BY Zenon, <1>1, BeginCloseType, Names DEF ShutdownClose, TypeOK
<1> QED
  BY Zenon, <1>2 DEF ShutdownClose, CallTypes, TypeOK, main, results, buffers, bounds, history

\* Stopping the select thread and the executor keeps the types.
LEMMA TypeStop ==
  ASSUME TypeOK, StopSelectThread \/ StopExecutor \/ JoinExecutor
  PROVE  TypeOK'
<1>1. CASE StopSelectThread
  BY Zenon, <1>1 DEF StopSelectThread, TypeOK, main, conn, results, buffers, bounds, history
<1>2. CASE StopExecutor
  BY Zenon, <1>2, EmptySequences DEF StopExecutor, TypeOK, main, conn, buffers, bounds, history
<1>3. CASE JoinExecutor
  BY Zenon, <1>3 DEF JoinExecutor, TypeOK, main, conn, results, buffers, bounds, history
<1> QED
  BY Zenon, <1>1, <1>2, <1>3

----------------------------------------------------------------------------
(* The queues, the executor and the promises                               *)

\* Appending to an empty queue gives a queue of one.
LEMMA AppendToEmpty ==
  ASSUME NEW x
  PROVE  Append(<<>>, x) = <<x>>
OBVIOUS

\* The fields of a posted task have their types.
LEMMA TaskFields ==
  ASSUME TypeOK
  PROVE  /\ DOMAIN tasks = 1..Len(tasks)
         /\ \A i \in DOMAIN tasks :
              tasks[i].request \in Request /\ tasks[i].transport \in Transport
<1>1. tasks \in Seq(Task)
  BY Zenon DEF TypeOK
<1>2. \A i \in DOMAIN tasks : tasks[i] \in Task
  BY SMTT(30), <1>1, ElementOfSeq
<1> QED
  BY <1>1, <1>2 DEF Task

CommandInv == RequestsAreSequenced /\ ExecutorInv /\ PendingInv /\ PhaseInv

\* A step that touches neither the queues nor the executor nor the promises.
LEMMA QuietPreserves ==
  ASSUME CommandInv, UNCHANGED <<request_queue_, exec, status, promise, tasks>>,
         phase' = phase \/ phase' \notin {"joining", "down"}
  PROVE  CommandInv'
BY Zenon DEF CommandInv, RequestsAreSequenced, ExecutorInv, PendingInv, PhaseInv

\* The executor goes on with its request while every queue is empty.
LEMMA GotoPreserves ==
  ASSUME TypeOK, CommandInv, exec.at \notin {"idle", "sent", "waiting"},
         NEW at \in ExecAt \ {"idle", "woken"}, Goto(at),
         UNCHANGED <<request_queue_, status, promise, tasks, phase>>
  PROVE  CommandInv'
<1>1. exec'.at = at /\ exec'.request = exec.request /\ exec'.transport = exec.transport
  BY Zenon, GotoFacts DEF TypeOK
<1>2. \A t \in Transport : request_queue_[t] = <<>>
  BY Zenon DEF CommandInv, RequestsAreSequenced
<1>3. RequestsAreSequenced'
  BY Zenon, <1>2 DEF RequestsAreSequenced
<1>4. ExecutorInv' /\ PhaseInv'
  BY Zenon, <1>1 DEF CommandInv, ExecutorInv, PhaseInv
<1>5. PendingInv'
  BY Zenon, <1>1 DEF CommandInv, PendingInv
<1> QED
  BY Zenon, <1>3, <1>4, <1>5 DEF CommandInv

\* ExecuteXBDMPromise ends while every queue is empty.
LEMMA FulfilPreserves ==
  ASSUME ConstantsAssumption, TypeOK, CommandInv, exec.at \notin {"idle", "sent", "waiting"},
         Fulfil(exec.request), UNCHANGED <<request_queue_, tasks, phase>>
  PROVE  CommandInv'
<1>1. exec'.at = "idle" /\ exec'.request = None /\ exec'.transport = None
  BY Zenon DEF Fulfil
<1>2. \A t \in Transport : request_queue_[t] = <<>>
  BY Zenon DEF CommandInv, RequestsAreSequenced
<1>3. RequestsAreSequenced'
  BY Zenon, <1>2 DEF RequestsAreSequenced
<1>4. ExecutorInv' /\ PhaseInv'
  BY Zenon, <1>1 DEF CommandInv, ExecutorInv, PhaseInv
<1>5. exec.request \in Request
  BY Zenon, Busy DEF CommandInv
<1>6. \A i \in DOMAIN tasks : tasks[i].request \in Request
  BY Zenon, TaskFields
<1>7. PendingInv'
  <2>1. \A r \in Request : promise'[r] = IF r = exec.request THEN "set" ELSE promise[r]
    BY Zenon DEF Fulfil, TypeOK
  <2>2. None \notin Request
    BY Zenon DEF ConstantsAssumption
  <2>3. /\ \A r \in Request : promise[r] = "pending" <=>
             r = exec.request \/ \E i \in DOMAIN tasks : tasks[i].request = r
        /\ \A i \in DOMAIN tasks : tasks[i].request # exec.request
        /\ \A i, j \in DOMAIN tasks : tasks[i].request = tasks[j].request => i = j
    BY ZenonT(30) DEF CommandInv, PendingInv
  <2>4. \A r \in Request : promise'[r] = "pending" <=>
          r = exec'.request \/ \E i \in DOMAIN tasks : tasks[i].request = r
    BY SMTT(30), <1>1, <1>5, <2>1, <2>2, <2>3
  <2>5. \A i \in DOMAIN tasks : tasks[i].request # exec'.request
    BY Zenon, <1>1, <1>6, <2>2
  <2> QED
    BY ZenonT(30), <2>3, <2>4, <2>5 DEF PendingInv
<1> QED
  BY Zenon, <1>3, <1>4, <1>7 DEF CommandInv

\* Where connect() returns to, in XBDMConnect or elsewhere, CommandInv holds.
LEMMA CommandsConnect ==
  ASSUME ConstantsAssumption, TypeOK, CommandInv, NEW a \in Actor,
         ConnectSocket(a) \/ ConnectFails(a)
  PROVE  CommandInv'
<1>1. UNCHANGED <<request_queue_, tasks, phase>>
  BY Zenon DEF ConnectSocket, ConnectFails
<1>2. \/ UNCHANGED <<exec, results>>
      \/ exec.at = "dialing" /\ Goto("poll") /\ UNCHANGED results
      \/ exec.at \in {"dialing", "redialing"} /\ Fulfil(exec.request)
  BY Zenon DEF ConnectSocket, ConnectFails, ConnectReturned, NotConnected
<1>3. CASE UNCHANGED <<exec, results>>
  BY Zenon, <1>1, <1>3, QuietPreserves DEF results
<1>4. CASE exec.at = "dialing" /\ Goto("poll") /\ UNCHANGED results
  BY Zenon, <1>1, <1>4, GotoPreserves, Names DEF results
<1>5. CASE exec.at \in {"dialing", "redialing"} /\ Fulfil(exec.request)
  BY Zenon, <1>1, <1>5, FulfilPreserves
<1> QED
  BY Zenon, <1>2, <1>3, <1>4, <1>5

\* XBDMConnect, called on the executor, preserves CommandInv.
LEMMA CommandsExecutor ==
  ASSUME TypeOK, CommandInv, Check \/ Dial \/ Poll
  PROVE  CommandInv'
<1>1. UNCHANGED <<request_queue_, status, promise, tasks, phase>>
  BY Zenon DEF Check, Dial, Poll, results
<1>2. /\ exec.at \in {"check", "dial", "poll"}
      /\ Goto("send") \/ Goto("dial") \/ Goto("poll") \/ Goto("dialing") \/ Goto("redialing")
  BY Zenon DEF Check, Dial, Poll, ExecStep
<1> QED
  BY Zenon, <1>1, <1>2, GotoPreserves, Names

\* The executor leaves WaitUntilCompleted only when it was woken, with a verdict.
LEMMA CommandsReturn ==
  ASSUME ConstantsAssumption, SpuriousWakeups = FALSE, TypeOK, CommandInv, Return
  PROVE  CommandInv'
<1>1. exec.at = "woken" /\ Fulfil(exec.request) /\ UNCHANGED <<request_queue_, tasks, phase>>
  BY Zenon DEF Return, ExecStep
<1> QED
  BY Zenon, <1>1, FulfilPreserves

\* Blocking in WaitUntilCompleted preserves CommandInv.
LEMMA CommandsWait ==
  ASSUME TypeOK, CommandInv, Wait
  PROVE  CommandInv'
<1>1. exec'.at = "waiting" /\ exec'.request = exec.request /\ exec'.transport = exec.transport
  BY Zenon, GotoFacts, Names DEF Wait, TypeOK
<1>2. exec.at = "sent" /\ UNCHANGED <<request_queue_, status, promise, tasks, phase>>
  BY Zenon DEF Wait, ExecStep, results
<1>3. RequestsAreSequenced' /\ ExecutorInv' /\ PhaseInv'
  BY Zenon, <1>1, <1>2 DEF CommandInv, RequestsAreSequenced, ExecutorInv, PhaseInv
<1>4. PendingInv'
  BY <1>1, <1>2 DEF CommandInv, PendingInv
<1> QED
  BY Zenon, <1>3, <1>4 DEF CommandInv

\* Send finds every queue empty and leaves one request on one queue.
LEMMA CommandsSend ==
  ASSUME TypeOK, CommandInv, Send
  PROVE  CommandInv'
<1>1. exec'.at = "sent" /\ exec'.request = exec.request /\ exec'.transport = exec.transport
  BY Zenon, GotoFacts, Names DEF Send, TypeOK
<1>2. exec.at = "send" /\ UNCHANGED <<status, promise, tasks, phase>>
  BY Zenon DEF Send, ExecStep, results
<1>3. exec.request \in Request /\ exec.transport \in Transport
  BY Zenon, <1>2, Busy DEF CommandInv
<1>4. \A t \in Transport : request_queue_[t] = <<>>
  BY Zenon, <1>2 DEF CommandInv, RequestsAreSequenced
<1>5. Append(request_queue_[exec.transport], exec.request) = <<exec.request>>
  BY ZenonT(30), <1>3, <1>4, AppendToEmpty
<1>6. \A t \in Transport :
        request_queue_'[t] = IF t = exec.transport THEN <<exec.request>> ELSE <<>>
  <2>1. request_queue_' = [request_queue_ EXCEPT ![exec.transport] = <<exec.request>>]
    BY Zenon, <1>5 DEF Send
  <2>2. request_queue_ \in [Transport -> Seq(Request)]
    BY Zenon DEF TypeOK
  <2> QED
    BY Zenon, <1>3, <1>4, <2>1, <2>2
<1>7. RequestsAreSequenced' /\ ExecutorInv' /\ PhaseInv'
  BY Zenon, <1>1, <1>2, <1>6 DEF CommandInv, RequestsAreSequenced, ExecutorInv, PhaseInv
<1>8. PendingInv'
  BY <1>1, <1>2 DEF CommandInv, PendingInv
<1> QED
  BY Zenon, <1>7, <1>8 DEF CommandInv

\* notify_all moves the executor at most from waiting to woken.
LEMMA NotifyFacts ==
  ASSUME TypeOK, NEW rs, Notify(rs)
  PROVE  /\ exec'.request = exec.request /\ exec'.transport = exec.transport
         /\ exec'.at = IF exec.at = "waiting" /\ exec.request \in rs THEN "woken" ELSE exec.at
<1>1. CASE exec.at = "waiting" /\ exec.request \in rs
  BY Zenon, <1>1, GotoFacts, Names DEF Notify, TypeOK
<1>2. CASE ~(exec.at = "waiting" /\ exec.request \in rs)
  BY Zenon, <1>2 DEF Notify
<1> QED
  BY Zenon, <1>1, <1>2

\* Requests leave their queues and are given a verdict in the same step.
LEMMA NotifyPreserves ==
  ASSUME TypeOK, CommandInv, NEW rs \in SUBSET Request, Notify(rs),
         \A r \in Request : r \in rs \/ status[r] # "INVALID" => status'[r] # "INVALID",
         \A t \in Transport : request_queue_'[t] # <<>> =>
           request_queue_'[t] = request_queue_[t] /\ exec.request \notin rs,
         UNCHANGED <<promise, tasks>>, phase' = phase \/ phase' \notin {"joining", "down"}
  PROVE  CommandInv'
<1>1. /\ exec'.request = exec.request /\ exec'.transport = exec.transport
      /\ exec'.at = IF exec.at = "waiting" /\ exec.request \in rs THEN "woken" ELSE exec.at
  BY Zenon, NotifyFacts
<1>2. RequestsAreSequenced'
  BY Zenon, <1>1 DEF CommandInv, RequestsAreSequenced
<1>3. ExecutorInv'
  <2>1. exec'.at = "idle" <=> exec.at = "idle"
    BY Zenon, <1>1
  <2>2. exec'.at = "woken" => status'[exec'.request] # "INVALID"
    <3>1. CASE exec.at = "woken"
      BY Zenon, <1>1, <3>1, Busy DEF CommandInv, ExecutorInv
    <3>2. CASE exec.at # "woken"
      BY Zenon, <1>1, <3>2
    <3> QED
      BY Zenon, <3>1, <3>2
  <2> QED
    BY Zenon, <1>1, <2>1, <2>2 DEF CommandInv, ExecutorInv
<1>4. PendingInv'
  BY SMTT(30), <1>1 DEF CommandInv, PendingInv
<1>5. PhaseInv'
  BY Zenon, <1>1 DEF CommandInv, PhaseInv
<1> QED
  BY Zenon, <1>2, <1>3, <1>4, <1>5 DEF CommandInv

\* Close empties a queue after it has given each request its verdict.
LEMMA CommandsCloseAbandon ==
  ASSUME TypeOK, CommandInv, CallInv, NEW a \in Actor, CloseAbandon(a)
  PROVE  CommandInv'
<1> DEFINE t == op[a].t
           rs == {request_queue_[t][i] : i \in DOMAIN request_queue_[t]}
<1>1. t \in Transport
  BY Zenon DEF CloseAbandon, CallInv
<1>2. rs \in SUBSET Request /\ Notify(rs)
  BY Zenon, <1>1, QueueElements DEF CloseAbandon, Abandon
<1>3. \A u \in Transport : request_queue_'[u] = IF u = t THEN <<>> ELSE request_queue_[u]
  BY Zenon, <1>1 DEF CloseAbandon, TypeOK
<1>4. request_queue_[t] = <<>> => rs = {}
  OBVIOUS
<1>5. \A u \in Transport : request_queue_'[u] # <<>> =>
        request_queue_'[u] = request_queue_[u] /\ exec.request \notin rs
  BY Zenon, <1>1, <1>3, <1>4 DEF CommandInv, RequestsAreSequenced
<1>6. \A r \in Request : r \in rs \/ status[r] # "INVALID" => status'[r] # "INVALID"
  BY Zenon DEF CloseAbandon, Abandon
<1>7. /\ UNCHANGED <<promise, tasks>>
      /\ phase' = phase \/ phase' \notin {"joining", "down"}
  BY Zenon DEF CloseAbandon, Abandon
<1> HIDE DEF rs
<1> QED
  BY Zenon, <1>2, <1>5, <1>6, <1>7, NotifyPreserves

\* OnBytesRead pops the request it completes, and no other.
LEMMA CommandsOnBytesRead ==
  ASSUME TypeOK, CommandInv, ReadingInv, OnBytesRead
  PROVE  CommandInv'
<1> DEFINE t == reading.t
           m == Head(read_buffer_[t])
           r == reading.request
<1>1. t \in Transport /\ r \in Request \cup {None}
  BY Zenon DEF OnBytesRead, TypeOK, Reading
<1>2. tasks' = tasks
  BY Zenon DEF OnBytesRead
<1>3. CASE HandleInitialConnectResponse(t, m)
  BY Zenon, <1>2, <1>3, QuietPreserves DEF HandleInitialConnectResponse, results
<1>4. CASE HandleResponse(t, m)
  <2>1. CASE r = None \/ m.kind = "send_binary"
    BY Zenon, <1>2, <1>4, <2>1, QuietPreserves DEF HandleResponse, results
  <2>2. CASE r # None /\ m.kind # "send_binary"
    <3>1. /\ Complete(r, m.of) /\ phase' = phase
          /\ request_queue_[t] # <<>>
          /\ request_queue_' = [request_queue_ EXCEPT ![t] = Tail(@)]
      BY Zenon, <1>4, <2>2 DEF HandleResponse
    <3>2. r \in Request /\ request_queue_[t] = <<r>>
      <4>1. passed = t /\ reading # None
        BY Zenon DEF ReadingInv, OnBytesRead
      <4> QED
        BY Zenon, <1>1, <2>2, <3>1, <4>1 DEF ReadingInv
    <3>3. Tail(request_queue_[t]) = <<>>
      BY SMTT(30), <3>2
    <3>4. \A u \in Transport : request_queue_'[u] # <<>> =>
            request_queue_'[u] = request_queue_[u] /\ u # t
      BY Zenon, <1>1, <3>1, <3>3 DEF TypeOK
    <3>5. \A u \in Transport : request_queue_'[u] = <<>>
      BY Zenon, <1>1, <3>1, <3>4 DEF CommandInv, RequestsAreSequenced
    <3>6. \A q \in Request : q \in {r} \/ status[q] # "INVALID" => status'[q] # "INVALID"
      BY Zenon, <3>1, <3>2 DEF Complete, TypeOK
    <3>7. {r} \in SUBSET Request /\ Notify({r}) /\ promise' = promise
      BY Zenon, <3>1, <3>2 DEF Complete
    <3> QED
      BY Zenon, <1>2, <3>1, <3>5, <3>6, <3>7, NotifyPreserves
  <2> QED
    BY Zenon, <2>1, <2>2
<1> QED
  BY Zenon, <1>3, <1>4 DEF OnBytesRead

\* A task that starts leaves the queue of the executor, which holds no copy of it.
LEMMA CommandsDequeue ==
  ASSUME ConstantsAssumption, TypeOK, CommandInv, Dequeue
  PROVE  CommandInv'
<1>1. /\ exec.at = "idle" /\ phase \in Accepting /\ tasks # <<>>
      /\ exec'.at = "check" /\ exec'.request = Head(tasks).request
      /\ exec'.transport = Head(tasks).transport
      /\ tasks' = Tail(tasks)
      /\ UNCHANGED <<request_queue_, status, promise, phase>>
  BY Zenon DEF Dequeue, ExecStep, results
<1>2. tasks \in Seq(Task)
  BY Zenon DEF TypeOK
<1>3. /\ Len(tasks) \in Nat \ {0}
      /\ DOMAIN tasks = 1..Len(tasks)
      /\ Head(tasks) = tasks[1]
      /\ DOMAIN tasks' = 1..(Len(tasks) - 1)
      /\ \A i \in DOMAIN tasks' : tasks'[i] = tasks[i + 1]
  BY SMTT(30), <1>1, <1>2, HeadTailProperties
<1>4. \A i \in DOMAIN tasks :
        tasks[i].request \in Request /\ tasks[i].transport \in Transport
  BY Zenon, TaskFields
<1>5. Head(tasks).request \in Request /\ Head(tasks).transport \in Transport
  BY SMTT(30), <1>3, <1>4
<1>6. RequestsAreSequenced'
  BY Zenon, <1>1 DEF CommandInv, RequestsAreSequenced
<1>7. ExecutorInv' /\ PhaseInv'
  <2>1. None \notin Request /\ None \notin Transport
    BY Zenon DEF ConstantsAssumption, Transport
  <2> QED
    BY Zenon, <1>1, <1>5, <2>1 DEF CommandInv, ExecutorInv, PhaseInv, Accepting
<1>8. PendingInv'
  <2>1. exec.request = None
    BY Zenon, <1>1 DEF CommandInv, ExecutorInv
  <2>2. \A r \in Request : promise[r] = "pending" <=>
          \E i \in DOMAIN tasks : tasks[i].request = r
    BY Zenon, <2>1 DEF CommandInv, PendingInv, ConstantsAssumption
  <2>3. \A i, j \in DOMAIN tasks : tasks[i].request = tasks[j].request => i = j
    BY Zenon DEF CommandInv, PendingInv
  <2>4. \A r : (\E i \in DOMAIN tasks : tasks[i].request = r) <=>
               r = exec'.request \/ \E i \in DOMAIN tasks' : tasks'[i].request = r
    <3>1. TAKE r
    <3>2. ASSUME NEW i \in DOMAIN tasks, tasks[i].request = r
          PROVE  r = exec'.request \/ \E j \in DOMAIN tasks' : tasks'[j].request = r
      <4>1. CASE i = 1
        BY Zenon, <1>1, <1>3, <3>2, <4>1
      <4>2. CASE i # 1
        <5>1. i - 1 \in DOMAIN tasks' /\ (i - 1) + 1 = i
          BY <1>3, <4>2
        <5> QED
          BY Zenon, <1>3, <3>2, <5>1
      <4> QED
        BY Zenon, <4>1, <4>2
    <3>3. ASSUME r = exec'.request \/ \E j \in DOMAIN tasks' : tasks'[j].request = r
          PROVE  \E i \in DOMAIN tasks : tasks[i].request = r
      BY SMTT(30), <1>1, <1>3, <3>3
    <3> QED
      BY Zenon, <3>2, <3>3
  <2>5. \A i \in DOMAIN tasks' : tasks'[i].request # exec'.request
    BY SMTT(30), <1>1, <1>3, <2>3
  <2>6. \A i, j \in DOMAIN tasks' : tasks'[i].request = tasks'[j].request => i = j
    BY <1>3, <2>3
  <2> QED
    BY ZenonT(30), <1>1, <2>2, <2>4, <2>5, <2>6 DEF PendingInv
<1> QED
  BY Zenon, <1>6, <1>7, <1>8 DEF CommandInv

\* A posted command is new to the executor and to its queue.
LEMMA CommandsSendCommand ==
  ASSUME TypeOK, CommandInv, NEW r \in Request, SendCommand(r)
  PROVE  CommandInv'
<1>1. PICK t : tasks' = Append(tasks, [request |-> r, transport |-> t])
  BY Zenon DEF SendCommand
<1>2. /\ promise[r] = "none" /\ phase \in Accepting
      /\ promise' = [promise EXCEPT ![r] = "pending"]
      /\ UNCHANGED <<request_queue_, exec, status, phase>>
  BY Zenon DEF SendCommand
<1>3. /\ Len(tasks) \in Nat
      /\ DOMAIN tasks = 1..Len(tasks)
      /\ DOMAIN tasks' = 1..(Len(tasks) + 1)
      /\ \A i \in DOMAIN tasks : tasks'[i].request = tasks[i].request
      /\ tasks'[Len(tasks) + 1].request = r
  <2>1. tasks \in Seq(Task)
    BY Zenon DEF TypeOK
  <2> QED
    BY SMTT(30), <1>1, <2>1
<1>4. r # exec.request /\ \A i \in DOMAIN tasks : tasks[i].request # r
  BY ZenonT(30), <1>2 DEF CommandInv, PendingInv
<1>5. RequestsAreSequenced' /\ ExecutorInv' /\ PhaseInv'
  BY Zenon, <1>2 DEF CommandInv, RequestsAreSequenced, ExecutorInv, PhaseInv, Accepting
<1>6. PendingInv'
  <2>1. \A i \in DOMAIN tasks' : i \in DOMAIN tasks \/ i = Len(tasks) + 1
    BY <1>3
  <2>2. \A i \in DOMAIN tasks : i \in DOMAIN tasks' /\ i # Len(tasks) + 1
    BY <1>3
  <2>3. Len(tasks) + 1 \in DOMAIN tasks'
    BY SMTT(30), <1>3
  <2>4. \A q \in Request : promise'[q] = "pending" <=> q = r \/ promise[q] = "pending"
    BY Zenon, <1>2 DEF TypeOK
  <2> QED
    BY SMTT(30), <1>2, <1>3, <1>4, <2>1, <2>2, <2>3, <2>4 DEF CommandInv, PendingInv
<1> QED
  BY Zenon, <1>5, <1>6 DEF CommandInv

\* Stopping the executor breaks the promises of the tasks it drops, and no other.
LEMMA CommandsStop ==
  ASSUME TypeOK, CommandInv, StopExecutor \/ JoinExecutor
  PROVE  CommandInv'
<1>1. CASE StopExecutor
  <2>1. /\ tasks' = <<>> /\ phase' = "joining" /\ UNCHANGED <<request_queue_, exec, status>>
        /\ promise' = [r \in Request |-> IF \E i \in DOMAIN tasks : tasks[i].request = r
                                         THEN "broken" ELSE promise[r]]
    BY Zenon, <1>1 DEF StopExecutor
  <2>2. DOMAIN tasks' = {}
    BY SMTT(30), <2>1
  <2>3. RequestsAreSequenced' /\ ExecutorInv' /\ PhaseInv'
    BY Zenon, <2>1 DEF CommandInv, RequestsAreSequenced, ExecutorInv, PhaseInv
  <2>4. PendingInv'
    BY Zenon, <2>1, <2>2 DEF CommandInv, PendingInv
  <2> QED
    BY Zenon, <2>3, <2>4 DEF CommandInv
<1>2. CASE JoinExecutor
  BY Zenon, <1>2 DEF JoinExecutor, ExecStep, results, CommandInv, RequestsAreSequenced,
              ExecutorInv, PendingInv, PhaseInv
<1> QED
  BY Zenon, <1>1, <1>2

----------------------------------------------------------------------------
(* Calls under way and socket_lock_                                        *)

LockInv == ReadingInv /\ CallInv

\* A queue with one request is not empty.
LEMMA SingletonNotEmpty == \A x : <<x>> # <<>>
<1>1. \A x : Len(<<x>>) = 1
  BY Zenon
<1>2. Len(<<>>) = 0
  BY Zenon
<1> QED
  BY Zenon, <1>1, <1>2

\* Nobody clears is_shutdown_, and what Process and OnBytesRead have seen stays as
\* it was, or is emptied by a Close; the executor is not about to send there.
Kept ==
  /\ \A u \in Transport : is_shutdown_[u] => is_shutdown_'[u]
  /\ UNCHANGED <<passed, reading>>
  /\ passed # None => (is_shutdown_'[passed] => state_'[passed] # "CONNECTED")
  /\ reading # None =>
       /\ read_buffer_'[passed] = read_buffer_[passed]
       /\ \/ request_queue_'[passed] = request_queue_[passed]
          \/ request_queue_'[passed] = <<>> /\ is_shutdown_[passed]
       /\ is_shutdown_[passed] /\ exec'.at = "send" /\ exec'.transport = passed =>
            exec.at = "send" /\ exec.transport = passed

\* Nothing that Kept speaks of changes, or the executor goes elsewhere.
LEMMA KeptFrame ==
  ASSUME TypeOK, LockInv,
         UNCHANGED <<state_, is_shutdown_, passed, reading, read_buffer_, request_queue_>>,
         exec' = exec \/ exec'.at # "send"
  PROVE  Kept
BY Zenon DEF Kept, LockInv, ReadingInv

\* What OnBytesRead has seen survives every step that satisfies Kept.
LEMMA ReadingKept ==
  ASSUME TypeOK, CommandInv, LockInv, Kept, reading # None
  PROVE  /\ passed' = reading'.t
         /\ read_buffer_'[passed'] # <<>>
         /\ reading'.request # None =>
              \/ request_queue_'[passed'] = <<reading'.request>>
              \/ /\ request_queue_'[passed'] = <<>> /\ is_shutdown_'[passed']
                 /\ ~(exec'.at = "send" /\ exec'.transport = passed')
<1>1. passed = reading.t /\ passed \in Transport
  BY Zenon DEF LockInv, ReadingInv, TypeOK, Reading
<1>2. UNCHANGED <<passed, reading>> /\ (is_shutdown_[passed] => is_shutdown_'[passed])
  BY Zenon, <1>1 DEF Kept
<1>3. read_buffer_'[passed] # <<>>
  BY Zenon DEF Kept, LockInv, ReadingInv
<1>4. request_queue_[passed] = <<reading.request>> => exec.at # "send"
  BY <1>1 DEF CommandInv, RequestsAreSequenced
<1>5. ASSUME reading.request # None
      PROVE  \/ request_queue_'[passed] = <<reading.request>>
             \/ /\ request_queue_'[passed] = <<>> /\ is_shutdown_'[passed]
                /\ ~(exec'.at = "send" /\ exec'.transport = passed)
  <2>1. \/ request_queue_[passed] = <<reading.request>>
        \/ /\ request_queue_[passed] = <<>> /\ is_shutdown_[passed]
           /\ ~(exec.at = "send" /\ exec.transport = passed)
    BY Zenon, <1>5 DEF LockInv, ReadingInv
  <2> QED
    BY Zenon, <1>2, <1>4, <2>1 DEF Kept
<1> QED
  BY Zenon, <1>1, <1>2, <1>3, <1>5

\* A step outside Close, Connect and Reconnect preserves LockInv.
LEMMA LockFrame ==
  ASSUME TypeOK, CommandInv, LockInv, op' = op, Kept, xbdm_transport_' = xbdm_transport_,
         \/ phase' = phase
         \/ phase = "running" /\ phase' = "closing" /\ passed = None
         \/ phase \notin {"running", "closing"} /\ phase' \notin {"running", "closing"}
  PROVE  LockInv'
<1>1. \A a \in Actor : op[a].at \in {"close_socket", "close_abandon"} => op[a].t \in Transport
  BY Zenon DEF LockInv, CallInv
<1>2. \A a \in Actor :
        op'[a].at \in {"close_socket", "close_abandon"} => is_shutdown_'[op'[a].t]
  BY Zenon, <1>1 DEF LockInv, ReadingInv, Kept
<1>3. passed' # None => phase' = "running" /\ op'["select"] = Idle
  BY Zenon DEF LockInv, ReadingInv, Kept
<1>4. ReadingInv'
  BY Zenon, <1>2, <1>3, ReadingKept DEF ReadingInv, Kept
<1>5. CallInv'
  BY Zenon DEF LockInv, CallInv
<1> QED
  BY Zenon, <1>4, <1>5 DEF LockInv

\* A step that moves one actor inside Close or Connect preserves LockInv.
LEMMA LockEnter ==
  ASSUME TypeOK, CommandInv, LockInv, NEW a \in Actor, NEW at \in OpAt,
         NEW t \in Transport \cup {None}, NEW then \in Then, Enter(a, at, t, then),
         at \notin {"idle", "install"} => t \in Transport,
         then = "reset" => a = "app" /\ phase = "closing",
         at \in {"close_socket", "close_abandon"} => is_shutdown_'[t],
         passed # None => a # "select",
         Kept, phase' = phase, xbdm_transport_ # None => xbdm_transport_' # None
  PROVE  LockInv'
<1>1. /\ op'[a].at = at /\ op'[a].t = t /\ op'[a].then = then
      /\ \A b \in Actor \ {a} : op'[b] = op[b]
  BY Zenon, EnterFacts DEF TypeOK
<1>2. \A b \in Actor : op[b].at \in {"close_socket", "close_abandon"} => op[b].t \in Transport
  BY Zenon DEF LockInv, CallInv
<1>3. \A b \in Actor :
        op'[b].at \in {"close_socket", "close_abandon"} => is_shutdown_'[op'[b].t]
  BY Zenon, <1>1, <1>2 DEF LockInv, ReadingInv, Kept
<1>4. passed' # None => phase' = "running" /\ op'["select"] = Idle
  BY Zenon, <1>1, Names DEF LockInv, ReadingInv, Kept
<1>5. ReadingInv'
  BY Zenon, <1>3, <1>4, ReadingKept DEF ReadingInv, Kept
<1>6. CallInv'
  BY Zenon, <1>1 DEF LockInv, CallInv
<1> QED
  BY Zenon, <1>5, <1>6 DEF LockInv

\* The first step of Close preserves LockInv.
LEMMA LockBeginClose ==
  ASSUME TypeOK, CommandInv, LockInv, NEW a \in Actor, NEW t \in Transport, NEW then \in Then,
         BeginClose(a, t, then),
         then = "reset" => a = "app" /\ phase = "closing",
         passed # None => a # "select",
         exec' = exec \/ exec'.at # "send",
         UNCHANGED <<passed, reading, request_queue_, read_buffer_, phase, xbdm_transport_>>
  PROVE  LockInv'
<1>1. Enter(a, "close_socket", t, then) /\ is_shutdown_'[t]
  BY Zenon DEF BeginClose, TypeOK
<1>2. Kept
  <2>1. \A u \in Transport :
          /\ is_shutdown_[u] => is_shutdown_'[u]
          /\ u = t => state_'[u] # "CONNECTED"
          /\ u # t => is_shutdown_'[u] = is_shutdown_[u] /\ state_'[u] = state_[u]
    BY Zenon DEF BeginClose, TypeOK
  <2>2. passed # None =>
          passed \in Transport /\ (is_shutdown_[passed] => state_[passed] # "CONNECTED")
    BY Zenon DEF LockInv, ReadingInv, TypeOK
  <2>3. passed # None => (is_shutdown_'[passed] => state_'[passed] # "CONNECTED")
    BY Zenon, <2>1, <2>2
  <2> QED
    BY Zenon, <2>1, <2>3 DEF Kept
<1> QED
  BY Zenon, <1>1, <1>2, LockEnter, Names

\* The first step of Connect preserves LockInv.
LEMMA LockConnect ==
  ASSUME TypeOK, CommandInv, LockInv, NEW a \in Actor, NEW t \in Transport, Connect(a, t),
         passed # None => a # "select", exec' = exec \/ exec'.at # "send",
         UNCHANGED <<passed, reading, request_queue_, read_buffer_, phase, xbdm_transport_>>
  PROVE  LockInv'
<1>1. CASE BeginClose(a, t, "open")
  BY Zenon, <1>1, LockBeginClose, Names
<1>2. CASE Enter(a, "open", t, "idle") /\ UNCHANGED <<state_, is_shutdown_>>
  <2>1. Kept
    BY Zenon, <1>2, KeptFrame
  <2> QED
    BY Zenon, <1>2, <2>1, LockEnter, Names
<1> QED
  BY Zenon, <1>1, <1>2 DEF Connect

\* The first step of Reconnect preserves LockInv.
LEMMA LockReconnect ==
  ASSUME TypeOK, CommandInv, LockInv, NEW a \in Actor, Reconnect(a),
         passed # None => a # "select", exec' = exec \/ exec'.at # "send",
         UNCHANGED <<passed, reading, request_queue_, read_buffer_, phase, xbdm_transport_>>
  PROVE  LockInv'
<1>1. CASE xbdm_transport_ # None /\ BeginClose(a, xbdm_transport_, "install")
  BY Zenon, <1>1, LockBeginClose, Names DEF TypeOK
<1>2. CASE Enter(a, "install", None, "idle") /\ UNCHANGED <<state_, is_shutdown_>>
  <2>1. Kept
    BY Zenon, <1>2, KeptFrame
  <2> QED
    BY Zenon, <1>2, <2>1, LockEnter, Names
<1> QED
  BY Zenon, <1>1, <1>2 DEF Reconnect

\* While the select thread is in Process it is in no other call.
LEMMA SelectBusy ==
  ASSUME LockInv, NEW a \in Actor, op[a].at # "idle", passed # None
  PROVE  a # "select"
BY Zenon, IdleFields DEF LockInv, ReadingInv

\* The later steps of Close, Connect and Reconnect preserve LockInv.
LEMMA LockCallProgress ==
  ASSUME ConstantsAssumption, TypeOK, CommandInv, LockInv, NEW a \in Actor, CallProgress(a)
  PROVE  LockInv'
<1> DEFINE t == op[a].t
<1>1. t \in Transport \cup {None} /\ op[a].then \in Then
  BY Zenon, CallFields
<1>2. op[a].at \notin {"idle", "install"} => t \in Transport
  BY Zenon DEF LockInv, CallInv
<1>3. op[a].then = "reset" => a = "app" /\ phase = "closing"
  BY Zenon DEF LockInv, CallInv
<1>4. passed # None /\ op[a].at # "idle" => a # "select"
  BY Zenon, SelectBusy
<1>5. CASE CloseSocket(a)
  <2>1. /\ op[a].at = "close_socket" /\ Enter(a, "close_abandon", t, op[a].then)
        /\ UNCHANGED <<exec, state_, is_shutdown_, passed, reading, read_buffer_, request_queue_>>
        /\ UNCHANGED <<phase, xbdm_transport_>>
    BY Zenon, <1>5 DEF CloseSocket, main
  <2>2. Kept
    BY Zenon, <2>1, KeptFrame
  <2>3. is_shutdown_'[t]
    BY Zenon, <2>1 DEF LockInv, ReadingInv
  <2> QED
    BY Zenon, <1>1, <1>2, <1>3, <1>4, <2>1, <2>2, <2>3, LockEnter, Names
<1>6. CASE CloseAbandon(a)
  <2>1. /\ op[a].at = "close_abandon"
        /\ request_queue_' = [request_queue_ EXCEPT ![t] = <<>>]
        /\ UNCHANGED <<passed, reading, read_buffer_, state_, is_shutdown_>>
    BY Zenon, <1>6 DEF CloseAbandon, conn, buffers
  <2>2. t \in Transport /\ is_shutdown_[t]
    BY Zenon, <1>2, <2>1 DEF LockInv, ReadingInv
  <2>3. exec'.at = "send" => exec.at = "send" /\ exec'.transport = exec.transport
    BY Zenon, <1>6, NotifyFacts DEF CloseAbandon, Abandon
  <2>4. Kept
    <3>1. passed # None => passed \in Transport
      BY Zenon DEF TypeOK
    <3>2. reading # None => passed # None /\ passed \in Transport
      BY ZenonT(30), <3>1, ConstantsAssumption DEF LockInv, ReadingInv, TypeOK, Reading, ConstantsAssumption, Transport
    <3>3. reading # None =>
            \/ request_queue_'[passed] = request_queue_[passed]
            \/ request_queue_'[passed] = <<>> /\ is_shutdown_[passed]
      BY Zenon, <2>1, <2>2, <3>2 DEF TypeOK
    <3>4. passed # None => (is_shutdown_[passed] => state_[passed] # "CONNECTED")
      BY Zenon DEF LockInv, ReadingInv
    <3> QED
      BY Zenon, <2>1, <2>3, <3>3, <3>4 DEF Kept
  <2>5. CASE op[a].then \in {"install", "open"}
    <3>1. Enter(a, op[a].then, t, "idle") /\ UNCHANGED <<xbdm_transport_, phase>>
      BY Zenon, <1>6, <2>5 DEF CloseAbandon
    <3> QED
      BY SMTT(30), <1>1, <1>2, <1>4, <2>1, <2>4, <2>5, <3>1, LockEnter, Names
  <2>6. CASE op[a].then \notin {"install", "open", "reset"}
    <3>1. Enter(a, "idle", None, "idle") /\ UNCHANGED <<xbdm_transport_, phase>>
      BY Zenon, <1>6, <2>6 DEF CloseAbandon, Leave
    <3> QED
      BY Zenon, <1>4, <2>1, <2>4, <3>1, LockEnter, Names
  <2>7. CASE op[a].then = "reset"
    <3>1. Enter(a, "idle", None, "idle") /\ phase' = "stopping"
      BY Zenon, <1>6, <2>7 DEF CloseAbandon, Leave
    <3>2. /\ op'[a].at = "idle" /\ op'[a].then = "idle"
          /\ \A b \in Actor \ {a} : op'[b] = op[b]
      BY Zenon, <3>1, LeaveFacts DEF TypeOK
    <3>3. a = "app" /\ \A b \in Actor \ {a} : op[b].then # "reset"
      BY Zenon, <1>3, <2>7 DEF LockInv, CallInv
    <3>4. CallInv'
      BY Zenon, <3>1, <3>2, <3>3 DEF LockInv, CallInv
    <3>5. \A b \in Actor : op'[b].at \in {"close_socket", "close_abandon"} =>
            is_shutdown_'[op'[b].t]
      BY Zenon, <2>1, <3>2 DEF LockInv, ReadingInv
    <3>6. passed = None /\ reading = None
      <4>1. passed = None
        BY Zenon, <1>3, <2>7 DEF LockInv, ReadingInv
      <4>2. reading # None => passed \in Transport
        BY Zenon DEF LockInv, ReadingInv, TypeOK, Reading
      <4> QED
        BY Zenon, <4>1, <4>2, ConstantsAssumption DEF ConstantsAssumption, Transport
    <3>7. ReadingInv'
      BY Zenon, <2>1, <3>5, <3>6 DEF ReadingInv
    <3> QED
      BY Zenon, <3>4, <3>7 DEF LockInv
  <2> QED
    BY Zenon, <2>5, <2>6, <2>7
<1>7. CASE Install(a)
  <2>1. /\ op[a].at = "install" /\ Allocate(a, "idle") /\ xbdm_transport_' = allocated + 1
        /\ UNCHANGED <<exec, state_, is_shutdown_, passed, reading, read_buffer_, request_queue_>>
        /\ phase' = phase
    BY Zenon, <1>7 DEF Install, buffers
  <2>2. allocated' \in Transport /\ allocated' = allocated + 1
    BY Zenon, <2>1, AllocateType, Names
  <2>3. Enter(a, "open", allocated + 1, "idle")
    BY Zenon, <2>1 DEF Allocate
  <2>4. xbdm_transport_' # None
    BY Zenon, <2>1, <2>2 DEF Transport, ConstantsAssumption
  <2>5. Kept
    BY Zenon, <2>1, KeptFrame
  <2> QED
    BY Zenon, <1>4, <2>1, <2>2, <2>3, <2>4, <2>5, LockEnter, Names
<1>8. CASE OpenSocket(a)
  <2>1. /\ op[a].at = "open" /\ Enter(a, "connect", t, op[a].then)
        /\ UNCHANGED <<exec, state_, is_shutdown_, passed, reading, read_buffer_, request_queue_>>
        /\ UNCHANGED <<phase, xbdm_transport_>>
    BY Zenon, <1>8 DEF OpenSocket, main, buffers
  <2>2. Kept
    BY Zenon, <2>1, KeptFrame
  <2> QED
    BY Zenon, <1>1, <1>2, <1>3, <1>4, <2>1, <2>2, LockEnter, Names
<1>9. CASE ConnectSocket(a) \/ ConnectFails(a)
  <2>1. /\ op[a].at = "connect" /\ Enter(a, "idle", None, "idle")
        /\ UNCHANGED <<state_, is_shutdown_, passed, reading, read_buffer_, request_queue_>>
        /\ UNCHANGED <<phase, xbdm_transport_>>
    BY Zenon, <1>9 DEF ConnectSocket, ConnectFails, Leave, main
  <2>2. exec' = exec \/ exec'.at # "send"
    <3>1. exec' = exec \/ Goto("poll") \/ Fulfil(exec.request)
      BY Zenon, <1>9 DEF ConnectSocket, ConnectFails, ConnectReturned, NotConnected
    <3> QED
      BY <3>1 DEF Goto, Fulfil
  <2>3. Kept
    BY Zenon, <2>1, <2>2, KeptFrame
  <2> QED
    BY Zenon, <1>4, <2>1, <2>3, LockEnter, Names
<1> QED
  BY Zenon, <1>5, <1>6, <1>7, <1>8, <1>9 DEF CallProgress

\* The steps of ExecuteXBDMPromise preserve LockInv.
LEMMA LockExecutor ==
  ASSUME ConstantsAssumption, TypeOK, CommandInv, LockInv, Executor
  PROVE  LockInv'
<1>1. CASE Dequeue \/ Wait \/ Return
  <2>1. /\ UNCHANGED <<state_, is_shutdown_, passed, reading, read_buffer_, request_queue_>>
        /\ UNCHANGED <<op, phase, xbdm_transport_>>
    BY Zenon, <1>1 DEF Dequeue, Wait, Return, main, conn, buffers
  <2>2. exec'.at # "send"
    <3>1. CASE Dequeue
      BY Zenon, <3>1 DEF Dequeue
    <3>2. CASE Wait
      BY Zenon, <3>2 DEF Wait, Goto
    <3>3. CASE Return
      BY Zenon, <3>3 DEF Return, Fulfil
    <3> QED
      BY Zenon, <1>1, <3>1, <3>2, <3>3
  <2>3. Kept
    BY Zenon, <2>1, <2>2, KeptFrame
  <2> QED
    BY Zenon, <2>1, <2>3, LockFrame
<1>2. CASE Send
  <2>1. /\ exec.at = "send"
        /\ UNCHANGED <<op, state_, is_shutdown_, passed, reading, read_buffer_, phase, xbdm_transport_>>
        /\ request_queue_' = [request_queue_ EXCEPT ![exec.transport] =
                                Append(request_queue_[exec.transport], exec.request)]
    BY Zenon, <1>2 DEF Send, ExecStep, main, conn
  <2>2. exec'.at # "send"
    BY Zenon, <1>2 DEF Send, Goto
  <2>3. reading # None => passed = reading.t /\ passed \in Transport
    BY Zenon DEF LockInv, ReadingInv, TypeOK, Reading
  <2>4. \A u \in Transport : request_queue_[u] = <<>>
    BY Zenon, <2>1 DEF CommandInv, RequestsAreSequenced
  <2>5. ASSUME reading # None, reading.request # None
        PROVE  request_queue_'[passed] = <<>> /\ is_shutdown_[passed]
    <3>1. request_queue_[passed] = <<>> /\ request_queue_[passed] # <<reading.request>>
      BY Zenon, <2>3, <2>4, <2>5, SingletonNotEmpty
    <3>2. is_shutdown_[passed] /\ exec.transport # passed
      BY Zenon, <2>1, <2>5, <3>1 DEF LockInv, ReadingInv
    <3> QED
      BY ZenonT(30), <2>1, <2>3, <2>5, <3>1, <3>2 DEF TypeOK
  <2>6. ReadingInv'
    BY Zenon, <2>1, <2>2, <2>5 DEF LockInv, ReadingInv
  <2>7. CallInv'
    BY Zenon, <2>1 DEF LockInv, CallInv
  <2> QED
    BY Zenon, <2>6, <2>7 DEF LockInv
<1>3. CASE Check \/ Dial \/ Poll
  <2>1. UNCHANGED <<passed, reading, request_queue_, read_buffer_, phase, xbdm_transport_>>
    BY Zenon, <1>3 DEF Check, Dial, Poll, main, buffers
  <2>2. exec.transport \in Transport
    BY Zenon, <1>3, Busy DEF Check, Dial, Poll, ExecStep, CommandInv
  <2>3. \/ Reconnect("exec") /\ exec'.at # "send"
        \/ Connect("exec", exec.transport) /\ exec'.at # "send"
        \/ UNCHANGED <<op, state_, is_shutdown_>> /\ exec'.at # "send"
        \/ UNCHANGED <<op, state_, is_shutdown_>> /\ Goto("send") /\ state_[exec.transport] = "CONNECTED"
    <3>1. /\ Goto("send") => exec'.at = "send"
          /\ \A x \in {"dial", "poll", "dialing", "redialing"} : Goto(x) => exec'.at # "send"
      BY DEF Goto
    <3>2. CASE Check
      BY Zenon, <3>1, <3>2 DEF Check
    <3>3. CASE Dial
      BY Zenon, <3>1, <3>3 DEF Dial
    <3>4. CASE Poll
      BY Zenon, <3>1, <3>4 DEF Poll
    <3> QED
      BY Zenon, <1>3, <3>2, <3>3, <3>4
  <2>4. CASE UNCHANGED <<op, state_, is_shutdown_>> /\ exec'.at # "send"
    <3>1. Kept
      BY Zenon, <2>1, <2>4, KeptFrame
    <3> QED
      BY Zenon, <2>1, <2>4, <3>1, LockFrame
  <2>5. CASE UNCHANGED <<op, state_, is_shutdown_>> /\ Goto("send") /\ state_[exec.transport] = "CONNECTED"
    <3>1. exec'.transport = exec.transport
      BY Zenon, <2>5 DEF Goto
    <3>2. reading # None => passed \in Transport /\ passed # None
      BY Zenon DEF LockInv, ReadingInv, TypeOK, Reading, ConstantsAssumption, Transport
    <3>3. passed # None => (is_shutdown_[passed] => state_[passed] # "CONNECTED")
      BY Zenon DEF LockInv, ReadingInv
    <3>4. Kept
      BY Zenon, <2>1, <2>5, <3>1, <3>2, <3>3 DEF Kept
    <3> QED
      BY Zenon, <2>1, <2>5, <3>4, LockFrame
  <2> QED
    BY Zenon, <2>1, <2>2, <2>3, <2>4, <2>5, LockReconnect, LockConnect, Names
<1> QED
  BY Zenon, <1>1, <1>2, <1>3 DEF Executor

\* Outside Process the select thread is not in OnBytesRead either.
LEMMA NotReading ==
  ASSUME ConstantsAssumption, TypeOK, LockInv, passed = None
  PROVE  reading = None
BY Zenon DEF LockInv, ReadingInv, TypeOK, Reading, ConstantsAssumption, Transport

\* The steps of the select thread preserve LockInv.
LEMMA LockSelect ==
  ASSUME ConstantsAssumption, TypeOK, CommandInv, LockInv, Select
  PROVE  LockInv'
<1>1. \A b \in Actor : op[b].at \in {"close_socket", "close_abandon"} => op[b].t \in Transport
  BY Zenon DEF LockInv, CallInv
\* A step after which the select thread is outside Process.
<1>2. ASSUME passed' = None, reading' = None, xbdm_transport_' = xbdm_transport_,
             UNCHANGED <<op, is_shutdown_, phase>>
      PROVE  LockInv'
  BY Zenon, <1>2 DEF LockInv, ReadingInv, CallInv
<1>3. ASSUME NEW t \in Transport, BeginClose("select", t, "idle"), passed' = None,
             reading' = None, UNCHANGED <<xbdm_transport_, phase>>
      PROVE  LockInv'
  <2>1. /\ op'["select"].at = "close_socket" /\ op'["select"].t = t
        /\ op'["select"].then = "idle"
        /\ \A b \in Actor \ {"select"} : op'[b] = op[b]
    BY ZenonT(30), <1>3, EnterFacts, Names DEF BeginClose, TypeOK
  <2>2. is_shutdown_'[t] /\ \A u \in Transport : is_shutdown_[u] => is_shutdown_'[u]
    BY ZenonT(30), <1>3 DEF BeginClose, TypeOK
  <2>3. ReadingInv'
    BY Zenon, <1>1, <1>3, <2>1, <2>2 DEF LockInv, ReadingInv
  <2>4. CallInv'
    BY Zenon, <1>3, <2>1 DEF LockInv, CallInv
  <2> QED
    BY Zenon, <2>3, <2>4 DEF LockInv
<1>4. ASSUME NEW t \in Transport, Remove(t) \/ ProcessReturns(t)
      PROVE  LockInv'
  <2>1. /\ passed' = None /\ reading = None /\ reading' = reading
        /\ UNCHANGED <<op, is_shutdown_, phase, xbdm_transport_>>
    BY Zenon, <1>4 DEF Remove, ProcessReturns, SelectStep, Processing, main
  <2> QED
    BY Zenon, <1>2, <2>1
<1>5. ASSUME NEW t \in Transport, Process(t)
      PROVE  LockInv'
  <2>1. /\ passed' = t /\ reading = None /\ reading' = None /\ ~is_shutdown_[t]
        /\ phase = "running" /\ op["select"] = Idle
        /\ UNCHANGED <<op, is_shutdown_, state_, phase, xbdm_transport_>>
    BY Zenon, <1>5 DEF Process, SelectStep, main, conn
  <2>2. ReadingInv'
    BY Zenon, <2>1 DEF LockInv, ReadingInv
  <2>3. CallInv'
    BY Zenon, <2>1 DEF LockInv, CallInv
  <2> QED
    BY Zenon, <2>2, <2>3 DEF LockInv
<1>6. ASSUME NEW t \in Transport, DoSend(t)
      PROVE  LockInv'
  <2>1. /\ UNCHANGED <<exec, state_, is_shutdown_, passed, reading, read_buffer_, request_queue_>>
        /\ UNCHANGED <<op, phase, xbdm_transport_>>
    BY Zenon, <1>6 DEF DoSend, main, conn
  <2>2. Kept
    BY Zenon, <2>1, KeptFrame
  <2> QED
    BY Zenon, <2>1, <2>2, LockFrame
<1>7. ASSUME NEW t \in Transport, SocketError(t)
      PROVE  LockInv'
  <2>1. /\ BeginClose("select", t, "idle") /\ passed' = None /\ reading = None
        /\ UNCHANGED <<reading, phase, xbdm_transport_>>
    BY Zenon, <1>7 DEF SocketError, Processing, main
  <2> QED
    BY Zenon, <1>3, <2>1
<1>8. ASSUME NEW t \in Transport, DoReceive(t)
      PROVE  LockInv'
  <2>1. /\ passed = t /\ passed' = t
        /\ UNCHANGED <<exec, op, is_shutdown_, state_, request_queue_, phase, xbdm_transport_>>
        /\ reading' = [t |-> t, request |->
             IF request_queue_[t] = <<>> THEN None ELSE Head(request_queue_[t])]
    BY Zenon, <1>8 DEF DoReceive, Processing, main, conn
  <2>2. read_buffer_'[t] # <<>>
    <3>1. PICK n \in 1..Len(inbound[t]) :
            /\ EOF \notin {inbound[t][i] : i \in 1..n}
            /\ read_buffer_' = [read_buffer_ EXCEPT ![t] = @ \o SubSeq(inbound[t], 1, n)]
      BY Zenon, <1>8 DEF DoReceive
    <3>2. /\ SubSeq(inbound[t], 1, n) \in Seq(FromTarget)
          /\ Len(SubSeq(inbound[t], 1, n)) = n
      BY Zenon, <3>1, Prefix
    <3>3. read_buffer_[t] \in Seq(FromTarget) /\ Len(read_buffer_[t]) \in Nat
      <4>1. read_buffer_ \in [Transport -> Seq(FromTarget)]
        BY Zenon DEF TypeOK
      <4>2. read_buffer_[t] \in Seq(FromTarget)
        BY Zenon, <1>8, <4>1
      <4> QED
        BY Zenon, <4>2, LenProperties
    <3>4. Len(read_buffer_[t] \o SubSeq(inbound[t], 1, n)) # 0
      <4>1. Len(read_buffer_[t] \o SubSeq(inbound[t], 1, n))
              = Len(read_buffer_[t]) + Len(SubSeq(inbound[t], 1, n))
        BY SMTT(30), <3>2, <3>3, ConcatProperties
      <4> QED
        BY <3>1, <3>2, <3>3, <4>1
    <3>5. read_buffer_'[t] = read_buffer_[t] \o SubSeq(inbound[t], 1, n)
      BY ZenonT(30), <1>8, <3>1 DEF TypeOK
    <3> QED
      BY <3>4, <3>5
  <2>3. request_queue_[t] # <<>> => request_queue_[t] = <<Head(request_queue_[t])>>
    BY DEF CommandInv, RequestsAreSequenced
  <2>4. ReadingInv'
    BY Zenon, <2>1, <2>2, <2>3 DEF LockInv, ReadingInv
  <2>5. CallInv'
    BY Zenon, <2>1 DEF LockInv, CallInv
  <2> QED
    BY Zenon, <2>4, <2>5 DEF LockInv
<1>9. CASE OnBytesRead
  <2>1. /\ reading.t \in Transport /\ reading' = None /\ passed' = None
        /\ xbdm_transport_' = xbdm_transport_
    BY ZenonT(30), <1>9 DEF OnBytesRead, TypeOK, Reading, main
  <2>2. \/ UNCHANGED <<op, is_shutdown_, phase>>
        \/ BeginClose("select", reading.t, "idle") /\ phase' = phase
        \/ op' = [a \in Actor |-> Idle] /\ phase' = "crashed" /\ is_shutdown_' = is_shutdown_
    BY Zenon, <1>9 DEF OnBytesRead, HandleInitialConnectResponse, HandleResponse
  <2>3. CASE op' = [a \in Actor |-> Idle] /\ phase' = "crashed" /\ is_shutdown_' = is_shutdown_
    <3>1. \A a \in Actor : op'[a].at = "idle" /\ op'[a].then = "idle"
      BY Zenon, <2>3, IdleFields
    <3> QED
      BY Zenon, <2>1, <2>3, <3>1 DEF LockInv, ReadingInv, CallInv
  <2> QED
    BY Zenon, <1>2, <1>3, <2>1, <2>2, <2>3
<1>10. CASE OnNotificationChannelConnected
  <2>1. /\ passed = None /\ UNCHANGED <<exec, passed, reading, request_queue_, read_buffer_>>
        /\ UNCHANGED <<phase, xbdm_transport_>>
        /\ Reconnect("select") \/ UNCHANGED <<op, state_, is_shutdown_>>
    BY Zenon, <1>10 DEF OnNotificationChannelConnected, SelectStep, main, buffers
  <2>2. CASE UNCHANGED <<op, state_, is_shutdown_>>
    <3>1. Kept
      BY Zenon, <2>1, <2>2, KeptFrame
    <3> QED
      BY Zenon, <2>1, <2>2, <3>1, LockFrame
  <2> QED
    BY Zenon, <2>1, <2>2, LockReconnect, Names
<1> QED
  BY Zenon, <1>4, <1>5, <1>6, <1>7, <1>8, <1>9, <1>10 DEF Select

\* The calls of the application threads preserve LockInv.
LEMMA LockCaller ==
  ASSUME ConstantsAssumption, TypeOK, CommandInv, LockInv, Caller
  PROVE  LockInv'
<1>1. ASSUME NEW r \in Request, SendCommand(r)
      PROVE  LockInv'
  <2>1. /\ UNCHANGED <<exec, state_, is_shutdown_, passed, reading, read_buffer_, request_queue_>>
        /\ UNCHANGED <<op, phase, xbdm_transport_>>
    BY Zenon, <1>1 DEF SendCommand, main, conn, buffers
  <2>2. Kept
    BY Zenon, <2>1, KeptFrame
  <2> QED
    BY Zenon, <2>1, <2>2, LockFrame
<1>2. CASE CloseActiveConnections
  <2>1. /\ BeginClose("app", xbdm_transport_, "idle") /\ xbdm_transport_ \in Transport
        /\ UNCHANGED <<exec, passed, reading, request_queue_, read_buffer_, phase, xbdm_transport_>>
    BY Zenon, <1>2 DEF CloseActiveConnections, TypeOK, main, buffers
  <2> QED
    BY Zenon, <2>1, LockBeginClose, Names
<1>3. CASE ReconnectXBDM
  <2>1. /\ Reconnect("app")
        /\ UNCHANGED <<exec, passed, reading, request_queue_, read_buffer_, phase, xbdm_transport_>>
    BY Zenon, <1>3 DEF ReconnectXBDM, main, buffers
  <2> QED
    BY Zenon, <2>1, LockReconnect, Names
<1>4. ASSUME NEW h \in Handler, CreateDedicatedChannel(h)
      PROVE  LockInv'
  <2>1. /\ Allocate("app", h)
        /\ UNCHANGED <<exec, state_, is_shutdown_, passed, reading, read_buffer_, request_queue_>>
        /\ UNCHANGED <<phase, xbdm_transport_>>
    BY Zenon, <1>4 DEF CreateDedicatedChannel, buffers
  <2>2. h \in Then /\ h # "reset"
    BY Zenon, Names DEF ConstantsAssumption
  <2>3. allocated + 1 \in Transport
    BY Zenon, <2>1, <2>2, AllocateType, Names
  <2>4. Enter("app", "open", allocated + 1, h)
    BY Zenon, <2>1 DEF Allocate
  <2>5. Kept
    BY Zenon, <2>1, KeptFrame
  <2> QED
    BY Zenon, <2>1, <2>2, <2>3, <2>4, <2>5, LockEnter, Names
<1>5. ASSUME NEW h \in Handler, DestroyDedicatedChannel(h)
      PROVE  LockInv'
  <2>1. /\ BeginClose("app", dedicated_transports_[h], "erase")
        /\ dedicated_transports_[h] \in Transport
        /\ UNCHANGED <<exec, passed, reading, request_queue_, read_buffer_, phase, xbdm_transport_>>
    BY Zenon, <1>5 DEF DestroyDedicatedChannel, TypeOK, main, buffers
  <2> QED
    BY Zenon, <2>1, LockBeginClose, Names
<1>6. CASE StopSelectThread
  <2>1. /\ UNCHANGED <<exec, state_, is_shutdown_, passed, reading, read_buffer_, request_queue_>>
        /\ UNCHANGED <<op, xbdm_transport_>>
        /\ phase = "running" /\ phase' = "closing" /\ passed = None
    BY Zenon, <1>6 DEF StopSelectThread, SelectStep, main, conn, buffers
  <2>2. Kept
    BY Zenon, <2>1, KeptFrame
  <2> QED
    BY Zenon, <2>1, <2>2, LockFrame
<1> QED
  BY Zenon, <1>1, <1>2, <1>3, <1>4, <1>5, <1>6 DEF Caller

\* The steps of Shutdown preserve LockInv.
LEMMA LockShutdown ==
  ASSUME TypeOK, CommandInv, LockInv, Shutdown
  PROVE  LockInv'
<1>1. CASE ShutdownClose
  <2>1. /\ phase = "closing"
        /\ UNCHANGED <<exec, passed, reading, request_queue_, read_buffer_, phase, xbdm_transport_>>
        /\ \/ \E h \in Handler : /\ dedicated_transports_[h] # None
                                 /\ BeginClose("app", dedicated_transports_[h], "erase")
           \/ BeginClose("app", xbdm_transport_, "reset")
    BY Zenon, <1>1 DEF ShutdownClose, main, buffers
  <2>2. xbdm_transport_ \in Transport
    BY Zenon, <2>1 DEF LockInv, CallInv, TypeOK
  <2>3. \A h \in Handler : dedicated_transports_[h] # None => dedicated_transports_[h] \in Transport
    BY Zenon DEF TypeOK
  <2> QED
    BY Zenon, <2>1, <2>2, <2>3, LockBeginClose, Names
<1>2. CASE StopExecutor \/ JoinExecutor
  <2>1. /\ UNCHANGED <<exec, state_, is_shutdown_, passed, reading, read_buffer_, request_queue_>>
        /\ UNCHANGED <<op, xbdm_transport_>>
        /\ phase \notin {"running", "closing"} /\ phase' \notin {"running", "closing"}
    BY Zenon, <1>2 DEF StopExecutor, JoinExecutor, main, conn, buffers
  <2>2. Kept
    BY Zenon, <2>1, KeptFrame
  <2> QED
    BY Zenon, <2>1, <2>2, LockFrame
<1> QED
  BY Zenon, <1>1, <1>2 DEF Shutdown

\* What the target does preserves LockInv.
LEMMA LockTarget ==
  ASSUME TypeOK, CommandInv, LockInv, Target
  PROVE  LockInv'
<1>1. /\ UNCHANGED <<exec, state_, is_shutdown_, passed, reading, read_buffer_, request_queue_>>
        /\ UNCHANGED <<op, phase, xbdm_transport_>>
  BY Zenon DEF Target, TargetResponds, TargetCloses, main, conn
<1>2. Kept
  BY Zenon, <1>1, KeptFrame
<1> QED
  BY Zenon, <1>1, <1>2, LockFrame

----------------------------------------------------------------------------
(* The inductive invariant                                                 *)

\* The actions that touch neither the queues nor the executor nor the promises.
Quiet ==
  \/ \E a \in Actor : CloseSocket(a) \/ Install(a) \/ OpenSocket(a)
  \/ \E t \in Transport :
       \/ Remove(t) \/ Process(t) \/ ProcessReturns(t)
       \/ DoSend(t) \/ SocketError(t) \/ DoReceive(t)
  \/ OnNotificationChannelConnected
  \/ CloseActiveConnections \/ ReconnectXBDM \/ StopSelectThread
  \/ \E h \in Handler : CreateDedicatedChannel(h) \/ DestroyDedicatedChannel(h)
  \/ ShutdownClose
  \/ Target

\* What a quiet action leaves unchanged.
LEMMA QuietFacts ==
  ASSUME Quiet
  PROVE  /\ UNCHANGED <<request_queue_, exec, status, answer, promise, tasks>>
         /\ phase' = phase \/ (phase = "running" /\ phase' = "closing")
<1>1. UNCHANGED <<request_queue_, exec, status, answer, promise, tasks>>
  BY Zenon DEF Quiet, CloseSocket, Install, OpenSocket, Remove, Process,
         ProcessReturns, DoSend, SocketError, DoReceive,
         OnNotificationChannelConnected, CloseActiveConnections, ReconnectXBDM,
         StopSelectThread, CreateDedicatedChannel, DestroyDedicatedChannel,
         ShutdownClose, Target, TargetResponds, TargetCloses, results
<1>2. phase' = phase \/ StopSelectThread
  BY Zenon DEF Quiet, CloseSocket, Install, OpenSocket, Remove, Process,
         ProcessReturns, DoSend, SocketError, DoReceive,
         OnNotificationChannelConnected, CloseActiveConnections, ReconnectXBDM,
         StopSelectThread, CreateDedicatedChannel, DestroyDedicatedChannel,
         ShutdownClose, Target, TargetResponds, TargetCloses
<1>3. StopSelectThread => phase = "running" /\ phase' = "closing"
  BY Zenon DEF StopSelectThread, SelectStep
<1> QED
  BY Zenon, <1>1, <1>2, <1>3

\* A quiet action preserves CommandInv.
LEMMA QuietActions ==
  ASSUME CommandInv, Quiet
  PROVE  CommandInv'
BY Zenon, QuietFacts, QuietPreserves

\* Every action is one of the quiet ones or one of these.
LEMMA NextCases ==
  ASSUME Next
  PROVE  \/ Quiet
         \/ \E a \in Actor : CloseAbandon(a) \/ ConnectSocket(a) \/ ConnectFails(a)
         \/ Executor
         \/ OnBytesRead
         \/ \E r \in Request : SendCommand(r)
         \/ StopExecutor
         \/ JoinExecutor
BY Zenon DEF Next, CallProgress, Select, Caller, Shutdown, Quiet

\* XBDMContext's initial state has the type and the invariant.
LEMMA InitIndInv ==
  ASSUME ConstantsAssumption, Init
  PROVE  IndInv
<1>1. None \notin Transport /\ 1 \in Transport
  BY DEF ConstantsAssumption, Transport
<1>2. TypeOK
  BY ZenonT(30), <1>1, EmptySequences, IdleFields
  DEF Init, TypeOK, Execution, ExecAt, StatusCode
<1>3. \A a \in Actor : op[a].at = "idle" /\ op[a].then = "idle"
  BY Zenon, IdleFields DEF Init
<1>4. DOMAIN tasks = {}
  BY SMTT(30) DEF Init
<1>5. RequestsAreSequenced /\ ExecutorInv /\ PendingInv /\ PhaseInv
  BY Zenon, <1>4 DEF Init, RequestsAreSequenced, ExecutorInv, PendingInv, PhaseInv, ConstantsAssumption
<1>6. ReadingInv /\ CallInv
  BY Zenon, <1>1, <1>3 DEF Init, ReadingInv, CallInv
<1> QED
  BY Zenon, <1>2, <1>5, <1>6 DEF IndInv

\* Every step of every thread preserves the type.
LEMMA NextTypeOK ==
  ASSUME ConstantsAssumption, TypeOK, CommandInv, LockInv, Next
  PROVE  TypeOK'
<1> USE DEF CommandInv, LockInv
<1>1. ASSUME NEW a \in Actor, CallProgress(a) PROVE TypeOK'
  BY Zenon, <1>1, TypeCloseSocket, TypeCloseAbandon, TypeInstall, TypeOpenSocket,
     TypeConnectSocket, TypeConnectFails DEF CallProgress
<1>2. CASE Executor
  BY Zenon, <1>2, TypeDequeue, TypeCheck, TypeDial, TypePoll, TypeSend, TypeWait, TypeReturn
  DEF Executor
<1>3. CASE Select
  BY Zenon, <1>3, TypeRemove, TypeProcess, TypeDoSend, TypeSocketError, TypeDoReceive, TypeOnBytesRead,
     TypeOnNotificationChannelConnected DEF Select
<1>4. CASE Caller
  BY Zenon, <1>4, TypeSendCommand, TypeCloseActiveConnections, TypeReconnectXBDM,
     TypeCreateDedicatedChannel, TypeDestroyDedicatedChannel, TypeStop DEF Caller
<1>5. CASE Shutdown
  BY Zenon, <1>5, TypeShutdownClose, TypeStop DEF Shutdown
<1>6. CASE Target
  BY Zenon, <1>6, TypeTargetResponds, TypeTargetCloses DEF Target
<1> QED
  BY Zenon, <1>1, <1>2, <1>3, <1>4, <1>5, <1>6 DEF Next

\* Every step keeps the queues, the executor and the promises consistent.
LEMMA NextCommandInv ==
  ASSUME ConstantsAssumption, SpuriousWakeups = FALSE, TypeOK, CommandInv, LockInv, Next
  PROVE  CommandInv'
<1>1. ReadingInv /\ CallInv
  BY Zenon DEF LockInv
<1>2. CASE Executor
  BY Zenon, <1>2, CommandsDequeue, CommandsExecutor, CommandsSend, CommandsWait, CommandsReturn
  DEF Executor
<1> QED
  BY Zenon, <1>1, <1>2, NextCases, QuietActions, CommandsCloseAbandon, CommandsConnect,
     CommandsOnBytesRead, CommandsSendCommand, CommandsStop

\* Every step respects socket_lock_ and the calls under way.
LEMMA NextLockInv ==
  ASSUME ConstantsAssumption, TypeOK, CommandInv, LockInv, Next
  PROVE  LockInv'
BY Zenon, LockCallProgress, LockExecutor, LockSelect, LockCaller, LockShutdown, LockTarget DEF Next

\* IndInv speaks only of the variables.
LEMMA StutterIndInv ==
  ASSUME IndInv, UNCHANGED vars
  PROVE  IndInv'
<1> USE DEF vars, main, conn, buffers, results, bounds, history
<1>1. TypeOK'
  BY Zenon DEF IndInv, TypeOK
<1>2. RequestsAreSequenced' /\ ExecutorInv' /\ PendingInv' /\ PhaseInv'
  BY Zenon DEF IndInv, RequestsAreSequenced, ExecutorInv, PendingInv, PhaseInv
<1>3. ReadingInv' /\ CallInv'
  BY Zenon DEF IndInv, ReadingInv, CallInv
<1> QED
  BY Zenon, <1>1, <1>2, <1>3 DEF IndInv

\* IndInv is an invariant of the context, whatever the numbers of commands,
\* channels and transports and however the threads interleave.
THEOREM Inductive ==
  ASSUME SpuriousWakeups = FALSE
  PROVE  Spec => []IndInv
<1>1. Init => IndInv
  BY Zenon, InitIndInv, ConstantsAssumption
<1>2. IndInv /\ [Next]_vars => IndInv'
  <2> SUFFICES ASSUME IndInv, [Next]_vars
               PROVE  IndInv'
    BY Zenon
  <2>1. CASE Next
    BY Zenon, <2>1, NextTypeOK, NextCommandInv, NextLockInv, ConstantsAssumption
    DEF IndInv, CommandInv, LockInv
  <2>2. CASE UNCHANGED vars
    BY Zenon, <2>2, StutterIndInv
  <2> QED
    BY Zenon, <2>1, <2>2
<1> QED
  BY <1>1, <1>2, PTL DEF Spec

\* Every reachable state of the context has the declared types: in particular no
\* action of ExecuteXBDMPromise or Close runs on a null transport or request.
THEOREM TypeCorrect ==
  ASSUME SpuriousWakeups = FALSE
  PROVE  Spec => []TypeOK
<1>1. IndInv => TypeOK
  BY Zenon DEF IndInv
<1> QED
  BY <1>1, Inductive, PTL

\* A transport never holds more than the request xbdm_control_executor_ waits
\* for, whichever threads connect, close and replace transports meanwhile.
THEOREM Sequencing ==
  ASSUME SpuriousWakeups = FALSE
  PROVE  Spec => []RequestsAreSequenced
<1>1. IndInv => RequestsAreSequenced
  BY Zenon DEF IndInv
<1> QED
  BY <1>1, Inductive, PTL

\* Once Shutdown has joined the executor every future is ready: its promise was
\* set by ExecuteXBDMPromise or broken with the task that held it.
THEOREM NoCallerWaits ==
  ASSUME SpuriousWakeups = FALSE
  PROVE  Spec => []NoCallerLeftBehind
<1>1. IndInv => NoCallerLeftBehind
  <2> SUFFICES ASSUME IndInv, phase = "down", NEW r \in Request
               PROVE  promise[r] # "pending"
    BY Zenon DEF NoCallerLeftBehind
  <2>1. tasks = <<>> /\ exec.request = None
    BY Zenon DEF IndInv, PhaseInv, ExecutorInv
  <2>2. DOMAIN tasks = {} /\ r # None
    BY <2>1, ConstantsAssumption DEF ConstantsAssumption
  <2> QED
    BY Zenon, <2>1, <2>2 DEF IndInv, PendingInv
<1> QED
  BY <1>1, Inductive, PTL

----------------------------------------------------------------------------
(* The context implements CommandService                                   *)

\* Only the request that is executed is written to, so a step that neither
\* starts nor settles a command is invisible to the callers.
LEMMA InvisibleStep ==
  ASSUME PendingInv, exec'.request = exec.request, UNCHANGED <<tasks, promise>>,
         \A r \in Request : r # exec.request => status'[r] = status[r] /\ answer'[r] = answer[r],
         Open' = Open
  PROVE  UNCHANGED Service!vars
<1>1. Submitted' = Submitted
  BY Zenon DEF Submitted
<1>2. \A r \in Request : promise[r] = "set" => r # exec.request
  BY Zenon DEF PendingInv
<1>3. Settled' = Settled
  BY Zenon, <1>2 DEF Settled
<1> QED
  BY Zenon, <1>1, <1>3 DEF Service!vars

\* promise.set_value with the verdict of the command that is executed.
LEMMA SettleStep ==
  ASSUME ConstantsAssumption, TypeOK, ExecutorInv, exec.at # "idle", Fulfil(exec.request),
         \A r \in Request : r # exec.request => status'[r] = status[r] /\ answer'[r] = answer[r],
         status'[exec.request] \in StatusCode \ {"INVALID"},
         answer'[exec.request] \in Request \cup {None}, tasks' = tasks, phase' = phase
  PROVE  \E v \in Verdict : Service!Settle(v)
<1> DEFINE v == [status |-> status'[exec.request], answer |-> answer'[exec.request]]
<1>1. exec.request \in Request /\ exec.request # None
  BY Zenon, Busy DEF ConstantsAssumption
<1>2. v \in Verdict
  BY Zenon DEF Verdict
<1>3. promise' = [promise EXCEPT ![exec.request] = "set"] /\ exec'.request = None
  BY Zenon DEF Fulfil
<1>4. \A r \in Request : promise'[r] = IF r = exec.request THEN "set" ELSE promise[r]
  BY ZenonT(30), <1>1, <1>3 DEF TypeOK
<1>5. Settled' = [Settled EXCEPT ![exec.request] = v]
  BY Zenon, <1>1, <1>4 DEF Settled
<1>6. Submitted' = Submitted /\ Open' = Open
  BY Zenon DEF Submitted, Open
<1>7. Service!Settle(v)
  BY Zenon, <1>1, <1>3, <1>5, <1>6 DEF Service!Settle
<1> QED
  BY Zenon, <1>2, <1>7

\* SendCommand submits.
LEMMA SubmitStep ==
  ASSUME TypeOK, NEW r \in Request, SendCommand(r)
  PROVE  Service!Submit(r)
<1>1. PICK t : tasks' = Append(tasks, [request |-> r, transport |-> t])
  BY ZenonT(30) DEF SendCommand
<1>2. /\ promise[r] = "none" /\ phase \in Accepting
      /\ promise' = [promise EXCEPT ![r] = "pending"]
      /\ UNCHANGED <<exec, status, answer, phase>>
  BY Zenon DEF SendCommand
<1>3. /\ Len(tasks) \in Nat
      /\ DOMAIN tasks = 1..Len(tasks)
      /\ DOMAIN tasks' = 1..(Len(tasks) + 1)
      /\ \A i \in DOMAIN tasks : tasks'[i].request = tasks[i].request
      /\ tasks'[Len(tasks) + 1].request = r
  <2>1. tasks \in Seq(Task)
    BY Zenon DEF TypeOK
  <2> QED
    BY SMTT(30), <1>1, <2>1
<1>4. Submitted' = Append(Submitted, r)
  <2>1. Submitted \in Seq(Request) /\ Len(Submitted) = Len(tasks)
    BY SMTT(30), <1>3, TaskFields DEF Submitted
  <2>2. /\ Append(Submitted, r) \in Seq(Request)
        /\ Len(Append(Submitted, r)) = Len(tasks) + 1
        /\ \A i \in 1..(Len(tasks) + 1) :
             Append(Submitted, r)[i] = IF i = Len(tasks) + 1 THEN r ELSE Submitted[i]
    BY SMTT(30), <1>3, <2>1, AppendProperties
  <2>3. /\ DOMAIN Submitted' = 1..(Len(tasks) + 1)
        /\ \A i \in 1..(Len(tasks) + 1) :
             Submitted'[i] = IF i = Len(tasks) + 1 THEN r ELSE Submitted[i]
    BY <1>3 DEF Submitted
  <2>4. Submitted' \in Seq(Request) /\ Len(Submitted') = Len(tasks) + 1
    <3>1. \A i \in 1..(Len(tasks) + 1) : Submitted'[i] \in Request
      BY Zenon, <2>2, <2>3, ElementOfSeq
    <3>2. Submitted' = [i \in 1..(Len(tasks) + 1) |-> Submitted'[i]]
      BY Zenon, <1>3 DEF Submitted
    <3> QED
      BY SMTT(30), <1>3, <3>1, <3>2
  <2> QED
    BY ZenonT(30), <2>2, <2>3, <2>4, SeqEqual
<1>5. Settled' = Settled
  <2>1. \A q \in Request : promise'[q] = "set" <=> promise[q] = "set"
    BY Zenon, <1>2 DEF TypeOK
  <2> QED
    BY Zenon, <1>2, <2>1 DEF Settled
<1>6. Open /\ Open' = Open
  BY Zenon, <1>2 DEF Open, Accepting
<1> QED
  BY Zenon, <1>2, <1>4, <1>5, <1>6 DEF Service!Submit

\* The thread pool starts the oldest command.
LEMMA StartStep ==
  ASSUME TypeOK, ExecutorInv, Dequeue
  PROVE  Service!Start
<1>1. /\ exec.request = None /\ phase \in Accepting /\ tasks # <<>>
      /\ exec'.request = Head(tasks).request
      /\ tasks' = Tail(tasks)
      /\ UNCHANGED <<status, answer, promise, phase>>
  BY Zenon DEF Dequeue, ExecStep, ExecutorInv, results
<1>2. tasks \in Seq(Task)
  BY Zenon DEF TypeOK
<1>3. /\ Len(tasks) \in Nat \ {0}
      /\ DOMAIN tasks = 1..Len(tasks)
      /\ Head(tasks) = tasks[1]
      /\ DOMAIN tasks' = 1..(Len(tasks) - 1)
      /\ \A i \in DOMAIN tasks' : tasks'[i] = tasks[i + 1]
  BY SMTT(30), <1>1, <1>2, HeadTailProperties
<1>4. Submitted \in Seq(Request) /\ Len(Submitted) = Len(tasks)
  BY SMTT(30), <1>3, TaskFields DEF Submitted
<1>5. Submitted # <<>> /\ Head(Submitted) = Head(tasks).request
  BY SMTT(30), <1>3, <1>4 DEF Submitted
<1>6. Submitted' = Tail(Submitted)
  <2>1. /\ Tail(Submitted) \in Seq(Request)
        /\ Len(Tail(Submitted)) = Len(tasks) - 1
        /\ \A i \in 1..(Len(tasks) - 1) : Tail(Submitted)[i] = Submitted[i + 1]
    BY Zenon, <1>4, <1>5, HeadTailProperties
  <2>2. /\ DOMAIN Submitted' = 1..(Len(tasks) - 1)
        /\ \A i \in 1..(Len(tasks) - 1) : Submitted'[i] = Submitted[i + 1]
    BY <1>3 DEF Submitted
  <2>3. Submitted' \in Seq(Request) /\ Len(Submitted') = Len(tasks) - 1
    <3>1. \A i \in 1..(Len(tasks) - 1) : Submitted'[i] \in Request
      BY Zenon, <2>1, <2>2, ElementOfSeq
    <3>2. Submitted' = [i \in 1..(Len(tasks) - 1) |-> Submitted'[i]]
      BY Zenon, <1>3 DEF Submitted
    <3>3. Len(tasks) - 1 \in Nat
      BY SMTT(30), <1>3
    <3> QED
      BY SMTT(30), <3>1, <3>2, <3>3
  <2> QED
    BY Zenon, <2>1, <2>2, <2>3, SeqEqual
<1>7. Settled' = Settled
  BY Zenon, <1>1 DEF Settled
<1>8. Open /\ Open' = Open
  BY Zenon, <1>1 DEF Open, Accepting
<1> QED
  BY Zenon, <1>1, <1>5, <1>6, <1>7, <1>8 DEF Service!Start

\* xbdm_control_executor_->stop() closes the service.
LEMMA CloseStep ==
  ASSUME TypeOK, PendingInv, StopExecutor
  PROVE  Service!Close
<1>1. /\ phase = "stopping" /\ phase' = "joining" /\ tasks' = <<>>
      /\ promise' = [r \in Request |-> IF \E i \in DOMAIN tasks : tasks[i].request = r
                                       THEN "broken" ELSE promise[r]]
      /\ UNCHANGED <<exec, status, answer>>
  BY Zenon DEF StopExecutor
<1>2. Open = TRUE /\ Open' = FALSE
  BY Zenon, <1>1 DEF Open
<1>3. Submitted' = <<>>
  BY <1>1 DEF Submitted
<1>4. DOMAIN Submitted = DOMAIN tasks /\ \A i \in DOMAIN tasks : Submitted[i] = tasks[i].request
  BY Zenon DEF Submitted
<1>5. promise' = [r \in Request |-> IF \E i \in DOMAIN Submitted : Submitted[i] = r
                                    THEN "broken" ELSE promise[r]]
  BY Zenon, <1>1, <1>4
<1>6. Settled' = Settled
  <2>1. \A r \in Request : promise'[r] = "set" <=> promise[r] = "set"
    BY Zenon, <1>1 DEF PendingInv
  <2> QED
    BY Zenon, <1>1, <2>1 DEF Settled
<1> QED
  BY Zenon, <1>1, <1>2, <1>3, <1>5, <1>6 DEF Service!Close

\* XBDMConnect failed, or WaitUntilCompleted returned.
LEMMA SettlingSteps ==
  ASSUME ConstantsAssumption, TypeOK, ExecutorInv, exec.at # "idle",
         \/ NotConnected
         \/ exec.at = "woken" /\ Fulfil(exec.request) /\ UNCHANGED <<status, answer>>,
         UNCHANGED <<tasks, phase>>
  PROVE  \E v \in Verdict : Service!Settle(v)
<1>1. exec.request \in Request
  BY Zenon, Busy
<1>2. answer[exec.request] \in Request \cup {None} /\ status[exec.request] \in StatusCode
  BY ZenonT(30), <1>1 DEF TypeOK
<1>3. CASE NotConnected
  <2>1. /\ status'[exec.request] = "ERR_NOT_CONNECTED" /\ answer' = answer
        /\ \A r \in Request : r # exec.request => status'[r] = status[r]
    BY ZenonT(30), <1>1, <1>3 DEF NotConnected, TypeOK
  <2>2. Fulfil(exec.request)
    BY Zenon, <1>3 DEF NotConnected
  <2> QED
    BY Zenon, <1>2, <2>1, <2>2, SettleStep DEF StatusCode
<1>4. CASE exec.at = "woken" /\ Fulfil(exec.request) /\ UNCHANGED <<status, answer>>
  <2>1. status'[exec.request] \in StatusCode \ {"INVALID"}
    BY Zenon, <1>2, <1>4 DEF ExecutorInv
  <2> QED
    BY Zenon, <1>2, <1>4, <2>1, SettleStep
<1> QED
  BY Zenon, <1>3, <1>4

\* Every step of the context is a step of the service or invisible to it.
LEMMA RefinementStep ==
  ASSUME ConstantsAssumption, SpuriousWakeups = FALSE, IndInv, Next
  PROVE  Service!Next \/ UNCHANGED Service!vars
<1> USE DEF IndInv
<1>1. CASE Quiet
  <2>1. Open' = Open
    BY Zenon, <1>1, QuietFacts DEF Open
  <2> QED
    BY Zenon, <1>1, <2>1, QuietFacts, InvisibleStep
<1>2. ASSUME NEW a \in Actor, CloseAbandon(a)
      PROVE  UNCHANGED Service!vars
  <2> DEFINE t == op[a].t
             rs == {request_queue_[t][i] : i \in DOMAIN request_queue_[t]}
  <2>1. t \in Transport
    BY Zenon, <1>2 DEF CloseAbandon, CallInv
  <2>2. \A r \in rs : r = exec.request
    BY <2>1 DEF RequestsAreSequenced
  <2>3. Abandon(rs) /\ tasks' = tasks
    BY Zenon, <1>2 DEF CloseAbandon
  <2>4. Open' = Open
    <3>1. phase' = phase \/ (op[a].then = "reset" /\ phase' = "stopping")
      BY Zenon, <1>2 DEF CloseAbandon
    <3>2. op[a].then = "reset" => phase = "closing"
      BY Zenon DEF CallInv
    <3> QED
      BY Zenon, <3>1, <3>2 DEF Open
  <2>5. exec'.request = exec.request
    BY Zenon, <2>3, NotifyFacts DEF Abandon
  <2>6. /\ UNCHANGED <<answer, promise>>
        /\ \A r \in Request : r # exec.request => status'[r] = status[r]
    BY Zenon, <2>2, <2>3 DEF Abandon
  <2> QED
    BY Zenon, <2>3, <2>4, <2>5, <2>6, InvisibleStep
<1>3. ASSUME NEW a \in Actor, ConnectSocket(a) \/ ConnectFails(a)
      PROVE  (\E v \in Verdict : Service!Settle(v)) \/ UNCHANGED Service!vars
  <2>1. UNCHANGED <<tasks, phase>>
    BY Zenon, <1>3 DEF ConnectSocket, ConnectFails
  <2>2. Open' = Open
    BY Zenon, <2>1 DEF Open
  <2>3. \/ UNCHANGED <<exec, results>>
        \/ exec.at = "dialing" /\ Goto("poll") /\ UNCHANGED results
        \/ exec.at \in {"dialing", "redialing"} /\ NotConnected
    BY Zenon, <1>3 DEF ConnectSocket, ConnectFails, ConnectReturned
  <2>4. CASE UNCHANGED <<exec, results>>
    BY Zenon, <2>1, <2>2, <2>4, InvisibleStep DEF results
  <2>5. CASE exec.at = "dialing" /\ Goto("poll") /\ UNCHANGED results
    BY ZenonT(30), <2>1, <2>2, <2>5, InvisibleStep, GotoFacts, Names DEF results, TypeOK
  <2>6. CASE exec.at \in {"dialing", "redialing"} /\ NotConnected
    BY Zenon, <2>1, <2>6, SettlingSteps
  <2> QED
    BY Zenon, <2>3, <2>4, <2>5, <2>6
<1>4. CASE Check \/ Dial \/ Poll \/ Send \/ Wait
  <2>1. UNCHANGED <<status, answer, promise, tasks, phase>>
    BY Zenon, <1>4 DEF Check, Dial, Poll, Send, Wait, results
  <2>2. Open' = Open
    BY Zenon, <2>1 DEF Open
  <2>3. \E at \in ExecAt : Goto(at)
    BY Zenon, <1>4, Names DEF Check, Dial, Poll, Send, Wait
  <2>4. exec'.request = exec.request
    BY ZenonT(30), <2>3, GotoFacts DEF TypeOK
  <2> QED
    BY Zenon, <2>1, <2>2, <2>4, InvisibleStep
<1>5. CASE Return
  <2>1. /\ exec.at = "woken" /\ Fulfil(exec.request)
        /\ UNCHANGED <<status, answer, tasks, phase>>
    BY Zenon, <1>5 DEF Return, ExecStep
  <2>2. \E v \in Verdict : Service!Settle(v)
    BY Zenon, <2>1, SettlingSteps
  <2> QED
    BY Zenon, <2>2 DEF Service!Next
<1>6. CASE Dequeue
  BY Zenon, <1>6, StartStep DEF Service!Next
<1>7. CASE OnBytesRead
  <2> DEFINE t == reading.t
             m == Head(read_buffer_[t])
  <2>1. t \in Transport /\ reading # None /\ tasks' = tasks
    BY ZenonT(30), <1>7 DEF OnBytesRead, TypeOK, Reading
  <2>2. Open' = Open
    <3>1. phase = "running" /\ phase' \in {phase, "crashed"}
      <4>1. passed # None
        BY Zenon, <2>1 DEF ReadingInv, ConstantsAssumption, Transport
      <4> QED
        BY Zenon, <1>7, <4>1 DEF OnBytesRead, HandleInitialConnectResponse, HandleResponse, ReadingInv
    <3> QED
      BY Zenon, <3>1 DEF Open
  <2>3. \/ UNCHANGED <<exec, results>>
        \/ /\ reading.request # None /\ Complete(reading.request, m.of)
           /\ request_queue_[t] # <<>>
    BY Zenon, <1>7 DEF OnBytesRead, HandleInitialConnectResponse, HandleResponse
  <2>4. CASE UNCHANGED <<exec, results>>
    BY Zenon, <2>1, <2>2, <2>4, InvisibleStep DEF results
  <2>5. CASE /\ reading.request # None /\ Complete(reading.request, m.of)
             /\ request_queue_[t] # <<>>
    <3>1. request_queue_[t] = <<reading.request>>
      BY Zenon, <2>1, <2>5 DEF ReadingInv
    <3>2. reading.request = exec.request
      BY SMTT(30), <2>1, <3>1 DEF RequestsAreSequenced
    <3>3. /\ promise' = promise
          /\ \A r \in Request : r # exec.request => status'[r] = status[r] /\ answer'[r] = answer[r]
      BY ZenonT(30), <2>5, <3>2 DEF Complete, TypeOK
    <3>4. exec'.request = exec.request
      BY Zenon, <2>5, NotifyFacts DEF Complete
    <3> QED
      BY ZenonT(30), <2>1, <2>2, <3>3, <3>4, InvisibleStep
  <2> QED
    BY Zenon, <2>3, <2>4, <2>5
<1>8. ASSUME NEW r \in Request, SendCommand(r)
      PROVE  Service!Next
  BY Zenon, <1>8, SubmitStep DEF Service!Next
<1>9. CASE StopExecutor
  BY Zenon, <1>9, CloseStep DEF Service!Next
<1>10. CASE JoinExecutor
  <2>1. Open' = Open /\ UNCHANGED <<exec, results, tasks>>
    BY Zenon, <1>10 DEF JoinExecutor, Open
  <2> QED
    BY Zenon, <2>1, InvisibleStep DEF results
<1>11. Executor => Check \/ Dial \/ Poll \/ Send \/ Wait \/ Return \/ Dequeue
  BY Zenon DEF Executor
<1>12. (\E v \in Verdict : Service!Settle(v)) => Service!Next
  BY Zenon DEF Service!Next
<1> HIDE DEF IndInv
<1> QED
  BY Zenon, <1>1, <1>2, <1>3, <1>4, <1>5, <1>6, <1>7, <1>8, <1>9, <1>10, <1>11, <1>12, NextCases

\* The context implements the service it promises: the callers of SendCommand
\* see their commands start in order, one at a time, and every future settle at
\* most once with a verdict no other thread changes afterwards.
THEOREM Refinement ==
  ASSUME SpuriousWakeups = FALSE
  PROVE  Spec => ImplementsService
<1>1. Init => Service!Init
  <2> SUFFICES ASSUME Init PROVE Service!Init
    BY Zenon
  <2>1. Submitted = <<>>
    BY SMTT(30) DEF Init, Submitted
  <2>2. Settled = [r \in Request |-> None]
    BY Zenon DEF Init, Settled
  <2>3. Open = TRUE
    BY Zenon DEF Init, Open
  <2> QED
    BY Zenon, <2>1, <2>2, <2>3 DEF Init, Service!Init
<1>2. IndInv /\ [Next]_vars => [Service!Next]_(Service!vars)
  <2> SUFFICES ASSUME IndInv, [Next]_vars
               PROVE  Service!Next \/ UNCHANGED Service!vars
    BY Zenon
  <2>1. CASE Next
    BY Zenon, <2>1, RefinementStep, ConstantsAssumption
  <2>2. CASE UNCHANGED vars
    BY Zenon, <2>2 DEF vars, main, conn, results, Service!vars, Submitted, Settled, Open
  <2> QED
    BY Zenon, <2>1, <2>2
<1> QED
  BY <1>1, <1>2, Inductive, PTL DEF Spec, Service!Spec, ImplementsService
=============================================================================
