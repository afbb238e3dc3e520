--------------------------- MODULE SelectThread ---------------------------
(***************************************************************************)
(* The select thread and what it serves: SelectThread::ThreadMain makes a  *)
(* pass over the selectables to fill the fd_sets, blocks in select, makes a *)
(* second pass to process them, and fulfils the fences of AwaitQuiescence  *)
(* when a select came back empty. Every other thread may add, connect,     *)
(* write to or close a connection, post a task or wait for a fence at any  *)
(* moment; all they have to reach the thread is a byte in a pipe.          *)
(*                                                                         *)
(* Stream stands for TCPConnection and its heirs, Server for TCPServer,    *)
(* Signaller for select_signaller_, the TaskConnection of the thread. The  *)
(* descriptors of sockets are numbers, because the fd_sets outlive them: a *)
(* number that was closed names the next socket that is opened. Pipes are  *)
(* not numbered: their reads do not block and read nothing that matters.   *)
(***************************************************************************)
EXTENDS Integers, Sequences, FiniteSets

CONSTANTS
  Stream, Server,  \* connections and listening sockets, each opened once
  Task,            \* what the callers of Post and PostDelayed post
  Waiter,          \* threads that call AwaitQuiescence, once each
  MaxFd,           \* descriptors available for sockets
  Session,         \* what may happen, one of these per behaviour
  Signaller

Conn == Stream \cup Server
Entry == Conn \cup {Signaller}
Fd == 1..MaxFd
Members(s) == {s[i] : i \in DOMAIN s}

ASSUME SelectAssumption ==
  /\ Stream \cap Server = {}
  /\ Signaller \notin Conn
  /\ Task \cap {"noop", "stop"} = {}
  /\ MaxFd \in Nat
  /\ \A s \in Session :
       /\ s.conns \subseteq Conn      \* the connections that are opened
       /\ s.tasks \subseteq Task      \* the tasks that are posted
       /\ s.waiters \subseteq Waiter  \* the threads that wait
       /\ s.arrivals \in Nat          \* bound on what a socket receives
       /\ s.sends \in Nat             \* bound on the chunks in a write_buffer_
       /\ s.closes \in BOOLEAN        \* whether the program closes connections
       /\ s.stops \in BOOLEAN         \* whether Stop may be called

VARIABLES
  selectables_,
  socket_,             \* descriptor, 0 for -1
  pipe,                \* pipe_fds_: "quiet", "signalled" or "closed"
  is_shutdown_,
  write_buffer_,       \* chunks to send
  close_after_flush_,
  life,                \* how far the owner has got with the connection
  received, consumed,  \* chunks that reached the socket, that Process took
  hangup,              \* the peer has closed
  task_queue_, delayed_tasks_, due,
  tasks_to_run, ran,
  pending_fences_, wait, owed,
  running_, at,        \* the select thread: running_, and its program counter
  todo,                \* entries_to_service
  sets,                \* the fd_sets, before and after select
  files,               \* the sockets that select found under the numbers in sets
  soonest_scheduled,   \* whether the select has a timer to wake up for
  has_fences, fds, stopping, session,
  closing              \* connections whose Close has still to take socket_lock_

sock == <<socket_, pipe, is_shutdown_, write_buffer_, close_after_flush_>>
net == <<received, consumed, hangup>>
tasking == <<task_queue_, delayed_tasks_, due, tasks_to_run, ran>>
fences == <<pending_fences_, wait, owed>>
loop == <<at, todo, sets, files, soonest_scheduled, has_fences, fds>>
control == <<stopping, session>>
vars == <<selectables_, sock, life, closing, net, tasking, fences, running_,
          loop, control>>

NoFds == [pipes |-> {}, read |-> {}, write |-> {}]

\* SelectThread::Start: the signaller is the first entry.
Init ==
  /\ selectables_ = <<Signaller>>
  /\ socket_ = [c \in Conn |-> 0]
  /\ pipe = [e \in Entry |-> "quiet"]
  /\ is_shutdown_ = [c \in Conn |-> FALSE]
  /\ write_buffer_ = [c \in Conn |-> 0]
  /\ close_after_flush_ = [c \in Conn |-> FALSE]
  /\ life = [c \in Conn |-> "new"]
  /\ received = [c \in Conn |-> 0]
  /\ consumed = [c \in Conn |-> 0]
  /\ hangup = [c \in Conn |-> FALSE]
  /\ task_queue_ = <<>> /\ delayed_tasks_ = {} /\ due = {}
  /\ tasks_to_run = <<>> /\ ran = {}
  /\ pending_fences_ = {}
  /\ wait = [w \in Waiter |-> "none"]
  /\ owed = [w \in Waiter |-> [tasks |-> {}, chunks |-> [c \in Conn |-> 0]]]
  /\ running_ = TRUE /\ stopping = FALSE
  /\ at = "pass" /\ todo = selectables_ /\ sets = NoFds /\ files = {}
  /\ soonest_scheduled = FALSE /\ has_fences = FALSE /\ fds = 0
  /\ closing = {}
  /\ session \in Session

-----------------------------------------------------------------------------
(* What the other threads do.                                              *)

\* SignalProcessingNeeded; a closed pipe swallows the signal.
Signalled(p, e) == IF p[e] = "closed" THEN p ELSE [p EXCEPT ![e] = "signalled"]

\* TaskConnection::Post on the signaller. Queue and pipe change under
\* queue_mutex_.
Enqueue(task) ==
  /\ task_queue_' = Append(task_queue_, task)
  /\ pipe' = Signalled(pipe, Signaller)

\* A socket gets the lowest free descriptor, as the kernel gives them out.
FreeFds == Fd \ {socket_[c] : c \in Conn}
Opens(c) ==
  \E fd \in FreeFds : /\ \A other \in FreeFds : fd <= other
                      /\ socket_' = [socket_ EXCEPT ![c] = fd]

\* AddConnection, first half: the entry is in the list.
AddConnection(c) ==
  /\ life[c] \in {"new", "accepted"} /\ c \in session.conns
  /\ selectables_' = Append(selectables_, c)
  /\ life' = [life EXCEPT ![c] = IF @ = "new" THEN "appending" ELSE "adopting"]
  /\ UNCHANGED <<sock, closing, net, tasking, fences, running_, loop, control>>

\* AddConnection, second half: an empty task wakes the thread.
AddConnectionPosts(c) ==
  /\ life[c] \in {"appending", "adopting"}
  /\ Enqueue("noop")
  /\ life' = [life EXCEPT ![c] = IF @ = "appending" THEN "added" ELSE "up"]
  /\ UNCHANGED <<selectables_, socket_, is_shutdown_, write_buffer_,
                 close_after_flush_, closing, net, delayed_tasks_, due,
                 tasks_to_run, ran, fences, running_, loop, control>>

\* XBDMTransport::Connect after socket(): the descriptor is the transport's,
\* but nothing has told the select thread. (A first Connect: XBDMContext.tla
\* follows the later ones.)
Connect(c) ==
  /\ c \in Stream /\ life[c] = "added" /\ ~is_shutdown_[c]
  /\ Opens(c)
  /\ life' = [life EXCEPT ![c] = "connecting"]
  /\ UNCHANGED <<selectables_, pipe, is_shutdown_, write_buffer_,
                 close_after_flush_, closing, net, tasking, fences, running_,
                 loop, control>>

\* connect() succeeded: SignalProcessingNeeded.
Connected(c) ==
  /\ life[c] = "connecting"
  /\ life' = [life EXCEPT ![c] = "up"]
  /\ pipe' = Signalled(pipe, c)
  /\ UNCHANGED <<selectables_, socket_, is_shutdown_, write_buffer_,
                 close_after_flush_, closing, net, tasking, fences, running_,
                 loop, control>>

\* TCPServer::Listen. It signals nobody. No server is closed before its owner
\* made it listen.
Listen(c) ==
  /\ c \in Server /\ life[c] = "added" /\ ~is_shutdown_[c]
  /\ Opens(c)
  /\ life' = [life EXCEPT ![c] = "up"]
  /\ UNCHANGED <<selectables_, pipe, is_shutdown_, write_buffer_,
                 close_after_flush_, closing, net, tasking, fences, running_,
                 loop, control>>

\* A seeded fault: Send without the signal.
SendSilently(c) ==
  /\ c \in Stream /\ life[c] = "up" /\ write_buffer_[c] < session.sends
  /\ write_buffer_' = [write_buffer_ EXCEPT ![c] = @ + 1]
  /\ UNCHANGED <<selectables_, socket_, pipe, is_shutdown_, close_after_flush_,
                 life, closing, net, tasking, fences, running_, loop, control>>

\* TCPConnection::Send.
Send(c) ==
  /\ c \in Stream /\ life[c] = "up" /\ write_buffer_[c] < session.sends
  /\ write_buffer_' = [write_buffer_ EXCEPT ![c] = @ + 1]
  /\ pipe' = Signalled(pipe, c)
  /\ UNCHANGED <<selectables_, socket_, is_shutdown_, close_after_flush_, life,
                 closing, net, tasking, fences, running_, loop, control>>

\* TCPSocketBase::Close up to the point where it takes socket_lock_.
BeginClose(c) ==
  /\ pipe' = [pipe EXCEPT ![c] = "closed"]
  /\ is_shutdown_' = [is_shutdown_ EXCEPT ![c] = TRUE]
  /\ closing' = IF socket_[c] = 0 THEN closing ELSE closing \cup {c}

Close(c) ==
  /\ session.closes /\ life[c] # "new" /\ ~is_shutdown_[c]
  /\ BeginClose(c)
  /\ UNCHANGED <<selectables_, socket_, write_buffer_, close_after_flush_, life,
                 net, tasking, fences, running_, loop, control>>

\* The select thread holds socket_lock_ of the connection it processes.
Held(c) == at \in {"read", "recv"} /\ Head(todo) = c

\* The rest of TCPSocketBase::Close.
CloseSocket(c) ==
  /\ c \in closing /\ ~Held(c)
  /\ closing' = closing \ {c}
  /\ socket_' = [socket_ EXCEPT ![c] = 0]
  /\ UNCHANGED <<selectables_, pipe, is_shutdown_, write_buffer_,
                 close_after_flush_, life, net, tasking, fences, running_, loop,
                 control>>

\* TCPConnection::FlushAndClose.
FlushAndClose(c) ==
  /\ session.closes /\ c \in Stream /\ life[c] = "up"
  /\ ~is_shutdown_[c] /\ ~close_after_flush_[c]
  /\ IF write_buffer_[c] = 0
       THEN BeginClose(c) /\ UNCHANGED close_after_flush_
       ELSE /\ close_after_flush_' = [close_after_flush_ EXCEPT ![c] = TRUE]
            /\ UNCHANGED <<pipe, is_shutdown_, closing>>
  /\ UNCHANGED <<selectables_, socket_, write_buffer_, life, net, tasking,
                 fences, running_, loop, control>>

Unposted ==
  Task \ (ran \cup delayed_tasks_ \cup Members(task_queue_) \cup Members(tasks_to_run))

Post(k) ==
  /\ k \in Unposted /\ k \in session.tasks
  /\ Enqueue(k)
  /\ UNCHANGED <<selectables_, socket_, is_shutdown_, write_buffer_,
                 close_after_flush_, life, closing, net, delayed_tasks_, due,
                 tasks_to_run, ran, fences, running_, loop, control>>

\* The signal comes after the unlock; a pass in between computes a timeout from
\* the timer it finds, and the signal makes it pass once more.
PostDelayed(k) ==
  /\ k \in Unposted /\ k \in session.tasks
  /\ delayed_tasks_' = delayed_tasks_ \cup {k}
  /\ pipe' = Signalled(pipe, Signaller)
  /\ UNCHANGED <<selectables_, socket_, is_shutdown_, write_buffer_,
                 close_after_flush_, life, closing, net, task_queue_, due,
                 tasks_to_run, ran, fences, running_, loop, control>>

\* Time passes a timer of delayed_tasks_.
Expire(k) ==
  /\ k \in delayed_tasks_ \ due
  /\ due' = due \cup {k}
  /\ UNCHANGED <<selectables_, sock, life, closing, net, task_queue_,
                 delayed_tasks_, tasks_to_run, ran, fences, running_, loop,
                 control>>

\* The events that are pending for the select thread: the queued tasks, and what
\* has reached the socket of a connection it has been told of.
Served(c) ==
  /\ life[c] = "up" /\ socket_[c] # 0 /\ ~is_shutdown_[c]
  /\ c \in Members(selectables_)
Pending ==
  [tasks |-> Members(task_queue_) \cap Task,
   chunks |-> [c \in Conn |-> IF Served(c) THEN received[c] ELSE 0]]

\* AwaitQuiescence pushes its fence, signals, and waits.
AwaitQuiescence(w) ==
  /\ wait[w] = "none" /\ w \in session.waiters
  /\ pending_fences_' = pending_fences_ \cup {w}
  /\ wait' = [wait EXCEPT ![w] = "pushed"]
  /\ owed' = [owed EXCEPT ![w] = Pending]
  /\ UNCHANGED <<selectables_, sock, life, closing, net, tasking, running_, loop,
                 control>>

\* A seeded fault: AwaitQuiescence without the signal.
AwaitQuiescenceSilently(w) ==
  /\ wait[w] = "pushed"
  /\ wait' = [wait EXCEPT ![w] = "waiting"]
  /\ UNCHANGED <<selectables_, sock, life, closing, net, tasking,
                 pending_fences_, owed, running_, loop, control>>

AwaitQuiescenceSignals(w) ==
  /\ wait[w] = "pushed"
  /\ wait' = [wait EXCEPT ![w] = "waiting"]
  /\ pipe' = Signalled(pipe, Signaller)
  /\ UNCHANGED <<selectables_, socket_, is_shutdown_, write_buffer_,
                 close_after_flush_, life, closing, net, tasking,
                 pending_fences_, owed, running_, loop, control>>

AwaitQuiescenceReturns(w) ==
  /\ wait[w] = "waiting" /\ w \notin pending_fences_
  /\ wait' = [wait EXCEPT ![w] = "returned"]
  /\ UNCHANGED <<selectables_, sock, life, closing, net, tasking,
                 pending_fences_, owed, running_, loop, control>>

\* SelectThread::Stop; the join that follows waits for at = "done".
Stop ==
  /\ session.stops /\ ~stopping
  /\ stopping' = TRUE
  /\ Enqueue("stop")
  /\ UNCHANGED <<selectables_, socket_, is_shutdown_, write_buffer_,
                 close_after_flush_, life, closing, net, delayed_tasks_, due,
                 tasks_to_run, ran, fences, running_, loop, session>>

-----------------------------------------------------------------------------
(* The peers.                                                              *)

Arrive(c) ==
  /\ socket_[c] # 0 /\ ~hangup[c] /\ received[c] < session.arrivals
  /\ received' = [received EXCEPT ![c] = @ + 1]
  /\ UNCHANGED <<selectables_, sock, life, closing, consumed, hangup, tasking,
                 fences, running_, loop, control>>

HangUp(c) ==
  /\ c \in Stream /\ socket_[c] # 0 /\ ~hangup[c]
  /\ hangup' = [hangup EXCEPT ![c] = TRUE]
  /\ UNCHANGED <<selectables_, sock, life, closing, received, consumed, tasking,
                 fences, running_, loop, control>>

-----------------------------------------------------------------------------
(* SelectThread::ThreadMain.                                               *)

\* selectables_ without e, which it has at most once.
Without(e) ==
  IF e \in Members(selectables_)
    THEN LET i == CHOOSE i \in DOMAIN selectables_ : selectables_[i] = e IN
           SubSeq(selectables_, 1, i - 1)
             \o SubSeq(selectables_, i + 1, Len(selectables_))
    ELSE selectables_

\* The first pass: one entry's Select. A connection that was closed and has no
\* socket is erased. (ApplyAndEraseIf erases at the end of the pass; it works on
\* a copy of the list, so nobody can tell.)
SelectEntry ==
  /\ at = "pass" /\ todo # <<>>
  /\ LET e == Head(todo)
         open == e # Signaller /\ socket_[e] # 0
     IN /\ sets' = [pipes |-> sets.pipes \cup (IF pipe[e] = "closed" THEN {} ELSE {e}),
                    read |-> sets.read \cup (IF open THEN {socket_[e]} ELSE {}),
                    write |-> sets.write \cup
                      (IF open /\ write_buffer_[e] > 0 THEN {socket_[e]} ELSE {})]
        /\ soonest_scheduled' =
             (soonest_scheduled \/ (e = Signaller /\ delayed_tasks_ # {}))
        /\ selectables_' =
             IF pipe[e] = "closed" /\ ~open THEN Without(e) ELSE selectables_
  /\ todo' = Tail(todo)
  /\ UNCHANGED <<sock, life, closing, net, tasking, fences, running_, at, files,
                 has_fences, fds, control>>

\* has_fences is read between the pass and select.
ReadFences ==
  /\ at = "pass" /\ todo = <<>>
  /\ has_fences' = (pending_fences_ # {})
  /\ at' = "select"
  /\ UNCHANGED <<selectables_, sock, life, closing, net, tasking, fences,
                 running_, todo, sets, files, soonest_scheduled, fds, control>>

\* A seeded fault: EBADF calls select again with the same sets.
CallSelectAgain ==
  /\ at = "select"
  /\ \A e \in sets.pipes : pipe[e] # "closed"
  /\ \A fd \in sets.read : \E c \in Conn : socket_[c] = fd
  /\ at' = "blocked"
  /\ files' = {f \in Fd \X Conn : f[1] \in sets.read /\ socket_[f[2]] = f[1]}
  /\ UNCHANGED <<selectables_, sock, life, closing, net, tasking, fences,
                 running_, todo, sets, soonest_scheduled, has_fences, fds,
                 control>>

\* select() looks the descriptors up once: a closed one is EBADF and the loop
\* starts again; a number that was given out anew means the new socket.
CallSelect ==
  /\ at = "select"
  /\ LET stale == \/ \E e \in sets.pipes : pipe[e] = "closed"
                  \/ \E fd \in sets.read : \A c \in Conn : socket_[c] # fd
     IN IF stale
          THEN /\ at' = "pass" /\ todo' = selectables_ /\ sets' = NoFds
               /\ soonest_scheduled' = FALSE /\ has_fences' = FALSE
               /\ UNCHANGED files
          ELSE /\ at' = "blocked"
               /\ files' = {f \in Fd \X Conn : f[1] \in sets.read /\ socket_[f[2]] = f[1]}
               /\ UNCHANGED <<todo, sets, soonest_scheduled, has_fences>>
  /\ UNCHANGED <<selectables_, sock, life, closing, net, tasking, fences,
                 running_, fds, control>>

\* What a blocked select finds ready. Closing a pipe or a socket wakes it.
ReadyPipes == {e \in sets.pipes : pipe[e] # "quiet"}
ReadyToRead ==
  {f[1] : f \in {g \in files : LET c == g[2] IN
     received[c] > consumed[c] \/ hangup[c] \/ socket_[c] = 0}}
Ready == [pipes |-> ReadyPipes, read |-> ReadyToRead, write |-> sets.write]

\* select() returns: something is ready, or its timeout has come.
SelectReturns ==
  /\ at = "blocked"
  /\ \/ Ready # NoFds /\ fds' = 1
     \/ /\ Ready = NoFds
        /\ has_fences \/ (soonest_scheduled /\ due \cap delayed_tasks_ # {})
        /\ fds' = 0
  /\ sets' = Ready
  /\ at' = "process" /\ todo' = selectables_
  /\ UNCHANGED <<selectables_, sock, life, closing, net, tasking, fences,
                 running_, files, soonest_scheduled, has_fences, control>>

\* The second pass, one entry: SignalingBase::Process empties the pipe. A closed
\* pipe is a connection to erase; otherwise the heir's Process goes on.
Drained(e) ==
  IF e \in sets.pipes /\ pipe[e] = "signalled" THEN [pipe EXCEPT ![e] = "quiet"]
  ELSE pipe

ProcessEntry ==
  /\ at = "process" /\ todo # <<>>
  /\ LET e == Head(todo) IN
       IF pipe[e] = "closed"
         THEN /\ selectables_' = Without(e)
              /\ todo' = Tail(todo)
              /\ UNCHANGED <<at, pipe>>
         ELSE /\ at' = IF e = Signaller THEN "swap" ELSE "body"
              /\ pipe' = Drained(e)
              /\ UNCHANGED <<selectables_, todo>>
  /\ UNCHANGED <<socket_, is_shutdown_, write_buffer_, close_after_flush_, life,
                 closing, net, tasking, fences, running_, sets, files,
                 soonest_scheduled, has_fences, fds, control>>

\* TaskConnection::Process: the queue and the timers that have passed.
Orders(S) ==
  {q \in UNION {[1..n -> S] : n \in 0..Cardinality(S)} :
     S = Members(q) /\ \A i, j \in DOMAIN q : i # j => q[i] # q[j]}

SwapTasks ==
  /\ at = "swap"
  /\ \E expired \in Orders(due \cap delayed_tasks_) :
       tasks_to_run' = task_queue_ \o expired
  /\ task_queue_' = <<>>
  /\ delayed_tasks_' = delayed_tasks_ \ due
  /\ at' = "tasks"
  /\ UNCHANGED <<selectables_, sock, life, closing, net, due, ran, fences,
                 running_, todo, sets, files, soonest_scheduled, has_fences, fds,
                 control>>

RunTask ==
  /\ at = "tasks" /\ tasks_to_run # <<>>
  /\ LET task == Head(tasks_to_run) IN
       /\ ran' = ran \cup ({task} \cap Task)
       /\ running_' = (running_ /\ task # "stop")
  /\ tasks_to_run' = Tail(tasks_to_run)
  /\ UNCHANGED <<selectables_, sock, life, closing, net, task_queue_,
                 delayed_tasks_, due, fences, loop, control>>

TasksDone ==
  /\ at = "tasks" /\ tasks_to_run = <<>>
  /\ at' = "process" /\ todo' = Tail(todo)
  /\ UNCHANGED <<selectables_, sock, life, closing, net, tasking, fences,
                 running_, sets, files, soonest_scheduled, has_fences, fds,
                 control>>

\* Close called by the select thread, which holds socket_lock_.
CloseInside(c) ==
  /\ pipe' = [pipe EXCEPT ![c] = "closed"]
  /\ is_shutdown_' = [is_shutdown_ EXCEPT ![c] = TRUE]
  /\ socket_' = [socket_ EXCEPT ![c] = 0]

\* Process of a connection, under socket_lock_, up to the read. The write takes
\* some of the buffer, or fails and closes.
ProcessBody ==
  /\ at = "body"
  /\ LET c == Head(todo)
         gone == socket_[c] = 0
         excepted == hangup[c] /\ socket_[c] \in sets.read
         writable == c \in Stream /\ socket_[c] \in sets.write
     IN \/ /\ gone
           /\ selectables_' = IF is_shutdown_[c] THEN Without(c) ELSE selectables_
           /\ at' = "process" /\ todo' = Tail(todo)
           /\ UNCHANGED sock
        \/ /\ ~gone /\ excepted
           /\ CloseInside(c)
           /\ selectables_' = Without(c)
           /\ at' = "process" /\ todo' = Tail(todo)
           /\ UNCHANGED <<write_buffer_, close_after_flush_>>
        \/ /\ ~gone /\ writable /\ hangup[c]
           /\ CloseInside(c)
           /\ at' = "read"
           /\ UNCHANGED <<selectables_, todo, write_buffer_, close_after_flush_>>
        \/ /\ ~gone /\ writable
           /\ \E left \in 0..write_buffer_[c] :
                /\ write_buffer_[c] > 0 => left < write_buffer_[c]
                /\ write_buffer_' = [write_buffer_ EXCEPT ![c] = left]
                /\ IF close_after_flush_[c] /\ left = 0
                     THEN /\ CloseInside(c)
                          /\ close_after_flush_' = [close_after_flush_ EXCEPT ![c] = FALSE]
                          /\ selectables_' = Without(c)
                          /\ at' = "process" /\ todo' = Tail(todo)
                     ELSE /\ at' = "read"
                          /\ UNCHANGED <<socket_, pipe, is_shutdown_, todo,
                                         close_after_flush_, selectables_>>
        \/ /\ ~gone /\ ~writable
           /\ at' = "read"
           /\ UNCHANGED <<selectables_, todo, sock>>
  /\ UNCHANGED <<life, closing, net, tasking, fences, running_, sets, files,
                 soonest_scheduled, has_fences, fds, control>>

\* A seeded fault: no FD_ISSET.
ReadableAlways(c) == socket_[c] # 0

\* FD_ISSET(socket_, &read_fds): the number, whoever select saw under it.
Readable(c) == socket_[c] # 0 /\ socket_[c] \in sets.read

Proceed == at' = "process" /\ todo' = Tail(todo)

NothingToRead ==
  /\ at = "read" /\ ~Readable(Head(todo))
  /\ Proceed
  /\ UNCHANGED <<selectables_, sock, life, closing, net, tasking, fences,
                 running_, sets, files, soonest_scheduled, has_fences, fds,
                 control>>

\* recv and accept block while nothing has come.
DoReceive ==
  /\ at \in {"read", "recv"}
  /\ LET c == Head(todo) IN
       /\ c \in Stream /\ (at = "read" => Readable(c))
       /\ \/ /\ consumed[c] < received[c]
             /\ consumed' = [consumed EXCEPT ![c] = @ + 1]
             /\ Proceed
             /\ UNCHANGED <<socket_, pipe, is_shutdown_>>
          \/ /\ consumed[c] = received[c] /\ hangup[c]
             /\ CloseInside(c)
             /\ Proceed
             /\ UNCHANGED consumed
          \/ /\ at = "read" /\ consumed[c] = received[c] /\ ~hangup[c]
             /\ at' = "recv"
             /\ UNCHANGED <<socket_, pipe, is_shutdown_, consumed, todo>>
  /\ UNCHANGED <<selectables_, write_buffer_, close_after_flush_, life, closing,
                 received, hangup, tasking, fences, running_, sets, files,
                 soonest_scheduled, has_fences, fds, control>>

\* TCPServer::Process accepts a client: refused and closed at once, or given to a
\* new connection, which its owner adds to the list.
Accept ==
  /\ at \in {"read", "recv"}
  /\ LET c == Head(todo) IN
       /\ c \in Server /\ (at = "read" => Readable(c))
       /\ \/ /\ consumed[c] < received[c]
             /\ consumed' = [consumed EXCEPT ![c] = @ + 1]
             /\ Proceed
             /\ \/ UNCHANGED <<socket_, life>>
                \/ \E s \in Stream \cap session.conns :
                     /\ life[s] = "new"
                     /\ Opens(s)
                     /\ life' = [life EXCEPT ![s] = "accepted"]
          \/ /\ at = "read" /\ consumed[c] = received[c]
             /\ at' = "recv"
             /\ UNCHANGED <<socket_, life, consumed, todo>>
  /\ UNCHANGED <<selectables_, pipe, is_shutdown_, write_buffer_,
                 close_after_flush_, closing, received, hangup, tasking, fences,
                 running_, sets, files, soonest_scheduled, has_fences, fds,
                 control>>

\* A seeded fault: fences are fulfilled after every select.
EndOfPassAlways ==
  /\ at = "process" /\ todo = <<>>
  /\ pending_fences_' = IF has_fences THEN {} ELSE pending_fences_
  /\ at' = IF running_ THEN "pass" ELSE "done"
  /\ todo' = IF running_ THEN selectables_ ELSE <<>>
  /\ sets' = NoFds /\ files' = {} /\ soonest_scheduled' = FALSE
  /\ has_fences' = FALSE /\ fds' = 0
  /\ UNCHANGED <<selectables_, sock, life, closing, net, tasking, wait, owed,
                 running_, control>>

\* The end of the loop body: an empty select fulfils every pending fence.
EndOfPass ==
  /\ at = "process" /\ todo = <<>>
  /\ pending_fences_' = IF has_fences /\ fds = 0 THEN {} ELSE pending_fences_
  /\ at' = IF running_ THEN "pass" ELSE "done"
  /\ todo' = IF running_ THEN selectables_ ELSE <<>>
  /\ sets' = NoFds /\ files' = {} /\ soonest_scheduled' = FALSE
  /\ has_fences' = FALSE /\ fds' = 0
  /\ UNCHANGED <<selectables_, sock, life, closing, net, tasking, wait, owed,
                 running_, control>>

ThreadMain ==
  \/ SelectEntry \/ ReadFences \/ CallSelect \/ SelectReturns
  \/ ProcessEntry \/ SwapTasks \/ RunTask \/ TasksDone
  \/ ProcessBody \/ NothingToRead \/ DoReceive \/ Accept \/ EndOfPass

Others ==
  \/ \E c \in Conn : \/ AddConnection(c) \/ AddConnectionPosts(c)
                     \/ Connect(c) \/ Connected(c) \/ Listen(c) \/ Send(c)
                     \/ Close(c) \/ CloseSocket(c) \/ FlushAndClose(c)
                     \/ Arrive(c) \/ HangUp(c)
  \/ \E k \in Task : Post(k) \/ PostDelayed(k) \/ Expire(k)
  \/ \E w \in Waiter : \/ AwaitQuiescence(w) \/ AwaitQuiescenceSignals(w)
                       \/ AwaitQuiescenceReturns(w)
  \/ Stop

Next == ThreadMain \/ Others

Spec == Init /\ [][Next]_vars

\* The thread runs, calls that have begun end, and time passes. Nothing makes a
\* caller call, a peer write or a peer close.
Underway ==
  \/ \E c \in Conn : AddConnectionPosts(c) \/ Connected(c) \/ CloseSocket(c)
  \/ \E k \in Task : Expire(k)
  \/ \E w \in Waiter : AwaitQuiescenceSignals(w) \/ AwaitQuiescenceReturns(w)

Fairness == WF_vars(ThreadMain) /\ WF_vars(Underway)

FairSpec == Spec /\ Fairness

-----------------------------------------------------------------------------
(* Properties.                                                             *)

\* AwaitQuiescence: "Blocks the calling thread until the SelectThread has
\* processed all currently pending events". When a fence is fulfilled, every task
\* that was queued and every chunk that had arrived when the caller pushed the
\* fence has been processed, unless the connection was closed.
FenceIsQuiescent ==
  \A w \in Waiter :
    wait[w] # "none" /\ w \notin pending_fences_ =>
      /\ owed[w].tasks \subseteq ran
      /\ \A c \in Conn : \/ consumed[c] >= owed[w].chunks[c]
                         \/ is_shutdown_[c]

\* SelectableBase::Process "processes pending data as indicated in the given
\* fd_sets". The sets hold numbers, so the thread does block in recv or accept when
\* a number changes hands between select and Process; it blocks for no other
\* reason: the socket that select found under the number is another connection's,
\* which was closed since.
BlocksOnlyOnReused ==
  at = "recv" =>
    \E d \in Conn \ {Head(todo)} :
      /\ <<socket_[Head(todo)], d>> \in files
      /\ is_shutdown_[d] /\ socket_[d] = 0

\* No wake-up is lost, however work races the pass over the entries and the
\* select: a posted task runs; what Send has buffered goes out, also when the
\* thread was in select without the socket in its write set; what reaches the
\* socket of a connection the thread has been told of is read, also when it
\* arrived before the connection was added. Not if the thread was stopped or the
\* connection is closed.
WorkIsServed ==
  LET over == stopping \/ at = "recv" IN
  /\ \A k \in Task : k \notin Unposted ~> (k \in ran \/ over)
  /\ \A c \in Stream :
       /\ (Served(c) /\ write_buffer_[c] > 0)
            ~> (write_buffer_[c] = 0 \/ is_shutdown_[c] \/ over)
       /\ (Served(c) /\ consumed[c] < received[c])
            ~> (consumed[c] = received[c] \/ is_shutdown_[c] \/ over)

\* AwaitQuiescence returns, unless the thread was stopped or data to send keeps
\* the select busy for ever.
FencesReturn ==
  \A w \in Waiter :
    wait[w] # "none" ~> \/ wait[w] = "returned" \/ stopping \/ at = "recv"
                        \/ \E c \in Stream : write_buffer_[c] > 0

\* A connection that is closed leaves selectables_ (and with it the last
\* reference the select thread holds), unless the thread was stopped or another
\* open connection may have been given its descriptor, on which select then waits.
ClosedAreErased ==
  \A c \in Conn :
    is_shutdown_[c] ~> (\/ stopping \/ at = "recv"
                        \/ \E other \in Conn \ {c} : socket_[other] # 0
                        \/ c \notin Members(selectables_))
=============================================================================
