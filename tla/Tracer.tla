------------------------------- MODULE Tracer -------------------------------
(***************************************************************************)
(* NTRCTracer::Tracer and FrameCapture on top of the loader: the shell's   *)
(* thread installs the tracer, asks it for frames and waits for flags that *)
(* the notification executor sets. The tracer on the target is external,   *)
(* modelled from the requests and notifications the program exchanges with *)
(* it: it works on one request at a time while the title runs, writes      *)
(* packets to two ring buffers and says so, and may run into a fatal       *)
(* state.                                                                  *)
(***************************************************************************)
EXTENDS Loader

CONSTANT
  Extra  \* for each stream of a frame, the units of data after each packet's header

Streams == {"pgraph", "aux"}

ASSUME TracerAssumption == Extra \in [Streams -> Seq(0..1)]

VARIABLES
  tracer,                      \* whether Tracer::singleton_ exists
  notification_handler_id_,    \* whether it is not 0
  handler, constructor,        \* what is registered with the context and the parser
  request_processed_, request_failed_,
  data_available_,             \* the streams with pgraph_, aux_data_available_ set
  in_progress_frame_,          \* for each stream, its trace buffer and the packets logged
  shutting,                    \* how far OnShutdown is
  ntrc,                        \* the tracer on the target
  \* history, read by properties only: the request that request_processed_ was set
  \* for; the answer to an earlier request ended a wait of this command; something made
  \* the frame incomplete; the tracer notified while the target had no channel; Install
  \* looked at what is registered before an earlier shutdown had been dealt with
  processed_for, late, disturbed, unheard, overlapped

registered == <<notification_handler_id_, handler, constructor, shutting>>
flags == <<request_processed_, request_failed_, data_available_, processed_for, late>>
loader == <<xbox, outside, loaderState, call, loaderHistory>>
trouble == <<disturbed, unheard, overlapped>>
tracing == <<tracer, registered, flags, in_progress_frame_, ntrc, trouble>>
vars == <<loader, notes, tracing>>

-----------------------------------------------------------------------------
(* Data. A unit is part of a packet of a frame; two make a header.         *)

Header == 2
Packet(f, s, p) == [k \in 1..(Header + Extra[s][p]) |-> <<f, p, k>>]
Frame(f, s) == [p \in DOMAIN Extra[s] |-> Packet(f, s, p)]

NoFrame == [s \in Streams |-> [buffer |-> <<>>, packets |-> <<>>]]

\* The tracer works on request number serial: what it is, the packets it still has to
\* write and the frame they are of.
Off == [state |-> "off", request |-> "none", serial |-> 0, frame |-> 0,
        left |-> [s \in Streams |-> 0], ring |-> [s \in Streams |-> <<>>]]

Init ==
  /\ LoaderInit
  /\ tracer = FALSE
  /\ notification_handler_id_ = FALSE /\ handler = FALSE /\ constructor = FALSE /\ shutting = 0
  /\ request_processed_ = FALSE /\ request_failed_ = FALSE /\ data_available_ = {} /\ processed_for = 0 /\ late = FALSE
  /\ in_progress_frame_ = NoFrame
  /\ ntrc = Off
  /\ disturbed = FALSE /\ unheard = FALSE /\ overlapped = FALSE

-----------------------------------------------------------------------------
(* The shell's commands as lists of steps.                                 *)

Attach == <<Command("attach", 0)>>
Initialize == <<Do("initialize"), Do("dedicate")>>
Detach == <<Command("detach", 0)>>

\* A seeded fault: the flag is reset after the request is sent.
BreakOnFrameStartResetsLate ==
  <<Do("instance"), Command("wait_stable_pb", 0), Do("reset"), Do("continue"), Do("await"),
    Do("reset"), Command("discard_until_flip", 0), Do("await")>>

BreakOnFrameStart ==
  <<Do("instance"), Do("reset"), Command("wait_stable_pb", 0), Do("continue"), Do("await"),
    Do("reset"), Command("discard_until_flip", 0), Do("await")>>

Drain(s) == Step("drain", [stream |-> s, fetched |-> FALSE], "ignored")
Take(s) == Step("take", s, "ignored")
Fetch(s) == Step("fetch", [stream |-> s, fetched |-> FALSE], "ignored")

TraceFrame(nodiscard) ==
  <<Do("setup"), Command("trace_frame", nodiscard), Do("poll"), Drain("pgraph"), Drain("aux"), Do("close")>>

TraceFrames(frames, nodiscard) == <<Do("instance")>> \o FlattenSeq([i \in 1..frames |-> TraceFrame(nodiscard)])

TracerCommandTraceFrames(frames, nodiscard) ==
  (IF nodiscard THEN <<>> ELSE BreakOnFrameStart) \o TraceFrames(frames, nodiscard)

ShellCommand(c) ==
  CASE c = "$init" -> Initialize \o <<Do("options")>> \o Attach
    [] c = "$detach" -> Detach
    [] c = "$stepflip" -> BreakOnFrameStart
    [] c = "$trace" -> TracerCommandTraceFrames(1, FALSE)
    [] c = "$trace frames 2" -> TracerCommandTraceFrames(2, FALSE)
    [] c = "$trace nodiscard" -> TracerCommandTraceFrames(1, TRUE)
    [] OTHER -> LoaderCommand(c)

Enter ==
  /\ todo = <<>> /\ input # <<>>
  /\ input' = Tail(input)
  /\ todo' = Append(ShellCommand(Head(input)), End("command"))
  /\ found' = xbox.execution
  /\ late' = FALSE
  /\ UNCHANGED <<xbox, session, failures, loaderState, ok, unwritten, unresumed, midway, tracer, registered,
                 request_processed_, request_failed_, data_available_, processed_for, in_progress_frame_,
                 notes, ntrc, trouble>>

-----------------------------------------------------------------------------
(* The tracer on the target.                                               *)

\* Notifications reach the program over the channel the debugger asked for, and are
\* parsed when they do: one nobody registered a constructor for is dropped.
Notify(new) ==
  /\ notes' = IF xbox.channel /\ constructor THEN notes \o new ELSE notes
  /\ unheard' = (unheard \/ ~xbox.channel)
Note(what) == [what |-> what, serial |-> ntrc.serial]

\* Whether it takes a command, and what that makes of it.
NtrcAccepts(op) ==
  /\ xbox.tracer
  /\ op \notin {"attach", "dedicate"} => ntrc.state \notin {"off", "fatal"}
  /\ op \notin {"attach", "dedicate", "detach"} => ntrc.request = "none"

Asked(op) == [ntrc EXCEPT !.request = op, !.serial = @ + 1]
NtrcEffect(op, x) ==
  CASE op = "attach" -> [ntrc EXCEPT !.state = IF @ = "off" THEN "idle" ELSE @]
    [] op = "detach" -> [Off EXCEPT !.serial = ntrc.serial, !.frame = ntrc.frame]
    [] op \in {"wait_stable_pb", "discard_until_flip"} -> Asked(op)
    [] op = "trace_frame" /\ ~x /\ ntrc.state # "new frame" -> [ntrc EXCEPT !.state = "fatal"]
    [] op = "trace_frame" -> [Asked(op) EXCEPT !.frame = @ + 1, !.left = [s \in Streams |-> Len(Extra[s])]]
    [] OTHER -> ntrc

NtrcNotes(op) ==
  IF op = "detach" THEN <<Note("shutdown")>>
  ELSE IF NtrcEffect(op, This.x).state = "fatal" THEN <<Note("fatal")>> ELSE <<>>

\* The tracer does a command it was given, or the answer.
NtrcDone ==
  /\ NtrcAccepts(This.op)
  /\ ntrc' = NtrcEffect(This.op, This.x)
  /\ IF NtrcNotes(This.op) = <<>> THEN UNCHANGED <<notes, unheard>> ELSE Notify(NtrcNotes(This.op))
NtrcFailed ==
  \/ ~NtrcAccepts(This.op) /\ UNCHANGED <<ntrc, notes, unheard, failures>>
  \/ Failing /\ UNCHANGED <<ntrc, notes, unheard>>
  \/ Failing /\ NtrcDone

\* It works on the request: a packet, or the end of it.
Write(s) ==
  /\ Runs /\ ntrc.left[s] > 0 /\ ntrc.request = "trace_frame"
  /\ LET p == Len(Extra[s]) - ntrc.left[s] + 1 IN
     ntrc' = [ntrc EXCEPT !.left[s] = @ - 1, !.ring[s] = @ \o Packet(ntrc.frame, s, p)]
  /\ Notify(<<Note(s)>>)
  /\ UNCHANGED <<loader, tracer, registered, flags, in_progress_frame_, disturbed, overlapped>>

Processed ==
  /\ Runs /\ ntrc.request # "none" /\ \A s \in Streams : ntrc.left[s] = 0
  /\ ntrc' = [ntrc EXCEPT !.request = "none",
                          !.state = IF ntrc.request = "wait_stable_pb" THEN "stable" ELSE "new frame"]
  /\ Notify(<<Note("req_processed")>>)
  /\ UNCHANGED <<loader, tracer, registered, flags, in_progress_frame_, disturbed, overlapped>>

Fatal ==
  /\ ntrc.request # "none" /\ ntrc.serial <= session.fatal
  /\ ntrc' = [ntrc EXCEPT !.request = "none", !.state = "fatal"]
  /\ Notify(<<Note("fatal")>>)
  /\ UNCHANGED <<loader, tracer, registered, flags, in_progress_frame_, disturbed, overlapped>>

-----------------------------------------------------------------------------
(* The notification executor.                                              *)

TracerNotes == Streams \cup {"req_processed", "fatal", "shutdown"}
Handling(what) == shutting = 0 /\ notes # <<>> /\ handler /\ Head(notes).what = what
Handled == notes' = Tail(notes) /\ UNCHANGED <<loader, tracer, in_progress_frame_, ntrc, trouble>>

\* OnNotification and OnNewState.
OnProcessed ==
  /\ Handling("req_processed")
  /\ request_processed_' = TRUE /\ processed_for' = Head(notes).serial
  /\ Handled /\ UNCHANGED <<registered, request_failed_, data_available_, late>>

OnData ==
  /\ \E s \in Streams : Handling(s)
  /\ data_available_' = data_available_ \cup {Head(notes).what}
  /\ Handled /\ UNCHANGED <<registered, request_processed_, request_failed_, processed_for, late>>

OnNewState ==
  /\ \/ Handling("fatal") /\ request_failed_' = TRUE /\ UNCHANGED shutting
     \/ Handling("shutdown") /\ shutting' = 1 /\ UNCHANGED request_failed_
  /\ Handled
  /\ UNCHANGED <<notification_handler_id_, handler, constructor, request_processed_, data_available_,
                 processed_for, late>>

\* A notification that was parsed before its handler was unregistered.
Unhandled ==
  /\ shutting = 0 /\ notes # <<>> /\ ~handler /\ Head(notes).what \in TracerNotes
  /\ notes' = Tail(notes)
  /\ UNCHANGED <<loader, tracing>>

\* OnShutdown takes back what Install registered, one thing after the other, while
\* the shell's thread may be in Install.
OnShutdown ==
  /\ shutting > 0
  /\ shutting' = IF shutting = 3 THEN 0 ELSE shutting + 1
  /\ handler' = (handler /\ shutting # 1)
  /\ notification_handler_id_' = (notification_handler_id_ /\ shutting # 2)
  /\ constructor' = (constructor /\ shutting # 3)
  /\ UNCHANGED <<loader, tracer, flags, in_progress_frame_, notes, ntrc, trouble>>

-----------------------------------------------------------------------------
(* The shell's thread.                                                     *)

TracerStep == UNCHANGED <<session, input, loaderState, loaderHistory, overlapped>>
Quiet == UNCHANGED <<xbox, failures, registered, notes, ntrc, unheard>>

\* Initialize and Install, first part.
Register ==
  /\ Doing("initialize")
  /\ tracer' = TRUE
  /\ IF notification_handler_id_ THEN GoOn /\ UNCHANGED <<notification_handler_id_, handler>>
     ELSE /\ notification_handler_id_' = TRUE /\ handler' = TRUE
          /\ Call(<<Do("constructor")>>)
  /\ overlapped' = (overlapped \/ shutting # 0 \/ \E i \in DOMAIN notes : notes[i].what = "shutdown")
  /\ UNCHANGED <<xbox, outside, loaderState, loaderHistory, constructor, shutting, flags, in_progress_frame_, notes,
                 ntrc, disturbed, unheard>>

RegisterXBDMNotificationConstructor ==
  /\ Doing("constructor")
  /\ constructor' = TRUE
  /\ GoOn
  /\ TracerStep
  /\ UNCHANGED <<xbox, failures, tracer, notification_handler_id_, handler, shutting, flags, in_progress_frame_,
                 notes, ntrc, disturbed, unheard>>

\* The dedicated connection; what has no handler yet gets one, once.
Dedicate ==
  /\ Doing("dedicate")
  /\ \/ NtrcDone /\ UNCHANGED failures /\ GoOn
     \/ NtrcFailed /\ IF This.failed = "return" THEN Fail
                      ELSE Call(Append(Install, Command("dedicate", 0)))
  /\ TracerStep /\ UNCHANGED <<xbox, tracer, registered, flags, in_progress_frame_, disturbed>>

\* TracerCommandInit reads its options after Initialize and stops at a bad one.
Options ==
  /\ Doing("options")
  /\ GoOn \/ Fail
  /\ TracerStep /\ Quiet /\ UNCHANGED <<tracer, flags, in_progress_frame_, disturbed>>

Instance ==
  /\ Doing("instance")
  /\ IF tracer THEN GoOn ELSE Fail
  /\ TracerStep /\ Quiet /\ UNCHANGED <<tracer, flags, in_progress_frame_, disturbed>>

TracerOrder ==
  /\ \E op \in {"attach", "detach", "wait_stable_pb", "discard_until_flip", "trace_frame"} : Doing(op)
  /\ \/ NtrcDone /\ UNCHANGED failures /\ GoOn
     \/ NtrcFailed /\ Fail
  /\ disturbed' = (disturbed \/ \E s \in Streams : ntrc.ring[s] # <<>>)
  /\ TracerStep /\ UNCHANGED <<xbox, tracer, registered, flags, in_progress_frame_>>

ResetProcessed ==
  /\ Doing("reset")
  /\ request_processed_' = FALSE
  /\ GoOn
  /\ TracerStep /\ Quiet
  /\ UNCHANGED <<tracer, request_failed_, data_available_, processed_for, late, in_progress_frame_, disturbed>>

\* Go and ContinueAll, if there is a debugger; failures are logged.
Continue ==
  /\ Doing("continue")
  /\ IF xbdm_debugger_.exists THEN Call(<<Step("go", "user", "ignored"), Do("continue all")>>) ELSE GoOn
  /\ TracerStep /\ Quiet /\ UNCHANGED <<tracer, flags, in_progress_frame_, disturbed>>

\* while (!request_processed_.exchange(false))
Await ==
  /\ Doing("await") /\ request_processed_
  /\ request_processed_' = FALSE
  /\ late' = (late \/ processed_for # ntrc.serial)
  /\ GoOn
  /\ TracerStep /\ Quiet
  /\ UNCHANGED <<tracer, request_failed_, data_available_, processed_for, in_progress_frame_, disturbed>>

\* FrameCapture::Setup keeps the trace buffers; TraceFrame resets its flags.
Setup ==
  /\ Doing("setup")
  /\ in_progress_frame_' = [s \in Streams |-> [in_progress_frame_[s] EXCEPT !.packets = <<>>]]
  /\ request_processed_' = FALSE /\ request_failed_' = FALSE /\ data_available_' = {}
  /\ disturbed' = \E s \in Streams : in_progress_frame_[s].buffer # <<>>
  /\ GoOn
  /\ TracerStep /\ Quiet /\ UNCHANGED <<tracer, processed_for, late>>

\* The loop of TraceFrame: until the request is processed, or failed, fetch what is
\* said to be there.
Poll ==
  /\ Doing("poll")
  /\ IF request_processed_ THEN GoOn
     ELSE IF request_failed_ THEN Fail
     ELSE data_available_ # {} /\ todo' = <<Take("pgraph"), Take("aux")>> \o todo /\ UNCHANGED ok
  /\ late' = (late \/ (request_processed_ /\ processed_for # ntrc.serial))
  /\ TracerStep /\ Quiet
  /\ UNCHANGED <<tracer, request_processed_, request_failed_, data_available_, processed_for, in_progress_frame_,
                 disturbed>>

TakeData ==
  /\ Doing("take")
  /\ data_available_' = data_available_ \ {This.x}
  /\ IF This.x \in data_available_ THEN Call(<<Fetch(This.x)>>) ELSE GoOn
  /\ TracerStep /\ Quiet
  /\ UNCHANGED <<tracer, request_processed_, request_failed_, processed_for, late, in_progress_frame_, disturbed>>

\* ProcessPGRAPHBuffer and ProcessAuxBuffer: whole packets leave the buffer, what is
\* left waits for more. A header that is no packet's may ask for any length.
RECURSIVE ProcessBuffer(_, _)
ProcessBuffer(s, b) ==
  LET lengths ==
        IF Len(b.buffer) < Header THEN {}
        ELSE IF Tail(b.buffer[1]) = <<b.buffer[2][2], 1>> THEN {Header + Extra[s][b.buffer[1][2]]}
        ELSE {Header, Header + 1}
      Taken(n) == [buffer |-> SubSeq(b.buffer, n + 1, Len(b.buffer)),
                   packets |-> Append(b.packets, SubSeq(b.buffer, 1, n))]
  IN  IF lengths = {} THEN {b}
      ELSE UNION {IF Len(b.buffer) < n THEN {b} ELSE ProcessBuffer(s, Taken(n)) : n \in lengths}

\* A seeded fault: the data of a packet is taken before all of it is there.
ProcessPGRAPHBufferEarly(b) ==
  IF Len(b.buffer) < Header THEN {b}
  ELSE {[buffer |-> <<>>, packets |-> Append(b.packets, b.buffer)]}

ProcessPGRAPHBuffer(b) == ProcessBuffer("pgraph", b)
ProcessAuxBuffer(b) == ProcessBuffer("aux", b)
Process(s, b) == IF s = "pgraph" THEN ProcessPGRAPHBuffer(b) ELSE ProcessAuxBuffer(b)

\* One read of a ring: what it returns, with what is made of it.
Received(s, n) ==
  /\ ntrc' = [ntrc EXCEPT !.ring[s] = SubSeq(@, n + 1, Len(@))]
  /\ \E b \in Process(s, [in_progress_frame_[s] EXCEPT !.buffer = @ \o SubSeq(ntrc.ring[s], 1, n)]) :
       in_progress_frame_' = [in_progress_frame_ EXCEPT ![s] = b]

\* Its answer is lost, or the tracer is not there.
ReadFails(s) ==
  /\ \/ ~xbox.tracer /\ UNCHANGED <<ntrc, failures>>
     \/ Failing /\ \E n \in 0..Len(ntrc.ring[s]) : ntrc' = [ntrc EXCEPT !.ring[s] = SubSeq(@, n + 1, Len(@))]
  /\ disturbed' = TRUE
  /\ UNCHANGED in_progress_frame_

\* FetchPGRAPHTraceData reads once, FetchAuxTraceData until there is nothing more.
\* What TraceFrame fetches while it polls may fail; at the end it fetches until there
\* is nothing, again and again if that fails.
Draining == Doing("drain") /\ (This.x.fetched \/ ~request_failed_)
FetchTraceData ==
  /\ Doing("fetch") \/ Draining
  /\ LET s == This.x.stream
         again == <<[This EXCEPT !.x.fetched = TRUE]>> \o Tail(todo)
         over == IF Doing("drain") THEN <<Drain(s)>> \o Tail(todo) ELSE Tail(todo)
     IN  \/ /\ xbox.tracer /\ \E n \in 1..Len(ntrc.ring[s]) : Received(s, n)
            /\ todo' = IF s = "aux" THEN again ELSE over
            /\ UNCHANGED <<failures, disturbed>>
         \/ /\ xbox.tracer /\ ntrc.ring[s] = <<>>
            /\ todo' = IF This.x.fetched THEN over ELSE Tail(todo)
            /\ UNCHANGED <<ntrc, failures, disturbed, in_progress_frame_>>
         \/ ReadFails(s) /\ todo' = over
  /\ UNCHANGED ok
  /\ TracerStep /\ UNCHANGED <<xbox, tracer, registered, flags, notes, unheard>>

DrainStops ==
  /\ Doing("drain") /\ ~This.x.fetched /\ request_failed_
  /\ disturbed' = TRUE
  /\ GoOn
  /\ TracerStep /\ Quiet /\ UNCHANGED <<tracer, flags, in_progress_frame_>>

Close ==
  /\ Doing("close")
  /\ GoOn
  /\ TracerStep /\ Quiet /\ UNCHANGED <<tracer, flags, in_progress_frame_, disturbed>>

-----------------------------------------------------------------------------

\* The target, with the tracer, reboots.
Restart ==
  /\ Reboot
  /\ ntrc' = [Off EXCEPT !.serial = ntrc.serial, !.frame = ntrc.frame]
  /\ UNCHANGED <<tracer, registered, flags, in_progress_frame_, trouble>>

Shell ==
  \/ Enter \/ (LoaderNext /\ UNCHANGED tracing)
  \/ Register \/ RegisterXBDMNotificationConstructor \/ Dedicate \/ Options \/ Instance \/ TracerOrder
  \/ ResetProcessed \/ Continue \/ Await \/ Setup \/ Poll \/ TakeData \/ FetchTraceData \/ DrainStops \/ Close
NotificationExecutor ==
  \/ (DebuggerNotification /\ shutting = 0 /\ UNCHANGED tracing)
  \/ OnProcessed \/ OnData \/ OnNewState \/ Unhandled \/ OnShutdown
Working == (\E s \in Streams : Write(s)) \/ Processed

Next == Shell \/ NotificationExecutor \/ Working \/ Fatal \/ Restart

\* The threads go on, and the tracer works while the title runs.
Fairness == WF_vars(Shell \/ NotificationExecutor \/ Working)

Spec == Init /\ [][Next]_vars /\ Fairness

-----------------------------------------------------------------------------
(* Properties.                                                             *)

\* TraceFrame returns with the whole frame, however the reads cut the streams and
\* whenever the notifications come: each packet once, in order, with its data; and
\* "$trace", which has the tracer break on the start of a frame first, asks for a
\* frame from its start. Not so if bytes of an earlier frame were left, a read failed,
\* the tracer did, or a wait was ended by the late answer to an earlier request.
FrameIsWhole ==
  ~late =>
    /\ (Doing("close") /\ ~disturbed)
         => \A s \in Streams : in_progress_frame_[s].packets = Frame(ntrc.frame, s)
    /\ (Doing("trace_frame") /\ ~This.x) => ntrc.state = "new frame"

\* Every command ends, though BreakOnFrameStart waits without a limit. Not so if the
\* tracer ran into a fatal state, which only TraceFrame looks for; while the title is
\* stopped or its threads are held; if the tracer notified while the target had no
\* notification channel, because attaching the debugger failed, which is not tried
\* again, or was not needed; if Install found what an earlier tracer had registered
\* before the shutdown of that tracer was dealt with, which then takes it back; or if
\* the target rebooted, in which case TraceFrame fetches for ever.
CommandsEnd ==
  (todo # <<>>) ~>
    (todo = <<>> \/ ntrc.state = "fatal" \/ ~Runs \/ unheard \/ overlapped \/ xbox.boot > 0)
=============================================================================
