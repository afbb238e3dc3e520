----------------------------- MODULE StopReply -----------------------------
(***************************************************************************)
(* How GDB learns that the target stopped. GDB resumes the target with     *)
(* vCont and waits for one stop reply. GDBBridge sends it from either of   *)
(* two threads: the GDB executor, when it finds a stopped thread while it  *)
(* handles a packet, or the notification executor, when XBDM reports a stop *)
(* and waiting_on_stop_packet_ is set. Both read what XBDMDebugger knows of *)
(* the threads, which both also update.                                    *)
(*                                                                         *)
(* An RDCP command takes effect at the target in one step; its answer is   *)
(* stored by the caller in another, for the other executor, and the title, *)
(* may act in between. The target is external: it is modelled after the    *)
(* commands the source sends and the simulated target of the tests.        *)
(***************************************************************************)
EXTENDS Integers, Sequences

CONSTANTS
  Thread,       \* threads of the title
  Session,      \* what may happen; one is chosen
  None

Executor == {"gdb", "notification"}
Command == [code : {"c", "s"}, thread : Thread \cup {None}]
Note == [type : {"started", "stopped"}, thread : {None}]
          \cup [type : {"break", "step", "create", "terminate"}, thread : Thread]
Reply == [type : {"stop"}, thread : Thread]
           \cup [type : {"OK", "error"}, thread : {None}]
Packet == [type : {"vCont", "?", "interrupt", "D"}, commands : Seq(Command)]
Members(s) == {s[i] : i \in DOMAIN s}

\* A list of threads without t, which it has at most once.
Erase(s, t) ==
  IF t \in Members(s)
    THEN LET i == CHOOSE i \in DOMAIN s : s[i] = t IN
           SubSeq(s, 1, i - 1) \o SubSeq(s, i + 1, Len(s))
    ELSE s

\* In a session: the threads alive when GDB connects, in the order XBDM lists them;
\* what GDB may send; whether breakpoints may have a condition that is false; bounds
\* on the stops, starts and ends of the title's threads, and on the packets.
ASSUME StopReplyAssumption ==
  /\ None \notin Thread
  /\ \A s \in Session :
       /\ s.initial \in Seq(Thread) /\ s.initial # <<>>
       /\ \A i, j \in DOMAIN s.initial : s.initial[i] = s.initial[j] => i = j
       /\ s.packet \subseteq Packet /\ s.conditional \in BOOLEAN
       /\ s.events \in Nat /\ s.packets \in Nat

VARIABLES
  \* the target: whether it runs, its threads, those that ended, those XBDM
  \* holds, those with the trap flag, how much has happened, the
  \* notifications not yet handled
  execution, alive, ended, held, trap, events, notes,
  \* XBDMDebugger: stopped and last_stop_reason (whether there is one) are the
  \* fields of the Thread objects
  state_, threads_, active_thread_id_, stopped, last_stop_reason,
  \* GDBBridge: the flag, the packets to handle, the replies GDB has not read
  waiting_on_stop_packet_, inbox, replies,
  \* GDB: what it takes the target to be
  client, interrupted,
  \* the session, and how many packets GDB has sent
  session, packets,
  \* the executors: where each stands and the locals of its calls
  at, poll, thread, commands, processed, todo,
  \* history, read by properties only: an answer was stored when it was no
  \* longer true, or vCont came while the title was running
  raced

target == <<execution, alive, ended, held, trap, events, notes>>
debugger == <<state_, threads_, active_thread_id_, stopped, last_stop_reason>>
bridge == <<waiting_on_stop_packet_, replies>>
gdb == <<client, interrupted, session, packets>>
stepping == <<thread, commands, processed, todo>>
vars == <<target, debugger, bridge, inbox, gdb, at, poll, stepping, raced>>

NoPoll == [queue |-> <<>>, skip |-> None, answer |-> "none", found |-> None]

\* GDBXBOXInterface::OnGDBClientConnected has attached and halted the target:
\* every thread is held and HaltAll has looked at the first.
Init ==
  /\ session \in Session
  /\ execution = "stopped" /\ alive = Members(session.initial)
  /\ ended = {} /\ held = [t \in Thread |-> t \in alive]
  /\ trap = {} /\ events = 0 /\ notes = <<>>
  /\ state_ = "stopped" /\ threads_ = session.initial /\ active_thread_id_ = Head(session.initial)
  /\ stopped = [t \in Thread |-> t = Head(session.initial)]
  /\ last_stop_reason = stopped
  /\ waiting_on_stop_packet_ = FALSE /\ inbox = <<>> /\ replies = <<>>
  /\ client = "stopped" /\ interrupted = FALSE /\ packets = 0
  /\ at = [e \in Executor |-> "idle"]
  /\ poll = [e \in Executor |-> NoPoll]
  /\ thread = None /\ commands = <<>> /\ processed = {} /\ todo = <<>>
  /\ raced = FALSE

-----------------------------------------------------------------------------
(* The target and GDB.                                                     *)

StateNote(s) == [type |-> s, thread |-> None]
ThreadNote(type, t) == [type |-> type, thread |-> t]
Runs(t) == execution = "started" /\ t \in alive /\ ~held[t]

\* A thread ends its step or runs into a breakpoint, and the title stops. The
\* two notifications come in either order.
Hit(t) ==
  /\ Runs(t) /\ events < session.events
  /\ held' = [held EXCEPT ![t] = TRUE]
  /\ trap' = trap \ {t}
  /\ execution' = "stopped"
  /\ events' = events + 1
  /\ LET event == ThreadNote(IF t \in trap THEN "step" ELSE "break", t) IN
       \/ notes' = notes \o <<StateNote("stopped"), event>>
       \/ notes' = notes \o <<event, StateNote("stopped")>>
  /\ UNCHANGED <<alive, ended, debugger, bridge, inbox, gdb, at, poll,
                 stepping, raced>>

\* An id is not used again.
Create(t) ==
  /\ execution = "started" /\ t \notin alive \cup ended /\ events < session.events
  /\ alive' = alive \cup {t}
  /\ events' = events + 1
  /\ notes' = Append(notes, ThreadNote("create", t))
  /\ UNCHANGED <<execution, ended, held, trap, debugger, bridge, inbox, gdb,
                 at, poll, stepping, raced>>

Terminate(t) ==
  /\ Runs(t) /\ events < session.events
  /\ alive' = alive \ {t} /\ ended' = ended \cup {t} /\ trap' = trap \ {t}
  /\ events' = events + 1
  /\ notes' = Append(notes, ThreadNote("terminate", t))
  /\ UNCHANGED <<execution, held, debugger, bridge, inbox, gdb, at, poll,
                 stepping, raced>>

\* What the commands do; each is one round trip.
DoContinue(t) == held' = [held EXCEPT ![t] = FALSE]
DoGo ==
  /\ execution' = "started"
  /\ notes' = IF execution = "started" THEN notes
              ELSE Append(notes, StateNote("started"))
DoStop ==
  /\ execution' = "stopped"
  /\ notes' = IF execution = "stopped" THEN notes
              ELSE Append(notes, StateNote("stopped"))
DoHalt == DoStop /\ held' = [t \in Thread |-> held[t] \/ t \in alive]
IsStopped(t) ==
  IF t \notin alive THEN "gone" ELSE IF held[t] THEN "stopped" ELSE "running"

\* GDB sends a packet: it resumes or asks when it takes the target to be stopped,
\* and interrupts once when it does not.
SendPacket(p) ==
  /\ packets < session.packets
  /\ client = IF p.type = "interrupt" THEN "running" ELSE "stopped"
  /\ p.type = "interrupt" => ~interrupted
  /\ inbox' = Append(inbox, p)
  /\ packets' = packets + 1
  /\ interrupted' = (p.type = "interrupt")
  /\ client' = CASE p.type = "?" -> "asked" [] p.type = "D" -> "detaching" [] OTHER -> "running"
  /\ UNCHANGED <<target, debugger, bridge, session, at, poll, stepping, raced>>

\* Any reply ends what GDB is waiting for; a GDB that detached takes no more
\* interest in the target.
Receive ==
  /\ replies # <<>>
  /\ replies' = Tail(replies)
  /\ client' = IF client = "detaching" THEN "detached" ELSE "stopped"
  /\ UNCHANGED <<target, debugger, waiting_on_stop_packet_, inbox, interrupted,
                 session, packets, at, poll, stepping, raced>>

-----------------------------------------------------------------------------
(* XBDMDebugger, called by either executor.                                *)

Goto(e, label) == at' = [at EXCEPT ![e] = label]

GetThread(t) == IF t \in Members(threads_) THEN t ELSE None
SetActiveThread(t) == active_thread_id_' = GetThread(t)
ActiveThread ==
  IF active_thread_id_ = None THEN None ELSE GetThread(active_thread_id_)

StaleAnswer(t, answer) == raced' = (raced \/ answer # IsStopped(t))

\* Thread::FetchStopReasonSync once the answer is there.
StoreStopReason(t, answer) ==
  /\ stopped' = IF answer = "gone" THEN stopped
                ELSE [stopped EXCEPT ![t] = answer = "stopped"]
  /\ last_stop_reason' = [last_stop_reason EXCEPT ![t] = answer = "stopped"]

\* GetFirstStoppedThread: copy the list and the active thread's id,
CopyThreads(e) ==
  /\ at[e] = "copy"
  /\ poll' = [poll EXCEPT ![e] = [NoPoll EXCEPT !.queue = threads_,
                                                !.skip = active_thread_id_]]
  /\ Goto(e, IF threads_ = <<>> THEN "polled" ELSE "active")
  /\ UNCHANGED <<target, debugger, bridge, inbox, gdb, stepping, raced>>

\* look the active thread up, to be asked first,
PreferActive(e) ==
  /\ at[e] = "active"
  /\ LET others == Erase(poll[e].queue, poll[e].skip) IN
       poll' = [poll EXCEPT ![e].queue =
                  IF ActiveThread = None THEN others
                  ELSE <<ActiveThread>> \o others]
  /\ Goto(e, "ask")
  /\ UNCHANGED <<target, debugger, bridge, inbox, gdb, stepping, raced>>

\* ask the target about one thread after the other,
AskNext(e) ==
  /\ at[e] = "ask"
  /\ IF poll[e].queue = <<>>
       THEN Goto(e, "polled") /\ UNCHANGED poll
       ELSE /\ Goto(e, "store")
            /\ poll' = [poll EXCEPT ![e].answer = IsStopped(Head(poll[e].queue))]
  /\ UNCHANGED <<target, debugger, bridge, inbox, gdb, stepping, raced>>

\* until one is stopped.
StoreNext(e) ==
  /\ at[e] = "store"
  /\ LET t == Head(poll[e].queue) IN
       /\ StoreStopReason(t, poll[e].answer) /\ StaleAnswer(t, poll[e].answer)
       /\ IF poll[e].answer = "stopped"
            THEN /\ poll' = [poll EXCEPT ![e] = [NoPoll EXCEPT !.found = t]]
                 /\ Goto(e, "polled")
            ELSE /\ poll' = [poll EXCEPT ![e].queue = Tail(@),
                                         ![e].answer = "none"]
                 /\ Goto(e, "ask")
  /\ UNCHANGED <<target, state_, threads_, active_thread_id_, bridge, inbox,
                 gdb, stepping>>

-----------------------------------------------------------------------------
(* GDBBridge on the GDB executor. The packet stays in inbox until handled. *)

\* A seeded fault: the packet is sent for any thread.
CanReportAny(t) == t # None

\* SendThreadStopPacket, whose effect is Report if it returns true.
CanReport(t) == t # None /\ stopped[t] /\ last_stop_reason[t]

Report(t) ==
  /\ waiting_on_stop_packet_' = FALSE
  /\ replies' = Append(replies, [type |-> "stop", thread |-> t])
Answers(type) ==
  /\ replies' = Append(replies, [type |-> type, thread |-> None])
  /\ UNCHANGED waiting_on_stop_packet_

Handled == Goto("gdb", "idle") /\ inbox' = Tail(inbox)

\* HandlePacket.
HandlePacket ==
  /\ at["gdb"] = "idle" /\ inbox # <<>>
  /\ LET p == Head(inbox) IN
       /\ commands' = p.commands
       /\ processed' = {}
       /\ todo' = threads_
       /\ raced' = (raced \/ (p.type = "vCont" /\ execution = "started"))
       /\ Goto("gdb", CASE p.type = "vCont" -> "vCont"
                        [] p.type = "?" -> "copy"
                        [] p.type = "D" -> "continuing"
                        [] p.type = "interrupt" ->
                             IF threads_ = <<>> THEN "halted" ELSE "halt")
  /\ UNCHANGED <<target, debugger, bridge, inbox, gdb, poll, thread>>

\* HandleVCont: the next action of the packet, then MarkWaitingForStopPacket. "c"
\* without a thread continues all threads if it comes first; later it asks for
\* thread -1, which nobody knows.
VContAction ==
  /\ at["gdb"] = "vCont" /\ commands # <<>>
  /\ LET c == Head(commands) IN
       /\ processed' = processed \cup ({c.thread} \ {None})
       /\ CASE c.code = "c" /\ c.thread = None /\ processed = {} ->
                 /\ Goto("gdb", "continuing") /\ todo' = threads_
                 /\ UNCHANGED <<held, active_thread_id_, bridge, commands>>
            [] c.code = "c" /\ c.thread = None /\ processed # {} ->
                 /\ commands' = Tail(commands)
                 /\ UNCHANGED <<at, held, active_thread_id_, bridge, todo>>
            [] c.code = "c" /\ c.thread # None ->
                 /\ commands' = Tail(commands)
                 /\ IF GetThread(c.thread) = None THEN UNCHANGED held
                    ELSE DoContinue(c.thread)
                 /\ UNCHANGED <<at, active_thread_id_, bridge, todo>>
            [] c.code = "s" /\ c.thread # None ->
                 /\ Goto("gdb", "step") /\ SetActiveThread(c.thread)
                 /\ UNCHANGED <<held, bridge, commands, todo>>
            [] c.code = "s" /\ c.thread = None ->
                 /\ commands' = Tail(commands) /\ Answers("error")
                 /\ UNCHANGED <<at, held, active_thread_id_, todo>>
  /\ UNCHANGED <<execution, alive, ended, trap, events, notes, state_,
                 threads_, stopped, last_stop_reason, inbox, gdb, poll, thread,
                 raced>>

VContEnd ==
  /\ at["gdb"] = "vCont" /\ commands = <<>>
  /\ Goto("gdb", "copy")
  /\ UNCHANGED <<target, debugger, bridge, inbox, gdb, poll, stepping, raced>>

\* ContinueAll, for vCont and for HandleDetach.
ContinueAll ==
  /\ at["gdb"] = "continuing"
  /\ IF todo # <<>>
       THEN /\ DoContinue(Head(todo)) /\ todo' = Tail(todo)
            /\ UNCHANGED <<at, commands>>
       ELSE /\ IF Head(inbox).type = "D"
               THEN Goto("gdb", "go") /\ UNCHANGED commands
               ELSE Goto("gdb", "vCont") /\ commands' = Tail(commands)
            /\ UNCHANGED <<held, todo>>
  /\ UNCHANGED <<execution, alive, ended, trap, events, notes, debugger,
                 bridge, inbox, gdb, poll, thread, processed, raced>>

\* StepInstruction stops the title,
StepFails ==
  /\ commands' = Tail(commands) /\ Goto("gdb", "vCont") /\ Answers("error")

StepInstruction ==
  /\ at["gdb"] = "step"
  /\ thread' = ActiveThread
  /\ IF ActiveThread = None
       THEN StepFails /\ UNCHANGED <<execution, notes>>
       ELSE /\ DoStop /\ Goto("gdb", "trap")
            /\ UNCHANGED <<commands, bridge>>
  /\ UNCHANGED <<alive, ended, held, trap, events, debugger, inbox, gdb, poll,
                 processed, todo, raced>>

\* sets the trap flag of the thread, unless it is set,
SetTrapFlag ==
  /\ at["gdb"] = "trap"
  /\ IF thread \notin alive
       THEN StepFails /\ UNCHANGED trap
       ELSE /\ trap' = trap \cup {thread}
            /\ Goto("gdb", IF thread \in trap THEN "stepped" ELSE "resume")
            /\ UNCHANGED <<commands, bridge>>
  /\ UNCHANGED <<execution, alive, ended, held, events, notes, debugger, inbox,
                 gdb, poll, thread, processed, todo, raced>>

\* continues it,
StepContinue ==
  /\ at["gdb"] = "resume"
  /\ IF thread \notin alive
       THEN StepFails /\ UNCHANGED held
       ELSE /\ DoContinue(thread) /\ Goto("gdb", "stepped")
            /\ UNCHANGED <<commands, bridge>>
  /\ UNCHANGED <<execution, alive, ended, trap, events, notes, debugger, inbox,
                 gdb, poll, thread, processed, todo, raced>>

\* and lets the title go.
StepGo ==
  /\ at["gdb"] = "stepped"
  /\ DoGo
  /\ IF execution = "started" THEN StepFails
     ELSE commands' = Tail(commands) /\ Goto("gdb", "vCont") /\ UNCHANGED bridge
  /\ UNCHANGED <<alive, ended, held, trap, events, debugger, inbox, gdb, poll,
                 thread, processed, todo, raced>>

\* A seeded fault: the flag is not set when no thread is stopped.
MarkWaitingForgets ==
  /\ at["gdb"] = "polled" /\ Head(inbox).type = "vCont"
  /\ LET t == poll["gdb"].found IN
       IF CanReport(t) THEN Report(t) ELSE UNCHANGED bridge
  /\ Goto("gdb", "go")
  /\ UNCHANGED <<target, debugger, inbox, gdb, poll, stepping, raced>>

\* MarkWaitingForStopPacket: a thread that is stopped already is reported now.
MarkWaitingForStopPacket ==
  /\ at["gdb"] = "polled" /\ Head(inbox).type = "vCont"
  /\ LET t == poll["gdb"].found IN
       IF CanReport(t) THEN Report(t)
       ELSE waiting_on_stop_packet_' = (t = None) /\ UNCHANGED replies
  /\ Goto("gdb", "go")
  /\ UNCHANGED <<target, debugger, inbox, gdb, poll, stepping, raced>>

\* The Go that ends vCont and HandleDetach; the latter answers.
Go ==
  /\ at["gdb"] = "go"
  /\ DoGo
  /\ IF Head(inbox).type = "D" THEN Answers("OK") ELSE UNCHANGED bridge
  /\ Handled
  /\ UNCHANGED <<alive, ended, held, trap, events, debugger, gdb, poll,
                 stepping, raced>>

\* HandleQueryHaltReason.
HandleQueryHaltReason ==
  /\ at["gdb"] = "polled" /\ Head(inbox).type = "?"
  /\ LET t == poll["gdb"].found IN
       IF CanReport(t) THEN Report(t) ELSE Answers("error")
  /\ Handled
  /\ UNCHANGED <<target, debugger, gdb, poll, stepping, raced>>

\* HandleInterruptRequest. HaltAll halts the target,
Halt ==
  /\ at["gdb"] = "halt"
  /\ DoHalt
  /\ Goto("gdb", "await")
  /\ UNCHANGED <<alive, ended, trap, events, debugger, bridge, inbox, gdb,
                 poll, stepping, raced>>

\* waits for its state to be known, in vain if the notification is late,
WaitForState ==
  /\ at["gdb"] = "await"
  /\ state_ = "stopped" /\ Goto("gdb", "copy")
  /\ UNCHANGED <<target, debugger, bridge, inbox, gdb, poll, stepping, raced>>

\* A seeded fault: a failed halt is only logged.
WaitForStateTimesOutSilently ==
  /\ at["gdb"] = "await" /\ state_ # "stopped"
  /\ Handled
  /\ UNCHANGED <<target, debugger, bridge, gdb, poll, stepping, raced>>

WaitForStateTimesOut ==
  /\ at["gdb"] = "await" /\ state_ # "stopped"
  /\ Answers("error") /\ Handled
  /\ UNCHANGED <<target, debugger, gdb, poll, stepping, raced>>

\* picks a stopped thread or else the first of the list,
PickHalted ==
  /\ at["gdb"] = "polled" /\ Head(inbox).type = "interrupt"
  /\ LET found == poll["gdb"].found
         t == IF found = None THEN Head(todo) ELSE found IN
       thread' = t /\ SetActiveThread(t)
  /\ Goto("gdb", "wait")
  /\ UNCHANGED <<target, state_, threads_, stopped, last_stop_reason, bridge,
                 inbox, gdb, poll, commands, processed, todo, raced>>

\* and polls that one until it is stopped
AwaitHalted ==
  /\ at["gdb"] = "wait"
  /\ IF stopped[thread] THEN Goto("gdb", "halted") /\ UNCHANGED poll
     ELSE /\ Goto("gdb", "waited")
          /\ poll' = [poll EXCEPT !["gdb"].answer = IsStopped(thread)]
  /\ UNCHANGED <<target, debugger, bridge, inbox, gdb, stepping, raced>>

\* or its time is up.
HaltGivesUp ==
  /\ at["gdb"] = "wait" /\ ~stopped[thread]
  /\ Answers("error") /\ Handled
  /\ UNCHANGED <<target, debugger, gdb, poll, stepping, raced>>

StoreHalted ==
  /\ at["gdb"] = "waited"
  /\ StoreStopReason(thread, poll["gdb"].answer)
  /\ StaleAnswer(thread, poll["gdb"].answer)
  /\ poll' = [poll EXCEPT !["gdb"].answer = "none"]
  /\ Goto("gdb", "wait")
  /\ UNCHANGED <<target, state_, threads_, active_thread_id_, bridge, inbox,
                 gdb, stepping>>

\* Then the title goes on, with its threads held, and the active one is reported.
GoAfterHalt ==
  /\ at["gdb"] = "halted"
  /\ IF state_ = "started" THEN UNCHANGED <<execution, notes>> ELSE DoGo
  /\ Goto("gdb", "report")
  /\ UNCHANGED <<alive, ended, held, trap, events, debugger, bridge, inbox,
                 gdb, poll, stepping, raced>>

ReportHalt ==
  /\ at["gdb"] = "report" /\ ActiveThread # None
  /\ IF CanReport(ActiveThread) THEN Report(ActiveThread) ELSE Answers("OK")
  /\ Handled
  /\ UNCHANGED <<target, debugger, gdb, poll, stepping, raced>>

\* assert(thread): the process aborts, and with it the notification executor.
AssertThread ==
  /\ at["gdb"] = "report" /\ ActiveThread = None
  /\ Goto("gdb", "aborted")
  /\ UNCHANGED <<target, debugger, bridge, inbox, gdb, poll, stepping, raced>>

GDBExecutor ==
  \/ HandlePacket \/ VContAction \/ VContEnd \/ ContinueAll
  \/ StepInstruction \/ SetTrapFlag \/ StepContinue \/ StepGo
  \/ MarkWaitingForStopPacket \/ Go \/ HandleQueryHaltReason
  \/ Halt \/ WaitForState \/ WaitForStateTimesOut \/ PickHalted
  \/ AwaitHalted \/ HaltGivesUp \/ StoreHalted \/ GoAfterHalt \/ ReportHalt \/ AssertThread
  \/ CopyThreads("gdb") \/ PreferActive("gdb") \/ AskNext("gdb") \/ StoreNext("gdb")

-----------------------------------------------------------------------------
(* The notification executor: the debugger's handler, then the bridge's. The *)
(* notification stays in notes until both are done.                        *)

Dispatched == Goto("notification", "idle") /\ notes' = Tail(notes)

\* XBDMDebugger::OnExecutionStateChanged.
OnExecutionStateChanged ==
  /\ at["notification"] = "idle" /\ notes # <<>>
  /\ Head(notes).type \in {"started", "stopped"}
  /\ state_' = Head(notes).type
  /\ IF state_' = "started" THEN Dispatched
     ELSE Goto("notification", "copy") /\ UNCHANGED notes
  /\ UNCHANGED <<execution, alive, ended, held, trap, events, threads_,
                 active_thread_id_, stopped, last_stop_reason, bridge, inbox,
                 gdb, poll, stepping, raced>>

ActivateStopped ==
  /\ at["notification"] = "polled"
  /\ LET t == poll["notification"].found IN
       IF t = None THEN UNCHANGED active_thread_id_ ELSE SetActiveThread(t)
  /\ Goto("notification", "check")
  /\ UNCHANGED <<target, state_, threads_, stopped, last_stop_reason, bridge,
                 inbox, gdb, poll, stepping, raced>>

OnThreadCreated ==
  /\ at["notification"] = "idle" /\ notes # <<>> /\ Head(notes).type = "create"
  /\ LET t == Head(notes).thread IN
       threads_' = IF t \in Members(threads_) THEN threads_
                   ELSE Append(threads_, t)
  /\ Dispatched
  /\ UNCHANGED <<execution, alive, ended, held, trap, events, state_,
                 active_thread_id_, stopped, last_stop_reason, bridge, inbox,
                 gdb, poll, stepping, raced>>

OnThreadTerminated ==
  /\ at["notification"] = "idle" /\ notes # <<>> /\ Head(notes).type = "terminate"
  /\ LET t == Head(notes).thread IN
       /\ threads_' = Erase(threads_, t)
       /\ active_thread_id_' = IF active_thread_id_ = t THEN None
                               ELSE active_thread_id_
  /\ Dispatched
  /\ UNCHANGED <<execution, alive, ended, held, trap, events, state_, stopped,
                 last_stop_reason, bridge, inbox, gdb, poll, stepping, raced>>

\* OnBreakpoint, OnWatchpoint, OnSingleStep, OnException: the thread becomes the
\* active one and its stop reason is fetched.
OnStop ==
  /\ at["notification"] = "idle" /\ notes # <<>>
  /\ Head(notes).type \in {"break", "step"}
  /\ IF GetThread(Head(notes).thread) = None
       THEN Goto("notification", "check") /\ UNCHANGED active_thread_id_
       ELSE Goto("notification", "fetch") /\ SetActiveThread(Head(notes).thread)
  /\ UNCHANGED <<target, state_, threads_, stopped, last_stop_reason, bridge,
                 inbox, gdb, poll, stepping, raced>>

FetchStopReason ==
  /\ at["notification"] = "fetch"
  /\ poll' = [poll EXCEPT !["notification"].answer = IsStopped(Head(notes).thread)]
  /\ Goto("notification", "fetched")
  /\ UNCHANGED <<target, debugger, bridge, inbox, gdb, stepping, raced>>

\* A condition that is false makes the debugger resume the thread and the title.
StoreAndJudge ==
  /\ at["notification"] = "fetched"
  /\ StoreStopReason(Head(notes).thread, poll["notification"].answer)
  /\ StaleAnswer(Head(notes).thread, poll["notification"].answer)
  /\ poll' = [poll EXCEPT !["notification"].answer = "none"]
  /\ \/ Goto("notification", "check")
     \/ /\ session.conditional /\ Head(notes).type = "break"
        /\ Head(notes).thread \in alive
        /\ Goto("notification", "ignore")
  /\ UNCHANGED <<target, state_, threads_, active_thread_id_, bridge, inbox,
                 gdb, stepping>>

IgnoreContinue ==
  /\ at["notification"] = "ignore"
  /\ IF GetThread(Head(notes).thread) = None THEN UNCHANGED held
     ELSE DoContinue(Head(notes).thread)
  /\ Goto("notification", "regardless")
  /\ UNCHANGED <<execution, alive, ended, trap, events, notes, debugger,
                 bridge, inbox, gdb, poll, stepping, raced>>

IgnoreGo ==
  /\ at["notification"] = "regardless"
  /\ DoGo
  /\ Goto("notification", "check")
  /\ UNCHANGED <<alive, ended, held, trap, events, debugger, bridge, inbox,
                 gdb, poll, stepping, raced>>

\* A seeded fault: the bridge reports without looking at the flag.
BridgeChecksNothing ==
  /\ at["notification"] = "check"
  /\ Goto("notification", "send") /\ UNCHANGED notes
  /\ UNCHANGED <<execution, alive, ended, held, trap, events, debugger, bridge,
                 inbox, gdb, poll, stepping, raced>>

\* The handlers of GDBBridge: nothing if the flag is clear,
BridgeChecks ==
  /\ at["notification"] = "check"
  /\ IF waiting_on_stop_packet_
     THEN Goto("notification", "send") /\ UNCHANGED notes
     ELSE Dispatched
  /\ UNCHANGED <<execution, alive, ended, held, trap, events, debugger, bridge,
                 inbox, gdb, poll, stepping, raced>>

\* otherwise the active thread is reported if it is known to be stopped.
BridgeReports ==
  /\ at["notification"] = "send"
  /\ IF CanReport(ActiveThread) THEN Report(ActiveThread) ELSE UNCHANGED bridge
  /\ Dispatched
  /\ UNCHANGED <<execution, alive, ended, held, trap, events, debugger, inbox,
                 gdb, poll, stepping, raced>>

NotificationExecutor ==
  /\ at["gdb"] # "aborted"
  /\ \/ OnExecutionStateChanged \/ ActivateStopped
     \/ OnThreadCreated \/ OnThreadTerminated
     \/ OnStop \/ FetchStopReason \/ StoreAndJudge \/ IgnoreContinue \/ IgnoreGo
     \/ BridgeChecks \/ BridgeReports
     \/ CopyThreads("notification") \/ PreferActive("notification")
     \/ AskNext("notification") \/ StoreNext("notification")

-----------------------------------------------------------------------------
Title == \E t \in Thread : Hit(t) \/ Create(t) \/ Terminate(t)
Next ==
  \/ Title \/ (\E p \in session.packet : SendPacket(p)) \/ Receive
  \/ GDBExecutor \/ NotificationExecutor

Spec == Init /\ [][Next]_vars

\* Both executors run, HaltAll has bounded patience and GDB reads its replies.
\* Nothing makes the title stop or GDB send.
Fairness ==
  /\ WF_vars(GDBExecutor) /\ WF_vars(NotificationExecutor)
  /\ SF_vars(HaltGivesUp) /\ WF_vars(Receive)

FairSpec == Spec /\ Fairness

-----------------------------------------------------------------------------
(* Properties.                                                             *)

\* GDB resumes all threads at once, as it does unless it is told to step or to leave
\* others stopped, and does not interrupt or detach.
ContinuesAll ==
  \A p \in session.packet :
    p.type = "?" \/ (p.type = "vCont" /\ p.commands = <<[code |-> "c", thread |-> None]>>)

\* One stop reply for each resume: a GDB that resumes all threads is never sent one
\* while it takes the target to be stopped, nor two at once, however the reports of
\* MarkWaitingForStopPacket and of the notification handlers race.
OneReplyPerResume ==
  ContinuesAll => /\ Len(replies) <= 1
                  /\ client = "stopped" => replies = <<>>

\* SendThreadStopPacket refuses a running thread ("Attempting to send stop packet
\* for a running thread"): a thread reported to GDB is held by the target until
\* GDB has read the report, and while GDB takes the target to be stopped no thread
\* of the title runs, unless an answer was stale when stored: vCont reports before
\* it lets the title go only if a thread is stopped already. A false condition
\* resumes the thread behind the report, so breakpoints are taken to have none.
ReportsAreTrueUnlessRaced ==
  (ContinuesAll /\ ~session.conditional /\ ~raced) =>
    /\ \A i \in DOMAIN replies : replies[i].type = "stop" => held[replies[i].thread]
    /\ client = "stopped" => \A t \in Thread : ~Runs(t)

\* GDB is not left waiting for ever while a thread of the title is stopped, unless
\* an answer was stale or vCont came to a running title.
NoSilentStopUnlessRaced ==
  \A t \in Thread : []<>(~ContinuesAll \/ raced \/ client # "running" \/ ~held[t])

\* HandleInterruptRequest answers, also when the notification of the stop is late
\* or no thread stops. The one other end is that of the process: its assertion that
\* there is an active thread fails, as it may once a thread of the title has ended and
\* HaltAll found no thread or lost the one it had found.
InterruptIsAnswered ==
  (client = "running" /\ interrupted) ~> (client = "stopped" \/ (at["gdb"] = "aborted" /\ ended # {}))
=============================================================================
