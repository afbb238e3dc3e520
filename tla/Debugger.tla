------------------------------ MODULE Debugger ------------------------------
(***************************************************************************)
(* XBDMDebugger from attaching to launching a title: what it knows of the  *)
(* target (execution state, threads, modules, sections, memory map), kept  *)
(* by requests of two threads, the shell and gdb_executor_, and by the     *)
(* notification executor. Stepping and stop replies are the subject of     *)
(* StopReply, breakpoints and conditions of Breakpoints.                   *)
(*                                                                         *)
(* A call is a list of steps, each a command, a wait, or a change under a  *)
(* lock; the others act between any two. A failure drops the steps up to   *)
(* the end of the call that looks at the result. The target is external:   *)
(* it is modelled after the commands the source sends and the comments on  *)
(* what it answers.                                                        *)
(***************************************************************************)
EXTENDS Integers, Sequences, SequencesExt, FiniteSets, TLC

CONSTANTS
  Session,          \* what may happen in one run: what the shell is asked for, whether
                    \* GDB connects and launches a title; the bounds on ends of threads
                    \* and changes of sections, on commands refused, and on attempts
                    \* (kMaxDebuggerAttachAttempts, kMaxDebuggerHaltAttempts)
  Nobody

Actor == {"shell", "gdb", "notify"}
Main == 1        \* the thread that loads a title
App == 2         \* the first one the title creates
Thread == {Main, App}
Kernel == 1
XBE == 2
List == {"threads", "modules", "sections", "regions"}
Lock == {"threads", "modules", "sections"}
Execution == {"started", "stopped", "rebooting", "pending"}

ASSUME DebuggerAssumption ==
  /\ Session \subseteq [shell : Seq(STRING), gdb : BOOLEAN, launches : BOOLEAN, events : Nat, failures : Nat,
                       attempts : Nat \ {0}]
  /\ Nobody \notin Actor

VARIABLES
  \* the target, its notifications not yet handled, what has happened
  xbox, notes, events, failures,
  \* XBDMContext: the notification server, the handlers
  listening, handlers, next_notification_handler_id_,
  \* DebuggerXBOXInterface::xbdm_debugger_ and its fields
  xbdm_debugger_, is_attached_, notification_handler_id_, state_, threads_, active_thread_id_,
  modules_, sections_, memory_regions_,
  \* the actors: what is left to do, an answer not yet stored, whether the call
  \* went well so far, the attempts left; who holds which lock
  todo, got, ok, tries, lock,
  \* what the shell is still asked for, whether GDB is still to connect
  session, input, connects,
  \* history, read by properties only: lists that may be out of date; the actors
  \* whose answer was overtaken by a notification, or, paired with "reboot", lists
  \* stored before the notification of a reboot; waits that timed out, or ended
  \* for a state the target had left; attaches that overlapped or failed; the end
  stale, overtaken, timedout, hasty, overlapped, failedattach, aborted

target == <<xbox, notes, events, failures>>
context == <<listening, handlers, next_notification_handler_id_>>
object == <<xbdm_debugger_, is_attached_, notification_handler_id_, state_, threads_,
            active_thread_id_, modules_, sections_, memory_regions_>>
lists == <<threads_, active_thread_id_, modules_, sections_, memory_regions_>>
attachment == <<xbdm_debugger_, is_attached_, notification_handler_id_>>
calls == <<todo, got, ok, tries, lock>>
users == <<session, input, connects>>
history == <<stale, overtaken, timedout, hasty, overlapped, failedattach, aborted>>
vars == <<target, context, object, calls, users, history>>

Note(kind, x) == [kind |-> kind, x |-> x]
NoAnswer == {}

\* A title runs; nobody has attached yet. cut: the actors whose command was on its
\* way when the command connection was closed.
Init ==
  /\ xbox = [exec |-> "started", alive |-> {Main}, held |-> {}, suspended |-> {}, loaded |-> {Kernel},
             placed |-> {}, stopon |-> FALSE, breaking |-> FALSE, title |-> "app", waits |-> FALSE,
             channel |-> "none", cut |-> {}]
  /\ notes = <<>> /\ events = 0 /\ failures = 0
  /\ listening = FALSE /\ handlers = {} /\ next_notification_handler_id_ = 1
  /\ session \in Session /\ input = session.shell /\ connects = session.gdb
  /\ xbdm_debugger_ = session.gdb /\ is_attached_ = FALSE /\ notification_handler_id_ = 0
  /\ state_ = "invalid" /\ threads_ = <<>> /\ active_thread_id_ = 0
  /\ modules_ = {} /\ sections_ = {} /\ memory_regions_ = {}
  /\ todo = [a \in Actor |-> <<>>] /\ got = [a \in Actor |-> NoAnswer]
  /\ ok = [a \in Actor |-> TRUE] /\ tries = [a \in Actor |-> 0]
  /\ lock = [l \in Lock |-> Nobody]
  /\ stale = List /\ overtaken = {} /\ timedout = FALSE /\ hasty = FALSE
  /\ overlapped = FALSE /\ failedattach = FALSE /\ aborted = "no"

-----------------------------------------------------------------------------
(* Calls.                                                                  *)

\* A step; a command that is refused makes the call "return", or is "ignored",
\* or makes Attach "unregister" its handler and return.
Step(op, x, refused) == [op |-> op, x |-> x, refused |-> refused]
Do(op) == Step(op, {}, "ignored")
With(op, x) == Step(op, x, "ignored")
Command(op) == Step(op, {}, "return")
End(what) == Step("end", what, "ignored")

Doing(a, op) == todo[a] # <<>> /\ Head(todo[a]).op = op
This(a) == Head(todo[a])

\* A call whose result is ignored is entered when it is reached.
Ignoring(steps) == <<With("call", steps)>>
Enter(steps) ==
  IF steps # <<>> /\ Head(steps).op = "call" THEN Append(Head(steps).x, End("ignored")) \o Tail(steps) ELSE steps

GoOn(a) == todo' = [todo EXCEPT ![a] = Enter(Tail(@))] /\ UNCHANGED ok
Call(a, steps) == todo' = [todo EXCEPT ![a] = Enter(steps \o Tail(@))] /\ UNCHANGED ok

\* return false
Fail(a) ==
  LET end == SelectInSeq(todo[a], LAMBDA s : s.op = "end") IN
  /\ todo' = [todo EXCEPT ![a] = SubSeq(@, end, Len(@))]
  /\ ok' = [ok EXCEPT ![a] = FALSE]

\* Locks are held across commands; the recursive ones are taken once.
Free(a, l) == lock[l] \in {Nobody, a}
Locking(l) == With("lock", l)
Unlocking(l) == With("unlock", l)

Await(states, refused) == Step("await", states, refused)

FetchThreads == <<Command("threads"), Locking("threads"), Do("store threads"), Do("info"), Unlocking("threads")>>
FetchModules(locked) ==
  IF locked THEN <<Command("modules"), Do("store modules")>>
  ELSE <<Command("modules"), Locking("modules"), Do("store modules"), Unlocking("modules")>>
FetchSections(m) == Ignoring(<<Step("modsections", m, "return"), With("store sections", m)>>)
FetchMemoryMap == <<Command("walkmem"), Do("store regions")>>

RequestDebugNotifications == <<Do("notifyat drop"), Step("notifyat", {}, "unregister")>>

\* A seeded fault: the handler goes also if notifications were granted.
AttachUnregisters ==
  <<Do("find server"), Do("unregister"), Do("register")>> \o RequestDebugNotifications \o <<Do("unregister")>>
    \o <<Step("debugger", {}, "unregister")>> \o FetchThreads \o FetchModules(FALSE) \o FetchMemoryMap
    \o <<Do("attached")>>

Attach ==
  <<Do("find server"), Do("unregister"), Do("register")>> \o RequestDebugNotifications
    \o <<Step("debugger", {}, "unregister")>> \o FetchThreads \o FetchModules(FALSE) \o FetchMemoryMap
    \o <<Do("attached")>>

Shutdown == <<Do("detach"), Do("debugger"), Do("delete")>>

RestartAndReconnect(wait) ==
  <<Step("reboot", wait, "return"), Await({"rebooting"}, "ignored"), Do("bye"), Do("close"),
    Await({"pending", "started"}, "return"), Command("debugger")>>

RestartAndAttach == RestartAndReconnect(FALSE) \o <<Command("breakatstart"), Command("go")>>

BreakOnNextThreadCreate ==
  <<Command("stopon"), Do("continue all"), Command("go"), Do("await create")>>

DebugXBE(mode) ==
  RestartAndReconnect(TRUE) \o <<Command("title")>>
    \o (IF mode = "run" THEN <<Command("go")>>
        ELSE <<Command("breakatstart"), Command("go"), Await({"stopped"}, "ignored")>>
               \o Ignoring(FetchThreads)
               \o (IF mode = "launch" THEN BreakOnNextThreadCreate ELSE <<>>)
               \o Ignoring(FetchMemoryMap))

HaltAll == <<Do("any threads?"), Command("halt"), Await({"stopped"}, "return"), Do("first stopped"), Do("set halted")>>

-----------------------------------------------------------------------------
(* The target. What a step of it or a command makes of it is a new record; *)
(* a change of the execution state is notified after anything else.        *)

StateNote(next) == IF next.exec # xbox.exec THEN <<Note("state", next.exec)>> ELSE <<>>

\* The lists a notification is about.
About(n) == CASE n.kind \in {"create", "terminate"} -> {"threads"}
              [] n.kind = "modload" -> {"modules", "regions"}
              [] n.kind \in {"sectload", "sectunload"} -> {"sections", "regions"}
              [] n = Note("state", "rebooting") -> {"modules", "sections", "regions"}
              [] OTHER -> {}
AboutAll(s) == UNION {About(s[i]) : i \in DOMAIN s}

\* Ghosts: answers not yet stored are older than what the lists know, and what
\* lists lack.
Overtake(known) == overtaken \cup (Actor \X known)
Lacking(known) == stale' = stale \cup known /\ overtaken' = Overtake(known)

\* Nothing is notified of the threads a reboot ends.
Become(next, news) ==
  LET s == news \o StateNote(next)
      unheard == IF next.channel = "open" THEN {} ELSE AboutAll(s)
      ended == IF next.exec = "rebooting" THEN {"threads", "regions"} ELSE {}
  IN  /\ xbox' = next
      /\ notes' = IF next.channel = "open" THEN notes \o s ELSE notes
      /\ Lacking(unheard \cup ended)

TargetStep == UNCHANGED <<failures, context, object, calls, users, timedout, hasty,
                          overlapped, failedattach, aborted>>

\* XBDM is up again and has connected to the notification server.
Boot ==
  /\ xbox.exec = "rebooting"
  /\ \E exec \in IF xbox.waits THEN {"pending"} ELSE {"pending", "started"} :
       Become([xbox EXCEPT !.exec = exec, !.loaded = {Kernel},
                           !.channel = IF @ = "none" THEN @ ELSE "open"],
              <<Note("modload", Kernel)>>)
  /\ TargetStep /\ UNCHANGED events

\* The title is loaded, and stops before its first thread if asked to.
TitleLoads ==
  /\ xbox.exec = "started" /\ xbox.title = "set"
  /\ Become([xbox EXCEPT !.title = "entry", !.loaded = @ \cup {XBE}, !.placed = @ \cup {XBE},
                         !.alive = @ \cup {Main}, !.breaking = FALSE,
                         !.held = IF xbox.breaking THEN {Main} ELSE @,
                         !.exec = IF xbox.breaking THEN "stopped" ELSE @],
            <<Note("modload", XBE), Note("sectload", XBE), Note("create", Main)>>)
  /\ TargetStep /\ UNCHANGED events

\* The title creates a thread, which is suspended and stopped if asked to.
TitleCreatesThread ==
  /\ xbox.exec = "started" /\ xbox.title = "entry" /\ Main \notin xbox.held
  /\ LET stops == xbox.stopon IN
     Become([xbox EXCEPT !.title = "app", !.alive = @ \cup {App},
                         !.suspended = IF stops THEN @ \cup {App} ELSE @,
                         !.held = IF stops THEN @ \cup {App} ELSE @,
                         !.exec = IF stops THEN "stopped" ELSE @],
            <<Note("create", App)>> \o (IF stops THEN <<Note("break", App)>> ELSE <<>>))
  /\ TargetStep /\ UNCHANGED events

Happens == xbox.exec = "started" /\ events < session.events /\ events' = events + 1

ThreadEnds ==
  /\ Happens
  /\ \E t \in xbox.alive \ (xbox.held \cup xbox.suspended) :
       Become([xbox EXCEPT !.alive = @ \ {t}], <<Note("terminate", t)>>)
  /\ TargetStep

SectionChanges ==
  /\ Happens
  /\ \E m \in xbox.loaded :
       IF m \in xbox.placed THEN Become([xbox EXCEPT !.placed = @ \ {m}], <<Note("sectunload", m)>>)
       ELSE Become([xbox EXCEPT !.placed = @ \cup {m}], <<Note("sectload", m)>>)
  /\ TargetStep

-----------------------------------------------------------------------------
(* Commands.                                                               *)

Rebooted(wait) ==
  [xbox EXCEPT !.exec = "rebooting", !.alive = {}, !.held = {}, !.suspended = {}, !.loaded = {},
               !.placed = {}, !.stopon = FALSE, !.breaking = FALSE, !.title = "none", !.waits = wait]

Paused == IF xbox.exec = "started" THEN "stopped" ELSE xbox.exec

\* What a command makes of the target, where it is not a question only.
Effect(op, x) ==
  CASE op = "reboot" -> Rebooted(x)
    [] op = "go" -> [xbox EXCEPT !.exec = "started"]
    [] op = "stop" -> [xbox EXCEPT !.exec = Paused]
    [] op = "halt" -> [xbox EXCEPT !.exec = Paused, !.held = xbox.alive]
    [] op = "title" -> [xbox EXCEPT !.title = IF xbox.exec = "pending" THEN "set" ELSE @]
    [] op = "breakatstart" -> [xbox EXCEPT !.breaking = TRUE]
    [] op = "stopon" -> [xbox EXCEPT !.stopon = TRUE]
    [] op = "nostopon" -> [xbox EXCEPT !.stopon = FALSE]
    [] op = "notifyat drop" -> [xbox EXCEPT !.channel = "none"]
    [] op = "notifyat" -> [xbox EXCEPT !.channel = "open"]
    [] op = "continue all" -> [xbox EXCEPT !.held = @ \ ToSet(threads_)]
    [] op = "continue" -> [xbox EXCEPT !.held = @ \ {x}]
    [] op = "halt thread" -> [xbox EXCEPT !.held = @ \cup ({x} \cap xbox.alive)]
    [] op = "suspend" -> [xbox EXCEPT !.suspended = @ \cup ({x} \cap xbox.alive)]
    [] op = "resume" -> [xbox EXCEPT !.suspended = @ \ {x}]
    [] OTHER -> xbox

Acts == {"reboot", "go", "stop", "halt", "title", "breakatstart", "stopon", "nostopon", "notifyat drop",
         "notifyat", "continue all", "continue", "halt thread", "suspend", "resume", "funccall",
         "debugger", "bye", "info"}

\* The answer to a question, kept until it is stored.
Answer(op, x) ==
  CASE op = "threads" -> xbox.alive
    [] op = "modules" -> xbox.loaded
    [] op = "modsections" -> {x} \cap xbox.placed
    [] op = "walkmem" -> xbox.loaded \X {"module"} \cup xbox.placed \X {"section"}
Asks == {"threads", "modules", "modsections", "walkmem"}
Commands == Acts \cup Asks \cup {"first stopped", "suspend count"}

\* The lists an answer is for.
ListOf(op) == CASE op = "threads" -> {"threads"}
                [] op = "modules" -> {"modules", "sections"}
                [] op = "modsections" -> {"sections"}
                [] op = "walkmem" -> {"regions"}
                [] OTHER -> {}

\* A command is refused, or its connection is or was closed.
Refuses(a) ==
  IF xbox.exec = "rebooting" \/ a \in xbox.cut THEN UNCHANGED failures
  ELSE failures < session.failures /\ failures' = failures + 1

Uncut(a) == xbox' = [xbox EXCEPT !.cut = @ \ {a}]
CommandDone(a) ==
  /\ UNCHANGED <<events, listening, next_notification_handler_id_, object, tries, lock, users,
                 timedout, hasty, overlapped, aborted>>

\* The caller of a command that failed goes on, gives up, or (Attach) unregisters.
Refused(a) ==
  /\ IF This(a).refused = "ignored" THEN GoOn(a) ELSE Fail(a)
  /\ LET unregisters == This(a).refused = "unregister" IN
       /\ handlers' = IF unregisters THEN handlers \ {notification_handler_id_} ELSE handlers
       /\ failedattach' = (failedattach \/ unregisters)

\* A command is carried out; its answer may be lost.
Act(a) ==
  /\ \E op \in Acts : Doing(a, op)
  /\ xbox.exec # "rebooting"
  /\ Doing(a, "continue all") => Free(a, "threads")
  /\ Become([Effect(This(a).op, This(a).x) EXCEPT !.cut = @ \ {a}], <<>>)
  /\ IF a \in xbox.cut THEN Refused(a) ELSE GoOn(a) /\ UNCHANGED <<handlers, failedattach>>
  /\ CommandDone(a) /\ UNCHANGED <<failures, got>>

Ask(a) ==
  /\ \E op \in Asks : Doing(a, op)
  /\ xbox.exec # "rebooting" /\ a \notin xbox.cut
  /\ got' = [got EXCEPT ![a] = Answer(This(a).op, This(a).x)]
  /\ overtaken' = overtaken \ ({a} \X ListOf(This(a).op))
  /\ GoOn(a)
  /\ CommandDone(a) /\ UNCHANGED <<xbox, notes, failures, handlers, stale, failedattach>>

Refuse(a) ==
  /\ \E op \in Acts \cup Asks : Doing(a, op)
  /\ Refuses(a) /\ Refused(a) /\ Uncut(a)
  /\ stale' = stale \cup ListOf(This(a).op)
  /\ overtaken' = IF a = "notify" THEN Overtake(ListOf(This(a).op)) ELSE overtaken
  /\ CommandDone(a) /\ UNCHANGED <<notes, got>>

-----------------------------------------------------------------------------
(* Storing answers.                                                        *)

LocalStep == UNCHANGED <<xbox, events, failures, tries, users>>
Quiet == UNCHANGED <<timedout, hasty, overlapped, failedattach, aborted>>

\* An answer older than what the list already knew makes it out of date.
RebootUnheard(known) ==
  IF (ToSet(notes) \cup {Note("state", IF Doing("notify", "set state") THEN This("notify").x ELSE "none")})
       \cap {Note("state", "rebooting")} = {}
  THEN {} ELSE {"reboot"} \X known
Stored(a, known) ==
  /\ stale' = (stale \ known) \cup {l \in known : <<a, l>> \in overtaken}
  /\ got' = [got EXCEPT ![a] = NoAnswer]
  /\ overtaken' = RebootUnheard(known) \cup IF a = "notify" THEN Overtake(known) ELSE overtaken

StoreThreads(a) ==
  /\ Doing(a, "store threads")
  /\ threads_' = SetToSeq(got[a])
  /\ Stored(a, {"threads"}) /\ GoOn(a)
  /\ LocalStep /\ Quiet
  /\ UNCHANGED <<notes, context, attachment, state_, active_thread_id_, modules_, sections_, memory_regions_, lock>>

StoreModules(a) ==
  /\ Doing(a, "store modules") /\ Free(a, "sections")
  /\ modules_' = got[a] /\ sections_' = {}
  /\ Call(a, FlattenSeq([i \in 1..Cardinality(got[a]) |-> FetchSections(SetToSeq(got[a])[i])]))
  /\ Stored(a, {"modules", "sections"})
  /\ LocalStep /\ Quiet
  /\ UNCHANGED <<notes, context, attachment, state_, threads_, active_thread_id_, memory_regions_, lock>>

StoreSections(a) ==
  /\ Doing(a, "store sections") /\ Free(a, "sections")
  /\ sections_' = sections_ \cup got[a]
  /\ stale' = IF <<a, "sections">> \in overtaken THEN stale \cup {"sections"} ELSE stale
  /\ got' = [got EXCEPT ![a] = NoAnswer] /\ GoOn(a)
  /\ LocalStep /\ Quiet
  /\ UNCHANGED <<notes, context, attachment, state_, threads_, active_thread_id_, modules_, memory_regions_,
                 lock, overtaken>>

StoreRegions(a) ==
  /\ Doing(a, "store regions")
  /\ memory_regions_' = got[a]
  /\ Stored(a, {"regions"}) /\ GoOn(a)
  /\ LocalStep /\ Quiet
  /\ UNCHANGED <<notes, context, attachment, state_, threads_, active_thread_id_, modules_, sections_, lock>>

TakeLock(a) ==
  /\ Doing(a, "lock") /\ lock[This(a).x] = Nobody
  /\ lock' = [lock EXCEPT ![This(a).x] = a] /\ GoOn(a)
  /\ LocalStep /\ Quiet /\ UNCHANGED <<notes, context, object, got, stale, overtaken>>

ReleaseLock(a) ==
  /\ Doing(a, "unlock")
  /\ lock' = [lock EXCEPT ![This(a).x] = Nobody] /\ GoOn(a)
  /\ LocalStep /\ Quiet /\ UNCHANGED <<notes, context, object, got, stale, overtaken>>

-----------------------------------------------------------------------------
(* Attaching and detaching.                                                *)

Settled == UNCHANGED <<xbox, notes, events, got, tries, lock, users, state_, lists, stale, overtaken,
                       timedout, hasty, aborted>>

FindServer(a) ==
  /\ Doing(a, "find server")
  /\ IF listening THEN GoOn(a) ELSE Call(a, <<Do("listen")>>)
  /\ Settled /\ UNCHANGED <<failures, context, attachment, overlapped, failedattach>>

\* The server may only be started once.
StartNotificationListener(a) ==
  /\ Doing(a, "listen")
  /\ IF listening THEN Fail(a) /\ UNCHANGED listening ELSE GoOn(a) /\ listening' = TRUE
  /\ Settled /\ UNCHANGED <<failures, handlers, next_notification_handler_id_, attachment, overlapped, failedattach>>

\* Waiting for a state that is safe to attach in ends in any case.
UnregisterNotificationHandler(a) ==
  /\ Doing(a, "unregister")
  /\ handlers' = handlers \ {notification_handler_id_} /\ GoOn(a)
  /\ Settled
  /\ UNCHANGED <<failures, listening, next_notification_handler_id_, attachment, overlapped, failedattach>>

RegisteredID(id) == id

RegisterNotificationHandler(a) ==
  /\ Doing(a, "register")
  /\ LET id == next_notification_handler_id_ IN
       /\ handlers' = handlers \cup {id} /\ notification_handler_id_' = RegisteredID(id)
       /\ next_notification_handler_id_' = id + 1
  /\ overlapped' = (overlapped \/ \E b \in Actor \ {a} : Doing(b, "register"))
  /\ GoOn(a)
  /\ Settled /\ UNCHANGED <<failures, listening, xbdm_debugger_, is_attached_, failedattach>>

SetAttached(a) ==
  /\ \/ Doing(a, "attached") /\ is_attached_' = TRUE
     \/ Doing(a, "detach") /\ is_attached_' = FALSE
  /\ GoOn(a)
  /\ Settled /\ UNCHANGED <<failures, context, xbdm_debugger_, notification_handler_id_, overlapped, failedattach>>

\* The end of Shutdown, and xbdm_debugger_.reset(). The object lives on if a
\* GDBBridge has it; if not, a handler under way uses what is gone. A job of
\* gdb_executor_ goes through the null pointer, unless it is in its last call.
Delete(a) ==
  /\ Doing(a, "delete")
  /\ handlers' = handlers \ {notification_handler_id_}
  /\ xbdm_debugger_' = FALSE /\ is_attached_' = FALSE /\ notification_handler_id_' = 0
  /\ state_' = "invalid" /\ threads_' = <<>> /\ active_thread_id_' = 0
  /\ modules_' = {} /\ sections_' = {} /\ memory_regions_' = {}
  /\ todo' = [todo EXCEPT ![a] = Tail(@), !["notify"] = <<>>, !["gdb"] = <<>>]
  /\ lock' = [l \in Lock |-> Nobody]
  /\ stale' = List /\ overtaken' = {}
  /\ aborted' \in CASE todo["gdb"] # <<>> /\ ~Doing("gdb", "set halted") -> {"null"}
                    [] todo["gdb"] # <<>> /\ Doing("gdb", "set halted") -> {"no", "null"}
                    [] ~session.gdb /\ todo["notify"] # <<>> -> {"freed"}
                    [] OTHER -> {"no"}
  /\ got' = [b \in Actor |-> NoAnswer] /\ ok' = [b \in Actor |-> TRUE]
  /\ xbox' = [xbox EXCEPT !.cut = {}]
  /\ UNCHANGED <<notes, events, failures, listening, next_notification_handler_id_, tries, users,
                 timedout, hasty, overlapped, failedattach>>

-----------------------------------------------------------------------------
(* Waiting, restarting and halting.                                        *)

Waiting == /\ UNCHANGED <<xbox, notes, events, failures, context, object, got, tries, lock, users,
                          stale, overtaken, overlapped, failedattach, aborted>>

\* A wait ends for a state the target has left.
TooSoon(states) ==
  \/ states = {"stopped"} /\ xbox.exec # "stopped"
  \/ "pending" \in states /\ xbox.exec = "rebooting"

\* WaitForState, WaitForStateIn.
WaitForState(a) ==
  /\ Doing(a, "await") /\ state_ \in This(a).x
  /\ hasty' = (hasty \/ TooSoon(This(a).x))
  /\ GoOn(a)
  /\ Waiting /\ UNCHANGED timedout

WaitForStateTimesOut(a) ==
  /\ Doing(a, "await") /\ state_ \notin This(a).x
  /\ timedout' = TRUE
  /\ IF This(a).refused = "ignored" THEN GoOn(a) ELSE Fail(a)
  /\ Waiting /\ UNCHANGED hasty

ActiveThread == IF active_thread_id_ \in ToSet(threads_) THEN active_thread_id_ ELSE 0

\* A seeded fault: the target goes on stopping at new threads.
AwaitThreadCreateStopping(a) ==
  /\ Doing(a, "await create")
  /\ IF state_ = "stopped"
     THEN GoOn(a) /\ hasty' = (hasty \/ TooSoon({"stopped"})) /\ UNCHANGED timedout
     ELSE /\ Call(a, <<Do("nostopon"), Do("if no active")>>)
          /\ timedout' = TRUE /\ UNCHANGED hasty
  /\ Waiting

\* The rest of BreakOnNextThreadCreate.
AwaitThreadCreate(a) ==
  /\ Doing(a, "await create")
  /\ IF state_ = "stopped"
     THEN /\ Call(a, <<Command("nostopon")>>)
          /\ hasty' = (hasty \/ TooSoon({"stopped"})) /\ UNCHANGED timedout
     ELSE /\ Call(a, <<Do("nostopon"), Do("if no active")>>)
          /\ timedout' = TRUE /\ UNCHANGED hasty
  /\ Waiting

DetermineActiveThread(a) ==
  /\ Doing(a, "if no active") /\ Free(a, "threads")
  /\ IF ActiveThread # 0 THEN GoOn(a)
     ELSE Call(a, <<Do("stop")>> \o Ignoring(FetchThreads) \o <<Command("go")>>)
  /\ Waiting /\ UNCHANGED <<timedout, hasty>>

\* CloseActiveConnections closes the command connection, on which the commands of
\* others may be on their way (the next command connects again), and the
\* notification channel as well: what was not yet read from it is lost.
CloseActiveConnections(a) ==
  /\ Doing(a, "close")
  /\ \E lost \in SUBSET {b \in Actor \ {a} : \E op \in Commands : Doing(b, op)} :
       xbox' = [xbox EXCEPT !.channel = IF @ = "open" THEN "closed" ELSE @, !.cut = @ \cup lost]
  /\ \E n \in 0..Len(notes) :
       notes' = SubSeq(notes, 1, n) /\ Lacking(AboutAll(SubSeq(notes, n + 1, Len(notes))))
  /\ GoOn(a)
  /\ Quiet /\ UNCHANGED <<events, failures, context, object, got, tries, lock, users>>

\* HaltAll has nothing to do without threads.
AnyThreads(a) ==
  /\ Doing(a, "any threads?") /\ Free(a, "threads")
  /\ IF threads_ # <<>> THEN GoOn(a)
     ELSE /\ todo' = [todo EXCEPT ![a] = SubSeq(@, SelectInSeq(@, LAMBDA s : s.op = "end"), Len(@))]
          /\ UNCHANGED ok
  /\ Waiting /\ UNCHANGED <<timedout, hasty>>

\* GetFirstStoppedThread asks for one thread after the other, the active one
\* first; a thread whose answer fails is passed over.
GetFirstStoppedThread(a) ==
  /\ Doing(a, "first stopped") /\ Free(a, "threads")
  /\ LET stopped == SelectSeq(threads_, LAMBDA t : t \in xbox.held) IN
       \/ /\ UNCHANGED failures
          /\ got' = [got EXCEPT ![a] = IF stopped = <<>> THEN {}
                                       ELSE IF ActiveThread \in ToSet(stopped) THEN {ActiveThread}
                                       ELSE {Head(stopped)}]
       \/ stopped # <<>> /\ Refuses(a) /\ got' = [got EXCEPT ![a] = ToSet(Tail(stopped))]
  /\ Uncut(a) /\ GoOn(a)
  /\ Quiet /\ UNCHANGED <<notes, events, context, object, tries, lock, users, stale, overtaken>>

SetActiveThread(t) == active_thread_id_' = IF t \in ToSet(threads_) THEN t ELSE 0

\* The rest of HaltAll, which waits in vain for a thread that does not stop.
SetHalted(a) ==
  /\ Doing(a, "set halted") /\ Free(a, "threads")
  /\ LET t == IF got[a] # {} THEN CHOOSE u \in got[a] : TRUE
              ELSE IF threads_ # <<>> THEN Head(threads_) ELSE 0
     IN  SetActiveThread(t) /\ IF got[a] # {} \/ t \in xbox.held THEN GoOn(a) ELSE Fail(a)
  /\ got' = [got EXCEPT ![a] = NoAnswer]
  /\ LocalStep /\ Quiet
  /\ UNCHANGED <<notes, context, attachment, state_, threads_, modules_, sections_, memory_regions_, lock,
                 stale, overtaken>>

-----------------------------------------------------------------------------
(* The notification executor.                                              *)

\* A seeded fault: a section makes the modules be fetched again.
HandlerFetchesModules(n) ==
  CASE n.kind = "state" -> <<With("set state", n.x)>>
    [] n.kind = "modload" -> <<Locking("modules"), With("add module", n.x)>>
                               \o Ignoring(FetchMemoryMap) \o <<Unlocking("modules")>>
    [] n.kind \in {"sectload", "sectunload"} ->
         <<Locking("sections"), With(n.kind, n.x)>> \o Ignoring(FetchMemoryMap \o FetchModules(FALSE)) \o <<Unlocking("sections")>>
    [] OTHER -> <<With(n.kind, n.x)>>

Handler(n) ==
  CASE n.kind = "state" -> <<With("set state", n.x)>>
    [] n.kind = "modload" -> <<Locking("modules"), With("add module", n.x)>>
                               \o Ignoring(FetchMemoryMap) \o <<Unlocking("modules")>>
    [] n.kind \in {"sectload", "sectunload"} ->
         <<Locking("sections"), With(n.kind, n.x)>> \o Ignoring(FetchMemoryMap) \o <<Unlocking("sections")>>
    [] OTHER -> <<With(n.kind, n.x)>>

\* Every handler registered when the notification is dispatched is called. One
\* left behind by a debugger that was detached is of no consequence.
DispatchNotification ==
  /\ todo["notify"] = <<>> /\ notes # <<>>
  /\ notes' = Tail(notes)
  /\ todo' = [todo EXCEPT !["notify"] =
                FlattenSeq([i \in 1..(IF xbdm_debugger_ THEN Cardinality(handlers) ELSE 0) |-> Handler(Head(notes))])]
  /\ Lacking(IF handlers = {} THEN About(Head(notes)) ELSE {})
  /\ UNCHANGED <<xbox, events, failures, context, object, got, ok, tries, lock, users>> /\ Quiet

Handling(kind) == Doing("notify", kind) /\ LocalStep /\ UNCHANGED <<notes, context, attachment, lock, got>>
ID == This("notify").x

\* A seeded fault: the sections stay.
ClearModulesOnly == modules_' = {} /\ UNCHANGED sections_

\* A reboot clears the lists, without their locks.
ClearLists == modules_' = {} /\ sections_' = {}

OnExecutionStateChanged ==
  /\ Handling("set state")
  /\ state_' = ID
  /\ IF ID = "rebooting"
     THEN /\ ClearLists
          /\ stale' = stale \cup {l \in {"modules", "sections"} : <<"reboot", l>> \in overtaken}
          /\ overtaken' = Overtake({"modules", "sections"}) \ ({"reboot"} \X List)
          /\ aborted' \in IF \E l \in {"modules", "sections"} : ~Free("notify", l) THEN {"no", "race"} ELSE {"no"}
     ELSE UNCHANGED <<modules_, sections_, stale, overtaken, aborted>>
  /\ IF ID = "stopped"
     THEN Call("notify", <<Do("first stopped"), Do("set active")>> \o Ignoring(FetchMemoryMap))
     ELSE GoOn("notify")
  /\ UNCHANGED <<threads_, active_thread_id_, memory_regions_, timedout, hasty, overlapped, failedattach>>

SetStoppedActive ==
  /\ Doing("notify", "set active") /\ Free("notify", "threads")
  /\ IF got["notify"] = {} THEN UNCHANGED active_thread_id_
     ELSE SetActiveThread(CHOOSE t \in got["notify"] : TRUE)
  /\ got' = [got EXCEPT !["notify"] = NoAnswer] /\ GoOn("notify")
  /\ LocalStep /\ Quiet
  /\ UNCHANGED <<notes, context, attachment, state_, threads_, modules_, sections_, memory_regions_, lock,
                 stale, overtaken>>

OnModuleLoaded ==
  /\ Handling("add module")
  /\ modules_' = modules_ \cup {ID} /\ overtaken' = Overtake({"modules", "sections"})
  /\ GoOn("notify") /\ Quiet
  /\ UNCHANGED <<state_, threads_, active_thread_id_, sections_, memory_regions_, stale>>

OnSectionLoaded ==
  /\ \/ Handling("sectload") /\ sections_' = sections_ \cup {ID}
     \/ Handling("sectunload") /\ sections_' = sections_ \ {ID}
  /\ overtaken' = Overtake({"sections"})
  /\ GoOn("notify") /\ Quiet
  /\ UNCHANGED <<state_, threads_, active_thread_id_, modules_, memory_regions_, stale>>

OnThreadCreated ==
  /\ Handling("create") /\ Free("notify", "threads")
  /\ threads_' = IF ID \in ToSet(threads_) THEN threads_ ELSE Append(threads_, ID)
  /\ overtaken' = Overtake({"threads"})
  /\ GoOn("notify") /\ Quiet
  /\ UNCHANGED <<state_, active_thread_id_, modules_, sections_, memory_regions_, stale>>

OnThreadTerminated ==
  /\ Handling("terminate") /\ Free("notify", "threads")
  /\ threads_' = SelectSeq(threads_, LAMBDA t : t # ID)
  /\ active_thread_id_' = IF active_thread_id_ = ID /\ ID \in ToSet(threads_) THEN 0 ELSE active_thread_id_
  /\ overtaken' = Overtake({"threads"})
  /\ GoOn("notify") /\ Quiet
  /\ UNCHANGED <<state_, modules_, sections_, memory_regions_, stale>>

\* OnBreakpoint: a thread that was created suspended is resumed, if it is known
\* and its suspend count can be fetched.
OnBreakpoint ==
  /\ Handling("break") /\ Free("notify", "threads")
  /\ IF ID \in ToSet(threads_)
     THEN SetActiveThread(ID) /\ Call("notify", <<Do("info"), Step("suspend count", ID, "ignored")>>)
     ELSE UNCHANGED active_thread_id_ /\ GoOn("notify")
  /\ Quiet /\ UNCHANGED <<state_, threads_, modules_, sections_, memory_regions_, stale, overtaken>>

\* A seeded fault: the thread stays suspended.
ResumeCreatedNot ==
  /\ Doing("notify", "suspend count")
  /\ \/ xbox.exec # "rebooting" /\ "notify" \notin xbox.cut /\ UNCHANGED failures
     \/ Refuses("notify")
  /\ Uncut("notify") /\ GoOn("notify")
  /\ Quiet /\ UNCHANGED <<notes, events, context, object, got, tries, lock, users, stale, overtaken>>

ResumeCreated ==
  /\ Doing("notify", "suspend count")
  /\ \/ /\ xbox.exec # "rebooting" /\ "notify" \notin xbox.cut /\ UNCHANGED failures
        /\ IF ID \in xbox.suspended THEN Call("notify", <<With("resume", ID)>>) ELSE GoOn("notify")
     \/ Refuses("notify") /\ GoOn("notify")
  /\ Uncut("notify")
  /\ Quiet /\ UNCHANGED <<notes, events, context, object, got, tries, lock, users, stale, overtaken>>

-----------------------------------------------------------------------------
(* The shell and GDB.                                                      *)

\* Modules and Sections fetch what they do not have, under the lock.
FetchIfNone(a) ==
  /\ \/ Doing(a, "modules?") /\ IF modules_ = {} THEN Call(a, Ignoring(FetchModules(TRUE))) ELSE GoOn(a)
     \/ Doing(a, "sections?") /\ IF sections_ = {} THEN Call(a, Ignoring(FetchModules(TRUE))) ELSE GoOn(a)
  /\ Waiting /\ UNCHANGED <<timedout, hasty>>

Modules == <<Locking("modules"), Do("modules?"), Unlocking("modules")>>
Sections == <<Locking("modules"), Do("sections?"), Locking("sections"), Unlocking("sections"), Unlocking("modules")>>
Launches == {"run", "launch", "launchentry"}

\* Commands about the active thread do nothing without one.
OfActiveThread(steps) == IF ActiveThread = 0 THEN <<>> ELSE steps

CommandSteps(c) ==
  CASE c = "attach" -> Attach
    [] c \in Launches -> Attach \o DebugXBE(c)
    [] c = "detach" -> Shutdown
    [] c = "restart" -> RestartAndAttach
    [] c = "threads" -> FetchThreads
    [] c = "modules" -> Modules
    [] c = "sections" -> Modules \o Sections
    [] c = "haltall" -> HaltAll
    [] c = "continueall" -> <<Do("continue all")>>
    [] c = "go" -> <<Command("go"), Do("continue all")>>
    [] c = "stepfunction" -> IF active_thread_id_ = 0 THEN <<>> ELSE <<Command("stop"), Do("funccall"), Command("go")>>
    [] OTHER -> OfActiveThread(<<With(c, ActiveThread)>>)

Shell ==
  /\ todo["shell"] = <<>> /\ input # <<>> /\ Free("shell", "threads")
  /\ input' = Tail(input)
  /\ LET c == Head(input)
         creates == c \in Launches \cup {"attach"}
     IN  /\ xbdm_debugger_' = (xbdm_debugger_ \/ creates)
         /\ todo' = [todo EXCEPT !["shell"] =
                       IF xbdm_debugger_ \/ creates THEN Append(CommandSteps(c), End(c)) ELSE <<>>]
  /\ ok' = [ok EXCEPT !["shell"] = TRUE] /\ timedout' = FALSE /\ hasty' = FALSE
  /\ UNCHANGED <<target, context, is_attached_, notification_handler_id_, state_, lists, got, tries, lock,
                 session, connects, stale, overtaken, overlapped, failedattach, aborted>>

\* The job of OnGDBClientConnected.
GDBConnects ==
  /\ connects /\ connects' = FALSE
  /\ todo' = [todo EXCEPT !["gdb"] =
                IF ~xbdm_debugger_ THEN <<>>
                ELSE Enter((IF is_attached_ THEN <<>> ELSE Append(Attach, End("attach")))
                             \o (IF session.launches THEN Ignoring(DebugXBE("launch")) ELSE <<>>)
                             \o Append(HaltAll, End("haltall")))]
  /\ tries' = [tries EXCEPT !["gdb"] = session.attempts]
  /\ aborted' = IF xbdm_debugger_ THEN "no" ELSE "null"
  /\ UNCHANGED <<target, context, object, got, ok, lock, session, input, stale, overtaken, timedout, hasty,
                 overlapped, failedattach>>

\* The end of a call: what became of it matters to GDB's job only, which tries
\* again or closes the connection.
Returns(a) ==
  /\ Doing(a, "end")
  /\ LET what == This(a).x
         retried == a = "gdb" /\ ~ok[a] /\ what # "ignored"
     IN  /\ todo' = [todo EXCEPT ![a] =
                       IF ~retried THEN Enter(Tail(@))
                       ELSE IF tries[a] = 1 THEN <<>>
                       ELSE (IF what = "attach" THEN Attach ELSE HaltAll) \o @]
         /\ tries' = [tries EXCEPT ![a] = IF retried THEN @ - 1
                                          ELSE IF what = "attach" THEN session.attempts ELSE @]
  /\ ok' = [ok EXCEPT ![a] = TRUE]
  /\ UNCHANGED <<target, context, object, got, lock, users, history>>

-----------------------------------------------------------------------------
ActorStep(a) ==
  \/ Act(a) \/ Ask(a) \/ Refuse(a)
  \/ StoreThreads(a) \/ StoreModules(a) \/ StoreSections(a) \/ StoreRegions(a)
  \/ TakeLock(a) \/ ReleaseLock(a)
  \/ FindServer(a) \/ StartNotificationListener(a) \/ UnregisterNotificationHandler(a)
  \/ RegisterNotificationHandler(a) \/ SetAttached(a) \/ Delete(a)
  \/ WaitForState(a) \/ WaitForStateTimesOut(a) \/ AwaitThreadCreate(a) \/ DetermineActiveThread(a)
  \/ CloseActiveConnections(a) \/ AnyThreads(a) \/ GetFirstStoppedThread(a) \/ SetHalted(a)
  \/ FetchIfNone(a) \/ Returns(a)

Notified ==
  \/ DispatchNotification \/ OnExecutionStateChanged \/ SetStoppedActive \/ OnModuleLoaded
  \/ OnSectionLoaded \/ OnThreadCreated \/ OnThreadTerminated \/ OnBreakpoint \/ ResumeCreated

Target == Boot \/ TitleLoads \/ TitleCreatesThread \/ ThreadEnds \/ SectionChanges

Program == aborted = "no" /\ (Notified \/ \E a \in Actor : ActorStep(a))

Next == Program \/ (aborted = "no" /\ (Target \/ Shell \/ GDBConnects))

Spec == Init /\ [][Next]_vars

\* A thread of the program that can go on does, unless another does.
Fairness == WF_vars(Program)

FairSpec == Spec /\ Fairness

-----------------------------------------------------------------------------
(* Properties.                                                             *)

Quiescent == notes = <<>> /\ \A a \in Actor : todo[a] = <<>>

\* "Break when the first application thread is created", "Break before the first
\* application thread is created": a launch that returned true, no wait of which
\* timed out, has stopped the title there and asks for no more stops. It does not
\* if a wait ended for a state that was over: the one for the new thread does
\* when the notification that the title started again is still on its way.
LaunchStopsWhereAsked ==
  \A a \in Actor :
    (Doing(a, "end") /\ ok[a] /\ ~timedout /\ ~hasty) =>
      /\ This(a).x = "launch" => xbox.exec = "stopped" /\ xbox.title = "app" /\ ~xbox.stopon
      /\ This(a).x = "launchentry" => xbox.exec = "stopped" /\ xbox.title = "entry"

\* Once nothing is under way, what the debugger knows is what the target has,
\* although lists are fetched by one thread and kept up to date by another. A list
\* may be out of date for these reasons only: the answer that was stored is older
\* than a notification already handled; a notification had no handler, was not
\* sent or was lost with its connection; the list could not be fetched; it was
\* fetched anew before the notification of a reboot that clears it was handled; the
\* target rebooted, which ends threads without a notification.
ListsAreCurrent ==
  (Quiescent /\ xbdm_debugger_ /\ xbox.exec # "rebooting") =>
    /\ "threads" \notin stale => ToSet(threads_) = xbox.alive
    /\ "modules" \notin stale => modules_ = xbox.loaded
    /\ stale \cap {"modules", "sections"} = {} => sections_ = xbox.placed
    /\ "regions" \notin stale => memory_regions_ = Answer("walkmem", {})

\* A thread created suspended because of StopOn does not stay so: OnBreakpoint
\* resumes it, unless a command failed, the thread was dropped from the list, or the
\* notification channel was closed with the other connections after the reboot.
NewThreadsAreResumed ==
  (Quiescent /\ App \in xbox.suspended /\ "suspend" \notin ToSet(session.shell)) =>
    failures > 0 \/ "threads" \in stale \/ xbox.channel = "closed"

\* A debugger that is attached hears of the target, so that GDB, which then does
\* not attach, is told of a stop, and hears it once: one handler at most is
\* registered, the one that Shutdown unregisters, whoever attaches and how often.
\* Except if attaching again failed: the handler is gone and is_attached_ stays; or
\* if the shell and GDB attach at the same time and each registers after both
\* unregistered.
AttachedHears ==
  /\ handlers \subseteq {notification_handler_id_} \/ overlapped
  /\ (is_attached_ /\ ~failedattach /\ \A a \in Actor : todo[a] = <<>>)
       => notification_handler_id_ \in handlers

\* Calls end, though locks are held across commands and waits and the target may
\* never say what is waited for. Each command by itself is taken to be answered or to
\* fail, which XBDMContext shows but for its exceptions (CommandsSettleUnlessStranded);
\* a process that ended because a debugger was destroyed while a call of it was under
\* way counts as an end.
CallsEnd == (\E a \in Actor : todo[a] # <<>>) ~> (aborted # "no" \/ \A a \in Actor : todo[a] = <<>>)
=============================================================================
