---------------------------- MODULE Breakpoints ----------------------------
(* Breakpoints as three threads of the bridge see them: the GDB executor    *)
(* (m, Z0, z0, vCont), the notification executor (stops, reboots,           *)
(* conditions) and the shell (break, and whatever reads memory). A memory   *)
(* read and a step take the breakpoints in their way out of the target and  *)
(* put them back; XBDMDebugger keeps in breakpoints_ what should be there.  *)
(* Commands run one after the other, as XBDMContext shows: each is one step *)
(* of the control executor.                                                 *)
EXTENDS Integers, Sequences, FiniteSets, FiniteSetsExt, Functions

CONSTANTS
  Addr,          \* addresses with a breakpoint or a read
  AddressSpace,  \* 2^32 in the code: address arithmetic wraps here
  Lengths,       \* lengths of memory reads
  Condition,     \* conditions: "true" and "false" are what they evaluate to
  Jobs,          \* what each executor may be asked to do
  MaxJobs,       \* bound on the jobs of the GDB executor and of the shell
  MaxEvents,     \* bound on the stops and reboots of the title
  MaxFailures,   \* bound on the commands that fail
  None

Executor == {"gdb", "notification", "shell"}
Note == [type : {"stopped", "rebooting", "step"}, addr : {None}]
          \cup [type : {"break"}, addr : Addr]
Command == [by : Executor \cup {None}, op : {"set", "clear", "clearall", "getmem",
              "stop", "getcontext", "step", "go", "walkmem"}, addr : Addr \cup {None}]

ASSUME BreakpointsAssumption ==
  /\ AddressSpace \in Nat \ {0} /\ Addr \subseteq 0 .. AddressSpace - 1
  /\ None \notin Addr /\ None \notin Executor
  /\ Lengths \subseteq 1 .. AddressSpace
  /\ Condition \subseteq {"true", "false"}
  /\ MaxJobs \in Nat /\ MaxEvents \in Nat /\ MaxFailures \in Nat

VARIABLES
  \* the target: addresses whose first byte is a breakpoint, whether it runs,
  \* where it stands, whether the trap flag is set; what it has reported
  installed, running, eip, trap, notes,
  \* XBDMDebugger
  breakpoints_, breakpoints_lock_, breakpoint_conditions_,
  \* the control executor's queue
  queue,
  \* each executor: where it stands and the locals of its calls
  at, job,
  \* bounds
  jobs, events, failures,
  \* history, read by properties only: addresses the shell set, addresses it
  \* cleared or that could not be set again, addresses that left breakpoints_
  \* while they were still to be restored or, because a reboot was noticed late,
  \* set in the rebooted target, executors whose read or step another command
  \* disturbed
  shellSet, excused, lost, disturbed

target == <<installed, running, eip, trap, notes>>
debugger == <<breakpoints_, breakpoints_lock_, breakpoint_conditions_>>
bounds == <<jobs, events, failures>>
history == <<shellSet, excused, lost, disturbed>>
vars == <<target, debugger, queue, at, job, bounds, history>>

NoJob == [addr |-> None, len |-> 0, overlaps |-> {}, todo |-> {}, ret |-> "idle",
          after |-> "idle", ok |-> TRUE, saw |-> {}, got |-> FALSE, condition |-> None,
          known |-> {}]

Label == {"idle", "wait", "suspend", "read", "bytes", "restore", "recorded", "stopped",
          "context", "trap", "trapped", "stepped", "repost", "evaluate", "handled"}
Job == [addr : Addr \cup {None}, len : 0 .. AddressSpace, overlaps : SUBSET Addr,
        todo : SUBSET Addr, ret : Label, after : Label \cup {"add", "remove"}, ok : BOOLEAN,
        saw : SUBSET Addr, got : BOOLEAN, condition : Condition \cup {None},
        known : SUBSET Addr]

TypeOK ==
  /\ installed \subseteq Addr /\ running \in BOOLEAN /\ eip \in Addr /\ trap \in BOOLEAN
  /\ notes \in Seq(Note) /\ breakpoints_ \subseteq Addr
  /\ breakpoints_lock_ \in Executor \cup {None}
  /\ breakpoint_conditions_ \in [Addr -> Condition \cup {None}]
  /\ queue \in Seq(Command)
  /\ at \in [Executor -> Label] /\ job \in [Executor -> Job]
  /\ jobs \in Nat /\ events \in Nat /\ failures \in Nat
  /\ shellSet \subseteq Addr /\ excused \subseteq Addr /\ lost \subseteq Addr
  /\ disturbed \subseteq Executor

\* GDB has already set some breakpoints
Init ==
  /\ breakpoints_ \in SUBSET Addr /\ breakpoints_lock_ = None
  /\ installed = breakpoints_ /\ running \in BOOLEAN /\ eip \in Addr /\ trap = FALSE
  /\ notes = <<>>
  /\ breakpoint_conditions_ = [a \in Addr |-> None]
  /\ queue = <<>>
  /\ at = [e \in Executor |-> "idle"] /\ job = [e \in Executor |-> NoJob]
  /\ jobs = 0 /\ events = 0 /\ failures = 0
  /\ shellSet = {} /\ excused = {} /\ lost = {} /\ disturbed = {}

-----------------------------------------------------------------------------
(* Calls.                                                                   *)

Goto(e, label) == at' = [at EXCEPT ![e] = label]
Locals(e, r) == job' = [job EXCEPT ![e] = r]

\* XBDMContext::SendCommandSync: e waits and goes on at ret
SendCommandSync(e, op, addr, ret, r) ==
  /\ queue' = Append(queue, [by |-> e, op |-> op, addr |-> addr])
  /\ Goto(e, "wait") /\ Locals(e, [r EXCEPT !.ret = ret])

\* XBDMContext::SendCommand: nobody waits for the answer
SendCommand(op, addr) == [by |-> None, op |-> op, addr |-> addr]

\* The breakpoints at address .. address + length - 1, in 32-bit arithmetic
GetActiveBreakpointsInRange(address, length) ==
  {bp \in breakpoints_ : bp >= address /\ bp < (address + length) % AddressSpace}

\* SuspendBreakpoints: clears one after the other; then e goes on at after
SuspendBreakpoints(e) ==
  /\ at[e] = "suspend"
  /\ IF job[e].todo = {}
     THEN /\ Goto(e, job[e].after) /\ UNCHANGED <<queue, job>>
     ELSE \E bp \in job[e].todo :
            /\ bp = Min(job[e].todo)
            /\ SendCommandSync(e, "clear", bp, "suspend", [job[e] EXCEPT !.todo = @ \ {bp}])
  /\ UNCHANGED <<target, debugger, bounds, history>>

\* A seeded fault: the first breakpoint is not put back.
RestoreBreakpointsButOne(e) ==
  /\ at[e] = "restore"
  /\ LET left == job[e].todo \ {Min(job[e].overlaps)} IN
     IF job[e].todo = {} \/ left = {}
     THEN Goto(e, job[e].after) /\ Locals(e, [job[e] EXCEPT !.overlaps = {}, !.todo = {}])
          /\ UNCHANGED queue
     ELSE SendCommandSync(e, "set", Min(left), "restore", [job[e] EXCEPT !.todo = left \ {Min(left)}])
  /\ UNCHANGED <<target, debugger, bounds, history>>

\* RestoreBreakpoints with wait
RestoreBreakpoints(e) ==
  /\ at[e] = "restore"
  /\ IF job[e].todo = {}
     THEN /\ Goto(e, job[e].after)
          /\ Locals(e, IF job[e].after = "idle" THEN NoJob
                       ELSE [job[e] EXCEPT !.overlaps = {}, !.saw = {}, !.known = {}])
          /\ UNCHANGED queue
     ELSE \E bp \in job[e].todo :
            /\ bp = Min(job[e].todo)
            /\ SendCommandSync(e, "set", bp, "restore", [job[e] EXCEPT !.todo = @ \ {bp}])
  /\ UNCHANGED <<target, debugger, bounds, history>>

\* A seeded fault: the bytes are read before the breakpoints are out.
GetMemoryAtOnce(e, address, length, r) ==
  LET overlaps == GetActiveBreakpointsInRange(address, length) IN
  /\ breakpoints_lock_ = None
  /\ Goto(e, "read")
  /\ Locals(e, [r EXCEPT !.addr = address, !.len = length, !.overlaps = overlaps,
                         !.known = breakpoints_])
  /\ disturbed' = disturbed \ {e}

\* GetMemory: the breakpoints in the range are looked up under the lock, which
\* is not held while they are cleared, the bytes read and they are set again
GetMemory(e, address, length, r) ==
  LET overlaps == GetActiveBreakpointsInRange(address, length) IN
  /\ breakpoints_lock_ = None
  /\ Goto(e, "suspend")
  /\ Locals(e, [r EXCEPT !.addr = address, !.len = length, !.overlaps = overlaps,
                         !.todo = overlaps, !.after = "read", !.known = breakpoints_])
  /\ disturbed' = disturbed \ {e}

ReadRange(e) == {a \in Addr : a >= job[e].addr /\ a < job[e].addr + job[e].len}

ReadBytes(e) ==
  /\ at[e] = "read"
  /\ SendCommandSync(e, "getmem", job[e].addr, "bytes", job[e])
  /\ UNCHANGED <<target, debugger, bounds, history>>

\* The notification executor evaluates a condition with what it read
BytesRead(e) ==
  /\ at[e] = "bytes"
  /\ Goto(e, "restore")
  /\ Locals(e, [job[e] EXCEPT !.todo = job[e].overlaps, !.got = job[e].ok,
                  !.after = IF e = "notification" THEN "evaluate" ELSE "idle"])
  /\ UNCHANGED <<target, debugger, queue, bounds, history>>

-----------------------------------------------------------------------------
(* The title and XBDM: external.                                            *)

Happens == events < MaxEvents /\ events' = events + 1
Stops(at_, more) ==
  /\ running' = FALSE /\ trap' = FALSE /\ eip' = at_
  /\ \/ notes' = notes \o more \o <<[type |-> "stopped", addr |-> None]>>
     \/ notes' = notes \o <<[type |-> "stopped", addr |-> None]>> \o more

\* The title runs into a breakpoint; with the trap flag, only the one it stands on
TitleHits ==
  /\ running /\ Happens
  /\ \E a \in installed :
       (trap => a = eip) /\ Stops(a, <<[type |-> "break", addr |-> a]>>)
  /\ UNCHANGED <<installed, debugger, queue, at, job, jobs, failures,
                 shellSet, excused, lost, disturbed>>

\* The trap flag stops it after one instruction
TitleSteps ==
  /\ running /\ trap /\ eip \notin installed /\ Happens
  /\ \E a \in Addr : Stops(a, <<[type |-> "step", addr |-> None]>>)
  /\ UNCHANGED <<installed, debugger, queue, at, job, jobs, failures,
                 shellSet, excused, lost, disturbed>>

\* Somebody is about to set a again
ToBeRestored(a) ==
  \/ \E e \in Executor : a \in job[e].overlaps
  \/ \E i \in DOMAIN queue : queue[i] = SendCommand("set", a)

\* A reboot forgets the breakpoints of the title
Reboots ==
  /\ Happens
  /\ installed' = {} /\ running' = TRUE /\ trap' = FALSE
  /\ notes' = Append(notes, [type |-> "rebooting", addr |-> None])
  /\ shellSet' = {}
  /\ lost' = {a \in lost : ToBeRestored(a)}
  /\ UNCHANGED <<eip, debugger, queue, at, job, jobs, failures, excused, disturbed>>

\* Whoever waits for command c gets the answer ok, with the bytes or the context
Answer(c, ok) ==
  IF c.by = None THEN UNCHANGED <<at, job>>
  ELSE /\ Goto(c.by, job[c.by].ret)
       /\ Locals(c.by, IF job[c.by].ret \in {"idle", "handled"} THEN NoJob ELSE [job[c.by] EXCEPT !.ok = ok,
            !.saw = IF c.op = "getmem" /\ ok THEN installed \cap ReadRange(c.by) ELSE @,
            !.addr = IF c.op = "getcontext" THEN eip ELSE @])

\* The command fails: the connection is gone or XBDM refuses it
Fails ==
  /\ queue # <<>> /\ failures < MaxFailures /\ failures' = failures + 1
  /\ queue' = Tail(queue)
  /\ LET c == Head(queue) IN
     /\ Answer(c, FALSE)
     /\ excused' = IF c.op = "set" THEN excused \cup {c.addr} ELSE excused
     /\ disturbed' = IF c.op = "clear" THEN disturbed \cup {c.by} ELSE disturbed
  /\ UNCHANGED <<target, debugger, jobs, events, shellSet, lost>>

\* XBDM carries a command out. go to a running title is refused; stop of a
\* stopped one is answered with an error that Stop::IsOK accepts.
Succeeds ==
  /\ queue # <<>> /\ queue' = Tail(queue)
  /\ LET c == Head(queue)
         shell == c.by = "shell" /\ job["shell"].ret = "idle"
         reading(e) == \/ at[e] \in {"suspend", "read"}
                       \/ at[e] = "wait" /\ job[e].ret \in {"suspend", "bytes"}
         stepping(e) == job[e].after = "trap" /\ at[e] # "stepped"
         others == {e \in Executor \ {c.by} :
                      \/ reading(e) /\ c.addr \in ReadRange(e)
                      \/ stepping(e) /\ c.addr \in job[e].overlaps}
     IN /\ Answer(c, c.op = "go" => ~running)
        /\ installed' = CASE c.op = "set" -> installed \cup {c.addr}
                          [] c.op = "clear" -> installed \ {c.addr}
                          [] c.op = "clearall" -> {}
                          [] OTHER -> installed
        /\ running' = CASE c.op = "stop" -> FALSE [] c.op = "go" -> TRUE
                        [] OTHER -> running
        /\ trap' = (c.op = "step" \/ trap)
        /\ notes' = IF c.op = "stop" /\ running
                    THEN Append(notes, [type |-> "stopped", addr |-> None]) ELSE notes
        /\ shellSet' = CASE c.op = "set" /\ shell -> shellSet \cup {c.addr}
                         [] c.op = "clear" -> shellSet \ {c.addr}
                         [] c.op = "clearall" -> {}
                         [] OTHER -> shellSet
        /\ excused' = CASE c.op = "clear" /\ shell -> excused \cup {c.addr}
                        [] c.op = "clearall" -> Addr
                        [] OTHER -> excused
        /\ disturbed' = IF c.op = "set" THEN disturbed \cup others ELSE disturbed
        /\ lost' = IF c.op # "clear" THEN lost
                   ELSE IF ~ToBeRestored(c.addr) THEN lost \ {c.addr}
                   ELSE IF job[c.by].ret = "recorded" THEN lost \cup {c.addr} ELSE lost
  /\ UNCHANGED <<eip, debugger, bounds>>

-----------------------------------------------------------------------------
(* The GDB executor and the shell.                                          *)

Begins(e, what) ==
  /\ at[e] = "idle" /\ what \in Jobs[e] /\ jobs < MaxJobs /\ jobs' = jobs + 1

\* HandleReadMemory of the bridge; disassemble, tracer and expressions of the shell
HandleReadMemory(e) ==
  /\ Begins(e, "read")
  /\ \E a \in Addr, n \in Lengths : GetMemory(e, a, n, NoJob)
  /\ UNCHANGED <<target, debugger, queue, events, failures, shellSet, excused, lost>>

\* AddBreakpoint ("add") and RemoveBreakpoint ("remove") hold the lock while the
\* command is sent
EditBreakpoint(e) ==
  /\ \E a \in Addr, what \in {"add", "remove"} :
       /\ Begins(e, what)
       /\ breakpoints_lock_ = None /\ breakpoints_lock_' = e
       /\ SendCommandSync(e, IF what = "add" THEN "set" ELSE "clear", a, "recorded",
                          [NoJob EXCEPT !.addr = a, !.after = what])
  /\ UNCHANGED <<target, breakpoints_, breakpoint_conditions_, events, failures, history>>

\* A seeded fault: a removal that fails is recorded all the same.
RecordBreakpointAnyway(e) ==
  /\ at[e] = "recorded"
  /\ Goto(e, "idle") /\ Locals(e, NoJob)
  /\ breakpoints_lock_' = None
  /\ breakpoints_' = IF job[e].after = "add" THEN breakpoints_ \cup {job[e].addr}
                     ELSE breakpoints_ \ {job[e].addr}
  /\ UNCHANGED <<target, breakpoint_conditions_, queue, bounds, history>>

\* Z0 and z0 answer OK whatever the two return
RecordBreakpoint(e) ==
  /\ at[e] = "recorded"
  /\ Goto(e, "idle") /\ Locals(e, NoJob)
  /\ breakpoints_lock_' = None
  /\ breakpoints_' = IF ~job[e].ok THEN breakpoints_
                     ELSE IF job[e].after = "add" THEN breakpoints_ \cup {job[e].addr}
                     ELSE breakpoints_ \ {job[e].addr}
  /\ UNCHANGED <<target, breakpoint_conditions_, queue, bounds, history>>

\* StepInstruction: stop, find out where the thread stands, ...
StepInstruction(e) ==
  /\ Begins(e, "step") /\ SendCommandSync(e, "stop", None, "stopped", NoJob)
  /\ UNCHANGED <<target, debugger, events, failures, history>>

StepFetchesContext(e) ==
  /\ at[e] = "stopped"
  /\ IF job[e].ok THEN SendCommandSync(e, "getcontext", None, "context", job[e])
     ELSE Goto(e, "idle") /\ Locals(e, NoJob) /\ UNCHANGED queue
  /\ UNCHANGED <<target, debugger, bounds, history>>

\* A seeded fault: the trap flag is set while the breakpoint is still in.
StepSuspendsLate(e) ==
  /\ at[e] = "context"
  /\ IF job[e].ok
     THEN LET overlaps == GetActiveBreakpointsInRange(job[e].addr, 1) IN
          /\ breakpoints_lock_ = None /\ Goto(e, "trap")
          /\ Locals(e, [job[e] EXCEPT !.overlaps = overlaps, !.todo = {},
                                      !.after = "trap", !.known = breakpoints_])
          /\ disturbed' = disturbed \ {e}
     ELSE Goto(e, "idle") /\ Locals(e, NoJob) /\ UNCHANGED disturbed
  /\ UNCHANGED <<target, debugger, queue, bounds, shellSet, excused, lost>>

\* ... take the breakpoint there out, ...
StepSuspends(e) ==
  /\ at[e] = "context"
  /\ IF job[e].ok
     THEN LET overlaps == GetActiveBreakpointsInRange(job[e].addr, 1) IN
          /\ breakpoints_lock_ = None /\ Goto(e, "suspend")
          /\ Locals(e, [job[e] EXCEPT !.overlaps = overlaps, !.todo = overlaps,
                                      !.after = "trap", !.known = breakpoints_])
          /\ disturbed' = disturbed \ {e}
     ELSE Goto(e, "idle") /\ Locals(e, NoJob) /\ UNCHANGED disturbed
  /\ UNCHANGED <<target, debugger, queue, bounds, shellSet, excused, lost>>

\* ... set the trap flag and continue the thread, ...
StepSetsTrap(e) ==
  /\ at[e] = "trap" /\ SendCommandSync(e, "step", None, "trapped", job[e])
  /\ UNCHANGED <<target, debugger, bounds, history>>

StepFails(e) ==
  /\ Goto(e, "restore") /\ UNCHANGED queue
  /\ Locals(e, [job[e] EXCEPT !.todo = job[e].overlaps, !.after = "idle"])

\* ... and go. What fails from here on puts the breakpoint back;
StepGoes(e) ==
  /\ at[e] = "trapped"
  /\ IF job[e].ok THEN SendCommandSync(e, "go", None, "stepped", job[e]) ELSE StepFails(e)
  /\ UNCHANGED <<target, debugger, bounds, history>>

\* a success leaves that to the notification of the next stop
StepReturns(e) ==
  /\ at[e] = "stepped"
  /\ IF job[e].ok THEN Goto(e, "idle") /\ Locals(e, NoJob) /\ UNCHANGED queue
     ELSE StepFails(e)
  /\ UNCHANGED <<target, debugger, bounds, history>>

\* vCont;c: Go
Continue(e) ==
  /\ Begins(e, "go") /\ SendCommandSync(e, "go", None, "idle", NoJob)
  /\ UNCHANGED <<target, debugger, events, failures, history>>

SetBreakpointCondition(address, condition) ==
  [breakpoint_conditions_ EXCEPT ![address] = IF condition = "empty" THEN None ELSE condition]

\* break [-]addr <a> [if <condition>]: the condition first, then the command,
\* which breakpoints_ never hears of
CommandBreakAddress(e) ==
  \E a \in Addr, op \in {"set", "clear"}, condition \in Condition \cup {"empty", None} :
    /\ Begins(e, "break")
    /\ breakpoint_conditions_' =
         CASE op = "clear" -> SetBreakpointCondition(a, "empty")
           [] op = "set" /\ condition # None -> SetBreakpointCondition(a, condition)
           [] OTHER -> breakpoint_conditions_
    /\ SendCommandSync(e, op, a, "idle", NoJob)
    /\ UNCHANGED <<target, breakpoints_, breakpoints_lock_, events, failures, history>>

\* break clearall: only the target's breakpoints
CommandBreakClearAll(e) ==
  /\ Begins(e, "break") /\ SendCommandSync(e, "clearall", None, "idle", NoJob)
  /\ UNCHANGED <<target, debugger, events, failures, history>>

-----------------------------------------------------------------------------
(* The notification executor.                                               *)

Handles(type) ==
  at["notification"] = "idle" /\ notes # <<>> /\ Head(notes).type = type
Handled == notes' = Tail(notes)

\* OnExecutionStateChanged, rebooting: breakpoints_ is cleared, under its lock
OnRebooting ==
  /\ Handles("rebooting") /\ Handled
  /\ breakpoints_lock_ = None /\ breakpoints_' = {}
  /\ lost' = lost \cup {a \in breakpoints_ : ToBeRestored(a) \/ a \in installed}
  /\ UNCHANGED <<installed, running, eip, trap, breakpoints_lock_, breakpoint_conditions_,
                 queue, at, job, bounds, shellSet, excused, disturbed>>

\* OnExecutionStateChanged, stopped: the list is copied under the lock, ...
OnStopped ==
  /\ Handles("stopped") /\ breakpoints_lock_ = None
  /\ Goto("notification", "repost")
  /\ Locals("notification", [NoJob EXCEPT !.overlaps = breakpoints_])
  /\ UNCHANGED <<target, debugger, queue, bounds, history>>

\* The one sequence of the elements of a std::set
Ascending(S) ==
  {s \in Surjection(1 .. Cardinality(S), S) : \A i, j \in DOMAIN s : i < j => s[i] < s[j]}

\* ... the breakpoints are set without waiting for the answers, and the memory
\* map is fetched, which waits
RepostBreakpoints ==
  /\ at["notification"] = "repost"
  /\ \E bps \in Ascending(job["notification"].overlaps) :
       queue' = queue \o [i \in DOMAIN bps |-> SendCommand("set", bps[i])]
                      \o <<[by |-> "notification", op |-> "walkmem", addr |-> None]>>
  /\ Goto("notification", "wait")
  /\ Locals("notification", [NoJob EXCEPT !.ret = "handled"])
  /\ UNCHANGED <<target, debugger, bounds, history>>

\* OnBreakpoint: without a condition, or when it cannot be evaluated, the title
\* stays stopped; evaluating reads memory
OnBreakpoint ==
  /\ Handles("break")
  /\ LET condition == breakpoint_conditions_[Head(notes).addr] IN
     IF condition = None
     THEN Goto("notification", "handled") /\ UNCHANGED <<job, disturbed>>
     ELSE \E a \in Addr : GetMemory("notification", a, 1, [NoJob EXCEPT !.condition = condition])
  /\ UNCHANGED <<target, debugger, queue, bounds, shellSet, excused, lost>>

\* A false condition lets the title go
Evaluate ==
  /\ at["notification"] = "evaluate"
  /\ IF job["notification"].got /\ job["notification"].condition = "false"
     THEN SendCommandSync("notification", "go", None, "handled", NoJob)
     ELSE Goto("notification", "handled") /\ Locals("notification", NoJob) /\ UNCHANGED queue
  /\ UNCHANGED <<target, debugger, bounds, history>>

OnSingleStep ==
  /\ Handles("step") /\ Goto("notification", "handled")
  /\ UNCHANGED <<target, debugger, queue, job, bounds, history>>

NotificationDone ==
  /\ at["notification"] = "handled" /\ Handled /\ Goto("notification", "idle")
  /\ UNCHANGED <<installed, running, eip, trap, debugger, queue, job, bounds, history>>

-----------------------------------------------------------------------------
Title == TitleHits \/ TitleSteps \/ Reboots
ControlExecutor == Succeeds \/ Fails
Serves(e) ==
  \/ SuspendBreakpoints(e) \/ RestoreBreakpoints(e) \/ ReadBytes(e) \/ BytesRead(e)
  \/ RecordBreakpoint(e) \/ StepFetchesContext(e) \/ StepSuspends(e) \/ StepSetsTrap(e)
  \/ StepGoes(e) \/ StepReturns(e)
Asked(e) ==
  \/ HandleReadMemory(e) \/ EditBreakpoint(e) \/ StepInstruction(e) \/ Continue(e)
Break == CommandBreakAddress("shell") \/ CommandBreakClearAll("shell")
NotificationExecutor ==
  \/ OnRebooting \/ OnStopped \/ RepostBreakpoints \/ OnBreakpoint \/ Evaluate
  \/ OnSingleStep \/ NotificationDone

Next ==
  \/ Title \/ ControlExecutor \/ NotificationExecutor
  \/ \E e \in Executor : Serves(e)
  \/ Break \/ \E e \in {"gdb", "shell"} : Asked(e)

Spec == Init /\ [][Next]_vars

-----------------------------------------------------------------------------
(* Properties.                                                              *)

\* What the getmem of GetMemory returns shows none of the breakpoints that were
\* in breakpoints_ when GetMemory looked, unless one of its clears failed or
\* another thread set one of them again in between: GetMemory holds no lock
\* across its commands, so the stop notification and the reads of the other
\* threads can. A range that ends at the top of the address space is left out:
\* its end wraps to 0.
ReadsAreTransparentUnlessDisturbed ==
  \A e \in Executor :
    at[e] = "bytes" /\ job[e].addr + job[e].len < AddressSpace =>
      job[e].saw \cap job[e].known = {} \/ e \in disturbed

\* "The breakpoint must be removed until the state changes to stopped", says the
\* test of StepInstruction: the go that lets the thread take its one step finds
\* the breakpoint it stands on taken out, unless its clear failed or another
\* thread set it again in between, as the notification of the stop that
\* StepInstruction itself asked for does when it is handled late.
StepsOverUnlessDisturbed ==
  [][\A e \in Executor :
       /\ at[e] = "wait" /\ job[e].ret = "stepped"
       /\ at'[e] = "stepped" /\ job'[e].ok
       /\ job[e].addr = eip /\ eip + 1 < AddressSpace
       => eip \notin installed \cap job[e].known \/ e \in disturbed]_vars

Quiet ==
  queue = <<>> /\ notes = <<>> /\ \A e \in Executor : at[e] = "idle"

\* When nothing is under way and the title is stopped, every address in
\* breakpoints_ has its breakpoint: what reads and steps take out they, or the
\* notification of the stop after the step, put back. Not if setting it again
\* failed or the shell's break cleared it.
RecordedAreInstalled ==
  Quiet /\ ~running => breakpoints_ \ excused \subseteq installed

\* When nothing is under way, the title has no breakpoint that neither
\* breakpoints_ nor the shell's break accounts for. Two races are excepted:
\* RemoveBreakpoint, or the notification of a reboot, took the address off the list
\* while another thread was to restore it; or that notification was handled so late
\* that it took off the list a breakpoint set since in the rebooted target. The
\* exception ends when the breakpoint is cleared, or the target reboots, for good.
NoOrphansUnlessRaced ==
  Quiet => installed \subseteq breakpoints_ \cup shellSet \cup lost
=============================================================================
