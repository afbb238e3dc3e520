------------------------------- MODULE Loader -------------------------------
(***************************************************************************)
(* DynDXTLoader::Loader: how the program gets a command processor of its   *)
(* own into XBDM. It patches DmResumeThread with a small bootstrap (L1),   *)
(* has it allocate memory and run a second one (L2), which registers       *)
(* "ldxt!" commands, puts the function back, and has L2 install the loader *)
(* proper, which registers "ddxt!" commands and is linked to the target    *)
(* here. Everything runs on the shell's thread, but for what the debugger  *)
(* hears of a reboot; the target may refuse a command, do it and have its  *)
(* answer lost, or reboot.                                                 *)
(*                                                                         *)
(* A call is a list of steps. A failure drops the steps up to the next end *)
(* marker, which stands for a destructor, a label or a caller.             *)
(***************************************************************************)
EXTENDS Integers, Sequences, SequencesExt, FiniteSets

CONSTANTS
  Session,  \* what may happen in one run: the lines entered; bounds on failures and
            \* reboots; whether modules move when the target reboots, whether memory is
            \* allocated at the library's ImageBase, how many exports of a module the
            \* library imports, whether it has TLS callbacks, what is loaded before the
            \* program starts
  Slices    \* SetMem commands it takes to write the L1 bootstrap

ASSUME LoaderAssumption ==
  /\ Slices \in Nat \ {0}
  /\ Session \subseteq [input : Seq(STRING), failures : Nat, fatal : Nat, reboots : Nat, moves : BOOLEAN,
                        same : BOOLEAN, imports : Nat, tls : BOOLEAN, loaded : BOOLEAN, running : BOOLEAN]

VARIABLES
  xbox,               \* the target
  session, input, failures,
  xbdm_debugger_,     \* whether it exists, its handler is registered, the boots its threads_
                      \* and the base its modules_ are of, an answer it is about to store
  notes,              \* notifications for the notification executor
  singleton_,         \* <<>>, or <<l>>: the Loader, with what it remembers of the target
  todo, ok,           \* steps left of the call; whether it went well so far
  should_resume,      \* ScopedResume::should_resume
  original_function, l2_entrypoint,
  image,              \* the DXTLibrary: where imports point, the base it is relocated to
  \* history, read by properties only: a write of DmResumeThread failed, or the
  \* stop or the go of ScopedResume did, since the target booted; it booted during a
  \* call; the execution state in which the call found it
  unwritten, unresumed, midway, found

loaderState == <<xbdm_debugger_, singleton_, should_resume, original_function, l2_entrypoint, image>>
call == <<todo, ok>>
outside == <<session, input, failures>>
loaderHistory == <<unwritten, unresumed, midway, found>>

Modules == {"xbdm.dll", "xboxkrnl.exe"}
Unknown == -1
Others == -2  \* modules_ has modules, but not these
NoLoader == <<>>
NewLoader == [bases |-> [m \in Modules |-> Unknown], exports |-> Unknown]
Code == {"original", "L1", "other"}
Original == [i \in 1..Slices |-> "original"]
Elsewhere == [i \in 1..Slices |-> "other"]
NoDebugger == [exists |-> FALSE, handler |-> FALSE, threads |-> Unknown, modules |-> Unknown, got |-> Unknown]
NoImage == [resolved |-> 0, current |-> FALSE, patched |-> FALSE]

\* Where modules are, one number for each place.
BaseOf(boot) == IF session.moves THEN boot ELSE 0
BaseNow == BaseOf(xbox.boot)

\* The title runs if the target is started and its threads are not held. "stray" is
\* the memory where the function was in an earlier boot, if modules moved.
Booted(boot, running, loaded, channel) ==
  [boot |-> boot, execution |-> IF running THEN "started" ELSE "stopped", held |-> FALSE, channel |-> channel,
   fn |-> Original, stray |-> Elsewhere, word |-> "size", l2 |-> FALSE, ldxt |-> FALSE,
   ddxt |-> IF loaded THEN "linked" ELSE "none", tracer |-> loaded]
Runs == xbox.execution = "started" /\ ~xbox.held

LoaderInit ==
  /\ session \in Session /\ input = session.input /\ failures = 0
  /\ xbox = Booted(0, session.running, session.loaded, FALSE)
  /\ xbdm_debugger_ = NoDebugger /\ notes = <<>> /\ singleton_ = NoLoader /\ todo = <<>> /\ ok = TRUE
  /\ should_resume = FALSE /\ original_function = Original /\ l2_entrypoint = FALSE /\ image = NoImage
  /\ unwritten = FALSE /\ unresumed = FALSE /\ midway = FALSE /\ found = xbox.execution

-----------------------------------------------------------------------------
(* Calls.                                                                  *)

\* A step; a command that fails makes the call "return", or is "ignored".
Step(op, x, failed) == [op |-> op, x |-> x, failed |-> failed]
Do(op) == Step(op, 0, "ignored")
Command(op, x) == Step(op, x, "return")
End(what) == Step("end", what, "ignored")

Doing(op) == todo # <<>> /\ Head(todo).op = op
This == Head(todo)
Ending(what) == Doing("end") /\ This.x = what

GoOn == todo' = Tail(todo) /\ UNCHANGED ok
Call(steps) == todo' = steps \o Tail(todo) /\ UNCHANGED ok
FailIn(steps) ==
  LET end == SelectInSeq(steps, LAMBDA s : s.op = "end") IN
  todo' = SubSeq(steps, end, Len(steps)) /\ ok' = FALSE
Fail == FailIn(todo)

\* What follows an end marker: nothing more if the call failed.
Then(steps) == IF ok THEN Call(steps) ELSE FailIn(Tail(todo))

SetMemoryUnsafe(base, code) == [i \in 1..Slices |-> Command("setmem fn", [i |-> i, base |-> base, code |-> code[i]])]

-----------------------------------------------------------------------------
(* ResolveImports and the commands it takes.                               *)

MAXIMUM_SEND_LENGTH == 512
COMMAND_LEN == 7
ADDR_LEN == 13

\* The addresses added to a table until not more than one more would fit.
Fill(room) ==
  CHOOSE k \in 1..room : room - ADDR_LEN * k <= ADDR_LEN /\ room - ADDR_LEN * (k - 1) > ADDR_LEN

\* SplitResolutionTable of n requests for one module: how many go into each command.
\* The room for the module's address is kept in the first one; a command that goes on
\* with the module names it again at no cost. The last one may be empty.
SplitResolutionTable(n) ==
  LET fresh == MAXIMUM_SEND_LENGTH - COMMAND_LEN
      first == Fill(fresh - ADDR_LEN)
      next == Fill(fresh)
  IN  IF n < first THEN <<n>>
      ELSE <<first>> \o [i \in 1..((n - first) \div next) |-> next] \o <<(n - first) % next>>

\* The four exports of xbdm.dll that InjectLoader fetched are not asked for again;
\* the library is taken to import as many others of each module.
BulkResolve(module) ==
  LET tables == SplitResolutionTable(session.imports) IN
  IF session.imports = 0 THEN <<>>
  ELSE [i \in DOMAIN tables |->
          Command("ldxt!r", [module |-> module, count |-> tables[i], continued |-> i > 1])]

ResolveImports(module) == <<Command("base", module)>> \o BulkResolve(module)

-----------------------------------------------------------------------------
(* InjectLoader, InstallL2Loader, InstallDynamicDXTLoader.                 *)

\* XBDMDebugger::FetchThreads and FetchModules: the answer is stored after it came.
\* Modules() holds the lock of modules_ meanwhile.
FetchThreads == <<Command("threads", 0), Do("store threads")>>
FetchModules(locked, failed) == <<Step("modules", locked, failed), Step("store modules", locked, "ignored")>>

\* XBDMDebugger::Attach, once its handler is registered.
XBDMDebuggerAttach ==
  <<Do("notifyat drop"), Command("notifyat", 0), Command("debugger", 0)>>
    \o FetchThreads \o FetchModules(FALSE, "return") \o <<Command("walkmem", 0)>>

L1BootstrapAllocatePool ==
  <<Command("setmem word", "size"), Command("resume", "DmAllocatePoolWithTag"), Command("getdword", 0)>>

InstallL2Loader ==
  L1BootstrapAllocatePool
    \o <<Command("setmem l2", 0), Command("setmem word", "execute"), Command("resume", "l2")>>

InstallDynamicDXTLoader ==
  <<Do("parse")>> \o ResolveImports("xbdm.dll") \o ResolveImports("xboxkrnl.exe")
    \o <<Command("ldxt!a", 0), Do("relocate"), Command("ldxt!i", 0), Do("tls")>>

\* The stop, and the go at the "resume" marker, are ScopedResume's.
InjectLoader ==
  <<Do("attach debugger"), Do("stop"), Do("halt all"), Command("base", "xbdm.dll"),
    Command("base", "xboxkrnl.exe"), Command("exports", 0), Command("getmem fn", 0), Do("patch"),
    End("resume")>>

Bootstrap == <<Do("new"), Do("hello")>>
Load == Bootstrap \o <<Do("need debugger"), Do("read file"), Command("ddxt!load", "user")>>
Install == Bootstrap \o <<Command("ddxt!load", "tracer")>>

LoaderCommand(c) ==
  CASE c = "load_bootstrap" -> Bootstrap
    [] c = "hello" -> Bootstrap \o <<Command("ddxt!hello", 0)>>
    [] c = "load" -> Load
    [] c = "/continueallgo" -> <<Do("need debugger"), Step("go", "user", "return"), Do("continue all")>>

-----------------------------------------------------------------------------
(* The target. A command it can do it does; the loader's bootstraps are    *)
(* external, modelled by what the comments on them say.                    *)

Loader == singleton_[1]
Base == Loader.bases["xbdm.dll"]
DmResumeThread == Loader.exports
AllL1 == \A i \in 1..Slices : xbox.fn[i] = "L1"

\* Whether the target accepts a command.
Accepts(op, x) ==
  CASE op \in {"ldxt!a", "ldxt!i"} -> xbox.ldxt
    [] op = "ldxt!r" -> xbox.ldxt /\ Loader.bases[x.module] = BaseNow
    [] op \in {"ddxt!load", "ddxt!hello"} -> xbox.ddxt # "none"
    [] op = "stop" -> xbox.execution = "started"
    [] op = "resume" -> AllL1 /\ (x = "l2" => xbox.word = "execute" /\ xbox.l2)
                              /\ (x # "l2" => xbox.word = "size")
    [] OTHER -> TRUE

\* What it makes of the target. A write to an address of an earlier boot hits
\* something else. "go" does not release threads that "halt" holds; ContinueAll does,
\* if they are the ones the debugger knows.
Effect(op, x) ==
  CASE op = "setmem fn" /\ x.base = BaseNow -> [xbox EXCEPT !.fn[x.i] = x.code,
                                                            !.word = IF x.i = Slices THEN "size" ELSE @]
    [] op = "setmem fn" /\ x.base # BaseNow -> [xbox EXCEPT !.stray[x.i] = x.code]
    [] op = "setmem word" /\ DmResumeThread = BaseNow ->
         IF xbox.fn[Slices] = "L1" THEN [xbox EXCEPT !.word = x] ELSE [xbox EXCEPT !.fn[Slices] = "other"]
    [] op = "setmem word" /\ DmResumeThread # BaseNow -> [xbox EXCEPT !.stray[Slices] = "word"]
    [] op = "setmem l2" -> [xbox EXCEPT !.l2 = @ \/ l2_entrypoint]
    [] op = "resume" -> IF x = "l2" THEN [xbox EXCEPT !.ldxt = TRUE] ELSE [xbox EXCEPT !.word = "block"]
    [] op = "ldxt!i" -> [xbox EXCEPT !.ddxt = IF image.patched /\ image.current THEN "linked" ELSE "wild"]
    [] op = "ddxt!load" -> [xbox EXCEPT !.tracer = @ \/ x = "tracer"]
    [] op = "stop" -> [xbox EXCEPT !.execution = "stopped"]
    [] op = "halt" -> [xbox EXCEPT !.execution = "stopped", !.held = TRUE]
    [] op = "go" -> [xbox EXCEPT !.execution = "started"]
    [] op = "continue all" -> [xbox EXCEPT !.held = @ /\ xbdm_debugger_.threads # xbox.boot]
    [] op = "notifyat drop" -> [xbox EXCEPT !.channel = FALSE]
    [] op = "notifyat" -> [xbox EXCEPT !.channel = TRUE]
    [] OTHER -> xbox

\* The commands whose answers say no more than that they were done.
Orders == {"setmem fn", "setmem word", "setmem l2", "resume", "halt", "go", "continue all", "notifyat drop",
           "walkmem", "ldxt!a", "ldxt!i", "ddxt!load", "ddxt!hello"}

Failing == failures < session.failures /\ failures' = failures + 1

\* A request that fails on the way there, or on the way back; one that is refused.
Lost ==
  /\ Failing
  /\ UNCHANGED xbox \/ (Accepts(This.op, This.x) /\ xbox' = Effect(This.op, This.x))
Failed == (~Accepts(This.op, This.x) /\ UNCHANGED <<xbox, failures>>) \/ Lost
Done == Accepts(This.op, This.x) /\ xbox' = Effect(This.op, This.x) /\ UNCHANGED failures

Outcome == IF This.failed = "return" THEN Fail ELSE GoOn

\* What a failed write of the function leaves there may be any of its slices.
Order ==
  /\ \E op \in Orders : Doing(op)
  /\ \/ Done /\ GoOn /\ UNCHANGED <<unwritten, unresumed>>
     \/ /\ Failed /\ Outcome
        /\ unwritten' = (unwritten \/ This.op = "setmem fn")
        /\ unresumed' = (unresumed \/ (This.op = "go" /\ This.x # "user"))
  /\ found' = IF This.op = "go" /\ This.x = "user" THEN xbox'.execution ELSE found
  /\ UNCHANGED <<session, input, loaderState, notes, midway>>

\* The target reboots, at any time; commands go on when it is back. It opens its
\* notification channel again and tells of a module and of the title's threads.
Notice(what) == [what |-> what, serial |-> xbox.boot + 1]
Reboot ==
  /\ xbox.boot < session.reboots
  /\ xbox' = Booted(xbox.boot + 1, TRUE, FALSE, xbox.channel)
  /\ \E module \in {"modload system", "modload title"} :
       notes' = IF xbox.channel THEN notes \o <<Notice("rebooting"), Notice(module), Notice("create")>> ELSE notes
  /\ unwritten' = FALSE /\ unresumed' = FALSE /\ midway' = (todo # <<>>) /\ found' = "started"
  /\ UNCHANGED <<outside, loaderState, call>>

\* XBDMDebugger::OnNotification, on the notification executor.
OnExecutionStateChanged ==
  [xbdm_debugger_ EXCEPT !.modules = Unknown]
OnModuleLoaded(system) ==
  [xbdm_debugger_ EXCEPT !.modules = IF system THEN BaseOf(Head(notes).serial)
                                     ELSE IF @ = Unknown THEN Others ELSE @]
OnThreadCreated == [xbdm_debugger_ EXCEPT !.threads = Head(notes).serial]

ModulesLocked == (Doing("modules") \/ Doing("store modules")) /\ This.x

DebuggerNotification ==
  /\ notes # <<>>
  /\ LET what == Head(notes).what IN
     \/ /\ what \in {"rebooting", "modload system", "modload title", "create"} /\ ~xbdm_debugger_.handler
        /\ UNCHANGED xbdm_debugger_
     \/ /\ xbdm_debugger_.handler
        /\ \/ what = "rebooting" /\ xbdm_debugger_' = OnExecutionStateChanged
           \/ what = "modload system" /\ ~ModulesLocked /\ xbdm_debugger_' = OnModuleLoaded(TRUE)
           \/ what = "modload title" /\ ~ModulesLocked /\ xbdm_debugger_' = OnModuleLoaded(FALSE)
           \/ what = "create" /\ xbdm_debugger_' = OnThreadCreated
  /\ notes' = Tail(notes)
  /\ UNCHANGED <<xbox, outside, call, loaderHistory, singleton_, should_resume, original_function, l2_entrypoint,
                 image>>

-----------------------------------------------------------------------------
(* The steps of the loader.                                                *)

LoaderStep == UNCHANGED <<session, input, notes, midway, found>>
Asking == LoaderStep /\ UNCHANGED <<unwritten, unresumed>>

\* Bootstrap: the loader may be running already.
New ==
  /\ Doing("new")
  /\ singleton_' = IF singleton_ = NoLoader THEN <<NewLoader>> ELSE singleton_
  /\ GoOn
  /\ Asking /\ UNCHANGED <<xbox, failures, xbdm_debugger_, should_resume, original_function, l2_entrypoint, image>>

Hello ==
  /\ Doing("hello")
  /\ \/ xbox.ddxt # "none" /\ GoOn /\ UNCHANGED failures
     \/ /\ \/ xbox.ddxt = "none" /\ UNCHANGED failures
           \/ Failing
        /\ Call(Append(InjectLoader, End("bootstrap")))
  /\ Asking /\ UNCHANGED <<xbox, loaderState>>

\* DebuggerXBOXInterface::AttachDebugger and Attach: the debugger stays, whatever
\* becomes of the attempt, so that it is not tried again. The listener may fail to start.
AttachDebugger ==
  /\ Doing("attach debugger")
  /\ IF xbdm_debugger_.exists THEN GoOn /\ UNCHANGED <<xbdm_debugger_, failures>>
     ELSE \/ /\ Call(XBDMDebuggerAttach)
             /\ xbdm_debugger_' = [NoDebugger EXCEPT !.exists = TRUE, !.handler = TRUE] /\ UNCHANGED failures
          \/ Failing /\ Fail /\ xbdm_debugger_' = [NoDebugger EXCEPT !.exists = TRUE]
  /\ Asking /\ UNCHANGED <<xbox, singleton_, should_resume, original_function, l2_entrypoint, image>>

NotifyAt ==
  /\ Doing("notifyat") \/ Doing("debugger")
  /\ \/ Done /\ GoOn /\ UNCHANGED xbdm_debugger_
     \/ Lost /\ Fail /\ xbdm_debugger_' = [xbdm_debugger_ EXCEPT !.handler = FALSE]
  /\ Asking /\ UNCHANGED <<singleton_, should_resume, original_function, l2_entrypoint, image>>

FetchLists ==
  /\ Doing("threads") \/ Doing("modules")
  /\ \/ /\ xbdm_debugger_' = [xbdm_debugger_ EXCEPT !.got = IF Doing("threads") THEN xbox.boot ELSE BaseNow]
        /\ GoOn /\ UNCHANGED failures
     \/ Failing /\ Outcome /\ UNCHANGED xbdm_debugger_
  /\ Asking /\ UNCHANGED <<xbox, singleton_, should_resume, original_function, l2_entrypoint, image>>

StoreLists ==
  /\ Doing("store threads") \/ Doing("store modules")
  /\ LET got == xbdm_debugger_.got IN
     xbdm_debugger_' =
       [xbdm_debugger_ EXCEPT !.got = Unknown,
                              !.threads = IF Doing("store threads") THEN got ELSE @,
                              !.modules = IF Doing("store modules") /\ got # Unknown THEN got ELSE @]
  /\ GoOn
  /\ Asking /\ UNCHANGED <<xbox, failures, singleton_, should_resume, original_function, l2_entrypoint, image>>

\* A debugger that knows no threads halts nothing, and says it did.
HaltAll ==
  /\ Doing("halt all")
  /\ IF xbdm_debugger_.threads # Unknown THEN Call(<<Do("halt")>>) ELSE GoOn
  /\ Asking /\ UNCHANGED <<xbox, failures, loaderState>>

\* ScopedResume: a stop that is refused means that the target was stopped.
ScopedResume ==
  /\ Doing("stop")
  /\ \/ Done /\ should_resume' = TRUE /\ UNCHANGED unresumed
     \/ Failed /\ should_resume' = FALSE /\ unresumed' = (unresumed \/ failures' # failures)
  /\ GoOn
  /\ LoaderStep
  /\ UNCHANGED <<unwritten, xbdm_debugger_, singleton_, original_function, l2_entrypoint, image>>

\* FetchBaseAddress through GetModule: what the debugger has cached, fetched only if
\* it has nothing.
FetchBaseAddress ==
  /\ Doing("base")
  /\ LET m == This.x IN
     \/ Loader.bases[m] # Unknown /\ GoOn /\ UNCHANGED singleton_
     \/ /\ Loader.bases[m] = Unknown /\ xbdm_debugger_.modules \notin {Unknown, Others}
        /\ singleton_' = <<[Loader EXCEPT !.bases[m] = xbdm_debugger_.modules]>> /\ GoOn
     \/ /\ Loader.bases[m] = Unknown /\ xbdm_debugger_.modules = Unknown /\ This.failed = "return"
        /\ Call(Append(FetchModules(TRUE, "ignored"), Step("base", m, "ignored"))) /\ UNCHANGED singleton_
     \/ /\ Loader.bases[m] = Unknown
        /\ xbdm_debugger_.modules = Others \/ (xbdm_debugger_.modules = Unknown /\ This.failed # "return")
        /\ Fail /\ UNCHANGED singleton_
  /\ Asking /\ UNCHANGED <<xbox, failures, xbdm_debugger_, should_resume, original_function, l2_entrypoint, image>>

\* FetchExport of the four functions, each several reads of the export table of the
\* module: at an address of an earlier boot there is none.
FetchExport ==
  /\ Doing("exports")
  /\ IF Loader.exports # Unknown THEN GoOn /\ UNCHANGED <<failures, singleton_>>
     ELSE \/ /\ Base = BaseNow
             /\ singleton_' = <<[Loader EXCEPT !.exports = Base]>> /\ GoOn /\ UNCHANGED failures
          \/ Base # BaseNow /\ Fail /\ UNCHANGED <<failures, singleton_>>
          \/ Failing /\ Fail /\ UNCHANGED singleton_
  /\ Asking /\ UNCHANGED <<xbox, xbdm_debugger_, should_resume, original_function, l2_entrypoint, image>>

GetOriginalFunction ==
  /\ Doing("getmem fn")
  /\ \/ /\ original_function' = IF DmResumeThread = BaseNow THEN xbox.fn ELSE xbox.stray
        /\ GoOn /\ UNCHANGED failures
     \/ Failing /\ Fail /\ UNCHANGED original_function
  /\ Asking /\ UNCHANGED <<xbox, xbdm_debugger_, singleton_, should_resume, l2_entrypoint, image>>

\* InjectLoader, once it has the original: from here on it has to be put back,
\* unless the patch itself fails.
Patch ==
  /\ \/ Doing("patch") /\ Call(Append(SetMemoryUnsafe(DmResumeThread, [i \in 1..Slices |-> "L1"]), Do("l2")))
     \/ Doing("l2") /\ Call(Append(InstallL2Loader, End("cleanup")))
  /\ Asking /\ UNCHANGED <<xbox, failures, loaderState>>

\* L1BootstrapAllocatePool reads what the bootstrap, if it is what ran, left there.
GetDWORD ==
  /\ Doing("getdword")
  /\ \/ l2_entrypoint' = (AllL1 /\ xbox.word = "block") /\ GoOn /\ UNCHANGED failures
     \/ Failing /\ Fail /\ l2_entrypoint' = FALSE
  /\ Asking /\ UNCHANGED <<xbox, xbdm_debugger_, singleton_, should_resume, original_function, image>>

\* A seeded fault: the label is missed when InstallL2Loader fails.
CleanupMissed ==
  /\ Ending("cleanup")
  /\ Then(SetMemoryUnsafe(DmResumeThread, original_function) \o InstallDynamicDXTLoader)
  /\ Asking /\ UNCHANGED <<xbox, failures, loaderState>>

Cleanup ==
  /\ Ending("cleanup")
  /\ todo' = SetMemoryUnsafe(DmResumeThread, original_function)
               \o (IF ok THEN InstallDynamicDXTLoader ELSE <<Do("return false")>>) \o Tail(todo)
  /\ ok' = TRUE
  /\ Asking /\ UNCHANGED <<xbox, failures, loaderState>>

ReturnFalse ==
  /\ Doing("return false") /\ FailIn(Tail(todo))
  /\ Asking /\ UNCHANGED <<xbox, failures, loaderState>>

\* ~ScopedResume
Resume ==
  /\ Ending("resume")
  /\ todo' = (IF should_resume THEN <<Step("go", "guard", "ignored")>> ELSE <<>>)
               \o (IF ok THEN <<>> ELSE <<Do("return false")>>) \o Tail(todo)
  /\ ok' = TRUE /\ should_resume' = FALSE
  /\ Asking /\ UNCHANGED <<xbox, failures, xbdm_debugger_, singleton_, original_function, l2_entrypoint, image>>

\* Bootstrap: a Loader that failed is deleted, with what it remembers.
Bootstrapped ==
  /\ Ending("bootstrap")
  /\ singleton_' = IF ok THEN singleton_ ELSE NoLoader
  /\ Then(<<>>)
  /\ original_function' = Original /\ l2_entrypoint' = FALSE /\ image' = NoImage
  /\ Asking /\ UNCHANGED <<xbox, failures, xbdm_debugger_, should_resume>>

Parse ==
  /\ Doing("parse")
  /\ image' = [NoImage EXCEPT !.current = TRUE]
  /\ GoOn
  /\ Asking /\ UNCHANGED <<xbox, failures, xbdm_debugger_, singleton_, should_resume, original_function, l2_entrypoint>>

\* ResolveExportList: the addresses of one table; the loader on the target reads them
\* from the module it is told of. An address of zero fails the call, as a refusal does.
ResolveExportList ==
  /\ Doing("ldxt!r")
  /\ \/ /\ Done /\ GoOn
        /\ image' = [image EXCEPT !.resolved = @ + This.x.count, !.current = @ /\ Loader.exports = BaseNow]
     \/ Failed /\ Fail /\ UNCHANGED image
  /\ Asking /\ UNCHANGED <<xbdm_debugger_, singleton_, should_resume, original_function, l2_entrypoint>>

\* DXTLibrary::Relocate: a library that need not move is left as it is, imports too.
Relocate ==
  /\ Doing("relocate")
  /\ image' = [image EXCEPT !.patched = ~session.same /\ image.resolved = 2 * session.imports]
  /\ GoOn
  /\ Asking /\ UNCHANGED <<xbox, failures, xbdm_debugger_, singleton_, should_resume, original_function, l2_entrypoint>>

\* The loader is not told of TLS callbacks: a library that has any is refused when it
\* is installed.
RefuseTLS ==
  /\ Doing("tls")
  /\ IF session.tls THEN Fail ELSE GoOn
  /\ Asking /\ UNCHANGED <<xbox, failures, loaderState>>

\* InstallDynDXT from a file needs a debugger, which nothing needs if the loader was
\* running; so does "/continueallgo".
NeedDebugger ==
  /\ Doing("need debugger")
  /\ IF xbdm_debugger_.exists THEN GoOn ELSE Fail
  /\ Asking /\ UNCHANGED <<xbox, failures, loaderState>>

\* The file may not be there, or be empty.
ReadFile ==
  /\ Doing("read file")
  /\ GoOn \/ Fail
  /\ Asking /\ UNCHANGED <<xbox, failures, loaderState>>

\* A command of the shell ends; what it says goes to the user.
CommandEnds ==
  /\ Ending("command")
  /\ todo' = <<>> /\ ok' = TRUE
  /\ Asking /\ UNCHANGED <<xbox, failures, loaderState>>

LoaderNext ==
  \/ Order \/ New \/ Hello \/ AttachDebugger \/ NotifyAt \/ FetchLists \/ StoreLists \/ ScopedResume \/ HaltAll
  \/ FetchBaseAddress \/ FetchExport
  \/ GetOriginalFunction \/ Patch \/ GetDWORD \/ Cleanup \/ ReturnFalse \/ Resume \/ Bootstrapped
  \/ Parse \/ ResolveExportList \/ Relocate \/ RefuseTLS \/ NeedDebugger \/ ReadFile \/ CommandEnds

-----------------------------------------------------------------------------
(* Properties.                                                             *)

\* Whatever a command ran into, the target it leaves is sound. "cleanup:"
\* DmResumeThread, which the debugger needs to resume threads, is what it was, unless
\* a write of it failed since the target booted: a patch that failed half way is not
\* undone, and a restore that failed is taken for the original by the next attempt.
\* Addresses cached from an earlier boot do not harm what is there now either: it is
\* saved and put back, unless a write failed or the target rebooted during the call,
\* which then restores the function of the earlier boot. ScopedResume: the execution
\* state, started or stopped, is what it was, unless the go failed, or the stop did and
\* was taken to mean that the target was stopped, or the target rebooted meanwhile; the
\* threads that HaltAll holds stay held, until the user continues them. What is
\* installed as the loader is linked to where modules are now, unless its memory
\* happened to be at its ImageBase, where Relocate returns before it patches the imports.
TargetIsSound ==
  /\ (todo = <<>> /\ xbox.fn # Original) => unwritten
  /\ (todo = <<>> /\ xbox.stray # Elsewhere) => unwritten \/ midway
  /\ (todo = <<>> /\ xbox.execution # found) => unresumed \/ midway
  /\ xbox.ddxt = "wild" => session.same
=============================================================================
