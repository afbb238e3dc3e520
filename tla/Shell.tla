------------------------------- MODULE Shell -------------------------------
(* The interactive shell (shell/shell.cpp, shell/commands.cpp,               *)
(* shell/dyndxt_commands.cpp) over one connection: a line is entered, its    *)
(* command builds a request, the target answers with a stream of bytes that  *)
(* arrives cut anywhere, and OnBytesRead parses it (rdcp/rdcp_response.cpp,  *)
(* rdcp/xbdm_transport.cpp). Commands of the debugger, the loader, the       *)
(* tracer, breakpoints and file transfer have modules of their own.          *)
EXTENDS XBDMRequests

CONSTANTS
  Script,         \* a sequence of sets of lines [command, args] the user may enter
  OtherRequests,  \* requests other parts of the program send, in place of a first line
  IntOf,          \* the numbers that words denote, a function
  XFATOf,         \* the paths written the other way, as EnsureXFATStylePath rewrites them
  DriveRoot,      \* the names of drives, to the paths of their roots
  DXTCommands     \* commands of processors loaded by the user: they answer as they like

ASSUME ScriptAssumption == Script # <<>> /\ \A i \in DOMAIN Script : Script[i] # {}

VARIABLES
  entered,       \* lines entered so far
  line,          \* the line being processed, after "!" is replaced
  last_command,  \* last_command_: <<>> or <<line>>
  waiting,       \* request_queue_: <<>> or the request sent
  outcome,       \* "running", "exited" or "aborted"
  stream,        \* bytes of the target on their way
  buffer,        \* read_buffer_ of the connection
  listening,     \* notification_server_->IsConnected()
  handler,       \* debug_notification_handler_id_ > 0
  target,        \* the target: what it is at, what it knows of this debugger
  answer,        \* history: the answer the target gave to the last request
  got,           \* history: the response the last request completed with
  missized       \* history: some answer was longer or shorter than the request expected

shell == <<entered, line, last_command>>
notification == <<listening, handler>>
vars == <<shell, waiting, outcome, stream, buffer, notification, target, answer, got, missized>>

-----------------------------------------------------------------------------
(* RDCPResponse::Parse. A byte is a token, but for the three digits of a     *)
(* status and the four bytes of a size.                                      *)

Byte(c) == [t |-> c, v |-> 0]
Code(status) == [t |-> "code", v |-> status]
Size(n) == [t |-> "size", v |-> n]
Text(word) == [t |-> word, v |-> 0]
Width(token) == CASE token.t = "code" -> 3 [] token.t = "size" -> 4 [] OTHER -> 1
Bytes(s) == FoldLeft(LAMBDA n, token : n + Width(token), 0, s)

kTerminator == <<Byte("CR"), Byte("LF")>>
kMultilineTerminator == <<Byte("CR"), Byte("LF"), Byte("."), Byte("CR"), Byte("LF")>>

\* std::search: the first place of the pattern at or after from, 0 for none
Search(s, from, pattern) ==
  LET hits == {i \in from .. Len(s) + 1 - Len(pattern) : SubSeq(s, i, i + Len(pattern) - 1) = pattern}
  IN IF hits = {} THEN 0 ELSE Min(hits)

Response(status, data) == [status |-> status, data |-> data]
Incomplete == [consumed |-> 0, response |-> <<>>]
Parsed(consumed, status, data) == [consumed |-> consumed, response |-> <<Response(status, data)>>]

\* The fault: the body ends at the first line
ParseFirstLine(s, body, status) ==
  LET terminator == Search(s, body, kMultilineTerminator)
      first == Search(s, body, kTerminator)
  IN IF terminator = 0 THEN Incomplete
     ELSE Parsed(terminator + Len(kMultilineTerminator) - 1, status, SubSeq(s, body, first - 1))

ParseMultilineResponse(s, body, status) ==
  LET terminator == Search(s, body, kMultilineTerminator)
  IN IF terminator = 0 THEN Incomplete
     ELSE Parsed(terminator + Len(kMultilineTerminator) - 1, status, SubSeq(s, body, terminator - 1))

ParseBinaryResponse(s, body, status, parser) ==
  LET available == SubSeq(s, body, Len(s))
      lineend == Search(available, 1, kTerminator)
      sized == CASE parser.kind = "none" -> FALSE
                 [] parser.kind = "fixed" -> TRUE
                 [] parser.kind = "prefix" -> Bytes(available) >= 4
                 [] OTHER -> Bytes(available) >= 4 /\ lineend # 0
      size == IF parser.kind = "fixed" THEN parser.n ELSE available[1].v
      consumed == CASE parser.kind = "fixed" -> 0
                    [] parser.kind = "prefix" -> 1
                    [] OTHER -> lineend + Len(kTerminator) - 1
  IN IF ~sized THEN Incomplete
     ELSE IF Len(available) - consumed < size THEN Incomplete
     ELSE Parsed(body - 1 + consumed + size, status, SubSeq(available, consumed + 1, consumed + size))

\* The fault: an empty answer of several lines is not looked for
NeverEmpty(s, terminator) == FALSE

\* Empty multiline responses use the message terminator as part of theirs
IsEmptyMultiline(s, terminator) ==
  Search(s, terminator, kMultilineTerminator) = terminator

Parse(s, parser) ==
  LET terminator == Search(s, 1, kTerminator)
      packet_size == terminator + Len(kTerminator) - 1
      delimited == \E i \in 1 .. terminator : s[i] = Byte("-") /\ Bytes(SubSeq(s, 1, i - 1)) = 3
      status == IF s[1].t = "code" THEN s[1].v ELSE 0
  IN IF Bytes(s) < 4 \/ terminator = 0 THEN Incomplete
     ELSE IF Bytes(SubSeq(s, 1, packet_size)) < 4 \/ ~delimited
     THEN [consumed |-> packet_size, response |-> <<>>]
     ELSE CASE status = OK_MULTILINE_RESPONSE ->
                 IF IsEmptyMultiline(s, terminator)
                 THEN Parsed(terminator + Len(kMultilineTerminator) - 1, status, <<>>)
                 ELSE ParseMultilineResponse(s, packet_size + 1, status)
            [] status = OK_BINARY_RESPONSE -> ParseBinaryResponse(s, packet_size + 1, status, parser)
            [] OTHER -> Parsed(packet_size, status, SubSeq(s, 3, terminator - 1))

-----------------------------------------------------------------------------
(* ArgParser: arguments are words *)

EnsureXFATStylePath(path) == IF path \in DOMAIN XFATOf THEN XFATOf[path] ELSE path

ArgExists(args, words) == \E i \in DOMAIN args : args[i] \in words

\* Parse(i, ret) finds a number, or a word
ParsesInt(args, i) == i \in DOMAIN args /\ args[i] \in DOMAIN IntOf
ParsesString(args, i) == i \in DOMAIN args

\* The command goes on with the argument, or prints its usage
WithInt(args, i, Then(_)) == IF ParsesInt(args, i) THEN Then(IntOf[args[i]]) ELSE Message
WithString(args, i, Then(_)) == IF ParsesString(args, i) THEN Then(args[i]) ELSE Message
WithPath(args, i, Then(_)) == WithString(args, i, LAMBDA path : Then(EnsureXFATStylePath(path)))
ParseBool(args, i) == i \in DOMAIN args /\ args[i] \in {"t", "true", "y", "yes", "on", "1"}

\* ExtractSubcommand(depth)->FlattenArgs(): the words after the first depth
Rest(args, depth) == [i \in 1 .. Len(args) - depth |-> <<args[depth + i]>>]

-----------------------------------------------------------------------------
(* The commands *)

CommandContinue(args) == WithInt(args, 1, LAMBDA thread_id : Sending(Continue(thread_id, ParseBool(args, 2))))
CommandDebugOptions(args) ==
  Sending(IF args = <<>> THEN GetDebugOptions
          ELSE SetDebugOptions(ArgExists(args, {"c", "crashdump"}), ArgExists(args, {"d", "dpctrace"})))
\* What "disable" says is passed on as connect
CommandDebugger(args) == Sending(Debugger(ArgExists(args, {"d", "disable", "off"})))
CommandDedicate(args) == Sending(Dedicate(IF args = <<>> THEN "" ELSE args[1]))
CommandDirList(args) ==
  WithPath(args, 1, LAMBDA path : Sending(DirList(IF path \in DOMAIN DriveRoot THEN DriveRoot[path] ELSE path)))
CommandDriveFreeSpace(args) == WithString(args, 1, LAMBDA drive : Sending(DriveFreeSpace(drive)))
CommandGetChecksum(args) ==
  WithInt(args, 1, LAMBDA address : WithInt(args, 2, LAMBDA length : WithInt(args, 3, LAMBDA block_size :
    IF \E n \in {address, length, block_size} : n % 8 # 0 THEN Message
    ELSE GetChecksum(address, length, block_size))))
CommandGetContext(args) ==
  WithInt(args, 1, LAMBDA thread_id :
    LET given(words) == Len(args) > 1 => ArgExists(args, words)
    IN GetContext(thread_id, given({"control", "c"}), given({"integer", "int", "i"}), given({"float", "fp", "f"})))
CommandGetExtContext(args) == WithInt(args, 1, LAMBDA thread_id : Sending(GetExtContext(thread_id)))
CommandGetFileAttributes(args) == WithPath(args, 1, LAMBDA path : Sending(GetFileAttributes(path)))
CommandGetMem(args) ==
  WithInt(args, 1, LAMBDA address : WithInt(args, 2, LAMBDA size :
    LET render_mode == IF Len(args) > 2 THEN args[3] ELSE "b"
    IN IF render_mode \in {"b", "byte", "w", "word", "d", "dword"}
          \/ (render_mode \in {"bin", "binary"} /\ Len(args) > 3)
       THEN Sending(GetMemBinary(address, size)) ELSE Message))
CommandHalt(args) ==
  IF args # <<>> /\ args[1] \in DOMAIN IntOf THEN Sending(Halt(IntOf[args[1]])) ELSE Sending(HaltAll)
CommandIsBreak(args) == WithInt(args, 1, LAMBDA address : Sending(IsBreak(address)))
CommandIsStopped(args) == WithInt(args, 1, LAMBDA thread_id : Sending(IsStopped(thread_id)))
CommandMagicBoot(args) ==
  WithPath(args, 1, LAMBDA path :
    Sending(MagicBoot(path, ~ArgExists(args, {"nodebug"}), ArgExists(args, {"cold"}))))
CommandMakeDirectory(args) == WithPath(args, 1, LAMBDA path : Sending(Mkdir(path)))
CommandModuleSections(args) == WithString(args, 1, LAMBDA name : Sending(ModSections(name)))
CommandModuleLongName(args) == WithString(args, 1, LAMBDA name : Sending(ModLongName(name)))
StopEvents(args) ==
  LET given == {e \in {"debugstr", "createthread", "stacktrace"} : ArgExists(args, {e})}
                 \union (IF ArgExists(args, {"fce", "exception"}) THEN {"fce"} ELSE {})
  IN IF given = {} THEN {"all"} ELSE given
CommandNoStopOn(args) == Sending(NoStopOn(StopEvents(args)))
CommandStopOn(args) == Sending(StopOn(StopEvents(args)))
CommandNotifyAt(args) ==
  WithInt(args, 1, LAMBDA port :
    IF port < 1024 \/ port > 65535 \/ listening THEN Message
    ELSE Sending(NotifyAt(port, ArgExists(args, {"drop"}), ArgExists(args, {"debug"}))))
CommandQueryPerfCounters(args) ==
  WithString(args, 1, LAMBDA name : Sending(QueryPerformanceCounter(name,
    IF Len(args) > 1 /\ args[2] \in DOMAIN IntOf THEN <<IntOf[args[2]]>> ELSE <<>>)))
CommandRename(args) ==
  WithPath(args, 1, LAMBDA path : WithPath(args, 2, LAMBDA new_path : Sending(Rename(path, new_path))))
CommandReboot(args) == Sending(Reboot({f \in {"wait", "warm", "nodebug", "stop"} : ArgExists(args, {f})}))
CommandResume(args) == WithInt(args, 1, LAMBDA thread_id : Sending(Resume(thread_id)))
CommandSuspend(args) == WithInt(args, 1, LAMBDA thread_id : Sending(Suspend(thread_id)))
\* A word of data is two digits
CommandSetMem(args) ==
  WithInt(args, 1, LAMBDA address :
    IF Len(args) < 2 THEN Message ELSE SetMem(address, 2 * (Len(args) - 1)))
CommandThreadInfo(args) == WithInt(args, 1, LAMBDA thread_id : Sending(ThreadInfo(thread_id)))
CommandXBEInfo(args) ==
  IF args = <<>> THEN Sending(XBEInfoRunning)
  ELSE Sending(XBEInfo(EnsureXFATStylePath(args[1]), ArgExists(args, {"disk_only", "true"}), ""))

DynDXTCommandInvokeSimple(args) == WithString(args, 1, LAMBDA command : Sending(InvokeSimple(command, Rest(args, 1))))
DynDXTCommandInvokeMultiline(args) ==
  WithString(args, 1, LAMBDA command : Sending(InvokeMultiline(command, Rest(args, 1))))
\* A file that can be opened has one byte
DynDXTCommandInvokeSendBinary(args) ==
  WithString(args, 1, LAMBDA command : WithString(args, 2, LAMBDA path :
    IF path = "unreadable" THEN Message ELSE Sending(InvokeSendBinary(command, 1, Rest(args, 2)))))
DynDXTCommandInvokeReceiveSizePrefixedBinary(args) ==
  WithString(args, 1, LAMBDA command : WithString(args, 2, LAMBDA path :
    Sending(InvokeReceiveSizePrefixedBinary(command, Rest(args, 2)))))
DynDXTCommandInvokeReceiveKnownSizedBinary(args) ==
  WithString(args, 1, LAMBDA command : WithString(args, 2, LAMBDA path : WithInt(args, 3, LAMBDA size :
    Sending(InvokeReceiveKnownSizedBinary(command, size, Rest(args, 3))))))

\* The commands that send their request without looking at their arguments
CommandAltAddr == Sending(AltAddr)
CommandBye == Sending(Bye)
CommandDebugMonitorVersion == Sending(DebugMonitorVersion)
CommandEnablePerfCounters == Sending(EnableGPUCounter(TRUE))
CommandDisablePerfCounters == Sending(EnableGPUCounter(FALSE))
CommandDriveList == Sending(DriveList)
CommandGetProcessID == Sending(GetProcessID)
CommandGetUtilityDriveInfo == Sending(GetUtilityDriveInfo)
CommandGo == Sending(Go)
CommandIsDebugger == Sending(IsDebugger)
CommandListPerfCounters == Sending(PerformanceCounterList)
CommandMemoryMap == Sending(MemoryMapGlobal)
CommandModules == Sending(Modules)
CommandScreenshot == Sending(Screenshot)
CommandStop == Sending(Stop)
CommandThreads == Sending(Threads)
CommandWalkMem == Sending(WalkMem)
CommandXTLInfo == Sending(XTLInfo)

\* commands_: the aliases, then the table; help and ? never reach it, and ! is
\* registered with no handler
Aliases ==
  LET of(command, aliases) == [alias \in aliases |-> command]
  IN of("quit", {"exit"}) @@ of("@simple", {"@"}) @@ of("@multiline", {"@m"}) @@ of("@sendbin", {"@sb"})
     @@ of("@recvbin", {"@rbin"}) @@ of("@recvbytes", {"@rby", "@rbytes"})
     @@ of("disableperfcounters", {"disablepc", "pcdisable", "pcoff"})
     @@ of("enableperfcounters", {"enablepc", "pcenable", "pcon"})
     @@ of("listperfcounters", {"pclist", "listpc"}) @@ of("memorymap", {"mem_map"})
     @@ of("modlong", {"modpath"}) @@ of("queryperfcounters", {"pcquery", "querypc", "qpc"})
     @@ of("walkmem", {"memwalk"})

Commands(command, args) ==
  CASE command = "altaddr" -> CommandAltAddr
    [] command = "bye" -> CommandBye
    [] command = "dmversion" -> CommandDebugMonitorVersion
    [] command = "enableperfcounters" -> CommandEnablePerfCounters
    [] command = "disableperfcounters" -> CommandDisablePerfCounters
    [] command = "drivelist" -> CommandDriveList
    [] command = "getpid" -> CommandGetProcessID
    [] command = "getutilitydriveinfo" -> CommandGetUtilityDriveInfo
    [] command = "go" -> CommandGo
    [] command = "isdebugger" -> CommandIsDebugger
    [] command = "listperfcounters" -> CommandListPerfCounters
    [] command = "memorymap" -> CommandMemoryMap
    [] command = "modules" -> CommandModules
    [] command = "screenshot" -> CommandScreenshot
    [] command = "stop" -> CommandStop
    [] command = "threads" -> CommandThreads
    [] command = "walkmem" -> CommandWalkMem
    [] command = "xtlinfo" -> CommandXTLInfo
    [] command = "continue" -> CommandContinue(args)
    [] command = "debugoptions" -> CommandDebugOptions(args)
    [] command = "debugger" -> CommandDebugger(args)
    [] command = "dedicate" -> CommandDedicate(args)
    [] command = "ls" -> CommandDirList(args)
    [] command = "df" -> CommandDriveFreeSpace(args)
    [] command = "getchecksum" -> CommandGetChecksum(args)
    [] command = "getcontext" -> CommandGetContext(args)
    [] command = "getextcontext" -> CommandGetExtContext(args)
    [] command = "getfileattr" -> CommandGetFileAttributes(args)
    [] command = "getmem" -> CommandGetMem(args)
    [] command = "halt" -> CommandHalt(args)
    [] command = "isbreak" -> CommandIsBreak(args)
    [] command = "isstopped" -> CommandIsStopped(args)
    [] command = "run" -> CommandMagicBoot(args)
    [] command = "mkdir" -> CommandMakeDirectory(args)
    [] command = "modsections" -> CommandModuleSections(args)
    [] command = "modlong" -> CommandModuleLongName(args)
    [] command = "nostopon" -> CommandNoStopOn(args)
    [] command = "notifyat" -> CommandNotifyAt(args)
    [] command = "mv" -> CommandRename(args)
    [] command = "queryperfcounters" -> CommandQueryPerfCounters(args)
    [] command = "reboot" -> CommandReboot(args)
    [] command = "resume" -> CommandResume(args)
    [] command = "setmem" -> CommandSetMem(args)
    [] command = "stopon" -> CommandStopOn(args)
    [] command = "suspend" -> CommandSuspend(args)
    [] command = "threadinfo" -> CommandThreadInfo(args)
    [] command = "xbeinfo" -> CommandXBEInfo(args)
    [] command = "@simple" -> DynDXTCommandInvokeSimple(args)
    [] command = "@multiline" -> DynDXTCommandInvokeMultiline(args)
    [] command = "@sendbin" -> DynDXTCommandInvokeSendBinary(args)
    [] command = "@recvbin" -> DynDXTCommandInvokeReceiveSizePrefixedBinary(args)
    [] command = "@recvbytes" -> DynDXTCommandInvokeReceiveKnownSizedBinary(args)
    [] command = "quit" -> [do |-> "exit"]
    [] command = "reconnect" -> [do |-> "reconnect"]
    [] command = "!" -> Abort
    [] OTHER -> Message

Find(command) == IF command \in DOMAIN Aliases THEN Aliases[command] ELSE command

-----------------------------------------------------------------------------
(* The target: code that is not in the repository. It refuses any request or *)
(* answers in one of the forms the request takes for success; a command of a *)
(* loaded processor answers in any form, with as many bytes as it likes, or  *)
(* with a line that is no response.                                          *)

Header(status, word) == <<Code(status), Byte("-"), Text(word)>> \o kTerminator
Answer(tokens, status, data, fits) == [tokens |-> tokens, response |-> Response(status, data), fits |-> fits]
Line(status, word) == Answer(Header(status, word), status, <<Text(word)>>, TRUE)
Lines(data) ==
  Answer(IF data = <<>> THEN <<Code(202), Byte("-"), Text("text")>> \o kMultilineTerminator
         ELSE Header(202, "text") \o data \o kMultilineTerminator, 202, data, TRUE)
NoResponse == Answer(<<Text("text"), Text("text")>> \o kTerminator, 0, <<>>, TRUE)

\* Data of n bytes: plain, or full of terminators
Bodies(n) == {[i \in 1 .. n |-> Byte("d")], [i \in 1 .. n |-> kMultilineTerminator[((i - 1) % 5) + 1]]}
BodySizes(parser) == IF parser.kind = "fixed" THEN {parser.n} ELSE {0, 5}
BinaryAnswers(parser, sizes) ==
  {Answer(Header(203, "text")
            \o (CASE parser.kind = "prefix" -> <<Size(Len(body))>>
                  [] parser.kind = "line" -> <<Size(Len(body))>> \o kTerminator
                  [] OTHER -> <<>>) \o body,
          203, body, parser.kind = "fixed" => Len(body) = parser.n)
     : body \in UNION {Bodies(n) : n \in sizes}}

Forms(request, status) ==
  CASE status = OK_MULTILINE_RESPONSE -> {Lines(<<>>), Lines(<<Text("text")>> \o kTerminator \o <<Text("text")>>)}
    [] status = OK_BINARY_RESPONSE -> BinaryAnswers(request.size, BodySizes(request.size))
    [] OTHER -> {Line(status, "text")}
                  \union (IF request.line[1] = <<"isstopped">> /\ status = OK THEN {Line(status, "unknown")} ELSE {})

Answers(request) ==
  IF Len(request.line[1]) > 1 THEN {Line(ERR_UNKNOWN_COMMAND, "text")}
  ELSE {Line(ERR_UNEXPECTED, "text")}
       \union UNION {Forms(request, status) : status \in request.ok}
       \union (IF request.payload # NoPayload THEN {Line(OK_SEND_BINARY_DATA, "text")} ELSE {})
       \union (IF request.line[1][1] \in DXTCommands
               THEN {NoResponse} \union UNION {Forms(request, status) : status \in {200, 202, 203, 204}}
                    \union (IF request.size.kind # "fixed" THEN {}
                            ELSE BinaryAnswers(request.size, {request.size.n + 1, request.size.n - 1} \ {-1}))
               ELSE {})

\* What a request that succeeds changes at the target
Obey(request, status) ==
  LET words == ToSet(request.line)
  IN [target EXCEPT
        !.at = "idle",
        !.connected = IF request.line[1] # <<"debugger">> \/ status # OK THEN @ ELSE <<"connect">> \in words,
        !.notifying = IF request.line[1] # <<"notifyat">> \/ <<"addr", "">> \in words \/ status # OK THEN @
                      ELSE <<"drop">> \notin words]

TargetAnswers ==
  /\ outcome = "running"
  /\ waiting # <<>>
  /\ target.at \in {"command", "payload"}
  /\ \E a \in IF target.at = "command" THEN Answers(waiting[1])
              ELSE {Line(OK, "text"), Line(ERR_UNEXPECTED, "text")} :
       /\ stream' = a.tokens
       /\ answer' = <<a.response>>
       /\ missized' = (missized \/ ~a.fits)
       /\ target' = IF a.response.status # OK_SEND_BINARY_DATA THEN Obey(waiting[1], a.response.status)
                    ELSE [target EXCEPT !.at = "asked",
                            !.owed = IF Announced(waiting[1].line) = {} THEN waiting[1].payload
                                     ELSE Max(Announced(waiting[1].line))]
  /\ UNCHANGED <<shell, waiting, outcome, buffer, notification, got>>

-----------------------------------------------------------------------------
(* The bridge *)

\* What the command does with the request it waited for: notifyat attaches or
\* detaches the handler whatever the answer; isstopped prints a stop reason,
\* which is null when the first word of the answer is none it knows
AfterAnswer(response) ==
  /\ outcome' = IF line.command = "isstopped" /\ response = Response(OK, <<Text("unknown")>>)
                THEN "aborted" ELSE outcome
  /\ handler' = IF line.command = "notifyat" THEN ~ArgExists(line.args, {"drop"}) ELSE handler

\* With no request waiting, anything but the greeting closes the connection
HandleInitialConnectResponse(response) ==
  /\ IF response = <<>> THEN outcome' = "aborted" /\ UNCHANGED stream
     ELSE UNCHANGED outcome /\ stream' = <<>>
  /\ UNCHANGED <<waiting, handler, target, got>>

\* The assertion on a payload that is not there ends the process
SendBinaryPayload(request) ==
  /\ IF request.payload = NoPayload THEN outcome' = "aborted" /\ UNCHANGED target
     ELSE /\ UNCHANGED outcome
          /\ target' = [target EXCEPT !.owed = @ - request.payload,
                                      !.at = IF target.owed <= request.payload THEN "payload" ELSE @]
  /\ UNCHANGED <<waiting, handler, got>>

\* A packet that is no response is dropped and then looked at all the same
HandleResponse(response) ==
  IF response = <<>> THEN outcome' = "aborted" /\ UNCHANGED <<waiting, handler, target, got>>
  ELSE IF response[1].status = OK_SEND_BINARY_DATA THEN SendBinaryPayload(waiting[1])
  ELSE /\ waiting' = <<>>
       /\ got' = response
       /\ AfterAnswer(response[1])
       /\ UNCHANGED target

OnBytesRead ==
  /\ outcome = "running"
  /\ \E n \in 1 .. Len(stream) :
       LET read == buffer \o SubSeq(stream, 1, n)
           rest == SubSeq(stream, n + 1, Len(stream))
           parsed == Parse(read, IF waiting = <<>> THEN NoParser ELSE waiting[1].size)
       IN IF parsed.consumed = 0
          THEN buffer' = read /\ stream' = rest /\ UNCHANGED <<waiting, outcome, handler, target, got>>
          ELSE IF waiting = <<>>
          THEN HandleInitialConnectResponse(parsed.response) /\ buffer' = <<>>
          ELSE /\ HandleResponse(parsed.response)
               /\ buffer' = SubSeq(read, parsed.consumed + 1, Len(read))
               /\ stream' = rest
  /\ UNCHANGED <<shell, listening, answer, missized>>

SendCommandSync(request) ==
  /\ waiting' = <<request>>
  /\ target' = [target EXCEPT !.at = "command"]

Dispatch(effect) ==
  /\ CASE effect.do = "send" -> SendCommandSync(effect.request) /\ UNCHANGED <<outcome, stream, buffer>>
       [] effect.do = "reconnect" -> stream' = <<>> /\ buffer' = <<>> /\ UNCHANGED <<waiting, target, outcome>>
       [] effect.do = "message" -> UNCHANGED <<waiting, target, outcome, stream, buffer>>
       [] OTHER -> /\ outcome' = IF effect.do = "exit" THEN "exited" ELSE "aborted"
                   /\ UNCHANGED <<waiting, target, stream, buffer>>

\* last_command_ = parser, after "!" was replaced by the command it repeats
Recorded(entry, parser) == parser

ProcessCommand(entry) ==
  LET replay == entry.command = "!"
      parser == IF replay /\ last_command # <<>> THEN last_command[1] ELSE entry
      effect == IF parser.command \in {"help", "?"} THEN Message ELSE Commands(Find(parser.command), parser.args)
      listens == Find(parser.command) = "notifyat" /\ effect.do = "send"
  IN /\ line' = parser
     /\ IF replay /\ last_command = <<>>
        THEN UNCHANGED <<last_command, waiting, target, outcome, stream, buffer, listening>>
        ELSE /\ last_command' = <<Recorded(entry, parser)>>
             /\ \/ Dispatch(effect) /\ listening' = (listening \/ listens)
                \/ listens /\ Dispatch(Message) /\ UNCHANGED listening

\* Shell::Run: the next line of the script, or end of input
Run ==
  /\ outcome = "running"
  /\ waiting = <<>>
  /\ entered < Len(Script)
  /\ entered' = entered + 1
  /\ \E entry \in Script[entered + 1] : ProcessCommand(entry)
  /\ UNCHANGED <<handler, answer, got, missized>>

\* Another part of the program sends a request before the first line
SendOther ==
  /\ entered = 0
  /\ entered' = 1
  /\ \E effect \in OtherRequests : Dispatch(effect)
  /\ UNCHANGED <<line, last_command, notification, answer, got, missized>>

Init ==
  /\ entered = 0
  /\ line = [command |-> "", args |-> <<>>]
  /\ last_command = <<>>
  /\ waiting = <<>>
  /\ outcome = "running"
  /\ stream = <<>>
  /\ buffer = <<>>
  /\ listening = FALSE
  /\ handler = FALSE
  /\ target = [at |-> "idle", owed |-> 0, connected |-> FALSE, notifying |-> FALSE]
  /\ answer = <<>>
  /\ got = <<>>
  /\ missized = FALSE

Next == Run \/ SendOther \/ TargetAnswers \/ OnBytesRead

Spec == Init /\ [][Next]_vars /\ WF_vars(TargetAnswers) /\ WF_vars(OnBytesRead)

-----------------------------------------------------------------------------
(* Properties *)

\* However an answer was cut on its way and whatever bytes its data is made of,
\* OnBytesRead takes exactly the answer off the connection, and what a request
\* announces of its payload is what OnBytesRead then sends: once the command has
\* returned nothing is left over for the next request, and the target neither
\* waits for more nor takes the rest of the payload for a command. Not if a loaded
\* processor sent another number of bytes than @recvbytes was told to expect
InStep ==
  outcome = "running" /\ waiting = <<>> =>
    /\ target.owed = 0
    /\ ~missized => buffer = <<>> /\ stream = <<>>

\* A command sees the answer the target gave to its own request, status and data,
\* not a part of it and not that of another: Parse and Complete
AnswerMatches == waiting = <<>> /\ ~missized => got = answer

\* A request that waits for an answer that cannot come: binary data that it has no
\* parser for, or fewer bytes than it expects
Stuck ==
  /\ waiting # <<>> /\ answer # <<>>
  /\ answer[1].status = OK_BINARY_RESPONSE
  /\ waiting[1].size = NoParser \/ missized

\* An answer that ends the process: a line that is no response, whose null response
\* OnBytesRead uses; a payload asked for that the request does not have; a stop
\* reason isstopped does not know
Fatal ==
  /\ answer # <<>>
  /\ \/ answer[1] = NoResponse.response
     \/ answer[1].status = OK_SEND_BINARY_DATA /\ waiting # <<>> /\ waiting[1].payload = NoPayload
     \/ line.command = "isstopped" /\ answer[1] = Response(OK, <<Text("unknown")>>)

\* Every command returns to the prompt if the target answers and the network
\* delivers, unless the request is stuck on binary data it cannot size. The process
\* ends instead only on an answer that is fatal, or once a loaded processor has put
\* the stream out of step: Parse makes a response of every answer but those, so that
\* OnBytesRead never uses a null one and never asserts on a good answer
CommandsEnd ==
  (waiting # <<>>) ~> \/ waiting = <<>> /\ outcome = "running"
                      \/ Stuck
                      \/ outcome = "aborted" /\ (Fatal \/ missized)
=============================================================================
