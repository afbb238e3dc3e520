---------------------------- MODULE XBDMRequests ----------------------------
(* The request classes of the RDCP protocol (rdcp/xbdm_requests.h and .cpp,  *)
(* dyndxt_loader/dyndxt_requests): what each writes on the wire, which       *)
(* statuses it takes for success, how it sizes a binary answer and which     *)
(* payload it carries. A message is a sequence of words: a flag <<flag>> or  *)
(* a value <<key, value>>. Numbers are numbers; names and paths are words.   *)
EXTENDS Integers, Sequences, SequencesExt

OK == 200
OK_CONNECTED == 201
OK_MULTILINE_RESPONSE == 202
OK_BINARY_RESPONSE == 203
OK_SEND_BINARY_DATA == 204
OK_CONNECTION_DEDICATED == 205
ERR_UNEXPECTED == 400
ERR_FILE_NOT_FOUND == 402
ERR_UNKNOWN_COMMAND == 407
ERR_NOT_STOPPED == 408
ERR_EXISTS == 410
ERR_ACCESS_DENIED == 414
ERR_NOT_DEBUGGABLE == 416

-----------------------------------------------------------------------------
(* Building requests *)

\* No payload (BinaryPayload is null), and the four kinds of size parser
NoPayload == -1
NoParser == [kind |-> "none", n |-> 0]
Fixed(n) == [kind |-> "fixed", n |-> n]
BinarySizeInt32Prefix == [kind |-> "prefix", n |-> 0]
ParseSize == [kind |-> "line", n |-> 0]

When(condition, words) == IF condition THEN words ELSE <<>>
Flag(name) == <<<<name>>>>
Value(key, value) == <<<<key, value>>>>

RDCPRequest(command, data) ==
  [line |-> <<<<command>>>> \o data, ok |-> {OK}, size |-> NoParser, payload |-> NoPayload]

\* Data that does not begin with a space runs into the command's name
Glued(command, data) ==
  [RDCPRequest(command, data) EXCEPT
     !.line = IF data = <<>> THEN @ ELSE <<<<command>> \o Head(data)>> \o Tail(data)]

IsOK(request, statuses) == [request EXCEPT !.ok = statuses]
Multiline(request) == IsOK(request, {OK_MULTILINE_RESPONSE})
Binary(request, parser) == [IsOK(request, {OK_BINARY_RESPONSE}) EXCEPT !.size = parser]
BinaryPayload(request, n) == [request EXCEPT !.payload = n]

\* Both halves of a 64-bit time, in the order of the keys
QWORD(keys) == <<<<keys[1]>>, <<keys[2]>>>>

\* The sizes 1180 and 768 of the two answers of fixed size, scaled
D3DStateSize == 3
GammaSize == 2

\* What a command comes to: a message to the user, a request sent, or the end
\* of the process by an assertion, a division by zero or a null pointer
Message == [do |-> "message"]
Sending(request) == [do |-> "send", request |-> request]
Abort == [do |-> "abort"]
Asserting(condition, request) == IF condition THEN Sending(request) ELSE Abort

-----------------------------------------------------------------------------
(* Threads and execution *)

Continue(thread_id, exception) ==
  IsOK(RDCPRequest("continue", Value("thread", thread_id) \o When(exception, Flag("exception"))),
       {OK, ERR_NOT_STOPPED})
Go == RDCPRequest("go", <<>>)
Stop == IsOK(RDCPRequest("stop", <<>>), {OK, ERR_UNEXPECTED})
HaltAll == RDCPRequest("halt", <<>>)
Halt(thread_id) == RDCPRequest("halt", Value("thread", thread_id))
Suspend(thread_id) == RDCPRequest("suspend", Value("thread", thread_id))
Resume(thread_id) == RDCPRequest("resume", Value("thread", thread_id))
IsStopped(thread_id) ==
  IsOK(RDCPRequest("isstopped", Value("thread", thread_id)), {OK, ERR_NOT_STOPPED})
Threads == Multiline(RDCPRequest("threads", <<>>))
ThreadInfo(thread_id) == Multiline(RDCPRequest("threadinfo", Value("thread", thread_id)))
GetContext(thread_id, control, integer, float) ==
  Asserting(control \/ integer \/ float,
         Multiline(RDCPRequest("getcontext",
           Value("thread", thread_id) \o When(control, Flag("control"))
             \o When(integer, Flag("int")) \o When(float, Flag("fp")))))
GetExtContext(thread_id) ==
  Binary(RDCPRequest("getextcontext", Value("thread", thread_id)), BinarySizeInt32Prefix)
\* ext is the number of bytes of the floating point context, 0 for none: the
\* payload is then there, empty and not announced
SetContext(thread_id, context, ext) ==
  BinaryPayload(RDCPRequest("setcontext",
    Value("thread", thread_id) \o When(context, Flag("context")) \o When(ext > 0, Value("ext", ext))), ext)
FuncCall(thread_id) == RDCPRequest("funccall", Value("thread", thread_id))
StopOnBase_(command, events) ==
  RDCPRequest(command,
    IF events = {"all"} THEN Flag("all")
    ELSE FlattenSeq([i \in 1 .. 4 |->
           LET e == <<"createthread", "fce", "debugstr", "stacktrace">>[i] IN When(e \in events, Flag(e))]))
NoStopOn(events) == StopOnBase_("nostopon", events)
StopOn(events) == StopOnBase_("stopon", events)

(* Breakpoints *)

BreakBase_(data) == RDCPRequest("break", data)
BreakNow == BreakBase_(Flag("now"))
BreakAtStart == BreakBase_(Flag("start"))
BreakClearAll == BreakBase_(Flag("clearall"))
BreakAddress(address, clear) == BreakBase_(When(clear, Flag("clear")) \o Value("addr", address))
BreakRange_(type, address, size, clear) ==
  BreakBase_(When(clear, Flag("clear")) \o Value(type, address) \o When(~clear, Value("size", size)))
BreakOnRead(address, size, clear) == BreakRange_("read", address, size, clear)
BreakOnWrite(address, size, clear) == BreakRange_("write", address, size, clear)
BreakOnExecute(address, size, clear) == BreakRange_("execute", address, size, clear)
IsBreak(addr) == RDCPRequest("isbreak", Value("addr", addr))

-----------------------------------------------------------------------------
(* The debug monitor: sessions, notifications, users, options *)

Bye == RDCPRequest("bye", <<>>)
Debugger(connect) ==
  IsOK(RDCPRequest("debugger", Flag(IF connect THEN "connect" ELSE "disconnect")), {OK, ERR_NOT_DEBUGGABLE})
IsDebugger == IsOK(RDCPRequest("isdebugger", <<>>), {OK_BINARY_RESPONSE, ERR_EXISTS})
DebugMode(enable) == RDCPRequest("debugmode", Flag(IF enable THEN "enabled" ELSE "disabled"))
Dedicate(handler) ==
  IsOK(RDCPRequest("dedicate", IF handler = "" THEN Flag("global") ELSE Value("handler", handler)),
       {OK_CONNECTION_DEDICATED})
Notify == IsOK(RDCPRequest("notify", <<>>), {OK_CONNECTION_DEDICATED})
NotifyFlags(drop, debug) == When(drop, Flag("drop")) \o When(debug, Flag("debug"))
NotifyAt(port, drop, debug) == RDCPRequest("notifyat", Value("Port", port) \o NotifyFlags(drop, debug))
\* The parameter was moved into the member of the same name: nothing is left of it
NotifyAtAddress(port, drop, debug) ==
  RDCPRequest("notifyat", Value("Port", port) \o Value("addr", "") \o NotifyFlags(drop, debug))
GetDebugOptions == RDCPRequest("dbgoptions", <<>>)
SetEnableCrashdump(enable) == RDCPRequest("dbgoptions", Value("crashdump", enable))
SetEnableDPCTrace(enable) == RDCPRequest("dbgoptions", Value("dpctrace", enable))
SetDebugOptions(crashdump, dpctrace) ==
  RDCPRequest("dbgoptions", Value("crashdump", crashdump) \o Value("dpctrace", dpctrace))
DebugMonitorVersion == RDCPRequest("dmversion", <<>>)
GetDevkitName == RDCPRequest("dbgname", <<>>)
SetDevkitName(name) == RDCPRequest("dbgname", Value("name", name))
AltAddr == RDCPRequest("altaddr", <<>>)
BoxID == RDCPRequest("boxid", <<>>)
AdminPW == RDCPRequest("adminpw", Flag("passwd"))
AuthUser(name, passwd) ==
  RDCPRequest("authuser", (IF name = "" THEN Flag("admin") ELSE Value("name", name))
                            \o Flag(IF passwd /\ name # "" THEN "passwd" ELSE "resp"))
GetUserPrivileges(name) == RDCPRequest("getuserpriv", When(name # "", Value("name", name)))
User(name, rights, passwd) ==
  RDCPRequest("user", Value("name", name) \o When(passwd, Flag("passwd"))
    \o FlattenSeq([i \in 1 .. 5 |->
         LET r == <<"read", "write", "control", "config", "manage">>[i] IN When(r \in rights, Flag(r))]))
RemoveUser(name) == RDCPRequest("user", Value("name", name) \o Flag("remove"))
UserList == RDCPRequest("userlist", <<>>)
KernelDebug(mode) == RDCPRequest("kd", Flag(mode))
KeyExchange(n) == BinaryPayload(RDCPRequest("keyxchg", <<>>), n)
LockMode(encrypt) == RDCPRequest("lockmode", Flag("boxid") \o When(encrypt, Flag("encrypt")))
Unlock == RDCPRequest("lockmode", Flag("unlock"))
SetNVRAMConfig(index, value) == RDCPRequest("setconfig", Value("index", index) \o Value("value", value))
SystemTime == RDCPRequest("systime", <<>>)
SetSystemTime(tz) ==
  RDCPRequest("setsystime", QWORD(<<"clocklo", "clockhi">>) \o When(tz # <<>>, <<<<"tz">> \o tz>>))

(* Booting titles *)

Reboot(flags) ==
  RDCPRequest("reboot", FlattenSeq([i \in 1 .. 4 |->
    LET f == <<"wait", "warm", "nodebug", "stop">>[i] IN When(f \in flags, Flag(f))]))
MagicBoot(title, debug, cold) ==
  RDCPRequest("magicboot", Value("title", title) \o When(debug, Flag("debug")) \o When(cold, Flag("cold")))
DefTitle(launcher) == RDCPRequest("deftitle", Flag(IF launcher THEN "launcher" ELSE "none"))
DefTitleNamed(name, directory) == RDCPRequest("deftitle", Value("name", name) \o Value("dir", directory))
LoadOnBootTitle(name, directory, command_line, persist) ==
  RDCPRequest("title",
    IF name = "" THEN Flag("none")
    ELSE Value("name", name) \o When(directory # "", Value("dir", directory))
           \o When(command_line # "", Value("cmdline", command_line)) \o When(persist, Flag("persist")))
LoadOnBootTitleUnpersist == RDCPRequest("title", Flag("nopersist"))
Crashdump == RDCPRequest("crashdump", <<>>)

-----------------------------------------------------------------------------
(* Memory and modules *)

GetMem(addr, length) == RDCPRequest("getmem", Value("addr", addr) \o Value("length", length))
GetMemBinary(addr, length) ==
  Binary(RDCPRequest("getmem2", Value("ADDR", addr) \o Value("LENGTH", length)), Fixed(length))
\* kMaximumDataSize, scaled; the digits of a string and the bytes of a buffer
MAXIMUM_HEX_DIGITS == 4
SetMem(address, digits) ==
  Asserting(digits <= MAXIMUM_HEX_DIGITS, RDCPRequest("setmem", Value("addr", address) \o Value("data", digits)))
GetChecksum(addr, len, blocksize) ==
  IF blocksize = 0 THEN Abort
  ELSE Asserting(\A n \in {addr, len, blocksize} : n % 8 = 0,
         Binary(RDCPRequest("getsum", Value("ADDR", addr) \o Value("LENGTH", len) \o Value("BLOCKSIZE", blocksize)),
                Fixed((len \div blocksize) * 4)))
WalkMem == Multiline(RDCPRequest("walkmem", <<>>))
MemoryMapGlobal == Multiline(RDCPRequest("mmglobal", <<>>))
MemTrack_(command, commands, data) ==
  Asserting(command \in commands, RDCPRequest("memtrack", Value("cmd", command) \o data))
MemTrack(command) == MemTrack_(command, {"disable", "querystackdepth", "queryflags"}, <<>>)
MemTrackEnable(command, stack_depth, flags) ==
  MemTrack_(command, {"enable", "enableonce"}, Value("stackdepth", stack_depth) \o Value("flags", flags))
MemTrackSave(command, filename) == MemTrack_(command, {"save"}, Value("filename", filename))
MemTrackType(command, type) == MemTrack_(command, {"querytype"}, Value("type", type))
Modules == Multiline(RDCPRequest("modules", <<>>))
ModSections(name) == Multiline(RDCPRequest("modsections", Value("name", name)))
ModLongName(name) == RDCPRequest("modlong", Value("name", name))
XBEInfoRunning == Multiline(RDCPRequest("xbeinfo", Flag("running")))
XBEInfo(name, on_disk_only, dir) ==
  Multiline(RDCPRequest("xbeinfo",
    Value("name", name) \o When(on_disk_only, Flag("ondiskonly")) \o When(dir # "", Value("dir", dir))))
XTLInfo == Multiline(RDCPRequest("xtlinfo", <<>>))
PDBInfo(address) == RDCPRequest("pdbinfo", Value("addr", address))
GetProcessID == RDCPRequest("getpid", <<>>)

(* Files and drives *)

DirList(path) == Multiline(RDCPRequest("dirlist", Value("name", path)))
Delete(path, is_directory) == RDCPRequest("delete", Value("name", path) \o When(is_directory, Flag("dir")))
Mkdir(name) == RDCPRequest("mkdir", Value("name", name))
Rename(name, new_name) == RDCPRequest("rename", Value("name", name) \o Value("newname", new_name))
GetFile(path) == Binary(RDCPRequest("getfile", Value("name", path)), BinarySizeInt32Prefix)
GetFileRange(path, offset, size) ==
  Binary(RDCPRequest("getfile", Value("name", path) \o Value("offset", offset) \o Value("size", size)),
         BinarySizeInt32Prefix)
\* The fault: the length is taken after the buffer was moved
UploadMoved(command, name, n) == BinaryPayload(RDCPRequest(command, Value("name", name) \o Value("length", 0)), n)
Upload(command, name, n) == BinaryPayload(RDCPRequest(command, Value("name", name) \o Value("length", n)), n)
SendFile(name, n) == Upload("sendfile", name, n)
WriteFile(name, n) == Upload("writefile", name, n)
FileEOF(path, size) == RDCPRequest("fileeof", Value("name", path) \o Value("size", size))
GetFileAttributes(path) ==
  IsOK(RDCPRequest("getfileattributes", Value("name", path)),
       {OK_MULTILINE_RESPONSE, ERR_FILE_NOT_FOUND, ERR_ACCESS_DENIED})
\* attributes: those given of readonly, hidden, create, change
SetFileAttributes(name, attributes) ==
  RDCPRequest("setfileattributes", Value("name", name)
    \o When("readonly" \in attributes, Flag("readonly")) \o When("hidden" \in attributes, Flag("hidden"))
    \o When("create" \in attributes, QWORD(<<"createhi", "createlo">>))
    \o When("change" \in attributes, QWORD(<<"changehi", "changelo">>)))
DriveFreeSpace(name) == Multiline(RDCPRequest("drivefreespace", Value("name", name)))
DriveList == RDCPRequest("drivelist", <<>>)
GetUtilityDriveInfo == RDCPRequest("getutildrvinfo", <<>>)
FmtFat(partition) == RDCPRequest("fmtfat", Value("partition", partition))
SignContent(path, title_id) ==
  RDCPRequest("signcontent", Value("name", path) \o When(title_id # 0, Value("titleid", title_id)))
Flash(n, ignore) ==
  BinaryPayload(RDCPRequest("flash",
    Value("length", n) \o Flag("crc") \o When(ignore, Flag("ignoreversionchecking"))), n)
SysFileUpdLocal(path, local_src) ==
  RDCPRequest("sysfileupd", Value("name", path) \o Value("localsrc", local_src) \o QWORD(<<"ftimelo", "ftimehi">>))
\* An empty payload is no payload
SysFileUpd(path, n) ==
  BinaryPayload(RDCPRequest("sysfileupd",
    Value("name", path) \o Value("size", n) \o Flag("crc") \o QWORD(<<"ftimelo", "ftimehi">>)),
    IF n = 0 THEN NoPayload ELSE n)
\* Accepts a binary answer but has no parser for its size
DvdBlk(name, addr, size) ==
  IsOK(RDCPRequest("dvdblk", Value("name", name) \o Value("addr", addr) \o Value("size", size)),
       {OK_BINARY_RESPONSE})
DvdPerf(action) == RDCPRequest("dvdperf", action)

(* Graphics and profiling *)

D3DOpcode == RDCPRequest("d3dopcode", <<<<"0">>, <<"1">>, <<"2">>, <<"3">>, <<"4">>, <<"5">>>>)
GetD3DState == Binary(RDCPRequest("getd3dstate", <<>>), Fixed(D3DStateSize))
GetGamma == Binary(RDCPRequest("getgamma", <<>>), Fixed(GammaSize))
GetPalette(stage) == RDCPRequest("getpalette", Value("STAGE", stage))
GetSurface(id) == RDCPRequest("getsurf", Value("id", id))
Screenshot == Binary(RDCPRequest("screenshot", <<>>), ParseSize)
SnapOptions(flags, marker) == When(flags # 0, Value("flags", flags)) \o When(marker # 0, Value("marker", marker))
PSSnap(x, y, flags, marker) == RDCPRequest("pssnap", Value("x", x) \o Value("y", y) \o SnapOptions(flags, marker))
VSSnap(first, last, flags, marker) ==
  RDCPRequest("vssnap", Value("first", first) \o Value("last", last) \o SnapOptions(flags, marker))
PBSnap == RDCPRequest("pbsnap", <<>>)
IRTSweep == RDCPRequest("irtsweep", <<>>)
EnableGPUCounter(enable) == RDCPRequest("gpucount", Flag(IF enable THEN "enable" ELSE "disable"))
PerformanceCounterList == Multiline(RDCPRequest("pclist", <<>>))
QueryPerformanceCounter(name, type) ==
  Multiline(RDCPRequest("querypc", Value("name", name) \o When(type # <<>>, <<<<"type">> \o type>>)))
LOP(command, data) == RDCPRequest("lop", Value("cmd", command) \o data)
ProfilerCaptureControl(command, name, buffer_size_mb) ==
  RDCPRequest("capctrl", Flag(command)
    \o When(command = "start", Value("name", name) \o When(buffer_size_mb > 0, Value("buffersize", buffer_size_mb))))

-----------------------------------------------------------------------------
(* Commands of processors loaded by the dynamic DXT loader; args: words *)

InvokeSimple(command, args) == RDCPRequest(command, args)
InvokeMultiline(command, args) == Multiline(RDCPRequest(command, args))
\* The length is taken from a vector already moved from, and the data begins
\* without a space
InvokeSendBinary(command, n, args) == BinaryPayload(Glued(command, Value("length", 0) \o args), n)
InvokeSendKnownSizeBinary(command, n, args) == BinaryPayload(Glued(command, args), n)
InvokeReceiveSizePrefixedBinary(command, args) == Binary(Glued(command, args), BinarySizeInt32Prefix)
InvokeReceiveKnownSizedBinary(command, size, args) == Binary(Glued(command, args), Fixed(size))
LoadDynDXT(n) == BinaryPayload(RDCPRequest("ddxt!load", Value("size", n)), n)
Reserve(image_size) == RDCPRequest("ddxt!reserve", Value("size", image_size))
InstallImage(base, n, entrypoint) ==
  BinaryPayload(RDCPRequest("ddxt!install",
    Value("base", base) \o Value("length", n) \o Value("entrypoint", entrypoint)), n)
RegisterExport(module, ordinal, address, name) ==
  RDCPRequest("ddxt!export", Value("module", module) \o Value("ordinal", ordinal) \o Value("addr", address)
                               \o When(name # "", Value("name", name)))

-----------------------------------------------------------------------------
(* What the target is told to expect of a payload: the value of the key that *)
(* announces it                                                              *)
Announced(line) == {line[i][2] : i \in {j \in DOMAIN line : line[j][1] \in {"length", "size", "ext"}}}

=============================================================================
