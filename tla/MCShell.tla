------------------------------ MODULE MCShell ------------------------------
(* One line of every command, then a line that shows whether the connection  *)
(* is still in step, then a repetition; and every request the shell has no   *)
(* command for.                                                              *)
EXTENDS Shell

L(command, args) == [command |-> command, args |-> args]

MCFirst == {
  L("altaddr", <<>>), L("bye", <<>>), L("dmversion", <<>>), L("pcon", <<>>), L("pcoff", <<>>),
  L("drivelist", <<>>), L("getpid", <<>>), L("getutilitydriveinfo", <<>>), L("go", <<>>),
  L("isdebugger", <<>>), L("pclist", <<>>), L("mem_map", <<>>), L("modules", <<>>), L("screenshot", <<>>),
  L("stop", <<>>), L("threads", <<>>), L("memwalk", <<>>), L("xtlinfo", <<>>), L("reconnect", <<>>),
  L("help", <<>>), L("quit", <<>>), L("unheardof", <<>>), L("debugoptions", <<>>), L("debugger", <<>>),
  L("dedicate", <<>>), L("halt", <<>>), L("reboot", <<>>), L("xbeinfo", <<>>), L("stopon", <<>>),
  L("continue", <<"1">>), L("continue", <<"1", "yes">>), L("continue", <<>>), L("debugoptions", <<"c">>),
  L("debugger", <<"disable">>), L("dedicate", <<"ddxt">>), L("ls", <<"e:">>), L("ls", <<"e:/a">>),
  L("df", <<"e">>), L("getchecksum", <<"8", "8", "8">>), L("getchecksum", <<"8", "8", "0">>),
  L("getchecksum", <<"8", "1", "8">>), L("getcontext", <<"1">>), L("getcontext", <<"1", "int">>),
  L("getcontext", <<"1", "full">>), L("getextcontext", <<"1">>), L("getfileattr", <<"e:/a">>),
  L("getmem", <<"8", "5">>), L("getmem", <<"8", "5", "bin">>), L("getmem", <<"8", "0", "w">>),
  L("halt", <<"1">>), L("isbreak", <<"8">>), L("isstopped", <<"1">>), L("run", <<"e:/a", "cold">>),
  L("mkdir", <<"e:/a">>), L("modsections", <<"a">>), L("modpath", <<"a">>), L("nostopon", <<"fce">>),
  L("notifyat", <<"2000">>), L("notifyat", <<"2000", "drop">>), L("notifyat", <<"8">>),
  L("mv", <<"e:/a", "e:b">>), L("mv", <<"e:/a">>), L("qpc", <<"a">>), L("querypc", <<"a", "1">>),
  L("reboot", <<"wait", "stop">>), L("resume", <<"1">>), L("setmem", <<"8", "ff">>),
  L("setmem", <<"8", "ff", "ff", "ff">>), L("stopon", <<"debugstr", "createthread">>),
  L("suspend", <<"1">>), L("threadinfo", <<"1">>), L("xbeinfo", <<"e:/a", "true">>), L("@", <<"p!c">>),
  L("@simple", <<"p!c", "x">>), L("@m", <<"p!c">>), L("@sb", <<"p!c", "unreadable">>),
  L("@sb", <<"p!c", "f">>), L("@rbin", <<"p!c", "f">>), L("@rbin", <<"p!c", "f", "x">>),
  L("@rby", <<"p!c", "f", "1">>), L("@rbytes", <<"p!c", "f", "1", "x">>)}
MCSecond == {L("go", <<>>), L("threads", <<>>), L("getmem", <<"8", "5">>), L("notifyat", <<"2000">>),
             L("notifyat", <<"2000", "drop">>), L("!", <<>>)}
MCScript == <<MCFirst, MCSecond, {L("!", <<>>), L("stop", <<>>)}>>

MCOther ==
  {Sending(r) : r \in {
      AdminPW, AuthUser("a", TRUE), AuthUser("a", FALSE), AuthUser("", TRUE), BoxID, BreakNow,
      BreakAtStart, BreakClearAll, BreakAddress(1, TRUE), BreakOnRead(1, 4, FALSE),
      BreakOnWrite(1, 4, TRUE), BreakOnExecute(1, 4, FALSE), ProfilerCaptureControl("start", "a", 1),
      ProfilerCaptureControl("stop", "", 0), Crashdump, GetDevkitName, SetDevkitName("a"),
      SetEnableCrashdump(TRUE), SetEnableDPCTrace(FALSE), D3DOpcode, DebugMode(TRUE), DefTitle(TRUE),
      DefTitleNamed("a", "e:"), DvdBlk("a", 1, 1), DvdPerf(<<<<"stop">>, <<"report">>>>), FileEOF("a", 1),
      Flash(2, TRUE), FmtFat(1), FuncCall(1), GetD3DState, GetFile("a"), GetFileRange("a", 0, 5), GetGamma,
      GetMem(1, 2), GetPalette(1), GetSurface(1), GetUserPrivileges(""), GetUserPrivileges("a"), IRTSweep,
      KernelDebug("enable"), KeyExchange(1), LockMode(TRUE), Unlock, LOP("start", Value("event", 1)),
      Notify, NotifyAtAddress(2000, FALSE, TRUE), PBSnap, PDBInfo(1), PSSnap(1, 1, 0, 1), SendFile("a", 2),
      SetNVRAMConfig(1, 1), SetContext(1, TRUE, 0), SetContext(1, TRUE, 2),
      SetFileAttributes("a", {"hidden", "create"}), SetSystemTime(<<>>), SetSystemTime(<<0>>),
      SignContent("a", 0), SysFileUpdLocal("a", "b"), SysFileUpd("a", 2), SystemTime,
      LoadOnBootTitle("", "", "", FALSE), LoadOnBootTitle("a", "e:", "x", TRUE), LoadOnBootTitleUnpersist,
      User("a", {"read", "manage"}, TRUE), RemoveUser("a"), UserList, VSSnap(1, 2, 1, 0),
      WriteFile("a", 2), Delete("a", TRUE), InvokeSendKnownSizeBinary("p!c", 2, <<>>), LoadDynDXT(2),
      Reserve(1), InstallImage(1, 2, 1), RegisterExport("a", 1, 1, "b")}}
  \union {
      MemTrack("disable"), MemTrack("enable"), MemTrackEnable("enable", 1, 1), MemTrackSave("save", "a"),
      MemTrackType("querytype", 1)}

MCIntOf == "0" :> 0 @@ "1" :> 1 @@ "5" :> 5 @@ "8" :> 8 @@ "2000" :> 2000
MCXFATOf == "e:/a" :> "e:a"
MCDriveRoot == "e:" :> "root of e:"

=============================================================================
