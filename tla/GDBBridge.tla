----------------------------- MODULE GDBBridge -----------------------------
(***************************************************************************)
(* What the bridge makes of the packets of GDB: who may connect, which     *)
(* thread a packet is about, registers, memory, breakpoints and queries.   *)
(* Resuming and stop replies are the subject of StopReply, the stream of   *)
(* GDBTransport, transparent breakpoints of Breakpoints.                   *)
(*                                                                         *)
(* Packets are records, numbers in them parsed; replies are records of a   *)
(* kind and a sequence of numbers. Jobs of gdb_executor_ run one after     *)
(* another; between the commands of a job the title, the notification      *)
(* executor and GDB go on. Widths are scaled: a word has two bytes of two  *)
(* bits, a float register a word of mantissa and one of exponent.          *)
(***************************************************************************)
EXTENDS Integers, Sequences, FiniteSets, Functions

CONSTANTS
  Client,       \* GDB processes that connect
  Thread,       \* threads of the title, positive numbers
  Initial,      \* those alive first, as XBDM lists them
  Session,      \* which GDBs connect, what packets they may send, and a bound on what
                \* the title and its threads do meanwhile; one is chosen
  TargetXML,    \* size of kTargetXML
  MaxPackets,   \* bound on the packets of a GDB
  MaxFailures,  \* bound on the commands that fail
  MaxStops,     \* bound on stopping the server
  Nobody

Byte == 4
WordSize == Byte * Byte
GeneralRegister == 0..1
FLOAT_REGISTER_OFFSET == 3
FloatRegister == 3..4
OtherRegister == {2, 5}
Register == GeneralRegister \cup FloatRegister \cup OtherRegister
Unknown == <<>>      \* an empty optional
UInt32 == 8          \* the lengths of kTargetXML are small beside it

ASSUME GDBBridgeAssumption ==
  /\ Client # {} /\ Nobody \notin Client
  /\ Thread \subseteq Nat \ {0} /\ Initial \in Seq(Thread) /\ Initial # <<>> /\ IsInjective(Initial)
  /\ {TargetXML, MaxPackets, MaxFailures, MaxStops} \subseteq Nat
  /\ \A s \in Session :
       /\ s.clients \subseteq Client /\ s.events \in Nat
       /\ \A p \in s.packets :
            /\ p.cmd \notin {"none", "connect"}
            /\ p.cmd \in {"p", "P"} => p.register \in {Unknown} \cup {<<r>> : r \in Register}
            /\ p.cmd = "P" => p.value \in Nat

VARIABLES
  \* the target: threads, their registers, what has happened
  alive, regs, fregs, events, failures,
  \* notifications not yet handled: threads created and terminated
  notes,
  \* XBDMDebugger; the last three are fields of the Thread objects (the float
  \* context is another, which every handler that reads it fetches first)
  threads_, active_thread_id_, context, stopped, last_stop_reason,
  \* GDBXBOXInterface and GDBBridge: whether there is a bridge, its client, the
  \* connections, the jobs of the executor, where it stands in the first, with
  \* the contexts of the Thread object, or the list of threads, that job holds
  up, gdb_, link, inbox, at, thread_id_for_command_, thread_info_buffer_, stops,
  \* GDB: what it may send, what it waits for, how much it sent
  session, asked, packets,
  \* history, read by properties only: the replies to the last packet handled and
  \* their packet, the thread and register value it was about, the thread list
  \* and the document as GDB has them, and what went on
  replies, last, truth, listed, snapshot, document, slipped, misdirected, raced, aborted

target == <<alive, regs, fregs, events, failures, notes>>
debugger == <<threads_, active_thread_id_, context, stopped, last_stop_reason>>
server == <<up, gdb_, link, inbox, stops>>
bridge == <<thread_id_for_command_, thread_info_buffer_>>
gdb == <<session, asked, packets>>
views == <<listed, snapshot, document>>
vars == <<target, debugger, server, bridge, at, gdb, replies, last, truth, views,
          slipped, misdirected, raced, aborted>>

Reply(kind, data) == [kind |-> kind, data |-> data]
OK == Reply("OK", <<>>)
Empty == Reply("", <<>>)
Error == Reply("E", <<>>)
NoPacket == [cmd |-> "none"]
NoTruth == [thread |-> 0, value |-> <<>>]
NoSnapshot == [lasting |-> {}, ever |-> {}]
Idle == [step |-> "idle", thread |-> 0, context |-> Unknown, float_context |-> Unknown, threads |-> <<>>]

\* What is in the registers of a thread when it starts.
FirstRegisters(t) == [r \in GeneralRegister |-> (4 * r + t) % WordSize]
FirstFloats == [r \in FloatRegister |-> <<r, r + 4>>]

Init ==
  /\ alive = Range(Initial) /\ events = 0 /\ failures = 0 /\ notes = <<>>
  /\ regs = [t \in Thread |-> FirstRegisters(t)] /\ fregs = [t \in Thread |-> FirstFloats]
  /\ threads_ = Initial /\ active_thread_id_ = Head(Initial)
  /\ context = [t \in Thread |-> Unknown]
  /\ stopped = [t \in Thread |-> t = Head(Initial)] /\ last_stop_reason = stopped
  /\ up = TRUE /\ gdb_ = Nobody /\ link = [c \in Client |-> "none"] /\ inbox = <<>> /\ stops = 0
  /\ at = Idle /\ thread_id_for_command_ = <<>> /\ thread_info_buffer_ = <<>>
  /\ session \in Session /\ asked = [c \in Client |-> NoPacket] /\ packets = [c \in Client |-> 0]
  /\ replies = <<>> /\ last = NoPacket /\ truth = NoTruth
  /\ listed = <<>> /\ snapshot = NoSnapshot /\ document = <<>>
  /\ slipped = FALSE /\ misdirected = FALSE /\ raced = FALSE /\ aborted = "no"

-----------------------------------------------------------------------------
(* The title, XBDM's notifications and GDB.                                *)

Happens == events < session.events /\ events' = events + 1

\* The user of the shell let the title run: a thread changed a register.
TitleRuns ==
  /\ Happens
  /\ \E t \in alive : regs' = [regs EXCEPT ![t][1] = (@ + 1) % WordSize]
  /\ raced' = (raced \/ at.step \in {"context", "pushing"})
  /\ UNCHANGED <<alive, fregs, failures, notes, debugger, server, bridge, at, gdb, replies, last,
                 truth, views, slipped, misdirected, aborted>>

\* A thread ends, or one is created, perhaps with the id of one that ended.
ThreadComesOrGoes ==
  /\ Happens
  /\ \E t \in Thread : LET ends == t \in alive IN
       /\ alive' = IF ends THEN alive \ {t} ELSE alive \cup {t}
       /\ notes' = Append(notes, <<IF ends THEN "terminate" ELSE "create", t>>)
       /\ regs' = IF ends THEN regs ELSE [regs EXCEPT ![t] = FirstRegisters(t)]
       /\ fregs' = IF ends THEN fregs ELSE [fregs EXCEPT ![t] = FirstFloats]
       /\ raced' = (raced \/ (~ends /\ at.thread = t))
       /\ snapshot' = IF at.step \in {"listing", "listed"}
                      THEN [lasting |-> snapshot.lasting \ {t}, ever |-> snapshot.ever \cup {t}]
                      ELSE snapshot
  /\ UNCHANGED <<failures, debugger, server, bridge, at, gdb, replies, last, truth, listed, document,
                 slipped, misdirected, aborted>>

\* A Thread object that has fetched nothing.
NewThread(t) ==
  /\ context' = [context EXCEPT ![t] = Unknown]
  /\ stopped' = [stopped EXCEPT ![t] = FALSE]
  /\ last_stop_reason' = [last_stop_reason EXCEPT ![t] = FALSE]

OnThreadCreated ==
  /\ notes # <<>> /\ Head(notes)[1] = "create"
  /\ LET t == Head(notes)[2] IN
       IF t \in Range(threads_) THEN UNCHANGED debugger
       ELSE threads_' = Append(threads_, t) /\ NewThread(t) /\ UNCHANGED active_thread_id_
  /\ notes' = Tail(notes)
  /\ UNCHANGED <<alive, regs, fregs, events, failures, server, bridge, at, gdb, replies, last, truth,
                 views, slipped, misdirected, raced, aborted>>

OnThreadTerminated ==
  /\ notes # <<>> /\ Head(notes)[1] = "terminate"
  /\ LET t == Head(notes)[2] IN
       /\ threads_' = SelectSeq(threads_, LAMBDA u : u # t)
       /\ active_thread_id_' = IF active_thread_id_ = t /\ t \in Range(threads_) THEN 0
                               ELSE active_thread_id_
  /\ notes' = Tail(notes)
  /\ UNCHANGED <<alive, regs, fregs, events, failures, context, stopped, last_stop_reason, server,
                 bridge, at, gdb, replies, last, truth, views,
                 slipped, misdirected, raced, aborted>>

\* FetchStopReasonSync of GetFirstStoppedThread or of a shell command fails: the
\* thread stays stopped, for no reason known.
StopReasonLost ==
  /\ failures < MaxFailures /\ failures' = failures + 1
  /\ \E t \in Range(threads_) : last_stop_reason' = [last_stop_reason EXCEPT ![t] = FALSE]
  /\ UNCHANGED <<alive, regs, fregs, events, notes, threads_, active_thread_id_, context,
                 stopped, server, bridge, at, gdb, replies, last, truth, views,
                 slipped, misdirected, raced, aborted>>

\* GDB has read the answer to its last packet and sends another; the transport
\* dispatches it. A thread list or document is asked for on from where it is.
GDBSends(c) ==
  /\ link[c] = "open" /\ asked[c] = NoPacket /\ packets[c] < MaxPackets
  /\ \E p \in session.packets :
       /\ p.cmd = "qs" => listed # <<>>
       /\ p.cmd = "Xfer" => p.start = Len(document)
       /\ asked' = [asked EXCEPT ![c] = p]
       /\ inbox' = Append(inbox, [client |-> c, packet |-> p])
  /\ packets' = [packets EXCEPT ![c] = @ + 1]
  /\ UNCHANGED <<target, debugger, up, gdb_, link, stops, bridge, at, session, replies, last, truth,
                 views, slipped, misdirected, raced, aborted>>

GDBQuits(c) ==
  /\ link[c] = "open"
  /\ link' = [link EXCEPT ![c] = "closed"]
  /\ UNCHANGED <<target, debugger, up, gdb_, inbox, stops, bridge, at, gdb, replies, last, truth,
                 views, slipped, misdirected, raced, aborted>>

-----------------------------------------------------------------------------
(* GDBXBOXInterface: the server and its one client.                        *)

HasGDBClient == gdb_ # Nobody /\ link[gdb_] = "open"
Connect == [cmd |-> "connect"]
Connecting == {inbox[i].client : i \in {j \in DOMAIN inbox : inbox[j].packet = Connect}}

\* A seeded fault: anyone may connect.
RefusesNobody == FALSE

Refuses == HasGDBClient

\* OnGDBClientConnected on the select thread.
OnGDBClientConnected(c) ==
  /\ up /\ link[c] = "none" /\ c \in session.clients
  /\ IF Refuses
     THEN link' = [link EXCEPT ![c] = "closed"] /\ UNCHANGED <<inbox, slipped>>
     ELSE /\ link' = [link EXCEPT ![c] = "pending"]
          /\ inbox' = Append(inbox, [client |-> c, packet |-> Connect])
          /\ slipped' = (slipped \/ Connecting # {})
  /\ UNCHANGED <<target, debugger, up, gdb_, stops, bridge, at, gdb, replies, last, truth, views,
                 misdirected, raced, aborted>>

Running(cmd) == up /\ at.step = "idle" /\ inbox # <<>> /\ Head(inbox).packet.cmd = cmd
CanFail == failures < MaxFailures
Fails == CanFail /\ failures' = failures + 1

\* Its job on the executor: attaching or halting failed as often as it is tried,
\* or the transport is added to the select thread.
AttachAndHalt ==
  /\ Running("connect")
  /\ \/ /\ Fails
        /\ link' = [link EXCEPT ![Head(inbox).client] = "closed"]
        /\ inbox' = Tail(inbox) /\ UNCHANGED at
     \/ /\ link' = [link EXCEPT ![Head(inbox).client] = "open"]
        /\ at' = [Idle EXCEPT !.step = "connected"] /\ UNCHANGED <<failures, inbox>>
  /\ UNCHANGED <<alive, regs, fregs, events, notes, debugger, up, gdb_, stops, bridge, gdb, replies,
                 last, truth, views, slipped, misdirected, raced, aborted>>

AddTransport ==
  /\ up /\ at.step = "connected"
  /\ LET c == Head(inbox).client
         busy == HasGDBClient
     IN  /\ link' = [link EXCEPT ![c] = IF busy THEN "closed" ELSE @]
         /\ gdb_' = IF busy THEN gdb_ ELSE c
  /\ inbox' = Tail(inbox) /\ at' = Idle
  /\ UNCHANGED <<target, debugger, up, stops, bridge, gdb, replies, last, truth, views, slipped,
                 misdirected, raced, aborted>>

\* StopGDBServer: the client is closed and the bridge destroyed before the
\* executor is stopped, so that a job under way uses what is gone; one that is
\* connecting goes through the null gdb_bridge_.
StopGDBServer ==
  /\ up /\ stops < MaxStops
  /\ stops' = stops + 1 /\ up' = FALSE
  /\ link' = [c \in Client |-> IF c = gdb_ /\ link[c] = "open" THEN "closed" ELSE link[c]]
  /\ gdb_' = Nobody /\ inbox' = <<>> /\ at' = Idle
  /\ aborted' \in CASE at.step = "idle" -> {aborted}
                    [] at.step = "connected" -> {"stopped"}
                    [] OTHER -> {aborted, "stopped"}
  /\ UNCHANGED <<target, debugger, bridge, gdb, replies, last, truth, views, slipped, misdirected, raced>>

\* StartGDBServer after a stop makes a new bridge.
StartGDBServer ==
  /\ ~up /\ up' = TRUE
  /\ thread_id_for_command_' = <<>> /\ thread_info_buffer_' = <<>>
  /\ UNCHANGED <<target, debugger, gdb_, link, inbox, at, stops, gdb, replies, last, truth, views,
                 slipped, misdirected, raced, aborted>>

-----------------------------------------------------------------------------
(* Replies go to gdb_, whoever sent the packet.                            *)

This == Head(inbox).packet

Answer(rs) ==
  /\ replies' = rs /\ last' = This
  /\ inbox' = Tail(inbox) /\ at' = Idle
  /\ LET c == Head(inbox).client IN
       /\ asked' = [asked EXCEPT ![c] = IF gdb_ = c /\ HasGDBClient THEN NoPacket ELSE @]
       /\ misdirected' = (misdirected \/ (HasGDBClient /\ gdb_ # c))
  /\ UNCHANGED <<up, gdb_, link, stops, session, packets, slipped, raced, aborted>>

Abort(why) ==
  /\ aborted' = why
  /\ UNCHANGED <<server, at, gdb, replies, last, slipped, misdirected, raced>>

Send(r) == Answer(<<r>>)

\* What most handlers leave alone.
NoThread == truth' = NoTruth
Stateless == UNCHANGED <<alive, regs, fregs, events, notes, debugger, bridge, views>> /\ NoThread

\* Packets GDB may send that the bridge answers with an empty one, and those
\* with a fixed answer.
Unsupported == {"!", "A", "b", "c", "C", "F", "G", "i", "I", "k", "R", "s", "S", "t", "T",
                "B", "d", "r", "vOther", "qOther", "QOther", "TStatus"}

HandleUnsupported ==
  /\ \E cmd \in Unsupported : Running(cmd)
  /\ Send(Empty) /\ Stateless /\ UNCHANGED failures

HandleFixed ==
  /\ \E cmd \in {"QStartNoAckMode", "Attached", "vCont?"} : Running(cmd)
  /\ Send(IF This.cmd = "QStartNoAckMode" THEN OK ELSE Reply("value", <<>>))
  /\ Stateless /\ UNCHANGED failures

-----------------------------------------------------------------------------
(* Threads and registers.                                                  *)

GetThread(t) == t \in Range(threads_)

\* 0 if there is none.
AnyThreadID ==
  IF threads_ = <<>> THEN 0
  ELSE IF active_thread_id_ # 0 THEN active_thread_id_ ELSE Head(threads_)

GetThreadIDForCommand(command) ==
  IF command \in DOMAIN thread_id_for_command_ THEN thread_id_for_command_[command] ELSE 0

\* The thread a packet is about, -1 for all of them, 0 if there is none.
ThreadIDFor(command) ==
  LET id == GetThreadIDForCommand(command) IN IF id = 0 THEN AnyThreadID ELSE id

\* HandleSelectThreadForCommandGroup. A number that cannot be parsed is None.
HandleSelectThreadForCommandGroup ==
  /\ Running("H")
  /\ IF This.thread = Unknown
     THEN Send(Error) /\ UNCHANGED thread_id_for_command_
     ELSE /\ Send(OK)
          /\ thread_id_for_command_' =
               [o \in DOMAIN thread_id_for_command_ \cup {This.operation} |->
                  IF o = This.operation THEN This.thread[1] ELSE thread_id_for_command_[o]]
  /\ UNCHANGED <<target, debugger, thread_info_buffer_, views>> /\ NoThread

\* Commands about a thread: XBDM refuses one that has ended.
Answered(t) == t \in alive /\ UNCHANGED failures
Refused(t) == IF t \in alive THEN Fails ELSE UNCHANGED failures

FetchContextSync(t) == Answered(t) /\ context' = [context EXCEPT ![t] = <<regs[t]>>]
FetchContextFails(t) == Refused(t) /\ context' = [context EXCEPT ![t] = Unknown]

\* ThreadFloatContext::Parse has room for the mantissas only.
FloatContext(t) == [r \in FloatRegister |-> fregs[t][r][1]]

FetchFloatContextSync(t, fetched) ==
  \/ Answered(t) /\ fetched = <<FloatContext(t)>>
  \/ Refused(t) /\ fetched = Unknown
FloatContexts(t) == {Unknown, <<FloatContext(t)>>}

\* A seeded fault: the order of the bytes is kept.
SwapNot(v) == v

\* htonl: the bytes of a word the other way round.
Swap(v) == (v % Byte) * Byte + v \div Byte

\* GetRegister widens a signed word: the sign fills the digits before it.
Digits(v) == <<IF v >= WordSize \div 2 THEN WordSize - 1 ELSE 0, v>>

\* A register that is not known is written as x.
X == -1
SerializeRegisters(general, floats) ==
  (IF general = Unknown THEN <<X, X>> ELSE <<Swap(general[1][0]), Swap(general[1][1])>>)
    \o <<X>> \o (IF floats = Unknown THEN <<X, X>> ELSE <<floats[1][3], floats[1][4]>>) \o <<X>>

RegisterCommands == {"g", "p", "P"}
RegisterPacket == /\ \E cmd \in RegisterCommands : Running(cmd)
                  /\ UNCHANGED <<alive, events, notes, bridge, views>>
ThreadObjects == UNCHANGED <<threads_, active_thread_id_, stopped, last_stop_reason>>
Untouched == ThreadObjects /\ UNCHANGED <<regs, fregs, context>>

\* HandleReadGeneralRegisters, HandleReadRegister, HandleWriteRegister: no
\* command is sent for a bad packet, for all threads or for an unknown thread.
RegisterPacketRejected ==
  /\ RegisterPacket
  /\ LET t == ThreadIDFor(This.cmd) IN
       \/ This.cmd # "g" /\ This.register = Unknown /\ Send(Error)
       \/ /\ This.cmd # "g" => This.register # Unknown
          /\ \/ t < 0 /\ Send(Empty)
             \/ t >= 0 /\ ~GetThread(t) /\ Send(Error)
  /\ Untouched /\ UNCHANGED failures /\ NoThread

Addressed(cmd, t) ==
  /\ RegisterPacket /\ This.cmd = cmd /\ t = ThreadIDFor(cmd) /\ t > 0 /\ GetThread(t)
  /\ cmd # "g" => This.register # Unknown
Named == This.register[1]
IsFloat == Named >= FLOAT_REGISTER_OFFSET

\* The general registers could not be fetched.
RegisterFetchFails(t) ==
  /\ \E cmd \in RegisterCommands : Addressed(cmd, t) /\ (cmd # "g" => ~IsFloat)
  /\ FetchContextFails(t) /\ Send(Error)
  /\ ThreadObjects /\ UNCHANGED <<regs, fregs>> /\ NoThread

\* A handler goes on after its first command with the Thread object it has.
Proceed(step, t, general, floats) ==
  /\ at' = [Idle EXCEPT !.step = step, !.thread = t, !.context = general, !.float_context = floats]
  /\ raced' = FALSE
  /\ UNCHANGED <<server, gdb, replies, last, slipped, misdirected, aborted>>

ReadGeneralRegisters(t) ==
  /\ Addressed("g", t) /\ FetchContextSync(t) /\ Proceed("context", t, <<regs[t]>>, Unknown)
  /\ ThreadObjects /\ UNCHANGED <<regs, fregs>> /\ NoThread

\* Its second command, whose failure only makes the float registers unknown.
SendGeneralRegisters ==
  /\ up /\ at.step = "context"
  /\ LET t == at.thread IN
       /\ \E fetched \in FloatContexts(t) :
            /\ FetchFloatContextSync(t, fetched)
            /\ Send(Reply("registers", SerializeRegisters(at.context, fetched)))
       /\ truth' = [thread |-> t, value |-> <<regs[t][0], regs[t][1]>>]
  /\ ThreadObjects /\ UNCHANGED <<alive, regs, fregs, events, notes, context, bridge, views>>

\* GetRegister, after the fetch for this kind of register.
ReadRegister(t) ==
  /\ Addressed("p", t)
  /\ \E fetched \in FloatContexts(t) :
       /\ IF IsFloat THEN FetchFloatContextSync(t, fetched) /\ UNCHANGED context
          ELSE FetchContextSync(t) /\ fetched = Unknown
       /\ CASE context'[t] = Unknown \/ Named \in OtherRegister ->
                 Send(Empty) /\ NoThread
            [] context'[t] # Unknown /\ Named \in GeneralRegister ->
                 /\ Send(Reply("value", Digits(context'[t][1][Named])))
                 /\ truth' = [thread |-> t, value |-> <<regs[t][Named]>>]
            [] context'[t] # Unknown /\ Named \in FloatRegister ->
                 IF fetched = Unknown THEN Abort("float") /\ NoThread
                 ELSE /\ Send(Reply("value", <<0, fetched[1][Named]>>))
                      /\ truth' = [thread |-> t, value |-> <<fregs[t][Named][1]>>]
  /\ ThreadObjects /\ UNCHANGED <<regs, fregs>>

Masked(v) == v % WordSize

SetRegister(register, value, values) == [values EXCEPT ![register] = value]

\* HandleWriteRegister, up to the push: the whole context is changed and pushed.
WriteRegister(t) ==
  /\ Addressed("P", t)
  /\ IF IsFloat
     THEN /\ UNCHANGED context
          /\ \E fetched \in FloatContexts(t) :
               /\ FetchFloatContextSync(t, fetched)
               /\ IF fetched # Unknown /\ Named \in FloatRegister
                  THEN Proceed("pushing", t, Unknown, <<SetRegister(Named, This.value, fetched[1])>>)
                  ELSE Send(Error)
     ELSE /\ Answered(t)
          /\ LET set == IF Named \in GeneralRegister
                        THEN <<SetRegister(Named, Masked(This.value), regs[t])>> ELSE <<regs[t]>>
             IN  /\ context' = [context EXCEPT ![t] = set]
                 /\ IF Named \in GeneralRegister THEN Proceed("pushing", t, set, Unknown)
                    ELSE Send(Error)
  /\ ThreadObjects /\ UNCHANGED <<regs, fregs>> /\ NoThread

\* Serialize copies ten bytes from each float register of eight: the exponent
\* of one becomes the first bytes of the next, that of the last cr0_npx_state.
Pushed(floats) == [r \in FloatRegister |-> <<floats[r], IF r = 4 THEN 0 ELSE floats[r + 1]>>]

\* A seeded fault: the context is pushed to the thread GDB would continue.
PushContextElsewhere(t, register) ==
  regs' = [u \in Thread |-> IF u = GetThreadIDForCommand("c") THEN at.context[1] ELSE regs[u]] /\ UNCHANGED fregs

PushContextSync(t, register) ==
  IF register >= FLOAT_REGISTER_OFFSET
  THEN fregs' = [fregs EXCEPT ![t] = Pushed(at.float_context[1])] /\ UNCHANGED regs
  ELSE regs' = [regs EXCEPT ![t] = at.context[1]] /\ UNCHANGED fregs

PushRegister ==
  /\ up /\ at.step = "pushing"
  /\ LET t == at.thread IN
       \/ Answered(t) /\ PushContextSync(t, Named) /\ Send(OK)
       \/ Refused(t) /\ Send(Error) /\ UNCHANGED <<regs, fregs>>
  /\ truth' = [thread |-> at.thread, value |-> <<>>]
  /\ UNCHANGED <<alive, events, notes, debugger, bridge, views>>

-----------------------------------------------------------------------------
(* Memory and breakpoints.                                                 *)

\* Whether memory is mapped is up to the target. An access of no bytes asserts.
MemoryAccess(ok) ==
  IF This.length[1] = 0 THEN Abort("zero length") /\ UNCHANGED failures
  ELSE \/ Send(ok) /\ UNCHANGED failures
       \/ Fails /\ Send(Error)

HandleReadMemory ==
  /\ Running("m")
  /\ IF This.address = Unknown \/ This.length = Unknown THEN Send(Error) /\ UNCHANGED failures
     ELSE MemoryAccess(Reply("data", <<This.length[1]>>))
  /\ Stateless

\* HandleWriteMemoryBinary, HandleWriteMemory. The latter unpacks hexadecimal
\* digits into a vector without room: if there are any that is undefined, and if
\* it does not crash nothing was unpacked.
HandleWriteMemory ==
  /\ \E cmd \in {"X", "M"} : Running(cmd)
  /\ CASE This.length = Unknown -> Send(OK) /\ UNCHANGED failures
       [] This.length # Unknown /\ This.address = Unknown -> Send(Error) /\ UNCHANGED failures
       [] OTHER ->
            LET size == IF This.cmd = "X" THEN This.data ELSE 0 IN
            \/ /\ This.cmd = "M" /\ This.data > 0
               /\ Abort("unhex") /\ UNCHANGED failures
            \/ This.length[1] # size /\ Send(Error) /\ UNCHANGED failures
            \/ This.length[1] = size /\ MemoryAccess(OK)
  /\ Stateless

\* HandleInsertBreakpointType, HandleRemoveBreakpointType: what XBDM answers is
\* not looked at.
BreakpointReplies(type) ==
  CASE type \in {"software", "write", "read", "access"} -> <<OK>>
    [] type = "hardware" -> <<Empty, Empty>>
    [] type = "malformed" -> <<Error>>
    [] OTHER -> <<Empty>>

HandleBreakpointType ==
  /\ \E cmd \in {"Z", "z"} : Running(cmd)
  /\ Answer(BreakpointReplies(This.type)) /\ Stateless /\ UNCHANGED failures

-----------------------------------------------------------------------------
(* Queries.                                                                *)

\* What becomes of a feature GDB offers, with what comes after it. One that is
\* not known is declined without a separator.
Declined == {"multiprocess+", "hwbreak+", "fork-events+"}
FeatureReply(feature) ==
  CASE feature = "swbreak+" -> <<1, 0>>
    [] feature \in Declined -> <<2, 0>>
    [] feature = "unknown+" -> <<2>>
    [] OTHER -> <<>>

HandleQuerySupported ==
  /\ Running("Supported")
  /\ CASE This.features = Unknown -> Send(Empty)
       [] This.features # Unknown /\ "empty" \in Range(This.features[1]) -> Abort("feature")
       [] OTHER -> Send(Reply("features", [i \in DOMAIN This.features[1] |->
                                             FeatureReply(This.features[1][i])]))
  /\ Stateless /\ UNCHANGED failures

HandleQueryThreadExtraInfo ==
  /\ Running("ThreadExtraInfo")
  /\ LET t == This.thread IN
       CASE t = Unknown -> Send(Error)
         [] t # Unknown /\ ~GetThread(t[1]) -> Send(Error)
         [] OTHER -> IF stopped[t[1]] /\ ~last_stop_reason[t[1]] THEN Abort("reason")
                     ELSE Send(Reply("value", t))
  /\ Stateless /\ UNCHANGED failures

GetThreadIDs(threads) ==
  IF threads = <<>> THEN <<>>
  ELSE (IF active_thread_id_ = 0 THEN <<>> ELSE <<active_thread_id_>>)
         \o SelectSeq(threads, LAMBDA t : t # active_thread_id_)

\* A seeded fault: what was sent stays in the buffer if more remains.
InfoBufferKept(buffer, send_all) ==
  IF buffer = <<>> THEN [sent |-> <<>>, rest |-> <<>>]
  ELSE IF send_all THEN [sent |-> buffer, rest |-> <<>>]
  ELSE [sent |-> <<Head(buffer)>>, rest |-> buffer]

\* SendThreadInfoBuffer: "l" if nothing is left, else the first or all of it.
InfoBuffer(buffer, send_all) ==
  IF buffer = <<>> THEN [sent |-> <<>>, rest |-> <<>>]
  ELSE IF send_all THEN [sent |-> buffer, rest |-> <<>>]
  ELSE [sent |-> <<Head(buffer)>>, rest |-> Tail(buffer)]

SendThreadInfoBuffer(buffer, send_all) ==
  LET info == InfoBuffer(buffer, send_all) IN
  /\ Send(Reply(IF info.sent = <<>> THEN "l" ELSE "m", info.sent))
  /\ thread_info_buffer_' = info.rest
  /\ listed' = IF send_all THEN listed \o info.sent ELSE info.sent

\* FetchThreads with the list XBDM answered: new Thread objects, whose infos are
\* fetched too before threads_lock_ is released, which keeps the notifications out.
FetchThreads(list) ==
  /\ threads_' = list
  /\ context' = [t \in Thread |-> Unknown]
  /\ stopped' = [t \in Thread |-> FALSE] /\ last_stop_reason' = [t \in Thread |-> FALSE]
  /\ UNCHANGED active_thread_id_

\* qfThreadInfo goes on, with a list that is not yet stored.
GoesOn(step, list) ==
  /\ at' = [Idle EXCEPT !.step = step, !.threads = list]
  /\ replies' = <<>> /\ last' = NoPacket
  /\ UNCHANGED <<server, gdb, slipped, misdirected, raced, aborted>>
Pending(kind) == {t \in Thread : \E i \in DOMAIN notes : notes[i] = <<kind, t>>}

\* HandleThreadInfoStart: XBDM lists its threads, in any order; the list is stored
\* under threads_lock_; the ids are read under it again.
HandleThreadInfoStart ==
  /\ Running("qf")
  /\ \/ Fails /\ Send(Error) /\ UNCHANGED snapshot
     \/ \E list \in Bijection(1..Cardinality(alive), alive) :
          /\ GoesOn("listing", list)
          /\ snapshot' = [lasting |-> alive \ Pending("terminate"),
                          ever |-> alive \cup Pending("create") \cup {active_thread_id_}]
          /\ UNCHANGED failures
  /\ UNCHANGED <<alive, regs, fregs, events, notes, debugger, bridge, listed, document>> /\ NoThread

StoreThreads ==
  /\ up /\ at.step = "listing"
  /\ FetchThreads(at.threads) /\ GoesOn("listed", <<>>)
  /\ UNCHANGED <<target, bridge, views>> /\ NoThread

SendThreadIDs ==
  /\ up /\ at.step = "listed"
  /\ SendThreadInfoBuffer(GetThreadIDs(threads_), FALSE)
  /\ UNCHANGED <<target, debugger, thread_id_for_command_, snapshot, document>> /\ NoThread

HandleThreadInfoContinue ==
  /\ Running("qs")
  /\ SendThreadInfoBuffer(thread_info_buffer_, TRUE)
  /\ UNCHANGED <<target, debugger, thread_id_for_command_, snapshot, document>> /\ NoThread

HandleQueryCurrentThreadID ==
  /\ Running("qC")
  /\ Send(IF AnyThreadID = 0 THEN Empty ELSE Reply("QC", <<AnyThreadID>>))
  /\ Stateless /\ UNCHANGED failures

\* HandleFeaturesRead: the part of kTargetXML, "l" with the last. The end is an
\* unsigned number of 32 bits.
Features(start, length) ==
  LET end == (start + length) % UInt32
      available == [i \in 1..TargetXML |-> i]
  IN  CASE start >= TargetXML -> Reply("l", <<>>)
        [] start < TargetXML /\ end >= TargetXML -> Reply("l", SubSeq(available, start + 1, TargetXML))
        [] OTHER ->
             LET stop == IF start + length < TargetXML THEN start + length ELSE TargetXML IN
             Reply("m", SubSeq(available, start + 1, stop))

HandleFeaturesRead ==
  /\ Running("Xfer")
  /\ IF This.length = Unknown THEN Send(Error) /\ UNCHANGED document
     ELSE LET part == Features(This.start, This.length[1]) IN
          Send(part) /\ document' = document \o part.data
  /\ UNCHANGED <<target, debugger, bridge, listed, snapshot>> /\ NoThread

-----------------------------------------------------------------------------
RegisterJobs ==
  \/ RegisterPacketRejected \/ SendGeneralRegisters \/ PushRegister
  \/ \E t \in Thread : RegisterFetchFails(t) \/ ReadGeneralRegisters(t)
                         \/ ReadRegister(t) \/ WriteRegister(t)

HandlePacket ==
  \/ HandleUnsupported \/ HandleFixed \/ HandleSelectThreadForCommandGroup \/ RegisterJobs
  \/ HandleReadMemory \/ HandleWriteMemory \/ HandleBreakpointType
  \/ HandleQuerySupported \/ HandleQueryThreadExtraInfo \/ HandleThreadInfoStart
  \/ StoreThreads \/ SendThreadIDs \/ HandleThreadInfoContinue \/ HandleQueryCurrentThreadID \/ HandleFeaturesRead

Step ==
  \/ TitleRuns \/ ThreadComesOrGoes \/ OnThreadCreated \/ OnThreadTerminated \/ StopReasonLost
  \/ \E c \in Client : GDBSends(c) \/ GDBQuits(c) \/ OnGDBClientConnected(c)
  \/ AttachAndHalt \/ AddTransport \/ StopGDBServer \/ StartGDBServer \/ HandlePacket

Next == aborted = "no" /\ Step

Spec == Init /\ [][Next]_vars

-----------------------------------------------------------------------------
(* Properties.                                                             *)

\* A packet gets one reply, which is what GDB counts on to tell answers apart,
\* except that a hardware breakpoint gets two: its case of the switch goes on to
\* the reply after it. The bridge answers gdb_, whoever asked. That is who asked,
\* unless a second GDB connected while the first was being attached:
\* OnGDBClientConnected then finds no client, and packets it sends before
\* AddTransport refuses it are carried out and answered to the first.
RepliesGoToTheirClient ==
  /\ slipped \/ ~misdirected
  /\ last # NoPacket =>
       Len(replies) = IF last.cmd \in {"Z", "z"} /\ last.type = "hardware" THEN 2 ELSE 1

\* g and p answer with what the registers hold: g with the bytes of a word in
\* the order of memory, p with digits in the order of the number, preceded by the
\* sign. They are of the thread selected with Hg for g, of the active or first
\* thread for p, whatever was selected. What g answers is not what the registers
\* hold if the title ran between its two commands.
RegisterRepliesAreTrue ==
  LET data == replies[1].data
      sign(v) == IF v >= 8 THEN 15 ELSE 0
  IN  truth.thread # 0 =>
        /\ last.cmd = "g" => GetThreadIDForCommand("g") \in {0, truth.thread}
        /\ (last.cmd = "g" /\ ~raced) =>
             /\ data[1] = 4 * (truth.value[1] % 4) + truth.value[1] \div 4
             /\ data[2] = 4 * (truth.value[2] % 4) + truth.value[2] \div 4
        /\ (last.cmd = "p" /\ last.register[1] < FLOAT_REGISTER_OFFSET) =>
             data = <<sign(truth.value[1]), truth.value[1]>>

\* A step that changes registers is one of the title, or a push that changes the
\* register it is for and no other, unless it raced with the title.
WriteIsLocal ==
  regs' # regs \/ fregs' # fregs =>
    \/ raced' \/ events' # events
    \/ /\ at.step = "pushing"
       /\ \A u \in Thread :
            /\ \A r \in GeneralRegister : regs'[u][r] # regs[u][r] =>
                 u = at.thread /\ r = Named /\ regs'[u][r] = This.value % WordSize
            /\ \A r \in FloatRegister : fregs'[u][r][1] # fregs[u][r][1] =>
                 u = at.thread /\ r = Named /\ fregs'[u][r][1] = This.value

\* A P packet changes its register of its thread and no other, though the whole
\* context is fetched, changed and pushed, unless the title ran in between. Of
\* float registers this holds for the mantissas only: see Pushed.
WritesAreLocalUnlessRaced == [][WriteIsLocal]_vars

\* What GDB reads in several packets is whole, whatever threads come and go. When
\* qsThreadInfo has answered "l", GDB has seen no thread twice, and every one that
\* lived from XBDM's list until the ids were read, unless the end of an earlier
\* thread of its id was still to be notified: OnThreadTerminated then takes it out.
\* Besides GDB has seen only threads that lived in that time, ones whose creation
\* was still to be notified, and an active thread whose end is not yet known.
\* target.xml in parts of any length gives the document, complete when the part is
\* marked the last, also if the end of the part overflows.
PartsReassemble ==
  /\ (last.cmd = "qs" /\ replies = <<Reply("l", <<>>)>>) =>
       /\ IsInjective(listed)
       /\ snapshot.lasting \subseteq Range(listed)
       /\ Range(listed) \subseteq snapshot.ever
  /\ document = [i \in 1..Len(document) |-> i]
  /\ (last.cmd = "Xfer" /\ replies[1].kind = "l") => Len(document) = TargetXML
=============================================================================
