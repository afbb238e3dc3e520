-------------------------- MODULE GDBBridgeProofs --------------------------
(***************************************************************************)
(* Proofs about GDBBridge, for any number of GDBs, threads, packets,       *)
(* failures and restarts of the server: replies go to who asked, registers *)
(* are reported as they are, and writes stay in their register.            *)
(***************************************************************************)
EXTENDS GDBBridge, SequenceTheorems, TLAPS

Packets == UNION {s.packets : s \in Session}
Job == [client : Client, packet : Packets \cup {Connect}]
General == [GeneralRegister -> Int]
Float == [FloatRegister -> Int]
Optional(S) == {Unknown} \cup {<<v>> : v \in S}

TargetInv ==
  /\ alive \subseteq Thread /\ events \in Nat
  /\ regs \in [Thread -> General] /\ fregs \in [Thread -> [FloatRegister -> Int \X Int]]
ContextInv == context \in [Thread -> Optional(General)]
ServerInv ==
  /\ link \in [Client -> {"none", "pending", "open", "closed"}]
  /\ gdb_ \in Client \cup {Nobody}
  /\ session \in Session /\ inbox \in Seq(Job)
TypeInv == TargetInv /\ ContextInv /\ ServerInv

\* What a write pushes if nothing has changed since it fetched its context.
FloatsToPush == SetRegister(Named, This.value, FloatContext(at.thread))
RegistersToPush == SetRegister(Named, Masked(This.value), regs[at.thread])

\* The contexts a job holds are what it fetched, and changed, unless the title ran.
ReadKept == raced \/ at.context = <<regs[at.thread]>>
FloatsKept == raced \/ at.float_context = <<FloatsToPush>>
RegistersKept == raced \/ at.context = <<RegistersToPush>>

\* What a job that is between its commands relies on: it is still the first, is
\* about the thread its packet is about, and holds contexts that are kept.
AtInv ==
  /\ at.step \in {"idle", "connected", "context", "pushing", "listing", "listed"}
  /\ at.step \in {"listing", "listed"} => This.cmd = "qf"
  /\ at.step # "idle" => up /\ inbox # <<>>
  /\ at.step = "connected" => This = Connect
  /\ at.step = "context" =>
       /\ This.cmd = "g" /\ at.thread \in Thread /\ at.context \in {<<v>> : v \in General}
       /\ GetThreadIDForCommand("g") \in {0, at.thread}
       /\ ReadKept
  /\ at.step = "pushing" =>
       /\ This.cmd = "P" /\ at.thread \in Thread
       /\ \/ /\ Named \in FloatRegister /\ at.float_context \in {<<v>> : v \in Float}
             /\ FloatsKept
          \/ /\ Named \in GeneralRegister /\ at.context \in {<<v>> : v \in General}
             /\ RegistersKept

\* While no second GDB connects beside the first: what comes after a Connect is
\* from the GDB that connects,
ConnectIsLast ==
  \A i, j \in 1..Len(inbox) : (i < j /\ inbox[i].packet = Connect) =>
    /\ inbox[j].packet # Connect /\ inbox[j].client = inbox[i].client
    /\ at.step = "connected"
\* all that is to be done is for the client, if there is one,
JobsAreOfTheClient ==
  HasGDBClient => \A i \in 1..Len(inbox) : inbox[i].packet # Connect /\ inbox[i].client = gdb_
\* only it and the one being added are open,
OpenIsKnown ==
  \A c \in Client : link[c] = "open" => c = gdb_ \/ (at.step = "connected" /\ c = Head(inbox).client)
\* one that is not yet open is not the client,
UnopenedIsNot ==
  \A c \in Client : link[c] \in {"none", "pending"} => gdb_ # c
\* and one waits to be attached until its job begins, which opens it.
ConnectIsPending ==
  \A i \in 1..Len(inbox) : (inbox[i].packet = Connect /\ at.step # "connected") =>
    link[inbox[i].client] = "pending"
AddedWasOpen ==
  at.step = "connected" => link[Head(inbox).client] \in {"open", "closed"}

OneGDB ==
  /\ ConnectIsLast /\ JobsAreOfTheClient /\ OpenIsKnown
  /\ UnopenedIsNot /\ ConnectIsPending /\ AddedWasOpen

RouteInv ==
  /\ slipped \/ ~misdirected
  /\ (aborted = "no" /\ ~slipped) => OneGDB

\* A packet that was answered got as many replies as RepliesGoToTheirClient says.
CountInv == last # NoPacket =>
  Len(replies) = IF last.cmd \in {"Z", "z"} /\ last.type = "hardware" THEN 2 ELSE 1

-----------------------------------------------------------------------------
(* Jobs and packets.                                                       *)

\* What Append makes of the jobs.
LEMMA Appended ==
  ASSUME NEW S, NEW s \in Seq(S), NEW e \in S
  PROVE  /\ Append(s, e) \in Seq(S) /\ Len(Append(s, e)) = Len(s) + 1 /\ Append(s, e) # <<>>
         /\ \A i \in 1..Len(s) : Append(s, e)[i] = s[i]
         /\ Append(s, e)[Len(s) + 1] = e
         /\ s # <<>> => Head(Append(s, e)) = Head(s)
BY AppendProperties

\* What is left when the first job is done.
LEMMA Behind ==
  ASSUME NEW S, NEW s \in Seq(S), s # <<>>
  PROVE  /\ Tail(s) \in Seq(S) /\ Len(s) \in Nat /\ Len(s) > 0 /\ Len(Tail(s)) = Len(s) - 1
         /\ \A i \in 1..Len(Tail(s)) : Tail(s)[i] = s[i + 1] /\ i + 1 \in 1..Len(s)
         /\ Head(s) = s[1] /\ s[1] \in S
BY HeadTailProperties

\* A packet GDB sends is none of the bridge's own marks.
LEMMA Sent ==
  ASSUME NEW p \in Packets
  PROVE  /\ p.cmd \notin {"none", "connect"} /\ p # Connect /\ p # NoPacket
         /\ p.cmd \in {"p", "P"} => p.register \in {Unknown} \cup {<<r>> : r \in Register}
         /\ p.cmd = "P" => p.value \in Nat
<1>1. PICK s \in Session : p \in s.packets
  BY Zenon DEF Packets
<1>2. /\ p.cmd \notin {"none", "connect"}
      /\ p.cmd \in {"p", "P"} => p.register \in {Unknown} \cup {<<r>> : r \in Register}
      /\ p.cmd = "P" => p.value \in Nat
  BY Zenon, <1>1, GDBBridgeAssumption
<1>3. Connect.cmd = "connect" /\ NoPacket.cmd = "none"
  BY DEF Connect, NoPacket
<1> QED
  BY Zenon, <1>2, <1>3

\* The first job is of a client, and a packet of a GDB or its connecting.
LEMMA First ==
  ASSUME TypeInv, inbox # <<>>
  PROVE  /\ Head(inbox) \in Job /\ Head(inbox).client \in Client /\ Head(inbox) = inbox[1]
         /\ 1 \in 1..Len(inbox)
         /\ This \in Packets \cup {Connect}
         /\ This.cmd = "connect" => This = Connect
         /\ This.cmd # "connect" => This \in Packets
<1>1. inbox \in Seq(Job)
  BY Zenon DEF TypeInv, TargetInv, ContextInv, ServerInv
<1>2. Head(inbox) = inbox[1] /\ inbox[1] \in Job /\ 1 \in 1..Len(inbox)
  BY <1>1, Behind
<1>3. Head(inbox).client \in Client /\ This \in Packets \cup {Connect}
  BY Zenon, <1>2 DEF Job, This
<1>4. This \in Packets => This.cmd # "connect"
  BY Zenon, Sent
<1>5. Connect.cmd = "connect"
  BY DEF Connect
<1> QED
  BY Zenon, <1>2, <1>3, <1>4, <1>5

-----------------------------------------------------------------------------
(* Handlers that are done at once.                                         *)

\* The replies a packet gets.
Count == IF This.cmd \in {"Z", "z"} /\ This.type = "hardware" THEN 2 ELSE 1
Answers == \E rs : Answer(rs) /\ Len(rs) = Count
Begun == up /\ at.step = "idle" /\ inbox # <<>> /\ This.cmd # "connect"

\* A handler that is done with its packet at once, has nothing to say of the
\* registers, and changes none.
Plain ==
  /\ Begun /\ UNCHANGED <<alive, regs, fregs, events>> /\ truth' = NoTruth
  /\ context' \in [Thread -> Optional(General)]
  /\ Answers \/ \E why : Abort(why)

LEMMA OneAnswer ==
  ASSUME This.cmd \notin {"Z", "z"}, NEW r, Send(r)
  PROVE  Answers
<1>1. Len(<<r>>) = 1
  OBVIOUS
<1> QED
  BY Zenon, <1>1 DEF Answers, Send, Count

LEMMA Started ==
  ASSUME NEW cmd, Running(cmd), cmd # "connect"
  PROVE  Begun /\ This.cmd = cmd
BY Zenon DEF Running, Begun, This

\* A Stateless handler of a packet other than Z and z.
LEMMA StatelessPlain ==
  ASSUME TypeInv, NEW cmd, Running(cmd), cmd \notin {"connect", "Z", "z"}, Stateless,
         (\E r : Send(r)) \/ (\E why : Abort(why))
  PROVE  Plain
<1>1. Begun /\ This.cmd \notin {"Z", "z"}
  BY Zenon, Started
<1>2. Answers \/ \E why : Abort(why)
  BY Zenon, <1>1, OneAnswer
<1>3. UNCHANGED <<alive, regs, fregs, events, context>> /\ truth' = NoTruth
  BY Zenon DEF Stateless, debugger, NoThread
<1>4. context \in [Thread -> Optional(General)]
  BY Zenon DEF TypeInv, TargetInv, ContextInv, ServerInv
<1> QED
  BY Zenon, <1>1, <1>2, <1>3, <1>4 DEF Plain

LEMMA UnsupportedPlain ==
  ASSUME TypeInv, HandleUnsupported
  PROVE  Plain
<1>1. PICK cmd \in Unsupported : Running(cmd)
  BY Zenon DEF HandleUnsupported
<1>2. cmd \notin {"connect", "Z", "z"}
  BY <1>1 DEF Unsupported
<1> QED
  BY Zenon, <1>1, <1>2, StatelessPlain DEF HandleUnsupported

LEMMA FixedPlain ==
  ASSUME TypeInv, HandleFixed
  PROVE  Plain
<1>1. PICK cmd \in {"QStartNoAckMode", "Attached", "vCont?"} : Running(cmd)
  BY Zenon DEF HandleFixed
<1>2. cmd \notin {"connect", "Z", "z"}
  BY <1>1
<1> QED
  BY Zenon, <1>1, <1>2, StatelessPlain DEF HandleFixed

LEMMA MemoryOutcome ==
  ASSUME NEW ok, MemoryAccess(ok)
  PROVE  (\E r : Send(r)) \/ (\E why : Abort(why))
BY Zenon DEF MemoryAccess

LEMMA ReadMemoryPlain ==
  ASSUME TypeInv, HandleReadMemory
  PROVE  Plain
<1>1. (\E r : Send(r)) \/ (\E why : Abort(why))
  BY Zenon, MemoryOutcome DEF HandleReadMemory
<1>2. Running("m") /\ Stateless
  BY Zenon DEF HandleReadMemory
<1>3. "m" \notin {"connect", "Z", "z"}
  OBVIOUS
<1> QED
  BY Zenon, <1>1, <1>2, <1>3, StatelessPlain

LEMMA WriteMemoryPlain ==
  ASSUME TypeInv, HandleWriteMemory
  PROVE  Plain
<1>1. (\E r : Send(r)) \/ (\E why : Abort(why))
  BY Zenon, MemoryOutcome DEF HandleWriteMemory
<1>2. PICK cmd \in {"X", "M"} : Running(cmd)
  BY Zenon DEF HandleWriteMemory
<1>3. cmd \notin {"connect", "Z", "z"}
  BY <1>2
<1> QED
  BY Zenon, <1>1, <1>2, <1>3, StatelessPlain DEF HandleWriteMemory

LEMMA BreakpointTypePlain ==
  ASSUME TypeInv, HandleBreakpointType
  PROVE  Plain
<1>1. PICK cmd \in {"Z", "z"} : Running(cmd)
  BY Zenon DEF HandleBreakpointType
<1>2. cmd # "connect"
  BY <1>1
<1>3. Begun /\ This.cmd \in {"Z", "z"}
  BY Zenon, <1>1, <1>2, Started
<1>4. /\ This.type = "hardware" => Len(BreakpointReplies(This.type)) = 2
      /\ This.type # "hardware" => Len(BreakpointReplies(This.type)) = 1
  BY DEF BreakpointReplies
<1>5. Answers
  BY Zenon, <1>3, <1>4 DEF Answers, Count, HandleBreakpointType
<1>6. UNCHANGED <<alive, regs, fregs, events, context>> /\ truth' = NoTruth
  BY Zenon DEF HandleBreakpointType, Stateless, debugger, NoThread
<1>7. context \in [Thread -> Optional(General)]
  BY Zenon DEF TypeInv, TargetInv, ContextInv, ServerInv
<1> QED
  BY Zenon, <1>3, <1>5, <1>6, <1>7 DEF Plain

LEMMA QuerySupportedPlain ==
  ASSUME TypeInv, HandleQuerySupported
  PROVE  Plain
<1>1. (\E r : Send(r)) \/ (\E why : Abort(why))
  BY Zenon DEF HandleQuerySupported
<1>2. Running("Supported") /\ Stateless
  BY Zenon DEF HandleQuerySupported
<1>3. "Supported" \notin {"connect", "Z", "z"}
  OBVIOUS
<1> QED
  BY Zenon, <1>1, <1>2, <1>3, StatelessPlain

LEMMA ThreadExtraInfoPlain ==
  ASSUME TypeInv, HandleQueryThreadExtraInfo
  PROVE  Plain
<1>1. (\E r : Send(r)) \/ (\E why : Abort(why))
  BY Zenon DEF HandleQueryThreadExtraInfo
<1>2. Running("ThreadExtraInfo") /\ Stateless
  BY Zenon DEF HandleQueryThreadExtraInfo
<1>3. "ThreadExtraInfo" \notin {"connect", "Z", "z"}
  OBVIOUS
<1> QED
  BY Zenon, <1>1, <1>2, <1>3, StatelessPlain

LEMMA CurrentThreadPlain ==
  ASSUME TypeInv, HandleQueryCurrentThreadID
  PROVE  Plain
<1>1. Running("qC") /\ Stateless /\ \E r : Send(r)
  BY Zenon DEF HandleQueryCurrentThreadID
<1>2. "qC" \notin {"connect", "Z", "z"}
  OBVIOUS
<1> QED
  BY Zenon, <1>1, <1>2, StatelessPlain


\* A handler of a packet other than Z and z that changes what it likes of the
\* threads, the list and the document.
LEMMA RunPlain ==
  ASSUME TypeInv, NEW cmd, Running(cmd), cmd \notin {"connect", "Z", "z"},
         UNCHANGED <<alive, regs, fregs, events>>, NoThread,
         context' \in [Thread -> Optional(General)],
         (\E r : Send(r)) \/ (\E why : Abort(why))
  PROVE  Plain
<1>1. Begun /\ This.cmd \notin {"Z", "z"}
  BY Zenon, Started
<1>2. Answers \/ \E why : Abort(why)
  BY Zenon, <1>1, OneAnswer
<1> QED
  BY Zenon, <1>1, <1>2 DEF Plain, NoThread

LEMMA SelectThreadPlain ==
  ASSUME TypeInv, HandleSelectThreadForCommandGroup
  PROVE  Plain
<1>1. Running("H") /\ NoThread /\ \E r : Send(r)
  BY Zenon DEF HandleSelectThreadForCommandGroup
<1>2. UNCHANGED <<alive, regs, fregs, events, context>>
  BY Zenon DEF HandleSelectThreadForCommandGroup, target, debugger
<1>3. context' \in [Thread -> Optional(General)]
  BY Zenon, <1>2 DEF TypeInv, ContextInv
<1>4. "H" \notin {"connect", "Z", "z"}
  OBVIOUS
<1> QED
  BY Zenon, <1>1, <1>2, <1>3, <1>4, RunPlain

\* qfThreadInfo up to its last step, which leaves the packet to be answered.
Lists ==
  /\ up /\ inbox # <<>> /\ This.cmd = "qf" /\ at.step \in {"idle", "listing"}
  /\ UNCHANGED <<alive, regs, fregs, events, thread_id_for_command_>> /\ truth' = NoTruth
  /\ context' \in [Thread -> Optional(General)]
  /\ \E step \in {"listing", "listed"} : \E list : GoesOn(step, list)

LEMMA ThreadInfoStartCases ==
  ASSUME TypeInv, HandleThreadInfoStart
  PROVE  Plain \/ Lists
<1>1. Running("qf") /\ NoThread /\ UNCHANGED <<alive, regs, fregs, events, debugger, bridge>>
  BY Zenon DEF HandleThreadInfoStart
<1>2. context' \in [Thread -> Optional(General)] /\ UNCHANGED thread_id_for_command_
  BY Zenon, <1>1 DEF TypeInv, ContextInv, debugger, bridge
<1>3. "qf" \notin {"connect", "Z", "z"}
  OBVIOUS
<1>4. CASE \E r : Send(r)
  BY Zenon, <1>1, <1>2, <1>3, <1>4, RunPlain
<1>5. ASSUME NEW list, GoesOn("listing", list)
      PROVE  Lists
  <2>1. up /\ inbox # <<>> /\ This.cmd = "qf" /\ at.step = "idle"
    BY Zenon, <1>1 DEF Running, This
  <2> QED
    BY Zenon, <1>1, <1>2, <1>5, <2>1 DEF Lists, NoThread
<1> QED
  BY Zenon, <1>4, <1>5 DEF HandleThreadInfoStart

LEMMA StoreThreadsLists ==
  ASSUME TypeInv, AtInv, StoreThreads
  PROVE  Lists
<1>1. up /\ at.step = "listing" /\ UNCHANGED <<target, bridge>> /\ truth' = NoTruth
  BY Zenon DEF StoreThreads, NoThread
<1>2. "listing" # "idle"
  OBVIOUS
<1>3. inbox # <<>> /\ This.cmd = "qf"
  BY Zenon, <1>1, <1>2 DEF AtInv
<1>4. context' = [t \in Thread |-> Unknown]
  BY Zenon DEF StoreThreads, FetchThreads
<1>5. context' \in [Thread -> Optional(General)]
  BY Zenon, <1>4 DEF Optional
<1>6. UNCHANGED <<alive, regs, fregs, events, thread_id_for_command_>>
  BY Zenon, <1>1 DEF target, bridge
<1>7. GoesOn("listed", <<>>)
  BY Zenon DEF StoreThreads
<1> QED
  BY Zenon, <1>1, <1>3, <1>5, <1>6, <1>7 DEF Lists

\* Its last step answers the packet.
LEMMA ThreadIDsSent ==
  ASSUME AtInv, SendThreadIDs
  PROVE  /\ up /\ at.step = "listed" /\ inbox # <<>> /\ This.cmd = "qf"
         /\ UNCHANGED <<alive, regs, fregs, events, context>> /\ truth' = NoTruth
         /\ \E r : Send(r)
<1>1. up /\ at.step = "listed" /\ UNCHANGED <<target, debugger>> /\ truth' = NoTruth
  BY Zenon DEF SendThreadIDs, NoThread
<1>2. "listed" # "idle"
  OBVIOUS
<1>3. inbox # <<>> /\ This.cmd = "qf"
  BY Zenon, <1>1, <1>2 DEF AtInv
<1>4. \E r : Send(r)
  BY Zenon DEF SendThreadIDs, SendThreadInfoBuffer
<1> QED
  BY Zenon, <1>1, <1>3, <1>4 DEF target, debugger

LEMMA ThreadInfoContinuePlain ==
  ASSUME TypeInv, HandleThreadInfoContinue
  PROVE  Plain
<1>1. Running("qs") /\ NoThread /\ UNCHANGED <<alive, regs, fregs, events, context>>
  BY Zenon DEF HandleThreadInfoContinue, target, debugger
<1>2. \E r : Send(r)
  BY Zenon DEF HandleThreadInfoContinue, SendThreadInfoBuffer
<1>3. context' \in [Thread -> Optional(General)]
  BY Zenon, <1>1 DEF TypeInv, ContextInv
<1>4. "qs" \notin {"connect", "Z", "z"}
  OBVIOUS
<1> QED
  BY Zenon, <1>1, <1>2, <1>3, <1>4, RunPlain

LEMMA FeaturesReadPlain ==
  ASSUME TypeInv, HandleFeaturesRead
  PROVE  Plain
<1>1. Running("Xfer") /\ NoThread /\ UNCHANGED <<alive, regs, fregs, events, context>>
  BY Zenon DEF HandleFeaturesRead, target, debugger
<1>2. \E r : Send(r)
  BY Zenon DEF HandleFeaturesRead
<1>3. context' \in [Thread -> Optional(General)]
  BY Zenon, <1>1 DEF TypeInv, ContextInv
<1>4. "Xfer" \notin {"connect", "Z", "z"}
  OBVIOUS
<1> QED
  BY Zenon, <1>1, <1>2, <1>3, <1>4, RunPlain

-----------------------------------------------------------------------------
(* Handlers of registers.                                                  *)

\* An answer to p: the digits are those of the register, if it is a general one.
ReadsOne(t) ==
  /\ Begun /\ This.cmd = "p" /\ UNCHANGED <<alive, regs, fregs, events>>
  /\ context' \in [Thread -> Optional(General)]
  /\ \E r, v : /\ Send(r) /\ truth' = [thread |-> t, value |-> <<v>>]
               /\ Named < FLOAT_REGISTER_OFFSET =>
                    r.data = <<IF v >= 8 THEN 15 ELSE 0, v>>

\* P up to its second command.
WritesOne(t) ==
  /\ Begun /\ This.cmd = "P" /\ UNCHANGED <<alive, regs, fregs, events>> /\ truth' = NoTruth
  /\ context' \in [Thread -> Optional(General)]
  /\ \/ /\ Named \in FloatRegister
        /\ Proceed("pushing", t, Unknown, <<SetRegister(Named, This.value, FloatContext(t))>>)
     \/ /\ Named \in GeneralRegister
        /\ Proceed("pushing", t, <<SetRegister(Named, Masked(This.value), regs[t])>>, Unknown)

\* The packets about registers.
LEMMA RegisterPackets ==
  ASSUME TypeInv, RegisterPacket
  PROVE  /\ Begun /\ This.cmd \in RegisterCommands /\ Running(This.cmd)
         /\ This.cmd \notin {"connect", "Z", "z"}
         /\ UNCHANGED <<alive, events, bridge>> /\ This \in Packets
<1>1. PICK cmd \in RegisterCommands : Running(cmd)
  BY Zenon DEF RegisterPacket
<1>2. cmd \notin {"connect", "Z", "z"}
  BY <1>1 DEF RegisterCommands
<1>3. Begun /\ This.cmd = cmd
  BY Zenon, <1>1, <1>2, Started
<1>4. This \in Packets
  BY Zenon, <1>2, <1>3, First DEF Begun
<1>5. UNCHANGED <<alive, events, bridge>>
  BY Zenon DEF RegisterPacket
<1> QED
  BY Zenon, <1>1, <1>2, <1>3, <1>4, <1>5

\* A register that is named is one of the kinds the bridge knows.
LEMMA NamedOne ==
  ASSUME TypeInv, NEW t, NEW cmd \in {"p", "P"}, Addressed(cmd, t)
  PROVE  /\ Named \in Register
         /\ IsFloat => Named \in FloatRegister \cup OtherRegister /\ Named \notin GeneralRegister
         /\ ~IsFloat => Named \in GeneralRegister \cup OtherRegister /\ Named \notin FloatRegister
         /\ Named \in GeneralRegister => Named \notin OtherRegister
         /\ Named \in FloatRegister => Named \notin OtherRegister
         /\ IsFloat <=> ~(Named < FLOAT_REGISTER_OFFSET)
<1>1. RegisterPacket /\ This.cmd = cmd /\ (cmd # "g" => This.register # Unknown)
  BY Zenon DEF Addressed
<1>2. cmd # "g"
  OBVIOUS
<1>3. This \in Packets
  BY Zenon, <1>1, RegisterPackets
<1>4. This.register \in {<<r>> : r \in Register}
  BY Zenon, <1>1, <1>2, <1>3, Sent
<1>5. PICK r \in Register : This.register = <<r>>
  BY Zenon, <1>4
<1>6. Named = r
  BY <1>5 DEF Named
<1> QED
  BY <1>6 DEF Register, IsFloat, GeneralRegister, FloatRegister, OtherRegister, FLOAT_REGISTER_OFFSET

LEMMA RejectedPlain ==
  ASSUME TypeInv, RegisterPacketRejected
  PROVE  Plain
<1>1. RegisterPacket /\ NoThread /\ \E r : Send(r)
  BY Zenon DEF RegisterPacketRejected
<1>2. UNCHANGED <<regs, fregs, context>>
  BY Zenon DEF RegisterPacketRejected, Untouched
<1>3. context' \in [Thread -> Optional(General)]
  BY Zenon, <1>2 DEF TypeInv, ContextInv
<1>4. /\ Running(This.cmd) /\ This.cmd \notin {"connect", "Z", "z"} /\ UNCHANGED <<alive, events>>
  BY Zenon, <1>1, RegisterPackets
<1> QED
  BY Zenon, <1>1, <1>2, <1>3, <1>4, RunPlain

\* The table of contexts keeps its type whatever is fetched.
LEMMA Fetched ==
  ASSUME TypeInv, NEW t \in Thread, NEW v \in Optional(General)
  PROVE  /\ [context EXCEPT ![t] = v] \in [Thread -> Optional(General)]
         /\ [context EXCEPT ![t] = v][t] = v
<1>1. context \in [Thread -> Optional(General)]
  BY Zenon DEF TypeInv, TargetInv, ContextInv, ServerInv
<1> QED
  BY <1>1

LEMMA FetchFailsPlain ==
  ASSUME TypeInv, NEW t \in Thread, RegisterFetchFails(t)
  PROVE  Plain
<1>1. RegisterPacket /\ NoThread /\ UNCHANGED <<regs, fregs>> /\ \E r : Send(r)
  BY Zenon DEF RegisterFetchFails, Addressed
<1>2. context' = [context EXCEPT ![t] = Unknown]
  BY Zenon DEF RegisterFetchFails, FetchContextFails
<1>3. Unknown \in Optional(General)
  BY Zenon DEF Optional
<1>4. context' \in [Thread -> Optional(General)]
  BY Zenon, <1>2, <1>3, Fetched
<1>5. /\ Running(This.cmd) /\ This.cmd \notin {"connect", "Z", "z"} /\ UNCHANGED <<alive, events>>
  BY Zenon, <1>1, RegisterPackets
<1> QED
  BY Zenon, <1>1, <1>4, <1>5, RunPlain


LEMMA GeneralKnown ==
  ASSUME TypeInv, NEW t \in Thread
  PROVE  /\ regs[t] \in General /\ <<regs[t]>> \in Optional(General) /\ <<regs[t]>> # Unknown
         /\ <<regs[t]>>[1] = regs[t]
<1>1. regs[t] \in General
  BY Zenon DEF TypeInv, TargetInv, ContextInv, ServerInv
<1>2. <<regs[t]>> # Unknown /\ <<regs[t]>>[1] = regs[t]
  BY DEF Unknown
<1> QED
  BY Zenon, <1>1, <1>2 DEF Optional

\* p for a register of the general kind, and for one of the float kind.
LEMMA ReadRegisterCases ==
  ASSUME TypeInv, NEW t \in Thread, ReadRegister(t)
  PROVE  Plain \/ ReadsOne(t)
<1>1. Addressed("p", t) /\ UNCHANGED <<regs, fregs>>
  BY Zenon DEF ReadRegister
<1>2. RegisterPacket /\ This.cmd = "p"
  BY Zenon, <1>1 DEF Addressed
<1>3. /\ Begun /\ Running(This.cmd) /\ This.cmd \notin {"connect", "Z", "z"}
      /\ UNCHANGED <<alive, events>>
  BY Zenon, <1>2, RegisterPackets
<1>4. /\ Named \in Register
      /\ IsFloat => Named \in FloatRegister \cup OtherRegister /\ Named \notin GeneralRegister
      /\ ~IsFloat => Named \in GeneralRegister \cup OtherRegister /\ Named \notin FloatRegister
      /\ Named \in GeneralRegister => Named \notin OtherRegister
      /\ Named \in FloatRegister => Named \notin OtherRegister
      /\ IsFloat <=> ~(Named < FLOAT_REGISTER_OFFSET)
  BY Zenon, <1>1, NamedOne
<1>5. PICK fetched \in FloatContexts(t) :
        /\ IF IsFloat THEN FetchFloatContextSync(t, fetched) /\ UNCHANGED context
           ELSE FetchContextSync(t) /\ fetched = Unknown
        /\ CASE context'[t] = Unknown \/ Named \in OtherRegister ->
                  Send(Empty) /\ NoThread
             [] context'[t] # Unknown /\ Named \in GeneralRegister ->
                  /\ Send(Reply("value", Digits(context'[t][1][Named])))
                  /\ truth' = [thread |-> t, value |-> <<regs[t][Named]>>]
             [] context'[t] # Unknown /\ Named \in FloatRegister ->
                  IF fetched = Unknown THEN Abort("float") /\ NoThread
                  ELSE /\ Send(Reply("value", <<0, fetched[1][Named]>>))
                       /\ truth' = [thread |-> t, value |-> <<fregs[t][Named][1]>>]
  BY Zenon DEF ReadRegister
<1>6. \/ Send(Empty) /\ NoThread
      \/ Abort("float") /\ NoThread
      \/ /\ Named \in GeneralRegister /\ Send(Reply("value", Digits(context'[t][1][Named])))
         /\ truth' = [thread |-> t, value |-> <<regs[t][Named]>>]
      \/ /\ Named \in FloatRegister /\ Send(Reply("value", <<0, fetched[1][Named]>>))
         /\ truth' = [thread |-> t, value |-> <<fregs[t][Named][1]>>]
  <2>1. CASE context'[t] = Unknown \/ Named \in OtherRegister
    BY Zenon, <1>5, <2>1, <1>4
  <2>2. CASE context'[t] # Unknown /\ Named \in GeneralRegister
    BY Zenon, <1>5, <2>2, <1>4
  <2>3. CASE context'[t] # Unknown /\ Named \in FloatRegister
    BY Zenon, <1>5, <2>3, <1>4
  <2> QED
    BY Zenon, <2>1, <2>2, <2>3, <1>4 DEF Register
<1>7. ~IsFloat => context' = [context EXCEPT ![t] = <<regs[t]>>]
  BY Zenon, <1>5 DEF FetchContextSync
<1>8. context' \in [Thread -> Optional(General)]
  <2>1. CASE IsFloat
    <3>1. context' = context
      BY Zenon, <2>1, <1>5
    <3> QED
      BY Zenon, <3>1 DEF TypeInv, ContextInv
  <2>2. CASE ~IsFloat
    BY Zenon, <2>2, <1>7, GeneralKnown, Fetched
  <2> QED
    BY Zenon, <2>1, <2>2
<1>9. CASE NoThread
  <2>1. (\E r : Send(r)) \/ (\E why : Abort(why))
    BY Zenon, <1>6
  <2> QED
    BY Zenon, <2>1, <1>9, <1>1, <1>3, <1>8, RunPlain
<1>10. CASE /\ Named \in GeneralRegister /\ Send(Reply("value", Digits(context'[t][1][Named])))
            /\ truth' = [thread |-> t, value |-> <<regs[t][Named]>>]
  <2>1. ~IsFloat
    BY Zenon, <1>10, <1>4
  <2>2. context'[t] = <<regs[t]>>
    BY Zenon, <2>1, <1>7, GeneralKnown, Fetched
  <2>3. context'[t][1][Named] = regs[t][Named]
    BY Zenon, <2>2, GeneralKnown
  <2>4. Reply("value", Digits(regs[t][Named])).data
          = <<IF regs[t][Named] >= 8 THEN 15 ELSE 0, regs[t][Named]>>
    BY DEF Reply, Digits, WordSize, Byte
  <2> QED
    BY Zenon, <1>10, <2>3, <2>4, <1>1, <1>2, <1>3, <1>8 DEF ReadsOne
<1>11. CASE /\ Named \in FloatRegister /\ Send(Reply("value", <<0, fetched[1][Named]>>))
            /\ truth' = [thread |-> t, value |-> <<fregs[t][Named][1]>>]
  <2>1. ~(Named < FLOAT_REGISTER_OFFSET)
    BY Zenon, <1>11, <1>4
  <2> QED
    BY Zenon, <1>11, <2>1, <1>1, <1>2, <1>3, <1>8 DEF ReadsOne
<1> QED
  BY Zenon, <1>6, <1>9, <1>10, <1>11

\* P for a register of the general kind, and for one of the float kind.
LEMMA WriteRegisterCases ==
  ASSUME TypeInv, NEW t \in Thread, WriteRegister(t)
  PROVE  Plain \/ WritesOne(t)
<1>1. Addressed("P", t) /\ NoThread /\ UNCHANGED <<regs, fregs>>
  BY Zenon DEF WriteRegister
<1>2. RegisterPacket /\ This.cmd = "P"
  BY Zenon, <1>1 DEF Addressed
<1>3. /\ Begun /\ Running(This.cmd) /\ This.cmd \notin {"connect", "Z", "z"}
      /\ UNCHANGED <<alive, events>> /\ This \in Packets
  BY Zenon, <1>2, RegisterPackets
<1>4. context \in [Thread -> Optional(General)]
  BY Zenon DEF TypeInv, TargetInv, ContextInv, ServerInv
<1>5. ASSUME context' \in [Thread -> Optional(General)], NEW r, Send(r)
      PROVE  Plain
  BY Zenon, <1>1, <1>3, <1>5, RunPlain
<1>6. CASE IsFloat
  <2>1. context' = context
    BY Zenon, <1>6 DEF WriteRegister
  <2>2. context' \in [Thread -> Optional(General)]
    BY Zenon, <2>1, <1>4
  <2>3. PICK fetched \in FloatContexts(t) :
          IF fetched # Unknown /\ Named \in FloatRegister
          THEN Proceed("pushing", t, Unknown, <<SetRegister(Named, This.value, fetched[1])>>)
          ELSE Send(Error)
    BY Zenon, <1>6 DEF WriteRegister
  <2>4. CASE fetched # Unknown /\ Named \in FloatRegister
    <3>1. fetched = <<FloatContext(t)>>
      BY Zenon, <2>4 DEF FloatContexts
    <3>2. fetched[1] = FloatContext(t)
      BY <3>1
    <3>3. Proceed("pushing", t, Unknown, <<SetRegister(Named, This.value, FloatContext(t))>>)
      BY Zenon, <2>3, <2>4, <3>2
    <3> QED
      BY Zenon, <3>3, <2>2, <2>4, <1>1, <1>2, <1>3 DEF WritesOne, NoThread
  <2>5. CASE ~(fetched # Unknown /\ Named \in FloatRegister)
    BY Zenon, <2>5, <2>3, <2>2, <1>5
  <2> QED
    BY Zenon, <2>4, <2>5
<1>7. CASE ~IsFloat
  <2> DEFINE set == IF Named \in GeneralRegister
                    THEN <<SetRegister(Named, Masked(This.value), regs[t])>> ELSE <<regs[t]>>
  <2>1. /\ context' = [context EXCEPT ![t] = set]
        /\ IF Named \in GeneralRegister THEN Proceed("pushing", t, set, Unknown) ELSE Send(Error)
    BY Zenon, <1>7 DEF WriteRegister
  <2>2. regs[t] \in General /\ Masked(This.value) \in Int
    <3>1. This.value \in Nat
      BY Zenon, <1>2, <1>3, Sent
    <3>2. Masked(This.value) \in Int
      BY <3>1 DEF Masked, WordSize, Byte
    <3> QED
      BY Zenon, <3>2, GeneralKnown
  <2>3. Named \in GeneralRegister => SetRegister(Named, Masked(This.value), regs[t]) \in General
    BY <2>2 DEF SetRegister, General
  <2>4. set \in Optional(General)
    BY Zenon, <2>2, <2>3 DEF Optional
  <2>5. context' \in [Thread -> Optional(General)]
    BY Zenon, <2>1, <2>4, Fetched
  <2>6. CASE Named \in GeneralRegister
    BY Zenon, <2>1, <2>5, <2>6, <1>1, <1>2, <1>3 DEF WritesOne, NoThread
  <2>7. CASE Named \notin GeneralRegister
    BY Zenon, <2>1, <2>5, <2>7, <1>5
  <2> QED
    BY Zenon, <2>6, <2>7
<1> QED
  BY Zenon, <1>6, <1>7

\* Every way to handle a packet.
LEMMA PacketCases ==
  ASSUME TypeInv, AtInv, HandlePacket
  PROVE  \/ Plain \/ SendGeneralRegisters \/ PushRegister \/ Lists \/ SendThreadIDs
         \/ \E t \in Thread : ReadGeneralRegisters(t) \/ ReadsOne(t) \/ WritesOne(t)
<1>1. CASE RegisterJobs
  <2>1. CASE RegisterPacketRejected \/ SendGeneralRegisters \/ PushRegister
    BY Zenon, <2>1, RejectedPlain
  <2>2. CASE \E t \in Thread : RegisterFetchFails(t) \/ ReadGeneralRegisters(t)
                                 \/ ReadRegister(t) \/ WriteRegister(t)
    BY Zenon, <2>2, FetchFailsPlain, ReadRegisterCases, WriteRegisterCases
  <2> QED
    BY Zenon, <1>1, <2>1, <2>2 DEF RegisterJobs
<1>2. CASE ~RegisterJobs
  BY Zenon, <1>2, UnsupportedPlain, FixedPlain, SelectThreadPlain, ReadMemoryPlain, WriteMemoryPlain,
     BreakpointTypePlain, QuerySupportedPlain, ThreadExtraInfoPlain, ThreadInfoStartCases,
     StoreThreadsLists, ThreadInfoContinuePlain, CurrentThreadPlain, FeaturesReadPlain
     DEF HandlePacket
<1> QED
  BY Zenon, <1>1, <1>2

-----------------------------------------------------------------------------
(* Types.                                                                  *)

LEMMA Sizes == WordSize = 16 /\ Byte = 4
BY DEF WordSize, Byte

LEMMA FirstType ==
  ASSUME NEW t \in Nat
  PROVE  FirstRegisters(t) \in General /\ FirstFloats \in [FloatRegister -> Int \X Int]
BY Sizes DEF FirstRegisters, FirstFloats, General, GeneralRegister, FloatRegister

\* What an answer leaves of the server, and what an abort and a handler that goes on do.
LEMMA AnswerType ==
  ASSUME ServerInv, inbox # <<>>, NEW rs, Answer(rs)
  PROVE  ServerInv'
<1>1. UNCHANGED <<link, gdb_, session>> /\ inbox' = Tail(inbox)
  BY Zenon DEF Answer
<1>2. inbox \in Seq(Job)
  BY Zenon DEF ServerInv
<1>3. Tail(inbox) \in Seq(Job)
  BY <1>2, Behind
<1> QED
  BY Zenon, <1>1, <1>3 DEF ServerInv

LEMMA ServerFrame ==
  ASSUME ServerInv, UNCHANGED <<link, gdb_, session, inbox>>
  PROVE  ServerInv'
BY Zenon DEF ServerInv

LEMMA AbortFrame ==
  ASSUME NEW why, Abort(why)
  PROVE  /\ UNCHANGED <<link, gdb_, session, inbox, up, at, replies, last>>
         /\ UNCHANGED <<slipped, misdirected, raced>>
BY Zenon DEF Abort, server, gdb

LEMMA ProceedFrame ==
  ASSUME NEW step, NEW t, NEW general, NEW floats, Proceed(step, t, general, floats)
  PROVE  /\ UNCHANGED <<link, gdb_, session, inbox, up, replies, last>>
         /\ UNCHANGED <<slipped, misdirected, aborted>>
         /\ at'.step = step /\ at'.thread = t
         /\ at'.context = general /\ at'.float_context = floats
<1>1. /\ UNCHANGED <<link, gdb_, session, inbox, up, replies, last>>
      /\ UNCHANGED <<slipped, misdirected, aborted>>
  BY Zenon DEF Proceed, server, gdb
<1>2. at' = [Idle EXCEPT !.step = step, !.thread = t, !.context = general, !.float_context = floats]
  BY Zenon DEF Proceed
<1>3. at'.step = step /\ at'.thread = t /\ at'.context = general /\ at'.float_context = floats
  BY <1>2 DEF Idle
<1> QED
  BY Zenon, <1>1, <1>3

LEMMA GoesOnFrame ==
  ASSUME NEW step, NEW list, GoesOn(step, list)
  PROVE  /\ UNCHANGED <<link, gdb_, session, inbox, up, slipped, misdirected, aborted>>
         /\ at'.step = step /\ last' = NoPacket
<1>1. UNCHANGED <<link, gdb_, session, inbox, up, slipped, misdirected, aborted>> /\ last' = NoPacket
  BY Zenon DEF GoesOn, server, gdb
<1>2. at' = [Idle EXCEPT !.step = step, !.threads = list]
  BY Zenon DEF GoesOn
<1>3. at'.step = step
  BY <1>2 DEF Idle
<1> QED
  BY Zenon, <1>1, <1>3

LEMMA TitleRunsType ==
  ASSUME TypeInv, TitleRuns
  PROVE  TypeInv'
<1>1. PICK t \in alive : regs' = [regs EXCEPT ![t][1] = (@ + 1) % WordSize]
  BY Zenon DEF TitleRuns
<1>2. t \in Thread /\ regs \in [Thread -> General] /\ events \in Nat
  BY Zenon, <1>1 DEF TypeInv, TargetInv
<1>3. regs[t] \in [0..1 -> Int]
  BY Zenon, <1>2 DEF General, GeneralRegister
<1>4. [regs[t] EXCEPT ![1] = (@ + 1) % WordSize] \in [0..1 -> Int]
  BY <1>3, Sizes
<1>5. regs' = [regs EXCEPT ![t] = [regs[t] EXCEPT ![1] = (@ + 1) % WordSize]]
  BY <1>1
<1>6. regs' \in [Thread -> General]
  BY <1>2, <1>4, <1>5 DEF General, GeneralRegister
<1>7. events' \in Nat
  BY <1>2 DEF TitleRuns, Happens
<1>8. UNCHANGED <<alive, fregs, context, link, gdb_, session, inbox>>
  BY Zenon DEF TitleRuns, debugger, server, gdb
<1> QED
  BY Zenon, <1>6, <1>7, <1>8 DEF TypeInv, TargetInv, ContextInv, ServerInv

LEMMA ThreadsType ==
  ASSUME TypeInv, ThreadComesOrGoes
  PROVE  TypeInv'
<1>1. PICK t \in Thread :
        /\ alive' = IF t \in alive THEN alive \ {t} ELSE alive \cup {t}
        /\ regs' = IF t \in alive THEN regs ELSE [regs EXCEPT ![t] = FirstRegisters(t)]
        /\ fregs' = IF t \in alive THEN fregs ELSE [fregs EXCEPT ![t] = FirstFloats]
  BY Zenon DEF ThreadComesOrGoes
<1>2. /\ alive \subseteq Thread /\ regs \in [Thread -> General] /\ events \in Nat
      /\ fregs \in [Thread -> [FloatRegister -> Int \X Int]]
  BY Zenon DEF TypeInv, TargetInv
<1>3. t \in Nat
  BY <1>1, GDBBridgeAssumption
<1>4. FirstRegisters(t) \in General /\ FirstFloats \in [FloatRegister -> Int \X Int]
  BY Zenon, <1>3, FirstType
<1>5. regs' \in [Thread -> General]
  BY <1>1, <1>2, <1>4
<1>6. fregs' \in [Thread -> [FloatRegister -> Int \X Int]]
  BY <1>1, <1>2, <1>4
<1>7. alive' \subseteq Thread
  BY Zenon, <1>1, <1>2
<1>8. events' \in Nat
  BY <1>2 DEF ThreadComesOrGoes, Happens
<1>9. UNCHANGED <<context, link, gdb_, session, inbox>>
  BY Zenon DEF ThreadComesOrGoes, debugger, server, gdb
<1> QED
  BY Zenon, <1>5, <1>6, <1>7, <1>8, <1>9 DEF TypeInv, TargetInv, ContextInv, ServerInv

LEMMA NotesType ==
  ASSUME TypeInv, OnThreadCreated \/ OnThreadTerminated \/ StopReasonLost
  PROVE  TypeInv'
<1>1. UNCHANGED <<alive, regs, fregs, events>>
  BY Zenon DEF OnThreadCreated, OnThreadTerminated, StopReasonLost
<1>2. UNCHANGED <<link, gdb_, session, inbox>>
  BY Zenon DEF OnThreadCreated, OnThreadTerminated, StopReasonLost, server, gdb
<1>3. context \in [Thread -> Optional(General)] /\ Unknown \in Optional(General)
  BY Zenon DEF TypeInv, ContextInv, Optional
<1>4. context' = context \/ \E t : context' = [context EXCEPT ![t] = Unknown]
  BY Zenon DEF OnThreadCreated, OnThreadTerminated, StopReasonLost, debugger, NewThread
<1>5. context' \in [Thread -> Optional(General)]
  BY <1>3, <1>4
<1> QED
  BY Zenon, <1>1, <1>2, <1>5 DEF TypeInv, TargetInv, ContextInv, ServerInv


LEMMA LinkType ==
  ASSUME ServerInv, NEW c, NEW v \in {"none", "pending", "open", "closed"}
  PROVE  [link EXCEPT ![c] = v] \in [Client -> {"none", "pending", "open", "closed"}]
<1>1. link \in [Client -> {"none", "pending", "open", "closed"}]
  BY Zenon DEF ServerInv
<1> QED
  BY Zenon, <1>1

\* The jobs after one is added.
LEMMA Added ==
  ASSUME ServerInv, NEW c \in Client, NEW p \in Packets \cup {Connect}
  PROVE  Append(inbox, [client |-> c, packet |-> p]) \in Seq(Job)
<1>1. inbox \in Seq(Job)
  BY Zenon DEF ServerInv
<1>2. [client |-> c, packet |-> p] \in Job
  BY DEF Job
<1> QED
  BY <1>1, <1>2, Appended

LEMMA TargetFrame ==
  ASSUME TargetInv, ContextInv, UNCHANGED <<alive, regs, fregs, events, context>>
  PROVE  TargetInv' /\ ContextInv'
BY Zenon DEF TargetInv, ContextInv

LEMMA GDBType ==
  ASSUME TypeInv, NEW c \in Client, GDBSends(c) \/ GDBQuits(c) \/ OnGDBClientConnected(c)
  PROVE  TypeInv'
<1>1. UNCHANGED <<alive, regs, fregs, events, context, gdb_, session>>
  BY Zenon DEF GDBSends, GDBQuits, OnGDBClientConnected, target, debugger, gdb
<1>2. TargetInv' /\ ContextInv'
  BY Zenon, <1>1, TargetFrame DEF TypeInv
<1>3. /\ ServerInv /\ gdb_ \in Client \cup {Nobody} /\ session \in Session
      /\ link \in [Client -> {"none", "pending", "open", "closed"}] /\ inbox \in Seq(Job)
  BY Zenon DEF TypeInv, ServerInv
<1>4. /\ [link EXCEPT ![c] = "closed"] \in [Client -> {"none", "pending", "open", "closed"}]
      /\ [link EXCEPT ![c] = "pending"] \in [Client -> {"none", "pending", "open", "closed"}]
  BY Zenon, <1>3, LinkType
<1>5. link' \in [Client -> {"none", "pending", "open", "closed"}]
  BY Zenon, <1>3, <1>4 DEF GDBSends, GDBQuits, OnGDBClientConnected
<1>6. inbox' \in Seq(Job)
  <2>1. CASE GDBSends(c)
    <3>1. PICK p \in session.packets : inbox' = Append(inbox, [client |-> c, packet |-> p])
      BY Zenon, <2>1 DEF GDBSends
    <3>2. p \in Packets \cup {Connect}
      BY Zenon, <3>1, <1>3 DEF Packets
    <3> QED
      BY Zenon, <3>1, <3>2, <1>3, Added
  <2>2. CASE GDBQuits(c)
    BY Zenon, <2>2, <1>3 DEF GDBQuits
  <2>3. CASE OnGDBClientConnected(c)
    <3>1. inbox' = inbox \/ inbox' = Append(inbox, [client |-> c, packet |-> Connect])
      BY Zenon, <2>3 DEF OnGDBClientConnected
    <3>2. Connect \in Packets \cup {Connect}
      BY Zenon
    <3> QED
      BY Zenon, <3>1, <3>2, <1>3, Added
  <2> QED
    BY Zenon, <2>1, <2>2, <2>3
<1> QED
  BY Zenon, <1>1, <1>2, <1>3, <1>5, <1>6 DEF TypeInv, ServerInv

LEMMA ConnectType ==
  ASSUME TypeInv, AtInv, AttachAndHalt \/ AddTransport
  PROVE  TypeInv'
<1>1. UNCHANGED <<alive, regs, fregs, events, context, session>>
  BY Zenon DEF AttachAndHalt, AddTransport, target, debugger, gdb
<1>2. TargetInv' /\ ContextInv'
  BY Zenon, <1>1, TargetFrame DEF TypeInv
<1>3. /\ ServerInv /\ gdb_ \in Client \cup {Nobody} /\ session \in Session
      /\ link \in [Client -> {"none", "pending", "open", "closed"}] /\ inbox \in Seq(Job)
  BY Zenon DEF TypeInv, ServerInv
<1>4. inbox # <<>>
  <2>1. "connected" # "idle"
    OBVIOUS
  <2> QED
    BY Zenon, <2>1 DEF AttachAndHalt, AddTransport, Running, AtInv
<1>5. Tail(inbox) \in Seq(Job)
  BY <1>3, <1>4, Behind
<1>6. Head(inbox).client \in Client
  BY Zenon, <1>4, First
<1>7. inbox' \in Seq(Job) /\ gdb_' \in Client \cup {Nobody}
  BY Zenon, <1>3, <1>5, <1>6 DEF AttachAndHalt, AddTransport
<1>8. link' \in [Client -> {"none", "pending", "open", "closed"}]
  <2>1. PICK v \in {"none", "pending", "open", "closed"} :
          link' = [link EXCEPT ![Head(inbox).client] = v]
    <3>1. CASE AttachAndHalt
      BY Zenon, <3>1 DEF AttachAndHalt
    <3>2. CASE AddTransport
      <4>1. link[Head(inbox).client] \in {"none", "pending", "open", "closed"}
        BY Zenon, <1>3, <1>6
      <4>2. \/ link' = [link EXCEPT ![Head(inbox).client] = "closed"]
            \/ link' = [link EXCEPT ![Head(inbox).client] = link[Head(inbox).client]]
        BY Zenon, <3>2, <1>3, <1>6 DEF AddTransport
      <4> QED
        BY Zenon, <4>1, <4>2
    <3> QED
      BY Zenon, <3>1, <3>2
  <2> QED
    BY Zenon, <2>1, <1>3, LinkType
<1> QED
  BY Zenon, <1>1, <1>2, <1>3, <1>7, <1>8 DEF TypeInv, ServerInv

LEMMA ServerType ==
  ASSUME TypeInv, StopGDBServer \/ StartGDBServer
  PROVE  TypeInv'
<1>1. UNCHANGED <<alive, regs, fregs, events, context, session>>
  BY Zenon DEF StopGDBServer, StartGDBServer, target, debugger, gdb
<1>2. TargetInv' /\ ContextInv'
  BY Zenon, <1>1, TargetFrame DEF TypeInv
<1>3. /\ gdb_ \in Client \cup {Nobody} /\ session \in Session
      /\ link \in [Client -> {"none", "pending", "open", "closed"}] /\ inbox \in Seq(Job)
  BY Zenon DEF TypeInv, ServerInv
<1>4. <<>> \in Seq(Job)
  BY EmptySeq
<1>5. CASE StopGDBServer
  <2>1. link' = [c \in Client |-> IF c = gdb_ /\ link[c] = "open" THEN "closed" ELSE link[c]]
    BY Zenon, <1>5 DEF StopGDBServer
  <2>2. link' \in [Client -> {"none", "pending", "open", "closed"}]
    BY <2>1, <1>3
  <2>3. gdb_' = Nobody /\ inbox' = <<>>
    BY Zenon, <1>5 DEF StopGDBServer
  <2> QED
    BY Zenon, <1>1, <1>2, <1>3, <1>4, <2>2, <2>3 DEF TypeInv, ServerInv
<1>6. CASE StartGDBServer
  <2>1. UNCHANGED <<link, gdb_, inbox>>
    BY Zenon, <1>6 DEF StartGDBServer
  <2> QED
    BY Zenon, <1>1, <1>2, <1>3, <2>1 DEF TypeInv, ServerInv
<1> QED
  BY Zenon, <1>5, <1>6


\* The context a write pushes is a context.
LEMMA PushType ==
  ASSUME TypeInv, AtInv, PushRegister
  PROVE  TypeInv'
<1>1. up /\ at.step = "pushing" /\ UNCHANGED <<alive, events, context>> /\ \E r : Send(r)
  BY Zenon DEF PushRegister, debugger
<1>2. "pushing" # "idle"
  OBVIOUS
<1>3. inbox # <<>> /\ This.cmd = "P" /\ at.thread \in Thread
  BY Zenon, <1>1, <1>2 DEF AtInv
<1>4. \/ Named \in FloatRegister /\ at.float_context \in {<<v>> : v \in Float}
      \/ Named \in GeneralRegister /\ at.context \in {<<v>> : v \in General}
  BY Zenon, <1>1 DEF AtInv
<1>5. /\ regs \in [Thread -> General] /\ fregs \in [Thread -> [FloatRegister -> Int \X Int]]
      /\ ServerInv
  BY Zenon DEF TypeInv, TargetInv
<1>6. ServerInv'
  BY Zenon, <1>1, <1>3, <1>5, AnswerType DEF Send
<1>7. \/ UNCHANGED <<regs, fregs>>
      \/ PushContextSync(at.thread, Named)
  BY Zenon DEF PushRegister
<1>8. regs' \in [Thread -> General] /\ fregs' \in [Thread -> [FloatRegister -> Int \X Int]]
  <2>1. CASE UNCHANGED <<regs, fregs>>
    BY Zenon, <2>1, <1>5
  <2>2. CASE PushContextSync(at.thread, Named) /\ Named \in FloatRegister
    <3>1. Named >= FLOAT_REGISTER_OFFSET
      BY <2>2 DEF FloatRegister, FLOAT_REGISTER_OFFSET
    <3>2. fregs' = [fregs EXCEPT ![at.thread] = Pushed(at.float_context[1])] /\ UNCHANGED regs
      BY Zenon, <2>2, <3>1 DEF PushContextSync
    <3>3. PICK v \in Float : at.float_context = <<v>>
      <4>1. Named \notin GeneralRegister
        BY <2>2 DEF FloatRegister, GeneralRegister
      <4> QED
        BY Zenon, <4>1, <1>4
    <3>4. at.float_context[1] = v
      BY <3>3
    <3>5. Pushed(v) \in [FloatRegister -> Int \X Int]
      BY DEF Pushed, Float, FloatRegister
    <3> QED
      BY Zenon, <3>2, <3>4, <3>5, <1>5
  <2>3. CASE PushContextSync(at.thread, Named) /\ Named \notin FloatRegister
    <3>1. ~(Named >= FLOAT_REGISTER_OFFSET)
      BY <1>4, <2>3 DEF GeneralRegister, FLOAT_REGISTER_OFFSET
    <3>2. regs' = [regs EXCEPT ![at.thread] = at.context[1]] /\ UNCHANGED fregs
      BY Zenon, <2>3, <3>1 DEF PushContextSync
    <3>3. PICK v \in General : at.context = <<v>>
      BY Zenon, <2>3, <1>4
    <3>4. at.context[1] = v
      BY <3>3
    <3> QED
      BY Zenon, <3>2, <3>4, <1>5
  <2> QED
    BY Zenon, <1>7, <2>1, <2>2, <2>3
<1> QED
  BY Zenon, <1>1, <1>6, <1>8 DEF TypeInv, TargetInv, ContextInv

LEMMA PacketType ==
  ASSUME TypeInv, AtInv, HandlePacket
  PROVE  TypeInv'
<1>1. ServerInv
  BY Zenon DEF TypeInv
<1>2. CASE Plain
  <2>1. ServerInv'
    BY Zenon, <1>1, <1>2, AnswerType, AbortFrame, ServerFrame DEF Plain, Answers, Begun
  <2> QED
    BY Zenon, <1>2, <2>1 DEF Plain, TypeInv, TargetInv, ContextInv
<1>3. CASE SendGeneralRegisters
  <2>1. UNCHANGED <<alive, regs, fregs, events, context>> /\ \E r : Send(r)
    BY Zenon, <1>3 DEF SendGeneralRegisters
  <2>2. "context" # "idle"
    OBVIOUS
  <2>3. inbox # <<>>
    BY Zenon, <1>3, <2>2 DEF SendGeneralRegisters, AtInv
  <2>4. ServerInv'
    BY Zenon, <1>1, <2>1, <2>3, AnswerType DEF Send
  <2> QED
    BY Zenon, <2>1, <2>4, TargetFrame DEF TypeInv
<1>4. CASE PushRegister
  BY Zenon, <1>4, PushType
<1>5. ASSUME NEW t \in Thread, ReadGeneralRegisters(t)
      PROVE  TypeInv'
  <2>1. /\ RegisterPacket /\ UNCHANGED <<regs, fregs>>
        /\ Proceed("context", t, <<regs[t]>>, Unknown)
        /\ context' = [context EXCEPT ![t] = <<regs[t]>>]
    BY Zenon, <1>5 DEF ReadGeneralRegisters, Addressed, FetchContextSync
  <2>2. ServerInv'
    BY Zenon, <1>1, <2>1, ProceedFrame, ServerFrame
  <2>3. context' \in [Thread -> Optional(General)]
    BY Zenon, <2>1, GeneralKnown, Fetched
  <2>4. UNCHANGED <<alive, events>>
    BY Zenon, <2>1, RegisterPackets
  <2> QED
    BY Zenon, <2>1, <2>2, <2>3, <2>4 DEF TypeInv, TargetInv, ContextInv
<1>6. ASSUME NEW t \in Thread, ReadsOne(t)
      PROVE  TypeInv'
  <2>1. ServerInv'
    BY Zenon, <1>1, <1>6, AnswerType DEF ReadsOne, Send, Begun
  <2> QED
    BY Zenon, <1>6, <2>1 DEF ReadsOne, TypeInv, TargetInv, ContextInv
<1>7. ASSUME NEW t \in Thread, WritesOne(t)
      PROVE  TypeInv'
  <2>1. ServerInv'
    BY Zenon, <1>1, <1>7, ProceedFrame, ServerFrame DEF WritesOne
  <2> QED
    BY Zenon, <1>7, <2>1 DEF WritesOne, TypeInv, TargetInv, ContextInv
<1>8. CASE Lists
  <2>1. ServerInv'
    BY Zenon, <1>1, <1>8, GoesOnFrame, ServerFrame DEF Lists
  <2> QED
    BY Zenon, <1>8, <2>1 DEF Lists, TypeInv, TargetInv, ContextInv
<1>9. CASE SendThreadIDs
  <2>1. ServerInv'
    BY Zenon, <1>1, <1>9, ThreadIDsSent, AnswerType DEF Send
  <2> QED
    BY Zenon, <1>9, <2>1, ThreadIDsSent, TargetFrame DEF TypeInv
<1> QED
  BY Zenon, <1>2, <1>3, <1>4, <1>5, <1>6, <1>7, <1>8, <1>9, PacketCases

LEMMA StepType ==
  ASSUME TypeInv, AtInv, Step
  PROVE  TypeInv'
BY Zenon, TitleRunsType, ThreadsType, NotesType, GDBType, ConnectType, ServerType, PacketType DEF Step

LEMMA InitType ==
  ASSUME Init
  PROVE  TypeInv
<1>1. /\ alive = Range(Initial) /\ events = 0 /\ context = [t \in Thread |-> Unknown]
      /\ regs = [t \in Thread |-> FirstRegisters(t)] /\ fregs = [t \in Thread |-> FirstFloats]
      /\ gdb_ = Nobody /\ link = [c \in Client |-> "none"] /\ inbox = <<>> /\ session \in Session
  BY Zenon DEF Init
<1>2. alive \subseteq Thread
  <2>1. Initial \in Seq(Thread)
    BY Zenon, GDBBridgeAssumption
  <2>2. Range(Initial) \subseteq Thread
    BY <2>1 DEF Range
  <2> QED
    BY Zenon, <1>1, <2>2
<1>3. ASSUME NEW t \in Thread
      PROVE  FirstRegisters(t) \in General /\ FirstFloats \in [FloatRegister -> Int \X Int]
  <2>1. t \in Nat
    BY GDBBridgeAssumption
  <2> QED
    BY Zenon, <2>1, FirstType
<1>4. regs \in [Thread -> General] /\ fregs \in [Thread -> [FloatRegister -> Int \X Int]]
  BY Zenon, <1>1, <1>3
<1>5. events \in Nat /\ <<>> \in Seq(Job)
  BY <1>1, EmptySeq
<1>6. context \in [Thread -> Optional(General)]
  BY Zenon, <1>1 DEF Optional
<1>7. link \in [Client -> {"none", "pending", "open", "closed"}]
  BY Zenon, <1>1
<1> QED
  BY Zenon, <1>1, <1>2, <1>4, <1>5, <1>6, <1>7 DEF TypeInv, TargetInv, ContextInv, ServerInv

-----------------------------------------------------------------------------
(* Jobs between their commands.                                            *)

LEMMA IdleAt ==
  ASSUME at'.step = "idle"
  PROVE  AtInv'
<1>1. "idle" \notin {"connected", "context", "pushing", "listing", "listed"}
  OBVIOUS
<1> QED
  BY Zenon, <1>1 DEF AtInv

LEMMA IdleStep ==
  /\ Idle.step = "idle" /\ Idle.thread = 0
  /\ [Idle EXCEPT !.step = "connected"].step = "connected"
BY DEF Idle

\* A step that leaves the first job and what it has fetched alone.
LEMMA AtFrame ==
  ASSUME AtInv, UNCHANGED <<at, up, regs, fregs, thread_id_for_command_, raced>>,
         inbox # <<>> => inbox' # <<>> /\ Head(inbox') = Head(inbox)
  PROVE  AtInv'
<1>1. CASE at.step = "idle"
  BY Zenon, <1>1, IdleAt
<1>2. CASE at.step # "idle"
  <2>1. inbox # <<>> /\ up
    BY Zenon, <1>2 DEF AtInv
  <2>2. inbox' # <<>> /\ up' /\ This' = This /\ Named' = Named /\ at' = at /\ (raced => raced')
    BY Zenon, <2>1 DEF This, Named
  <2>3. GetThreadIDForCommand("g")' = GetThreadIDForCommand("g") /\ regs' = regs
    BY Zenon DEF GetThreadIDForCommand
  <2>4. FloatsToPush' = FloatsToPush /\ RegistersToPush' = RegistersToPush
    BY Zenon, <2>2 DEF FloatsToPush, RegistersToPush, SetRegister, Masked, FloatContext
  <2>5. (ReadKept => ReadKept') /\ (FloatsKept => FloatsKept') /\ (RegistersKept => RegistersKept')
    BY Zenon, <2>2, <2>3, <2>4 DEF ReadKept, FloatsKept, RegistersKept
  <2>6. at.step = "context" =>
          /\ This.cmd = "g" /\ at.thread \in Thread /\ at.context \in {<<v>> : v \in General}
          /\ GetThreadIDForCommand("g") \in {0, at.thread}
          /\ ReadKept
    BY Zenon DEF AtInv
  <2>7. at.step = "pushing" =>
          /\ This.cmd = "P" /\ at.thread \in Thread
          /\ \/ /\ Named \in FloatRegister /\ at.float_context \in {<<v>> : v \in Float}
                /\ FloatsKept
             \/ /\ Named \in GeneralRegister /\ at.context \in {<<v>> : v \in General}
                /\ RegistersKept
    BY Zenon DEF AtInv
  <2>8. /\ at.step \in {"idle", "connected", "context", "pushing", "listing", "listed"}
        /\ at.step = "connected" => This = Connect
        /\ at.step \in {"listing", "listed"} => This.cmd = "qf"
    BY Zenon DEF AtInv
  <2>9. CASE at.step = "connected"
    <3>1. "connected" \notin {"idle", "context", "pushing", "listing", "listed"}
      OBVIOUS
    <3> QED
      BY Zenon, <2>9, <3>1, <2>1, <2>2, <2>3, <2>8, <2>5 DEF AtInv
  <2>10. CASE at.step = "context"
    <3>1. "context" \notin {"idle", "connected", "pushing", "listing", "listed"}
      OBVIOUS
    <3> QED
      BY Zenon, <2>10, <3>1, <2>1, <2>2, <2>3, <2>8, <2>5, <2>6 DEF AtInv
  <2>11. CASE at.step = "pushing"
    <3>1. "pushing" \notin {"idle", "connected", "context", "listing", "listed"}
      OBVIOUS
    <3> QED
      BY Zenon, <2>11, <3>1, <2>1, <2>2, <2>3, <2>8, <2>5, <2>7 DEF AtInv
  <2>12. CASE at.step \in {"listing", "listed"}
    <3>1. at.step \notin {"idle", "connected", "context", "pushing"}
      BY <2>12
    <3> QED
      BY Zenon, <2>12, <3>1, <2>2, <2>8 DEF AtInv
  <2> QED
    BY Zenon, <1>2, <2>8, <2>9, <2>10, <2>11, <2>12
<1> QED
  BY Zenon, <1>1, <1>2

\* A step of the title: what a job has fetched may no longer be so.
LEMMA RacedAt ==
  ASSUME AtInv, UNCHANGED <<at, up, inbox, thread_id_for_command_>>,
         at.step \in {"context", "pushing"} =>
           raced' \/ (~raced /\ regs'[at.thread] = regs[at.thread]
                             /\ fregs'[at.thread] = fregs[at.thread])
  PROVE  AtInv'
<1>1. CASE at.step \notin {"context", "pushing"}
  BY Zenon, <1>1 DEF AtInv, This
<1>2. CASE at.step \in {"context", "pushing"}
  <2>1. /\ This' = This /\ Named' = Named /\ at' = at /\ (up => up') /\ inbox' = inbox
        /\ GetThreadIDForCommand("g")' = GetThreadIDForCommand("g")
    BY Zenon DEF This, Named, GetThreadIDForCommand
  <2>2. raced' \/ (~raced /\ regs'[at.thread] = regs[at.thread]
                          /\ fregs'[at.thread] = fregs[at.thread])
    BY Zenon, <1>2
  <2>3. ASSUME regs'[at.thread] = regs[at.thread], fregs'[at.thread] = fregs[at.thread]
        PROVE  FloatsToPush' = FloatsToPush /\ RegistersToPush' = RegistersToPush
    BY Zenon, <2>1, <2>3 DEF FloatsToPush, RegistersToPush, SetRegister, Masked, FloatContext
  <2>4. (ReadKept => ReadKept') /\ (FloatsKept => FloatsKept') /\ (RegistersKept => RegistersKept')
    BY Zenon, <2>1, <2>2, <2>3 DEF ReadKept, FloatsKept, RegistersKept
  <2>5. at.step = "context" =>
          /\ This.cmd = "g" /\ at.thread \in Thread /\ at.context \in {<<v>> : v \in General}
          /\ GetThreadIDForCommand("g") \in {0, at.thread}
          /\ ReadKept
    BY Zenon DEF AtInv
  <2>6. at.step = "pushing" =>
          /\ This.cmd = "P" /\ at.thread \in Thread
          /\ \/ /\ Named \in FloatRegister /\ at.float_context \in {<<v>> : v \in Float}
                /\ FloatsKept
             \/ /\ Named \in GeneralRegister /\ at.context \in {<<v>> : v \in General}
                /\ RegistersKept
    BY Zenon DEF AtInv
  <2>7. /\ at.step \in {"idle", "connected", "context", "pushing", "listing", "listed"}
        /\ at.step = "connected" => This = Connect
        /\ at.step # "idle" => up /\ inbox # <<>>
    BY Zenon DEF AtInv
  <2>8. CASE at.step = "context"
    <3>1. "context" \notin {"idle", "connected", "pushing", "listing", "listed"}
      OBVIOUS
    <3> QED
      BY Zenon, <2>8, <3>1, <2>1, <2>7, <2>4, <2>5 DEF AtInv
  <2>9. CASE at.step = "pushing"
    <3>1. "pushing" \notin {"idle", "connected", "context", "listing", "listed"}
      OBVIOUS
    <3> QED
      BY Zenon, <2>9, <3>1, <2>1, <2>7, <2>4, <2>6 DEF AtInv
  <2> QED
    BY Zenon, <1>2, <2>8, <2>9
<1> QED
  BY Zenon, <1>1, <1>2

LEMMA TitleRunsAt ==
  ASSUME AtInv, TitleRuns
  PROVE  AtInv'
<1>1. UNCHANGED <<at, up, inbox, thread_id_for_command_>>
  BY Zenon DEF TitleRuns, server, bridge
<1>2. at.step \in {"context", "pushing"} => raced'
  BY Zenon DEF TitleRuns
<1> QED
  BY Zenon, <1>1, <1>2, RacedAt

LEMMA ThreadsAt ==
  ASSUME TypeInv, AtInv, ThreadComesOrGoes
  PROVE  AtInv'
<1>1. UNCHANGED <<at, up, inbox, thread_id_for_command_>>
  BY Zenon DEF ThreadComesOrGoes, server, bridge
<1>2. PICK t \in Thread :
        /\ regs' = IF t \in alive THEN regs ELSE [regs EXCEPT ![t] = FirstRegisters(t)]
        /\ fregs' = IF t \in alive THEN fregs ELSE [fregs EXCEPT ![t] = FirstFloats]
        /\ raced' = (raced \/ (~(t \in alive) /\ at.thread = t))
  BY Zenon DEF ThreadComesOrGoes
<1>3. ASSUME at.thread \in Thread
      PROVE  \/ raced'
             \/ /\ ~raced /\ regs'[at.thread] = regs[at.thread]
                /\ fregs'[at.thread] = fregs[at.thread]
  <2>1. CASE raced \/ (t \notin alive /\ at.thread = t)
    BY Zenon, <2>1, <1>2
  <2>2. CASE ~raced /\ t \in alive
    BY Zenon, <2>2, <1>2
  <2>3. CASE ~raced /\ t \notin alive /\ at.thread # t
    <3>1. regs \in [Thread -> General] /\ fregs \in [Thread -> [FloatRegister -> Int \X Int]]
      BY Zenon DEF TypeInv, TargetInv
    <3>2. regs'[at.thread] = regs[at.thread] /\ fregs'[at.thread] = fregs[at.thread]
      BY <3>1, <2>3, <1>2, <1>3
    <3> QED
      BY Zenon, <3>2, <2>3
  <2> QED
    BY Zenon, <2>1, <2>2, <2>3
<1>4. at.step \in {"context", "pushing"} => at.thread \in Thread
  BY Zenon DEF AtInv
<1> QED
  BY Zenon, <1>1, <1>3, <1>4, RacedAt


LEMMA NotesAt ==
  ASSUME AtInv, OnThreadCreated \/ OnThreadTerminated \/ StopReasonLost
  PROVE  AtInv'
<1>1. UNCHANGED <<at, up, inbox, regs, fregs, thread_id_for_command_, raced>>
  BY Zenon DEF OnThreadCreated, OnThreadTerminated, StopReasonLost, server, bridge
<1> QED
  BY Zenon, <1>1, AtFrame

LEMMA GDBAt ==
  ASSUME TypeInv, AtInv, NEW c \in Client, GDBSends(c) \/ GDBQuits(c) \/ OnGDBClientConnected(c)
  PROVE  AtInv'
<1>1. UNCHANGED <<at, up, regs, fregs, thread_id_for_command_, raced>>
  BY Zenon DEF GDBSends, GDBQuits, OnGDBClientConnected, target, bridge
<1>2. inbox \in Seq(Job)
  BY Zenon DEF TypeInv, ServerInv
<1>3. \/ inbox' = inbox
      \/ \E p \in Packets \cup {Connect} : inbox' = Append(inbox, [client |-> c, packet |-> p])
  <2>1. session \in Session
    BY Zenon DEF TypeInv, ServerInv
  <2> QED
    BY Zenon, <2>1 DEF GDBSends, GDBQuits, OnGDBClientConnected, Packets
<1>4. inbox # <<>> => inbox' # <<>> /\ Head(inbox') = Head(inbox)
  <2>1. CASE inbox' = inbox
    BY Zenon, <2>1
  <2>2. ASSUME NEW p \in Packets \cup {Connect}, inbox' = Append(inbox, [client |-> c, packet |-> p])
        PROVE  inbox # <<>> => inbox' # <<>> /\ Head(inbox') = Head(inbox)
    <3>1. [client |-> c, packet |-> p] \in Job
      BY DEF Job
    <3> QED
      BY <3>1, <2>2, <1>2, Appended
  <2> QED
    BY Zenon, <1>3, <2>1, <2>2
<1> QED
  BY Zenon, <1>1, <1>4, AtFrame

LEMMA ServerAt ==
  ASSUME TypeInv, AtInv, AttachAndHalt \/ AddTransport \/ StopGDBServer \/ StartGDBServer
  PROVE  AtInv'
<1>1. CASE AttachAndHalt
  <2>1. at.step = "idle" /\ inbox # <<>> /\ This.cmd = "connect" /\ up
    BY Zenon, <1>1 DEF AttachAndHalt, Running, This
  <2>2. CASE at' = at
    BY Zenon, <2>1, <2>2, IdleAt
  <2>3. CASE at' = [Idle EXCEPT !.step = "connected"] /\ UNCHANGED inbox
    <3>1. at'.step = "connected"
      BY Zenon, <2>3, IdleStep
    <3>2. This = Connect
      BY Zenon, <2>1, First
    <3>3. This' = Connect /\ inbox' # <<>>
      BY Zenon, <2>1, <2>3, <3>2 DEF This
    <3>4. "connected" \notin {"idle", "context", "pushing", "listing", "listed"}
      OBVIOUS
    <3>5. up'
      BY Zenon, <2>1, <1>1 DEF AttachAndHalt
    <3> QED
      BY Zenon, <3>1, <3>3, <3>4, <3>5 DEF AtInv
  <2> QED
    BY Zenon, <1>1, <2>2, <2>3 DEF AttachAndHalt
<1>2. CASE AddTransport \/ StopGDBServer
  <2>1. at' = Idle
    BY Zenon, <1>2 DEF AddTransport, StopGDBServer
  <2> QED
    BY Zenon, <2>1, IdleStep, IdleAt
<1>3. CASE StartGDBServer
  <2>1. ~up /\ at' = at
    BY Zenon, <1>3 DEF StartGDBServer
  <2>2. at.step = "idle"
    BY Zenon, <2>1 DEF AtInv
  <2> QED
    BY Zenon, <2>1, <2>2, IdleAt
<1> QED
  BY Zenon, <1>1, <1>2, <1>3

\* The thread of a g packet is the one selected with Hg, if one is.
LEMMA ReadAt ==
  ASSUME TypeInv, NEW t \in Thread, ReadGeneralRegisters(t)
  PROVE  AtInv'
<1>1. /\ RegisterPacket /\ UNCHANGED <<regs, fregs>> /\ This.cmd = "g" /\ t = ThreadIDFor("g")
      /\ Proceed("context", t, <<regs[t]>>, Unknown)
  BY Zenon DEF ReadGeneralRegisters, Addressed
<1>2. Begun /\ UNCHANGED bridge
  BY Zenon, <1>1, RegisterPackets
<1>3. /\ UNCHANGED <<inbox, up>> /\ at'.step = "context" /\ at'.thread = t
      /\ at'.context = <<regs[t]>>
  BY Zenon, <1>1, ProceedFrame
<1>4. up' /\ inbox' # <<>> /\ This'.cmd = "g"
  BY Zenon, <1>1, <1>2, <1>3 DEF Begun, This
<1>5. GetThreadIDForCommand("g")' \in {0, t}
  <2>1. GetThreadIDForCommand("g") \in {0, t}
    BY Zenon, <1>1 DEF ThreadIDFor
  <2>2. GetThreadIDForCommand("g")' = GetThreadIDForCommand("g")
    BY Zenon, <1>2 DEF GetThreadIDForCommand, bridge
  <2> QED
    BY Zenon, <2>1, <2>2
<1>6. ReadKept'
  BY Zenon, <1>1, <1>3 DEF ReadKept
<1>7. at'.context \in {<<v>> : v \in General}
  BY Zenon, <1>3, GeneralKnown
<1>8. "context" \notin {"idle", "connected", "pushing", "listing", "listed"}
  OBVIOUS
<1> QED
  BY Zenon, <1>3, <1>4, <1>5, <1>6, <1>7, <1>8 DEF AtInv

LEMMA WriteAt ==
  ASSUME TypeInv, NEW t \in Thread, WritesOne(t)
  PROVE  AtInv'
<1>1. /\ Begun /\ This.cmd = "P" /\ UNCHANGED <<regs, fregs>>
  BY Zenon DEF WritesOne
<1>2. PICK general, floats : /\ Proceed("pushing", t, general, floats)
                             /\ \/ /\ Named \in FloatRegister
                                   /\ floats = <<SetRegister(Named, This.value, FloatContext(t))>>
                                \/ /\ Named \in GeneralRegister
                                   /\ general = <<SetRegister(Named, Masked(This.value), regs[t])>>
  BY Zenon DEF WritesOne
<1>3. /\ UNCHANGED <<inbox, up>> /\ at'.step = "pushing" /\ at'.thread = t
      /\ at'.context = general /\ at'.float_context = floats
  BY Zenon, <1>2, ProceedFrame
<1>4. up' /\ inbox' # <<>> /\ This' = This /\ Named' = Named
  BY Zenon, <1>1, <1>3 DEF Begun, This, Named
<1>5. This.value \in Nat
  <2>1. This \in Packets
    BY Zenon, <1>1, First DEF Begun
  <2> QED
    BY Zenon, <2>1, <1>1, Sent
<1>6. CASE /\ Named \in FloatRegister
           /\ floats = <<SetRegister(Named, This.value, FloatContext(t))>>
  <2>1. fregs[t] \in [FloatRegister -> Int \X Int]
    BY Zenon DEF TypeInv, TargetInv
  <2>2. FloatContext(t) \in Float
    BY <2>1 DEF FloatContext, Float
  <2>3. SetRegister(Named, This.value, FloatContext(t)) \in Float
    BY <2>2, <1>5, <1>6 DEF SetRegister, Float
  <2>4. FloatsToPush' = SetRegister(Named, This.value, FloatContext(t))
    BY Zenon, <1>1, <1>3, <1>4 DEF FloatsToPush, SetRegister, FloatContext
  <2>5. FloatsKept'
    BY Zenon, <2>4, <1>3, <1>6 DEF FloatsKept
  <2>6. at'.float_context \in {<<v>> : v \in Float}
    BY Zenon, <2>3, <1>3, <1>6
  <2>7. "pushing" \notin {"idle", "connected", "context", "listing", "listed"}
    OBVIOUS
  <2> QED
    BY Zenon, <2>5, <2>6, <2>7, <1>1, <1>3, <1>4, <1>6 DEF AtInv
<1>7. CASE /\ Named \in GeneralRegister
           /\ general = <<SetRegister(Named, Masked(This.value), regs[t])>>
  <2>1. regs[t] \in General
    BY Zenon, GeneralKnown
  <2>2. Masked(This.value) \in Int
    BY <1>5, Sizes DEF Masked
  <2>3. SetRegister(Named, Masked(This.value), regs[t]) \in General
    BY <2>1, <2>2, <1>7 DEF SetRegister, General
  <2>4. RegistersToPush' = SetRegister(Named, Masked(This.value), regs[t])
    BY Zenon, <1>1, <1>3, <1>4 DEF RegistersToPush, SetRegister, Masked
  <2>5. RegistersKept'
    BY Zenon, <2>4, <1>3, <1>7 DEF RegistersKept
  <2>6. at'.context \in {<<v>> : v \in General}
    BY Zenon, <2>3, <1>3, <1>7
  <2>7. "pushing" \notin {"idle", "connected", "context", "listing", "listed"}
    OBVIOUS
  <2> QED
    BY Zenon, <2>5, <2>6, <2>7, <1>1, <1>3, <1>4, <1>7 DEF AtInv
<1> QED
  BY Zenon, <1>2, <1>6, <1>7

LEMMA PacketAt ==
  ASSUME TypeInv, AtInv, HandlePacket
  PROVE  AtInv'
<1>1. ASSUME NEW rs, Answer(rs)
      PROVE  AtInv'
  <2>1. at' = Idle
    BY Zenon, <1>1 DEF Answer
  <2> QED
    BY Zenon, <2>1, IdleStep, IdleAt
<1>2. ASSUME NEW r, Send(r)
      PROVE  AtInv'
  BY Zenon, <1>1, <1>2 DEF Send
<1>3. CASE Plain
  <2>1. ASSUME NEW why, Abort(why)
        PROVE  AtInv'
    <3>1. at' = at /\ at.step = "idle"
      BY Zenon, <2>1, <1>3, AbortFrame DEF Plain, Begun
    <3> QED
      BY Zenon, <3>1, IdleAt
  <2> QED
    BY Zenon, <1>1, <1>3, <2>1 DEF Plain, Answers
<1>4. CASE SendGeneralRegisters \/ PushRegister
  BY Zenon, <1>2, <1>4 DEF SendGeneralRegisters, PushRegister
<1>5. ASSUME NEW t \in Thread, ReadsOne(t)
      PROVE  AtInv'
  BY Zenon, <1>2, <1>5 DEF ReadsOne
<1>6. CASE Lists
  <2>1. PICK step \in {"listing", "listed"} : \E list : GoesOn(step, list)
    BY Zenon, <1>6 DEF Lists
  <2>2. UNCHANGED <<inbox, up>> /\ at'.step = step
    BY Zenon, <2>1, GoesOnFrame
  <2>3. step \notin {"idle", "connected", "context", "pushing"}
    BY <2>1
  <2>4. up' /\ inbox' # <<>> /\ This'.cmd = "qf"
    BY Zenon, <1>6, <2>2 DEF Lists, This
  <2> QED
    BY Zenon, <2>1, <2>2, <2>3, <2>4 DEF AtInv
<1>7. CASE SendThreadIDs
  BY Zenon, <1>2, <1>7, ThreadIDsSent
<1> QED
  BY Zenon, <1>3, <1>4, <1>5, <1>6, <1>7, ReadAt, WriteAt, PacketCases

LEMMA StepAt ==
  ASSUME TypeInv, AtInv, Step
  PROVE  AtInv'
BY Zenon, TitleRunsAt, ThreadsAt, NotesAt, GDBAt, ServerAt, PacketAt DEF Step

-----------------------------------------------------------------------------
(* What is reported of registers, and the number of replies.               *)

LEMMA TruthFrame ==
  ASSUME RegisterRepliesAreTrue, UNCHANGED <<replies, last, truth, thread_id_for_command_>>,
         raced => raced'
  PROVE  RegisterRepliesAreTrue'
BY Zenon DEF RegisterRepliesAreTrue, GetThreadIDForCommand

LEMMA NoTruthHolds ==
  ASSUME truth' = NoTruth
  PROVE  RegisterRepliesAreTrue'
<1>1. truth'.thread = 0
  BY DEF NoTruth
<1> QED
  BY Zenon, <1>1 DEF RegisterRepliesAreTrue

\* The first two of a sequence stay where they are when more is put after them.
LEMMA FrontKept ==
  ASSUME NEW s \in Seq(Int), NEW e \in Seq(Int), Len(s) >= 2
  PROVE  /\ s \o e \in Seq(Int) /\ Len(s \o e) >= 2
         /\ (s \o e)[1] = s[1] /\ (s \o e)[2] = s[2]
BY ConcatProperties, LenProperties

\* The general registers come first in the answer to g, with their bytes swapped.
LEMMA Serialized ==
  ASSUME NEW v \in General, NEW floats \in Optional(Float)
  PROVE  /\ SerializeRegisters(<<v>>, floats)[1] = Swap(v[0])
         /\ SerializeRegisters(<<v>>, floats)[2] = Swap(v[1])
<1> DEFINE a == <<Swap(v[0]), Swap(v[1])>>
           f == IF floats = Unknown THEN <<X, X>> ELSE <<floats[1][3], floats[1][4]>>
<1>1. v[0] \in Int /\ v[1] \in Int
  BY DEF General, GeneralRegister
<1>2. Swap(v[0]) \in Int /\ Swap(v[1]) \in Int
  BY <1>1, Sizes DEF Swap
<1>3. a \in Seq(Int) /\ Len(a) >= 2 /\ a[1] = Swap(v[0]) /\ a[2] = Swap(v[1])
  BY <1>2
<1>4. X \in Int /\ <<X>> \in Seq(Int) /\ <<X, X>> \in Seq(Int)
  BY DEF X
<1>5. f \in Seq(Int)
  <2>1. CASE floats = Unknown
    BY Zenon, <2>1, <1>4
  <2>2. CASE floats # Unknown
    <3>1. PICK w \in Float : floats = <<w>>
      BY Zenon, <2>2 DEF Optional
    <3>2. floats[1][3] \in Int /\ floats[1][4] \in Int
      BY <3>1 DEF Float, FloatRegister
    <3>3. <<floats[1][3], floats[1][4]>> \in Seq(Int)
      BY <3>2
    <3> QED
      BY Zenon, <2>2, <3>3
  <2> QED
    BY Zenon, <2>1, <2>2
<1>6. <<v>> # Unknown /\ <<v>>[1] = v
  BY DEF Unknown
<1>7. SerializeRegisters(<<v>>, floats) = a \o <<X>> \o f \o <<X>>
  BY Zenon, <1>6 DEF SerializeRegisters
<1> HIDE DEF a, f
<1>8. /\ a \o <<X>> \in Seq(Int) /\ Len(a \o <<X>>) >= 2
      /\ (a \o <<X>>)[1] = a[1] /\ (a \o <<X>>)[2] = a[2]
  BY Zenon, <1>3, <1>4, FrontKept
<1>9. /\ a \o <<X>> \o f \in Seq(Int) /\ Len(a \o <<X>> \o f) >= 2
      /\ (a \o <<X>> \o f)[1] = a[1] /\ (a \o <<X>> \o f)[2] = a[2]
  BY Zenon, <1>8, <1>5, FrontKept
<1>10. (a \o <<X>> \o f \o <<X>>)[1] = a[1] /\ (a \o <<X>> \o f \o <<X>>)[2] = a[2]
  BY Zenon, <1>9, <1>4, FrontKept
<1> QED
  BY Zenon, <1>3, <1>7, <1>10

LEMMA GeneralTruth ==
  ASSUME TypeInv, AtInv, SendGeneralRegisters
  PROVE  RegisterRepliesAreTrue'
<1> DEFINE t == at.thread
<1>1. /\ at.step = "context" /\ UNCHANGED bridge
      /\ truth' = [thread |-> t, value |-> <<regs[t][0], regs[t][1]>>]
  BY Zenon DEF SendGeneralRegisters
<1>2. PICK fetched \in FloatContexts(t) :
        Send(Reply("registers", SerializeRegisters(at.context, fetched)))
  BY Zenon DEF SendGeneralRegisters
<1>3. /\ t \in Thread /\ at.context \in {<<v>> : v \in General} /\ This.cmd = "g"
      /\ GetThreadIDForCommand("g") \in {0, t} /\ ReadKept
  BY Zenon, <1>1 DEF AtInv
<1>4. PICK v \in General : at.context = <<v>>
  BY Zenon, <1>3
<1>5. fetched \in Optional(Float)
  <2>1. fregs[t] \in [FloatRegister -> Int \X Int]
    BY Zenon, <1>3 DEF TypeInv, TargetInv
  <2>2. FloatContext(t) \in Float
    BY <2>1 DEF FloatContext, Float
  <2> QED
    BY Zenon, <2>2 DEF FloatContexts, Optional
<1>6. /\ replies' = <<Reply("registers", SerializeRegisters(<<v>>, fetched))>>
      /\ last' = This /\ (raced => raced')
  BY Zenon, <1>2, <1>4 DEF Send, Answer
<1>7. replies'[1].data = SerializeRegisters(<<v>>, fetched)
  BY <1>6 DEF Reply
<1>8. replies'[1].data[1] = Swap(v[0]) /\ replies'[1].data[2] = Swap(v[1])
  BY Zenon, <1>5, <1>7, Serialized
<1>9. /\ truth'.thread = t /\ truth'.value[1] = regs[t][0] /\ truth'.value[2] = regs[t][1]
  BY <1>1
<1>10. GetThreadIDForCommand("g")' \in {0, truth'.thread}
  BY Zenon, <1>1, <1>3, <1>9 DEF GetThreadIDForCommand, bridge
<1>11. ~raced' => v = regs[t]
  <2>1. ~raced' => <<v>> = <<regs[t]>>
    BY Zenon, <1>3, <1>4, <1>6 DEF ReadKept
  <2> QED
    BY <2>1
<1>12. ASSUME ~raced'
       PROVE  /\ replies'[1].data[1] = 4 * (truth'.value[1] % 4) + truth'.value[1] \div 4
              /\ replies'[1].data[2] = 4 * (truth'.value[2] % 4) + truth'.value[2] \div 4
  <2>1. v[0] \in Int /\ v[1] \in Int
    BY DEF General, GeneralRegister
  <2>2. Swap(v[0]) = 4 * (v[0] % 4) + v[0] \div 4 /\ Swap(v[1]) = 4 * (v[1] % 4) + v[1] \div 4
    BY <2>1, Sizes DEF Swap
  <2>3. truth'.value[1] = v[0] /\ truth'.value[2] = v[1]
    BY Zenon, <1>9, <1>11, <1>12
  <2> QED
    BY Zenon, <2>2, <2>3, <1>8
<1>13. last'.cmd = "g"
  BY Zenon, <1>3, <1>6
<1>14. "g" # "p"
  OBVIOUS
<1> QED
  BY Zenon, <1>10, <1>12, <1>13, <1>14 DEF RegisterRepliesAreTrue

LEMMA OneTruth ==
  ASSUME TypeInv, NEW t \in Thread, ReadsOne(t)
  PROVE  RegisterRepliesAreTrue'
<1>1. This.cmd = "p"
  BY Zenon DEF ReadsOne
<1>2. PICK r, v : /\ Send(r) /\ truth' = [thread |-> t, value |-> <<v>>]
                  /\ Named < FLOAT_REGISTER_OFFSET =>
                       r.data = <<IF v >= 8 THEN 15 ELSE 0, v>>
  BY Zenon DEF ReadsOne
<1>3. replies' = <<r>> /\ last' = This
  BY Zenon, <1>2 DEF Send, Answer
<1>4. replies'[1] = r /\ truth'.value[1] = v
  BY <1>2, <1>3
<1>5. last'.register[1] = Named /\ last'.cmd = "p"
  BY Zenon, <1>1, <1>3 DEF Named
<1>6. "p" # "g"
  OBVIOUS
<1> QED
  BY Zenon, <1>2, <1>4, <1>5, <1>6 DEF RegisterRepliesAreTrue

LEMMA PushTruth ==
  ASSUME AtInv, PushRegister
  PROVE  RegisterRepliesAreTrue'
<1>1. at.step = "pushing" /\ \E r : Send(r)
  BY Zenon DEF PushRegister
<1>2. last' = This /\ This.cmd = "P"
  BY Zenon, <1>1 DEF Send, Answer, AtInv
<1>3. "P" \notin {"g", "p"}
  OBVIOUS
<1> QED
  BY Zenon, <1>2, <1>3 DEF RegisterRepliesAreTrue

LEMMA StepTruth ==
  ASSUME TypeInv, AtInv, RegisterRepliesAreTrue, Step
  PROVE  RegisterRepliesAreTrue'
<1>1. CASE \/ TitleRuns \/ ThreadComesOrGoes \/ OnThreadCreated \/ OnThreadTerminated \/ StopReasonLost
           \/ \E c \in Client : GDBSends(c) \/ GDBQuits(c) \/ OnGDBClientConnected(c)
           \/ AttachAndHalt \/ AddTransport \/ StopGDBServer
  <2>1. UNCHANGED <<replies, last, truth, thread_id_for_command_>>
    BY Zenon, <1>1 DEF TitleRuns, ThreadComesOrGoes, OnThreadCreated, OnThreadTerminated, StopReasonLost,
       GDBSends, GDBQuits, OnGDBClientConnected, AttachAndHalt, AddTransport, StopGDBServer, bridge
  <2>2. raced => raced'
    BY Zenon, <1>1 DEF TitleRuns, ThreadComesOrGoes, OnThreadCreated, OnThreadTerminated, StopReasonLost,
       GDBSends, GDBQuits, OnGDBClientConnected, AttachAndHalt, AddTransport, StopGDBServer
  <2> QED
    BY Zenon, <2>1, <2>2, TruthFrame
<1>2. CASE StartGDBServer
  <2>1. /\ UNCHANGED <<replies, last, truth>> /\ (raced => raced')
        /\ thread_id_for_command_' = <<>>
    BY Zenon, <1>2 DEF StartGDBServer
  <2>2. GetThreadIDForCommand("g")' = 0
    <3>1. "g" \notin DOMAIN <<>>
      OBVIOUS
    <3> QED
      BY Zenon, <2>1, <3>1 DEF GetThreadIDForCommand
  <2> QED
    BY Zenon, <2>1, <2>2 DEF RegisterRepliesAreTrue
<1>3. CASE HandlePacket
  <2>1. CASE Plain
    BY Zenon, <2>1, NoTruthHolds DEF Plain
  <2>2. ASSUME NEW t \in Thread, ReadGeneralRegisters(t) \/ WritesOne(t)
        PROVE  RegisterRepliesAreTrue'
    BY Zenon, <2>2, NoTruthHolds DEF ReadGeneralRegisters, WritesOne, NoThread
  <2>3. CASE Lists \/ SendThreadIDs
    BY Zenon, <2>3, NoTruthHolds, ThreadIDsSent DEF Lists
  <2> QED
    BY Zenon, <1>3, <2>1, <2>2, <2>3, GeneralTruth, OneTruth, PushTruth, PacketCases
<1> QED
  BY Zenon, <1>1, <1>2, <1>3 DEF Step


LEMMA AnswerCounts ==
  ASSUME Answers
  PROVE  CountInv'
<1>1. last' = This /\ Len(replies') = Count
  BY Zenon DEF Answers, Answer
<1> QED
  BY Zenon, <1>1 DEF CountInv, Count

LEMMA StepCounts ==
  ASSUME TypeInv, AtInv, CountInv, Step
  PROVE  CountInv'
<1>1. ASSUME UNCHANGED <<replies, last>>
      PROVE  CountInv'
  BY Zenon, <1>1 DEF CountInv
<1>2. CASE \/ TitleRuns \/ ThreadComesOrGoes \/ OnThreadCreated \/ OnThreadTerminated \/ StopReasonLost
           \/ \E c \in Client : GDBSends(c) \/ GDBQuits(c) \/ OnGDBClientConnected(c)
           \/ AttachAndHalt \/ AddTransport \/ StopGDBServer \/ StartGDBServer
  <2>1. UNCHANGED <<replies, last>>
    BY Zenon, <1>2 DEF TitleRuns, ThreadComesOrGoes, OnThreadCreated, OnThreadTerminated, StopReasonLost,
       GDBSends, GDBQuits, OnGDBClientConnected, AttachAndHalt, AddTransport, StopGDBServer, StartGDBServer
  <2> QED
    BY Zenon, <2>1, <1>1
<1>3. CASE HandlePacket
  <2>1. ASSUME This.cmd \in {"g", "p", "P", "qf"}, NEW r, Send(r)
        PROVE  CountInv'
    <3>1. This.cmd \notin {"Z", "z"}
      BY <2>1
    <3> QED
      BY Zenon, <2>1, <3>1, OneAnswer, AnswerCounts
  <2>2. CASE Plain
    BY Zenon, <2>2, <1>1, AnswerCounts, AbortFrame DEF Plain
  <2>3. CASE SendGeneralRegisters
    BY Zenon, <2>3, <2>1 DEF SendGeneralRegisters, AtInv
  <2>4. CASE PushRegister
    BY Zenon, <2>4, <2>1 DEF PushRegister, AtInv
  <2>5. ASSUME NEW t \in Thread, ReadGeneralRegisters(t) \/ WritesOne(t)
        PROVE  CountInv'
    <3>1. \E step, general, floats : Proceed(step, t, general, floats)
      BY Zenon, <2>5 DEF ReadGeneralRegisters, WritesOne
    <3> QED
      BY Zenon, <3>1, <1>1, ProceedFrame
  <2>6. ASSUME NEW t \in Thread, ReadsOne(t)
        PROVE  CountInv'
    BY Zenon, <2>6, <2>1 DEF ReadsOne
  <2>7. CASE Lists
    BY Zenon, <2>7, GoesOnFrame DEF Lists, CountInv
  <2>8. CASE SendThreadIDs
    BY Zenon, <2>8, <2>1, ThreadIDsSent
  <2> QED
    BY Zenon, <1>3, <2>2, <2>3, <2>4, <2>5, <2>6, <2>7, <2>8, PacketCases
<1> QED
  BY Zenon, <1>2, <1>3 DEF Step

-----------------------------------------------------------------------------
(* Writes to registers.                                                    *)

LEMMA FloatPush ==
  ASSUME TypeInv, AtInv, at.step = "pushing", ~raced, Named \in FloatRegister,
         PushContextSync(at.thread, Named)
  PROVE  /\ regs' = regs
         /\ \A u \in Thread : \A r \in FloatRegister : fregs'[u][r][1] # fregs[u][r][1] =>
              u = at.thread /\ r = Named /\ fregs'[u][r][1] = This.value
<1> DEFINE t == at.thread
<1>1. Named >= FLOAT_REGISTER_OFFSET /\ Named \notin GeneralRegister
  BY DEF FloatRegister, GeneralRegister, FLOAT_REGISTER_OFFSET
<1>2. regs' = regs /\ fregs' = [fregs EXCEPT ![t] = Pushed(at.float_context[1])]
  BY Zenon, <1>1 DEF PushContextSync
<1>3. t \in Thread /\ at.float_context = <<FloatsToPush>>
  BY Zenon, <1>1 DEF AtInv, FloatsKept
<1>4. at.float_context[1] = [FloatContext(t) EXCEPT ![Named] = This.value]
  BY <1>3 DEF FloatsToPush, SetRegister
<1>5. fregs \in [Thread -> [FloatRegister -> Int \X Int]]
  BY Zenon DEF TypeInv, TargetInv
<1>6. \A u \in Thread : u # t => fregs'[u] = fregs[u]
  BY <1>2, <1>5
<1>7. fregs'[t] = Pushed(at.float_context[1])
  BY <1>2, <1>3, <1>5
<1>8. ASSUME NEW r \in FloatRegister
      PROVE  fregs'[t][r][1] = IF r = Named THEN This.value ELSE fregs[t][r][1]
  <2>1. fregs'[t][r][1] = at.float_context[1][r]
    BY <1>7 DEF Pushed
  <2>2. at.float_context[1][r] = IF r = Named THEN This.value ELSE FloatContext(t)[r]
    BY <1>4 DEF FloatContext
  <2>3. FloatContext(t)[r] = fregs[t][r][1]
    BY DEF FloatContext
  <2> QED
    BY Zenon, <2>1, <2>2, <2>3
<1> QED
  BY Zenon, <1>2, <1>6, <1>8

LEMMA GeneralPush ==
  ASSUME TypeInv, AtInv, at.step = "pushing", ~raced, Named \in GeneralRegister,
         PushContextSync(at.thread, Named)
  PROVE  /\ fregs' = fregs
         /\ \A u \in Thread : \A r \in GeneralRegister : regs'[u][r] # regs[u][r] =>
              u = at.thread /\ r = Named /\ regs'[u][r] = This.value % WordSize
<1> DEFINE t == at.thread
<1>1. ~(Named >= FLOAT_REGISTER_OFFSET) /\ Named \notin FloatRegister
  BY DEF FloatRegister, GeneralRegister, FLOAT_REGISTER_OFFSET
<1>2. fregs' = fregs /\ regs' = [regs EXCEPT ![t] = at.context[1]]
  BY Zenon, <1>1 DEF PushContextSync
<1>3. t \in Thread /\ at.context = <<RegistersToPush>>
  BY Zenon, <1>1 DEF AtInv, RegistersKept
<1>4. at.context[1] = [regs[t] EXCEPT ![Named] = This.value % WordSize]
  BY <1>3 DEF RegistersToPush, SetRegister, Masked
<1>5. regs \in [Thread -> General]
  BY Zenon DEF TypeInv, TargetInv
<1>6. \A u \in Thread : u # t => regs'[u] = regs[u]
  BY <1>2, <1>5
<1>7. regs'[t] = [regs[t] EXCEPT ![Named] = This.value % WordSize]
  BY <1>2, <1>3, <1>4, <1>5
<1>8. regs[t] \in [GeneralRegister -> Int]
  BY Zenon, <1>3, <1>5 DEF General
<1>9. ASSUME NEW r \in GeneralRegister
      PROVE  regs'[t][r] = IF r = Named THEN This.value % WordSize ELSE regs[t][r]
  BY <1>7, <1>8
<1> QED
  BY Zenon, <1>2, <1>6, <1>9

\* A step of the title counts as one.
LEMMA Counted ==
  ASSUME TypeInv, TitleRuns \/ ThreadComesOrGoes
  PROVE  events' # events
<1>1. events' = events + 1 /\ events \in Nat
  BY Zenon DEF TitleRuns, ThreadComesOrGoes, Happens, TypeInv, TargetInv
<1> QED
  BY <1>1

LEMMA StepWrites ==
  ASSUME TypeInv, AtInv, Step
  PROVE  WriteIsLocal
<1>1. ASSUME UNCHANGED <<regs, fregs>>
      PROVE  WriteIsLocal
  BY Zenon, <1>1 DEF WriteIsLocal
<1>2. CASE TitleRuns \/ ThreadComesOrGoes
  BY Zenon, <1>2, Counted DEF WriteIsLocal
<1>3. CASE \/ OnThreadCreated \/ OnThreadTerminated \/ StopReasonLost
           \/ \E c \in Client : GDBSends(c) \/ GDBQuits(c) \/ OnGDBClientConnected(c)
           \/ AttachAndHalt \/ AddTransport \/ StopGDBServer \/ StartGDBServer
  <2>1. UNCHANGED <<regs, fregs>>
    BY Zenon, <1>3 DEF OnThreadCreated, OnThreadTerminated, StopReasonLost, GDBSends, GDBQuits,
       OnGDBClientConnected, AttachAndHalt, AddTransport, StopGDBServer, StartGDBServer, target
  <2> QED
    BY Zenon, <2>1, <1>1
<1>4. CASE HandlePacket
  <2>1. CASE PushRegister /\ PushContextSync(at.thread, Named)
    <3>1. at.step = "pushing" /\ (raced => raced')
      <4>1. at.step = "pushing" /\ \E r : Send(r)
        BY Zenon, <2>1 DEF PushRegister
      <4>2. UNCHANGED raced
        BY Zenon, <4>1 DEF Send, Answer
      <4> QED
        BY Zenon, <4>1, <4>2
    <3>2. Named \in FloatRegister \/ Named \in GeneralRegister
      BY Zenon, <3>1 DEF AtInv
    <3>3. CASE raced
      BY Zenon, <3>1, <3>3 DEF WriteIsLocal
    <3>4. CASE ~raced
      BY Zenon, <2>1, <3>1, <3>2, <3>4, FloatPush, GeneralPush DEF WriteIsLocal
    <3> QED
      BY Zenon, <3>3, <3>4
  <2>2. CASE PushRegister /\ UNCHANGED <<regs, fregs>>
    BY Zenon, <2>2, <1>1
  <2>3. PushRegister => PushContextSync(at.thread, Named) \/ UNCHANGED <<regs, fregs>>
    BY Zenon DEF PushRegister
  <2>4. ASSUME \/ Plain \/ SendGeneralRegisters \/ Lists \/ SendThreadIDs
               \/ \E t \in Thread : ReadGeneralRegisters(t) \/ ReadsOne(t) \/ WritesOne(t)
        PROVE  UNCHANGED <<regs, fregs>>
    BY Zenon, <2>4, ThreadIDsSent
       DEF Plain, SendGeneralRegisters, Lists, ReadGeneralRegisters, ReadsOne, WritesOne
  <2> QED
    BY Zenon, <1>1, <1>4, <2>1, <2>2, <2>3, <2>4, PacketCases
<1> QED
  BY Zenon, <1>2, <1>3, <1>4 DEF Step

-----------------------------------------------------------------------------
(* Who is answered.                                                        *)

LEMMA OneFrame ==
  ASSUME OneGDB, UNCHANGED <<inbox, link, gdb_>>,
         at.step = "connected" <=> at'.step = "connected"
  PROVE  OneGDB'
<1>1. ConnectIsLast' /\ JobsAreOfTheClient'
  BY Zenon DEF OneGDB, ConnectIsLast, JobsAreOfTheClient, HasGDBClient
<1>2. OpenIsKnown' /\ UnopenedIsNot' /\ ConnectIsPending' /\ AddedWasOpen'
  BY Zenon DEF OneGDB, OpenIsKnown, UnopenedIsNot, ConnectIsPending, AddedWasOpen
<1> QED
  BY Zenon, <1>1, <1>2 DEF OneGDB

\* The first job is done, and was not one that connects.
LEMMA OneAnswered ==
  ASSUME TypeInv, OneGDB, inbox # <<>>, at.step # "connected", at'.step # "connected",
         inbox' = Tail(inbox), UNCHANGED <<link, gdb_>>
  PROVE  OneGDB'
<1>1. inbox \in Seq(Job)
  BY Zenon DEF TypeInv, ServerInv
<1>2. \A i \in 1..Len(inbox') : inbox'[i] = inbox[i + 1] /\ i + 1 \in 1..Len(inbox)
  BY <1>1, Behind
<1>3. \A i, j \in 1..Len(inbox) : i < j => inbox[i].packet # Connect
  BY Zenon DEF OneGDB, ConnectIsLast
<1>4. ConnectIsLast'
  <2>1. ASSUME NEW i \in 1..Len(inbox'), NEW j \in 1..Len(inbox'), i < j
        PROVE  inbox'[i].packet # Connect
    <3>1. i + 1 < j + 1
      BY <2>1
    <3> QED
      BY Zenon, <3>1, <1>2, <1>3
  <2> QED
    BY Zenon, <2>1 DEF ConnectIsLast
<1>5. JobsAreOfTheClient'
  BY Zenon, <1>2 DEF OneGDB, JobsAreOfTheClient, HasGDBClient
<1>6. OpenIsKnown' /\ UnopenedIsNot' /\ AddedWasOpen'
  BY Zenon DEF OneGDB, OpenIsKnown, UnopenedIsNot, AddedWasOpen
<1>7. ConnectIsPending'
  BY Zenon, <1>2 DEF OneGDB, ConnectIsPending
<1> QED
  BY Zenon, <1>4, <1>5, <1>6, <1>7 DEF OneGDB

\* The jobs after one is added, by their places.
LEMMA AddedAt ==
  ASSUME TypeInv, NEW c \in Client, NEW p \in Packets \cup {Connect},
         inbox' = Append(inbox, [client |-> c, packet |-> p])
  PROVE  /\ \A i \in 1..Len(inbox') :
              \/ i \in 1..Len(inbox) /\ inbox'[i] = inbox[i]
              \/ i \notin 1..Len(inbox) /\ inbox'[i].client = c /\ inbox'[i].packet = p
         /\ \A i, j \in 1..Len(inbox') : i < j => i \in 1..Len(inbox) /\ inbox'[i] = inbox[i]
         /\ inbox # <<>> => Head(inbox') = Head(inbox)
<1> DEFINE e == [client |-> c, packet |-> p]
<1>1. inbox \in Seq(Job) /\ e \in Job
  BY DEF TypeInv, ServerInv, Job
<1>2. e.client = c /\ e.packet = p
  OBVIOUS
<1> HIDE DEF e
<1>3. /\ inbox' = Append(inbox, e) /\ Len(inbox) \in Nat
      /\ Len(inbox') = Len(inbox) + 1 /\ inbox'[Len(inbox) + 1] = e
      /\ \A i \in 1..Len(inbox) : inbox'[i] = inbox[i]
      /\ inbox # <<>> => Head(inbox') = Head(inbox)
  BY <1>1, Appended DEF e
<1>4. ASSUME NEW i \in 1..Len(inbox')
      PROVE  \/ i \in 1..Len(inbox) /\ inbox'[i] = inbox[i]
             \/ i \notin 1..Len(inbox) /\ inbox'[i] = e
  BY <1>3
<1>5. ASSUME NEW i \in 1..Len(inbox'), NEW j \in 1..Len(inbox'), i < j
      PROVE  i \in 1..Len(inbox) /\ inbox'[i] = inbox[i]
  BY <1>3, <1>5
<1> QED
  BY Zenon, <1>2, <1>3, <1>4, <1>5

LEMMA SendsOne ==
  ASSUME TypeInv, AtInv, OneGDB, NEW c \in Client, GDBSends(c)
  PROVE  OneGDB'
<1>1. link[c] = "open" /\ UNCHANGED <<link, gdb_, at>>
  BY Zenon DEF GDBSends
<1>2. PICK p \in session.packets : inbox' = Append(inbox, [client |-> c, packet |-> p])
  BY Zenon DEF GDBSends
<1>3. p \in Packets
  BY Zenon, <1>2 DEF Packets, TypeInv, ServerInv
<1>4. p # Connect
  BY Zenon, <1>3, Sent
<1>5. /\ \A i \in 1..Len(inbox') :
           \/ i \in 1..Len(inbox) /\ inbox'[i] = inbox[i]
           \/ i \notin 1..Len(inbox) /\ inbox'[i].client = c /\ inbox'[i].packet = p
      /\ \A i, j \in 1..Len(inbox') : i < j => i \in 1..Len(inbox) /\ inbox'[i] = inbox[i]
      /\ inbox # <<>> => Head(inbox') = Head(inbox)
  BY Zenon, <1>2, <1>3, AddedAt
<1>6. \/ HasGDBClient /\ c = gdb_
      \/ at.step = "connected" /\ c = Head(inbox).client /\ ~HasGDBClient
  <2>1. CASE c = gdb_
    <3>1. gdb_ # Nobody
      BY Zenon, <2>1, GDBBridgeAssumption
    <3> QED
      BY Zenon, <3>1, <2>1, <1>1 DEF HasGDBClient
  <2>2. CASE c # gdb_
    <3>1. at.step = "connected" /\ c = Head(inbox).client
      BY Zenon, <2>2, <1>1 DEF OneGDB, OpenIsKnown
    <3>2. "connected" # "idle"
      OBVIOUS
    <3>3. inbox # <<>> /\ This = Connect
      BY Zenon, <3>1, <3>2 DEF AtInv
    <3>4. inbox[1].packet = Connect /\ 1 \in 1..Len(inbox)
      BY Zenon, <3>3, First DEF This
    <3> QED
      BY Zenon, <3>1, <3>4 DEF OneGDB, JobsAreOfTheClient
  <2> QED
    BY Zenon, <2>1, <2>2
<1>7. ConnectIsLast'
  <2> SUFFICES ASSUME NEW i \in 1..Len(inbox'), NEW j \in 1..Len(inbox'), i < j,
                      inbox'[i].packet = Connect
               PROVE  /\ inbox'[j].packet # Connect /\ inbox'[j].client = inbox'[i].client
                      /\ at'.step = "connected"
    BY Zenon DEF ConnectIsLast
  <2>1. i \in 1..Len(inbox) /\ inbox'[i] = inbox[i] /\ inbox[i].packet = Connect
    BY Zenon, <1>5
  <2>2. CASE j \in 1..Len(inbox)
    BY Zenon, <2>1, <2>2, <1>1, <1>5 DEF OneGDB, ConnectIsLast
  <2>3. CASE j \notin 1..Len(inbox)
    <3>1. inbox'[j].client = c /\ inbox'[j].packet = p
      BY Zenon, <2>3, <1>5
    <3>2. at.step = "connected" /\ c = Head(inbox).client
      BY Zenon, <2>1, <1>6 DEF OneGDB, JobsAreOfTheClient
    <3>3. "connected" # "idle"
      OBVIOUS
    <3>4. inbox # <<>> /\ This = Connect
      BY Zenon, <3>2, <3>3 DEF AtInv
    <3>5. inbox[1].packet = Connect /\ 1 \in 1..Len(inbox) /\ Head(inbox) = inbox[1]
      BY Zenon, <3>4, First DEF This
    <3>6. i = 1 \/ 1 < i
      BY <2>1
    <3>7. i = 1
      BY Zenon, <3>5, <3>6, <2>1 DEF OneGDB, ConnectIsLast
    <3> QED
      BY Zenon, <3>1, <3>2, <3>5, <3>7, <2>1, <1>1, <1>4
  <2> QED
    BY Zenon, <2>2, <2>3
<1>8. JobsAreOfTheClient'
  BY Zenon, <1>1, <1>4, <1>5, <1>6 DEF OneGDB, JobsAreOfTheClient, HasGDBClient
<1>9. ConnectIsPending'
  <2>1. ASSUME NEW i \in 1..Len(inbox'), inbox'[i].packet = Connect
        PROVE  i \in 1..Len(inbox) /\ inbox'[i] = inbox[i]
    BY Zenon, <2>1, <1>4, <1>5
  <2> QED
    BY Zenon, <2>1, <1>1 DEF OneGDB, ConnectIsPending
<1>10. at.step = "connected" => Head(inbox') = Head(inbox)
  <2>1. "connected" # "idle"
    OBVIOUS
  <2> QED
    BY Zenon, <2>1, <1>5 DEF AtInv
<1>11. OpenIsKnown' /\ UnopenedIsNot' /\ AddedWasOpen'
  BY Zenon, <1>1, <1>10 DEF OneGDB, OpenIsKnown, UnopenedIsNot, AddedWasOpen
<1> QED
  BY Zenon, <1>7, <1>8, <1>9, <1>11 DEF OneGDB


\* What a change to one connection does to the others.
LEMMA LinkAt ==
  ASSUME TypeInv, NEW c \in Client, NEW v, link' = [link EXCEPT ![c] = v]
  PROVE  link'[c] = v /\ \A d \in Client : d # c => link'[d] = link[d]
<1>1. link \in [Client -> {"none", "pending", "open", "closed"}]
  BY Zenon DEF TypeInv, ServerInv
<1> QED
  BY <1>1

\* The clients of jobs are clients.
LEMMA JobClients ==
  ASSUME TypeInv
  PROVE  \A i \in 1..Len(inbox) : inbox[i].client \in Client
<1>1. inbox \in Seq(Job)
  BY Zenon DEF TypeInv, ServerInv
<1>2. \A i \in 1..Len(inbox) : inbox[i] \in Job
  BY <1>1
<1> QED
  BY Zenon, <1>2 DEF Job

\* A GDB that is closed, and was not waiting for its job, leaves the others.
LEMMA OneCloses ==
  ASSUME TypeInv, AtInv, OneGDB, NEW c \in Client, link[c] \in {"none", "open"},
         link' = [link EXCEPT ![c] = "closed"], UNCHANGED <<inbox, gdb_, at>>
  PROVE  OneGDB'
<1>1. link'[c] = "closed" /\ \A d \in Client : d # c => link'[d] = link[d]
  BY Zenon, LinkAt
<1>2. "closed" \notin {"open", "none", "pending"} /\ "pending" \notin {"none", "open"}
  OBVIOUS
<1>3. gdb_ \in Client \cup {Nobody}
  BY Zenon DEF TypeInv, ServerInv
<1>4. HasGDBClient' => HasGDBClient
  BY Zenon, <1>1, <1>2, <1>3 DEF HasGDBClient
<1>5. ConnectIsLast'
  BY Zenon DEF OneGDB, ConnectIsLast
<1>6. JobsAreOfTheClient'
  BY Zenon, <1>4 DEF OneGDB, JobsAreOfTheClient
<1>7. OpenIsKnown'
  BY Zenon, <1>1, <1>2 DEF OneGDB, OpenIsKnown
<1>8. UnopenedIsNot'
  BY Zenon, <1>1, <1>2 DEF OneGDB, UnopenedIsNot
<1>9. ConnectIsPending'
  <2>1. ASSUME NEW i \in 1..Len(inbox), inbox[i].packet = Connect, at.step # "connected"
        PROVE  link'[inbox[i].client] = "pending"
    <3>1. link[inbox[i].client] = "pending"
      BY Zenon, <2>1 DEF OneGDB, ConnectIsPending
    <3>2. inbox[i].client # c /\ inbox[i].client \in Client
      BY Zenon, <3>1, <1>2, JobClients
    <3> QED
      BY Zenon, <3>1, <3>2, <1>1
  <2> QED
    BY Zenon, <2>1 DEF ConnectIsPending
<1>10. AddedWasOpen'
  <2>1. ASSUME at.step = "connected"
        PROVE  link'[Head(inbox).client] \in {"open", "closed"}
    <3>1. "connected" # "idle"
      OBVIOUS
    <3>2. Head(inbox).client \in Client
      BY Zenon, <2>1, <3>1, First DEF AtInv
    <3> QED
      BY Zenon, <2>1, <3>2, <1>1 DEF OneGDB, AddedWasOpen
  <2> QED
    BY Zenon, <2>1 DEF AddedWasOpen
<1> QED
  BY Zenon, <1>5, <1>6, <1>7, <1>8, <1>9, <1>10 DEF OneGDB

LEMMA ConnectedOne ==
  ASSUME TypeInv, AtInv, OneGDB, NEW c \in Client, OnGDBClientConnected(c), ~slipped'
  PROVE  OneGDB'
<1>1. link[c] = "none" /\ UNCHANGED <<gdb_, at>>
  BY Zenon DEF OnGDBClientConnected
<1>2. CASE Refuses
  <2>1. link' = [link EXCEPT ![c] = "closed"] /\ UNCHANGED inbox
    BY Zenon, <1>2 DEF OnGDBClientConnected
  <2> QED
    BY Zenon, <1>1, <2>1, OneCloses
<1>3. CASE ~Refuses
  <2>1. /\ link' = [link EXCEPT ![c] = "pending"]
        /\ inbox' = Append(inbox, [client |-> c, packet |-> Connect])
        /\ Connecting = {}
    BY Zenon, <1>3 DEF OnGDBClientConnected
  <2>2. link'[c] = "pending" /\ \A d \in Client : d # c => link'[d] = link[d]
    BY Zenon, <2>1, LinkAt
  <2>3. /\ \A i \in 1..Len(inbox') :
             \/ i \in 1..Len(inbox) /\ inbox'[i] = inbox[i]
             \/ i \notin 1..Len(inbox) /\ inbox'[i].client = c /\ inbox'[i].packet = Connect
        /\ \A i, j \in 1..Len(inbox') : i < j => i \in 1..Len(inbox) /\ inbox'[i] = inbox[i]
        /\ inbox # <<>> => Head(inbox') = Head(inbox)
    BY Zenon, <2>1, AddedAt
  <2>4. \A i \in 1..Len(inbox) : inbox[i].packet # Connect
    <3>1. DOMAIN inbox = 1..Len(inbox)
      BY DEF TypeInv, ServerInv
    <3> QED
      BY Zenon, <2>1, <3>1 DEF Connecting
  <2>5. "pending" \notin {"open", "none", "closed"} /\ "connected" # "idle" /\ "none" # "open"
    OBVIOUS
  <2>6. at.step # "connected"
    <3>1. ASSUME at.step = "connected"
          PROVE  FALSE
      <4>1. inbox # <<>> /\ This = Connect
        BY Zenon, <2>5, <3>1 DEF AtInv
      <4>2. inbox[1].packet = Connect /\ 1 \in 1..Len(inbox)
        BY Zenon, <4>1, First DEF This
      <4> QED
        BY Zenon, <4>2, <2>4
    <3> QED
      BY Zenon, <3>1
  <2>7. gdb_ \in Client \cup {Nobody} /\ gdb_ # c
    BY Zenon, <1>1 DEF TypeInv, ServerInv, OneGDB, UnopenedIsNot
  <2>8. ~HasGDBClient'
    BY Zenon, <1>1, <1>3, <2>2, <2>5, <2>7 DEF Refuses, HasGDBClient
  <2>9. ConnectIsLast'
    BY Zenon, <2>3, <2>4 DEF ConnectIsLast
  <2>10. JobsAreOfTheClient'
    BY Zenon, <2>8 DEF JobsAreOfTheClient
  <2>11. OpenIsKnown'
    BY Zenon, <1>1, <2>2, <2>5, <2>6 DEF OneGDB, OpenIsKnown
  <2>12. UnopenedIsNot'
    BY Zenon, <1>1, <2>2, <2>7 DEF OneGDB, UnopenedIsNot
  <2>13. ConnectIsPending'
    <3>1. ASSUME NEW i \in 1..Len(inbox'), inbox'[i].packet = Connect
          PROVE  inbox'[i].client = c
      BY Zenon, <3>1, <2>3, <2>4
    <3> QED
      BY Zenon, <3>1, <2>2 DEF ConnectIsPending
  <2>14. AddedWasOpen'
    BY Zenon, <1>1, <2>6 DEF AddedWasOpen
  <2> QED
    BY Zenon, <2>9, <2>10, <2>11, <2>12, <2>13, <2>14 DEF OneGDB
<1> QED
  BY Zenon, <1>2, <1>3

LEMMA AttachOne ==
  ASSUME TypeInv, AtInv, OneGDB, AttachAndHalt
  PROVE  OneGDB'
<1> DEFINE c == Head(inbox).client
<1>1. at.step = "idle" /\ inbox # <<>> /\ This.cmd = "connect" /\ UNCHANGED gdb_
  BY Zenon DEF AttachAndHalt, Running, This
<1>2. /\ "connected" # "idle" /\ "pending" \notin {"open", "closed"}
      /\ "closed" \notin {"none", "pending", "open"} /\ "open" \notin {"none", "pending"}
  OBVIOUS
<1>3. c \in Client /\ inbox[1].packet = Connect /\ 1 \in 1..Len(inbox) /\ Head(inbox) = inbox[1]
  BY Zenon, <1>1, First DEF This
<1>4. link[c] = "pending"
  BY Zenon, <1>1, <1>2, <1>3 DEF OneGDB, ConnectIsPending
<1>5. gdb_ # c /\ ~HasGDBClient
  BY Zenon, <1>3, <1>4 DEF OneGDB, UnopenedIsNot, JobsAreOfTheClient
<1>6. \A i, j \in 1..Len(inbox) : i < j => inbox[i].packet # Connect
  BY Zenon, <1>1, <1>2 DEF OneGDB, ConnectIsLast
<1>7. gdb_ \in Client \cup {Nobody}
  BY Zenon DEF TypeInv, ServerInv
<1>8. CASE link' = [link EXCEPT ![c] = "closed"] /\ inbox' = Tail(inbox) /\ UNCHANGED at
  <2>1. link'[c] = "closed" /\ \A d \in Client : d # c => link'[d] = link[d]
    BY Zenon, <1>3, <1>8, LinkAt
  <2>2. \A i \in 1..Len(inbox') : FALSE
    <3>1. inbox \in Seq(Job)
      BY Zenon DEF TypeInv, ServerInv
    <3>2. ASSUME NEW i \in 1..Len(inbox')
          PROVE  i + 1 \in 1..Len(inbox) /\ 1 < i + 1
      BY <3>1, <1>1, <1>8, Behind
    <3> QED
      BY Zenon, <3>2, <1>3, <1>6
  <2>3. ~HasGDBClient'
    BY Zenon, <1>1, <1>5, <1>7, <2>1 DEF HasGDBClient
  <2>4. ConnectIsLast' /\ JobsAreOfTheClient' /\ ConnectIsPending'
    BY Zenon, <2>2, <2>3 DEF ConnectIsLast, JobsAreOfTheClient, ConnectIsPending
  <2>5. OpenIsKnown' /\ UnopenedIsNot' /\ AddedWasOpen'
    BY Zenon, <1>1, <1>2, <1>8, <2>1 DEF OneGDB, OpenIsKnown, UnopenedIsNot, AddedWasOpen
  <2> QED
    BY Zenon, <2>4, <2>5 DEF OneGDB
<1>9. CASE link' = [link EXCEPT ![c] = "open"] /\ at' = [Idle EXCEPT !.step = "connected"] /\ UNCHANGED inbox
  <2>1. link'[c] = "open" /\ \A d \in Client : d # c => link'[d] = link[d]
    BY Zenon, <1>3, <1>9, LinkAt
  <2>2. at'.step = "connected"
    BY Zenon, <1>9, IdleStep
  <2>3. ~HasGDBClient'
    BY Zenon, <1>1, <1>5, <1>7, <2>1 DEF HasGDBClient
  <2>4. ConnectIsLast'
    BY Zenon, <1>6, <1>9 DEF ConnectIsLast
  <2>5. JobsAreOfTheClient' /\ ConnectIsPending'
    BY Zenon, <2>2, <2>3 DEF JobsAreOfTheClient, ConnectIsPending
  <2>6. OpenIsKnown'
    BY Zenon, <1>1, <1>2, <1>9, <2>1, <2>2 DEF OneGDB, OpenIsKnown
  <2>7. UnopenedIsNot'
    BY Zenon, <1>1, <1>2, <1>5, <2>1 DEF OneGDB, UnopenedIsNot
  <2>8. AddedWasOpen'
    BY Zenon, <1>9, <2>1 DEF AddedWasOpen
  <2> QED
    BY Zenon, <2>4, <2>5, <2>6, <2>7, <2>8 DEF OneGDB
<1> QED
  BY Zenon, <1>8, <1>9 DEF AttachAndHalt

LEMMA AddOne ==
  ASSUME TypeInv, AtInv, OneGDB, AddTransport
  PROVE  OneGDB'
<1> DEFINE c == Head(inbox).client
<1>1. at.step = "connected" /\ inbox' = Tail(inbox) /\ at' = Idle
  BY Zenon DEF AddTransport
<1>2. "connected" # "idle" /\ "open" \notin {"none", "pending"} /\ "closed" \notin {"none", "pending"}
  OBVIOUS
<1>3. inbox # <<>> /\ This = Connect
  BY Zenon, <1>1, <1>2 DEF AtInv
<1>4. c \in Client /\ inbox[1].packet = Connect /\ 1 \in 1..Len(inbox) /\ Head(inbox) = inbox[1]
  BY Zenon, <1>3, First DEF This
<1>5. ~HasGDBClient
  BY Zenon, <1>4 DEF OneGDB, JobsAreOfTheClient
<1>6. gdb_' = c /\ link' = link
  <2>1. gdb_' = c /\ link' = [link EXCEPT ![c] = link[c]]
    BY <1>4, <1>5 DEF AddTransport
  <2>2. link \in [Client -> {"none", "pending", "open", "closed"}]
    BY Zenon DEF TypeInv, ServerInv
  <2> QED
    BY <2>1, <2>2
<1>7. ASSUME NEW i \in 1..Len(inbox')
      PROVE  inbox'[i].packet # Connect /\ inbox'[i].client = c
  <2>1. inbox \in Seq(Job)
    BY Zenon DEF TypeInv, ServerInv
  <2>2. inbox'[i] = inbox[i + 1] /\ i + 1 \in 1..Len(inbox) /\ 1 < i + 1
    BY <2>1, <1>1, <1>3, Behind
  <2> QED
    BY Zenon, <2>2, <1>4 DEF OneGDB, ConnectIsLast
<1>8. at'.step # "connected"
  BY Zenon, <1>1, <1>2, IdleStep
<1>9. ConnectIsLast' /\ JobsAreOfTheClient' /\ ConnectIsPending'
  BY Zenon, <1>6, <1>7 DEF ConnectIsLast, JobsAreOfTheClient, ConnectIsPending
<1>10. OpenIsKnown'
  <2>1. ASSUME NEW d \in Client, link[d] = "open"
        PROVE  d = c
    <3>1. CASE d = gdb_
      <4>1. gdb_ # Nobody
        BY Zenon, <3>1, GDBBridgeAssumption
      <4> QED
        BY Zenon, <4>1, <3>1, <2>1, <1>5 DEF HasGDBClient
    <3> QED
      BY Zenon, <3>1, <2>1 DEF OneGDB, OpenIsKnown
  <2> QED
    BY Zenon, <2>1, <1>6 DEF OpenIsKnown
<1>11. UnopenedIsNot'
  <2>1. link[c] \in {"open", "closed"}
    BY Zenon, <1>1 DEF OneGDB, AddedWasOpen
  <2> QED
    BY Zenon, <2>1, <1>2, <1>6 DEF UnopenedIsNot
<1>12. AddedWasOpen'
  BY Zenon, <1>8 DEF AddedWasOpen
<1> QED
  BY Zenon, <1>9, <1>10, <1>11, <1>12 DEF OneGDB

LEMMA StopOne ==
  ASSUME TypeInv, AtInv, OneGDB, StopGDBServer, aborted' = "no"
  PROVE  OneGDB'
<1>1. /\ gdb_' = Nobody /\ inbox' = <<>> /\ at' = Idle
      /\ link' = [c \in Client |-> IF c = gdb_ /\ link[c] = "open" THEN "closed" ELSE link[c]]
  BY Zenon DEF StopGDBServer
<1>2. at.step # "connected"
  <2>1. at.step = "connected" => aborted' \in {"stopped"}
    BY DEF StopGDBServer
  <2>2. "stopped" # "no"
    OBVIOUS
  <2> QED
    BY Zenon, <2>1, <2>2
<1>3. "connected" # "idle" /\ "closed" # "open"
  OBVIOUS
<1>4. at'.step # "connected"
  BY Zenon, <1>1, <1>3, IdleStep
<1>5. \A i \in 1..Len(inbox') : FALSE
  BY <1>1
<1>6. ASSUME NEW c \in Client
      PROVE  gdb_' # c /\ link'[c] # "open"
  <2>1. link[c] = "open" => c = gdb_
    BY Zenon, <1>2 DEF OneGDB, OpenIsKnown
  <2>2. link'[c] = IF c = gdb_ /\ link[c] = "open" THEN "closed" ELSE link[c]
    BY Zenon, <1>1
  <2>3. Nobody # c
    BY Zenon, GDBBridgeAssumption
  <2> QED
    BY Zenon, <2>1, <2>2, <2>3, <1>1, <1>3
<1>7. ConnectIsLast' /\ JobsAreOfTheClient' /\ ConnectIsPending'
  BY Zenon, <1>5 DEF ConnectIsLast, JobsAreOfTheClient, ConnectIsPending
<1>8. OpenIsKnown' /\ UnopenedIsNot' /\ AddedWasOpen'
  BY Zenon, <1>4, <1>6 DEF OpenIsKnown, UnopenedIsNot, AddedWasOpen
<1> QED
  BY Zenon, <1>7, <1>8 DEF OneGDB


\* A reply goes to the client the packet is of.
LEMMA AnswerOne ==
  ASSUME TypeInv, OneGDB, inbox # <<>>, at.step # "connected", ~misdirected, NEW rs, Answer(rs)
  PROVE  OneGDB' /\ ~misdirected'
<1>1. inbox' = Tail(inbox) /\ at' = Idle /\ UNCHANGED <<link, gdb_>>
  BY Zenon DEF Answer
<1>2. "idle" # "connected"
  OBVIOUS
<1>3. OneGDB'
  BY Zenon, <1>1, <1>2, IdleStep, OneAnswered
<1>4. HasGDBClient => gdb_ = Head(inbox).client
  <2>1. Head(inbox) = inbox[1] /\ 1 \in 1..Len(inbox)
    BY Zenon, First
  <2> QED
    BY Zenon, <2>1 DEF OneGDB, JobsAreOfTheClient
<1>5. misdirected' = (misdirected \/ (HasGDBClient /\ gdb_ # Head(inbox).client))
  BY Zenon DEF Answer
<1> QED
  BY Zenon, <1>3, <1>4, <1>5

LEMMA PacketOne ==
  ASSUME TypeInv, AtInv, OneGDB, ~misdirected, HandlePacket
  PROVE  OneGDB' /\ ~misdirected'
<1>1. /\ "idle" # "connected" /\ "context" \notin {"connected", "idle"}
      /\ "pushing" \notin {"connected", "idle"} /\ "listed" # "connected" /\ "listing" # "connected"
  OBVIOUS
<1>2. ASSUME Begun
      PROVE  inbox # <<>> /\ at.step # "connected"
  BY Zenon, <1>1, <1>2 DEF Begun
<1>3. CASE Plain
  <2>1. Begun
    BY Zenon, <1>3 DEF Plain
  <2>2. CASE Answers
    BY Zenon, <1>2, <2>1, <2>2, AnswerOne DEF Answers
  <2>3. ASSUME NEW why, Abort(why)
        PROVE  OneGDB' /\ ~misdirected'
    <3>1. UNCHANGED <<inbox, link, gdb_, at, misdirected>>
      BY Zenon, <2>3, AbortFrame
    <3> QED
      BY Zenon, <3>1, OneFrame
  <2> QED
    BY Zenon, <1>3, <2>2, <2>3 DEF Plain
<1>4. CASE SendGeneralRegisters \/ PushRegister
  <2>1. at.step # "connected" /\ inbox # <<>>
    BY Zenon, <1>1, <1>4 DEF SendGeneralRegisters, PushRegister, AtInv
  <2>2. \E r : Send(r)
    BY Zenon, <1>4 DEF SendGeneralRegisters, PushRegister
  <2> QED
    BY Zenon, <2>1, <2>2, AnswerOne DEF Send
<1>5. ASSUME NEW t \in Thread, ReadsOne(t)
      PROVE  OneGDB' /\ ~misdirected'
  BY Zenon, <1>2, <1>5, AnswerOne DEF ReadsOne, Send
<1>6. ASSUME NEW t \in Thread, ReadGeneralRegisters(t) \/ WritesOne(t)
      PROVE  OneGDB' /\ ~misdirected'
  <2>1. Begun
    BY Zenon, <1>6, RegisterPackets DEF ReadGeneralRegisters, WritesOne, Addressed
  <2>2. PICK step \in {"context", "pushing"} : \E general, floats : Proceed(step, t, general, floats)
    BY Zenon, <1>6 DEF ReadGeneralRegisters, WritesOne
  <2>3. UNCHANGED <<inbox, link, gdb_, misdirected>> /\ at'.step = step
    BY Zenon, <2>2, ProceedFrame
  <2>4. step # "connected"
    BY Zenon, <1>1, <2>2
  <2> QED
    BY Zenon, <1>2, <2>1, <2>3, <2>4, OneFrame
<1>7. CASE Lists
  <2>1. PICK step \in {"listing", "listed"} : \E list : GoesOn(step, list)
    BY Zenon, <1>7 DEF Lists
  <2>2. UNCHANGED <<inbox, link, gdb_, misdirected>> /\ at'.step = step
    BY Zenon, <2>1, GoesOnFrame
  <2>3. at.step # "connected" /\ step # "connected"
    BY Zenon, <1>1, <1>7, <2>1 DEF Lists
  <2> QED
    BY Zenon, <2>2, <2>3, OneFrame
<1>8. CASE SendThreadIDs
  BY Zenon, <1>1, <1>8, ThreadIDsSent, AnswerOne DEF Send
<1> QED
  BY Zenon, <1>3, <1>4, <1>5, <1>6, <1>7, <1>8, PacketCases

\* Once a second GDB has slipped in, that is so for good; else replies go right.
LEMMA StepRoute ==
  ASSUME TypeInv, AtInv, RouteInv, aborted = "no", Step
  PROVE  RouteInv'
<1>1. slipped => slipped'
  <2>1. CASE HandlePacket
    <3>1. \/ \E rs : Answer(rs)
          \/ \E why : Abort(why)
          \/ \E step, t, general, floats : Proceed(step, t, general, floats)
          \/ \E step, list : GoesOn(step, list)
      BY Zenon, <2>1, PacketCases, ThreadIDsSent DEF Plain, Lists, Answers, SendGeneralRegisters, PushRegister, Send,
         ReadGeneralRegisters, ReadsOne, WritesOne
    <3>2. UNCHANGED slipped
      BY Zenon, <3>1 DEF Answer, Abort, Proceed, GoesOn
    <3> QED
      BY Zenon, <3>2
  <2>2. CASE ~HandlePacket
    BY Zenon, <2>2 DEF Step, TitleRuns, ThreadComesOrGoes, OnThreadCreated, OnThreadTerminated,
       StopReasonLost, GDBSends, GDBQuits, OnGDBClientConnected, AttachAndHalt, AddTransport,
       StopGDBServer, StartGDBServer
  <2> QED
    BY Zenon, <2>1, <2>2
<1>2. CASE slipped'
  BY Zenon, <1>2 DEF RouteInv
<1>3. CASE ~slipped'
  <2>1. OneGDB /\ ~misdirected
    BY Zenon, <1>1, <1>3 DEF RouteInv
  <2>2. CASE HandlePacket
    BY Zenon, <2>1, <2>2, PacketOne DEF RouteInv
  <2>3. CASE ~HandlePacket
    <3>1. UNCHANGED misdirected
      BY Zenon, <2>3 DEF Step, TitleRuns, ThreadComesOrGoes, OnThreadCreated, OnThreadTerminated,
         StopReasonLost, GDBSends, GDBQuits, OnGDBClientConnected, AttachAndHalt, AddTransport,
         StopGDBServer, StartGDBServer
    <3>2. CASE TitleRuns \/ ThreadComesOrGoes \/ OnThreadCreated \/ OnThreadTerminated
                 \/ StopReasonLost \/ StartGDBServer
      <4>1. UNCHANGED <<inbox, link, gdb_, at>>
        BY Zenon, <3>2 DEF TitleRuns, ThreadComesOrGoes, OnThreadCreated, OnThreadTerminated,
           StopReasonLost, StartGDBServer, server
      <4> QED
        BY Zenon, <2>1, <3>1, <4>1, OneFrame DEF RouteInv
    <3>3. ASSUME NEW c \in Client, GDBSends(c)
          PROVE  RouteInv'
      BY Zenon, <2>1, <3>1, <3>3, SendsOne DEF RouteInv
    <3>4. ASSUME NEW c \in Client, GDBQuits(c)
          PROVE  RouteInv'
      <4>1. /\ link[c] \in {"none", "open"} /\ link' = [link EXCEPT ![c] = "closed"]
            /\ UNCHANGED <<inbox, gdb_, at>>
        BY Zenon, <3>4 DEF GDBQuits
      <4> QED
        BY Zenon, <2>1, <3>1, <4>1, OneCloses DEF RouteInv
    <3>5. ASSUME NEW c \in Client, OnGDBClientConnected(c)
          PROVE  RouteInv'
      BY Zenon, <1>3, <2>1, <3>1, <3>5, ConnectedOne DEF RouteInv
    <3>6. CASE AttachAndHalt \/ AddTransport
      BY Zenon, <2>1, <3>1, <3>6, AttachOne, AddOne DEF RouteInv
    <3>7. CASE StopGDBServer
      BY Zenon, <2>1, <3>1, <3>7, StopOne DEF RouteInv
    <3> QED
      BY Zenon, <2>3, <3>2, <3>3, <3>4, <3>5, <3>6, <3>7 DEF Step
  <2> QED
    BY Zenon, <2>2, <2>3
<1> QED
  BY Zenon, <1>2, <1>3

-----------------------------------------------------------------------------
(* The theorems.                                                           *)

\* Types, jobs between their commands, what is reported of registers, the number
\* of replies and who gets them.
BridgeInv == TypeInv /\ AtInv /\ RegisterRepliesAreTrue /\ CountInv /\ RouteInv

LEMMA InitBridge ==
  ASSUME Init
  PROVE  BridgeInv
<1>1. /\ at = Idle /\ truth = NoTruth /\ last = NoPacket /\ inbox = <<>>
      /\ link = [c \in Client |-> "none"] /\ gdb_ = Nobody /\ misdirected = FALSE
  BY Zenon DEF Init
<1>2. /\ "idle" \notin {"connected", "context", "pushing", "listing", "listed"} /\ "none" # "open"
  OBVIOUS
<1>3. at.step = "idle"
  BY Zenon, <1>1, IdleStep
<1>4. AtInv
  BY Zenon, <1>2, <1>3 DEF AtInv
<1>5. truth.thread = 0
  BY <1>1 DEF NoTruth
<1>6. RegisterRepliesAreTrue /\ CountInv
  BY Zenon, <1>1, <1>5 DEF RegisterRepliesAreTrue, CountInv
<1>7. \A i \in 1..Len(inbox) : FALSE
  BY <1>1
<1>8. \A c \in Client : link[c] = "none" /\ gdb_ # c
  BY Zenon, <1>1, GDBBridgeAssumption
<1>9. ConnectIsLast /\ JobsAreOfTheClient /\ ConnectIsPending
  BY Zenon, <1>7 DEF ConnectIsLast, JobsAreOfTheClient, ConnectIsPending
<1>10. OpenIsKnown /\ UnopenedIsNot /\ AddedWasOpen
  BY Zenon, <1>2, <1>3, <1>8 DEF OpenIsKnown, UnopenedIsNot, AddedWasOpen
<1>11. RouteInv
  BY Zenon, <1>1, <1>9, <1>10 DEF RouteInv, OneGDB
<1> QED
  BY Zenon, <1>4, <1>6, <1>11, InitType DEF BridgeInv

LEMMA StutterBridge ==
  ASSUME BridgeInv, UNCHANGED vars
  PROVE  BridgeInv'
<1>1. /\ UNCHANGED <<alive, regs, fregs, events, context, link, gdb_, session, inbox, up, at>>
      /\ UNCHANGED <<replies, last, truth, thread_id_for_command_>>
      /\ UNCHANGED <<slipped, misdirected, raced, aborted>>
  BY Zenon DEF vars, target, debugger, server, bridge, gdb
<1>2. TypeInv'
  BY Zenon, <1>1, TargetFrame, ServerFrame DEF BridgeInv, TypeInv
<1>3. AtInv'
  BY Zenon, <1>1, AtFrame DEF BridgeInv
<1>4. RegisterRepliesAreTrue' /\ CountInv'
  BY Zenon, <1>1, TruthFrame DEF BridgeInv, CountInv
<1>5. (slipped' => slipped) /\ (slipped => slipped') /\ (misdirected' => misdirected)
  BY Zenon, <1>1
<1>6. RouteInv'
  BY Zenon, <1>1, <1>5, OneFrame DEF BridgeInv, RouteInv
<1> QED
  BY Zenon, <1>2, <1>3, <1>4, <1>6 DEF BridgeInv

\* The invariant of the bridge is inductive: between the commands of a handler its
\* packet is still the first job and the contexts it holds are those of the Thread
\* object it fetched, and unless a second GDB slipped in there is at most one GDB
\* whose packets are or will be among the jobs.
THEOREM BridgeInductive == Spec => []BridgeInv
<1>1. Init => BridgeInv
  BY Zenon, InitBridge
<1>2. BridgeInv /\ [Next]_vars => BridgeInv'
  <2> SUFFICES ASSUME BridgeInv, [Next]_vars
               PROVE  BridgeInv'
    OBVIOUS
  <2>1. CASE Next
    <3>1. aborted = "no" /\ Step
      BY Zenon, <2>1 DEF Next
    <3> QED
      BY Zenon, <3>1, StepType, StepAt, StepTruth, StepCounts, StepRoute DEF BridgeInv
  <2>2. CASE UNCHANGED vars
    BY Zenon, <2>2, StutterBridge
  <2> QED
    BY Zenon, <2>1, <2>2
<1> QED
  BY <1>1, <1>2, PTL DEF Spec

\* Every packet gets its one reply, a hardware breakpoint two, and the reply goes to
\* the GDB that sent the packet unless a second one connected while the first was
\* being attached (OnGDBClientConnected, AddTransport, SendPacket to gdb_).
THEOREM Replies == Spec => []RepliesGoToTheirClient
<1>1. BridgeInv => RepliesGoToTheirClient
  BY Zenon DEF BridgeInv, CountInv, RouteInv, RepliesGoToTheirClient
<1> QED
  BY <1>1, BridgeInductive, PTL

\* g and p report the registers of the thread they are about as they are
\* (HandleReadGeneralRegisters, HandleReadRegister), g unless the title ran between
\* its two commands.
THEOREM TrueRegisters == Spec => []RegisterRepliesAreTrue
<1>1. BridgeInv => RegisterRepliesAreTrue
  BY Zenon DEF BridgeInv
<1> QED
  BY <1>1, BridgeInductive, PTL

\* HandleWriteRegister fetches, changes and pushes a whole context, yet changes only
\* the register of its packet, unless the title ran in between.
THEOREM LocalWrites == Spec => WritesAreLocalUnlessRaced
<1>1. BridgeInv /\ [Next]_vars => [WriteIsLocal]_vars
  <2> SUFFICES ASSUME BridgeInv, Next
               PROVE  WriteIsLocal
    OBVIOUS
  <2> QED
    BY Zenon, StepWrites DEF BridgeInv, Next
<1> QED
  BY <1>1, BridgeInductive, PTL DEF Spec, WritesAreLocalUnlessRaced

=============================================================================
