-------------------------- MODULE StopReplyProofs --------------------------
(***************************************************************************)
(* A GDB that resumes all threads is sent one reply for each request, and  *)
(* the stops it is told of are true unless an answer was stale: proofs for *)
(* any threads, sessions and bounds of StopReply.                          *)
(***************************************************************************)
EXTENDS StopReplyLemmas

----------------------------------------------------------------------------
(* Taking turns                                                            *)

\* The actions of the vCont that resumes all threads.
AllThreads == <<[code |-> "c", thread |-> None]>>

\* What is left to handle of the packets: the one at its Go is answered, or will be
\* by the notification executor.
Due == IF at["gdb"] = "go" THEN Tail(inbox) ELSE inbox

AtMostOne(s) == s # <<>> => Tail(s) = <<>>

\* The GDB executor handles nothing but ? and this vCont.
Resumes ==
  /\ at["gdb"] \in {"idle", "go", "vCont", "continuing"} \cup Polling
  /\ at["gdb"] \in {"vCont", "continuing", "go"} => Head(inbox).type = "vCont"
  /\ at["gdb"] = "continuing" => commands = AllThreads
  /\ at["gdb"] = "vCont" => commands \in {<<>>, AllThreads}
  /\ at["gdb"] \in {"vCont", "continuing"} => processed = {}

\* GDB's request is a packet, the flag or a reply, one at a time, and none of them
\* when GDB takes the target to be stopped.
Turns ==
  /\ client \in {"stopped", "running", "asked"}
  /\ client = "stopped" => Due = <<>> /\ replies = <<>> /\ ~waiting_on_stop_packet_
  /\ AtMostOne(Due) /\ AtMostOne(replies)
  /\ Due # <<>> => replies = <<>> /\ ~waiting_on_stop_packet_
  /\ waiting_on_stop_packet_ => replies = <<>>
  /\ at["notification"] = "send" => waiting_on_stop_packet_

TurnsInv == ContinuesAll => Resumes /\ Turns

\* Nothing changes the session.
LEMMA SameSession ==
  ASSUME Next
  PROVE  session' = session
<1> USE DEF gdb
<1>1. CASE Title \/ Receive \/ \E p \in session.packet : SendPacket(p)
  BY Zenon, <1>1 DEF Title, Hit, Create, Terminate, Receive, SendPacket
<1>2. CASE GDBExecutor
  <2>1. CASE \/ HandlePacket \/ VContAction \/ VContEnd \/ ContinueAll \/ StepInstruction
             \/ SetTrapFlag \/ StepContinue \/ StepGo \/ MarkWaitingForStopPacket \/ Go
    BY Zenon, <2>1
    DEF HandlePacket, VContAction, VContEnd, ContinueAll, StepInstruction, SetTrapFlag,
        StepContinue, StepGo, MarkWaitingForStopPacket, Go
  <2>2. CASE \/ HandleQueryHaltReason \/ Halt \/ WaitForState \/ WaitForStateTimesOut
             \/ PickHalted \/ AwaitHalted \/ HaltGivesUp \/ StoreHalted \/ GoAfterHalt
             \/ ReportHalt \/ AssertThread
    BY Zenon, <2>2 DEF HandleQueryHaltReason, Halt, WaitForState, WaitForStateTimesOut, PickHalted,
                AwaitHalted, HaltGivesUp, StoreHalted, GoAfterHalt, ReportHalt, AssertThread
  <2>3. CASE CopyThreads("gdb") \/ PreferActive("gdb") \/ AskNext("gdb") \/ StoreNext("gdb")
    BY Zenon, <2>3 DEF CopyThreads, PreferActive, AskNext, StoreNext
  <2> QED  BY Zenon, <1>2, <2>1, <2>2, <2>3 DEF GDBExecutor
<1>3. CASE NotificationExecutor
  BY Zenon, <1>3 DEF NotificationExecutor, OnExecutionStateChanged, ActivateStopped, OnThreadCreated,
              OnThreadTerminated, OnStop, FetchStopReason, StoreAndJudge, IgnoreContinue,
              IgnoreGo, BridgeChecks, BridgeReports, CopyThreads, PreferActive, AskNext,
              StoreNext
<1> QED  BY Zenon, <1>1, <1>2, <1>3 DEF Next

\* The packet of a GDB that resumes all threads.
LEMMA ItsPacket ==
  ASSUME BridgeOK, ContinuesAll, inbox # <<>>
  PROVE  /\ Head(inbox).type \in {"?", "vCont"}
         /\ Head(inbox).type = "vCont" => Head(inbox).commands = AllThreads
<1>1. Head(inbox) \in session.packet
  BY Zenon, HeadPacket
<1> QED  BY Zenon, <1>1 DEF ContinuesAll, AllThreads

\* The one action of that vCont, and the empty rest.
LEMMA ItsActions ==
  /\ AllThreads # <<>> /\ Head(AllThreads).code = "c" /\ Head(AllThreads).thread = None
  /\ Tail(AllThreads) = <<>>
BY DEF AllThreads

\* Then VContAction is ContinueAll's first step.
LEMMA ItsVCont ==
  ASSUME TypeOK, Resumes, VContAction
  PROVE  /\ at["gdb"] = "vCont" /\ at'["gdb"] = "continuing"
         /\ commands = AllThreads /\ todo' = threads_ /\ processed' = {}
         /\ UNCHANGED <<execution, alive, ended, held, trap, events, notes, debugger, bridge,
                        inbox, gdb, poll, thread, commands, raced>>
<1>1. at["gdb"] = "vCont" /\ commands = AllThreads /\ processed = {}
  BY Zenon DEF Resumes, VContAction
<1>2. /\ Head(commands).code = "c" /\ Head(commands).thread = None
  BY Zenon, <1>1, ItsActions
<1>3. /\ processed' = {} /\ Goto("gdb", "continuing") /\ todo' = threads_
      /\ UNCHANGED <<held, active_thread_id_, bridge, commands>>
  BY Zenon, <1>1, <1>2 DEF VContAction
<1>4. at'["gdb"] = "continuing"
  BY Zenon, <1>3, GDBGoto, Labels DEF TypeOK
<1>5. UNCHANGED <<execution, alive, ended, trap, events, notes, state_, threads_, stopped,
                  last_stop_reason, inbox, gdb, poll, thread, raced>>
  BY Zenon DEF VContAction
<1> QED  BY Zenon, <1>1, <1>3, <1>4, <1>5 DEF debugger

\* What the GDB executor does for such a GDB.
GDBTurn ==
  \/ HandlePacket \/ VContAction \/ VContEnd \/ ContinueAll
  \/ MarkWaitingForStopPacket \/ Go \/ HandleQueryHaltReason
  \/ CopyThreads("gdb") \/ PreferActive("gdb") \/ AskNext("gdb") \/ StoreNext("gdb")

\* Everything else is for stepping, halting and detaching.
LEMMA NothingElse ==
  ASSUME TypeOK, ShapeInv, ContinuesAll, Resumes, GDBExecutor
  PROVE  GDBTurn
<1>1. at["gdb"] \notin Stepping \cup Halting \cup Halted
  BY Zenon, Kinds DEF Resumes, Stepping, Halting, Halted
<1>2. ~PickHalted
  <2>1. inbox # <<>> => Head(inbox).type # "interrupt"
    BY Zenon, ItsPacket DEF TypeOK
  <2>2. at["gdb"] # "idle" => inbox # <<>>
    BY Zenon DEF ShapeInv, GDBShape
  <2> QED  BY Zenon, <2>1, <2>2 DEF PickHalted
<1> QED
  BY Zenon, <1>1, <1>2
  DEF GDBExecutor, GDBTurn, Stepping, Halting, Halted, StepInstruction, SetTrapFlag,
      StepContinue, StepGo, Halt, WaitForState, WaitForStateTimesOut, AwaitHalted, HaltGivesUp,
      StoreHalted, GoAfterHalt, ReportHalt, AssertThread


\* A step of GetFirstStoppedThread stays in it and changes nothing but what is known of
\* the threads.
LEMMA PollMoves ==
  ASSUME TypeOK,
         CopyThreads("gdb") \/ PreferActive("gdb") \/ AskNext("gdb") \/ StoreNext("gdb")
  PROVE  /\ at["gdb"] \in Polling /\ at'["gdb"] \in Polling
         /\ at'["notification"] = at["notification"]
         /\ UNCHANGED <<target, bridge, inbox, gdb, stepping, threads_, active_thread_id_>>
<1>1. PICK l \in {"active", "ask", "store", "polled"} : Goto("gdb", l)
  BY Zenon DEF CopyThreads, PreferActive, AskNext, StoreNext
<1>2. l \in Polling /\ l \in GDBLabel
  BY Zenon, Labels DEF Polling
<1>3. at'["gdb"] = l /\ at'["notification"] = at["notification"]
  BY Zenon, <1>1, <1>2, GDBGoto DEF TypeOK
<1> QED
  BY Zenon, <1>2, <1>3 DEF CopyThreads, PreferActive, AskNext, StoreNext, Polling, debugger

\* The first step of a packet.
LEMMA ItsHandling ==
  ASSUME TypeOK, ContinuesAll, HandlePacket
  PROVE  /\ inbox # <<>> /\ at["gdb"] = "idle"
         /\ at'["gdb"] = IF Head(inbox).type = "vCont" THEN "vCont" ELSE "copy"
         /\ at'["notification"] = at["notification"] /\ processed' = {}
         /\ Head(inbox).type = "vCont" => commands' = AllThreads
         /\ UNCHANGED <<target, debugger, bridge, inbox, gdb, poll>>
<1>1. inbox # <<>>
  BY Zenon DEF HandlePacket
<1>2. /\ Head(inbox).type \in {"?", "vCont"}
      /\ Head(inbox).type = "vCont" => Head(inbox).commands = AllThreads
  BY Zenon, <1>1, ItsPacket DEF TypeOK
<1>3. Goto("gdb", IF Head(inbox).type = "vCont" THEN "vCont" ELSE "copy")
  BY Zenon, <1>2 DEF HandlePacket
<1>4. /\ at'["gdb"] = IF Head(inbox).type = "vCont" THEN "vCont" ELSE "copy"
      /\ at'["notification"] = at["notification"]
  BY Zenon, <1>3, GDBGoto, Labels DEF TypeOK
<1> QED  BY Zenon, <1>1, <1>2, <1>4 DEF HandlePacket

\* Every step keeps to the packets of such a GDB.
LEMMA NextResumes ==
  ASSUME TypeOK, ShapeInv, ContinuesAll, Resumes, Next
  PROVE  Resumes'
<1> USE DEF TypeOK, Resumes
<1>1. CASE GDBFrame
  BY Zenon, <1>1 DEF GDBFrame, stepping
<1>2. CASE Receive
  BY Zenon, <1>2 DEF Receive, stepping
<1>3. ASSUME NEW p \in session.packet, SendPacket(p) PROVE Resumes'
  <2>1. inbox # <<>> => Head(inbox') = Head(inbox)
    BY <1>3, Appended DEF SendPacket, BridgeOK
  <2>2. at["gdb"] # "idle" => inbox # <<>>
    BY Zenon DEF ShapeInv, GDBShape
  <2> QED  BY Zenon, <1>3, <2>1, <2>2 DEF SendPacket, stepping
<1>4. CASE HandlePacket
  <2>1. /\ at'["gdb"] = IF Head(inbox).type = "vCont" THEN "vCont" ELSE "copy"
        /\ processed' = {} /\ (Head(inbox).type = "vCont" => commands' = AllThreads)
        /\ UNCHANGED inbox
    BY Zenon, <1>4, ItsHandling
  <2> QED  BY Zenon, <2>1 DEF Polling
<1>5. CASE VContAction
  <2>1. /\ at["gdb"] = "vCont" /\ at'["gdb"] = "continuing" /\ commands' = AllThreads
        /\ processed' = {} /\ UNCHANGED inbox
    BY Zenon, <1>5, ItsVCont
  <2> QED  BY Zenon, <2>1
<1>6. CASE VContEnd
  <2>1. at'["gdb"] = "copy"
    BY Zenon, <1>6, GDBGoto, Labels DEF VContEnd
  <2> QED  BY Zenon, <2>1 DEF Polling
<1>7. CASE ContinueAll
  <2>1. /\ at["gdb"] = "continuing" /\ commands = AllThreads /\ Head(inbox).type = "vCont"
        /\ processed = {} /\ UNCHANGED <<inbox, processed>>
    BY Zenon, <1>7 DEF ContinueAll
  <2>2. \/ UNCHANGED <<at, commands>>
        \/ at'["gdb"] = "vCont" /\ commands' = Tail(commands)
    BY Zenon, <1>7, <2>1, GDBGoto, Labels DEF ContinueAll
  <2> QED  BY Zenon, <2>1, <2>2, ItsActions
<1>8. CASE MarkWaitingForStopPacket
  <2>1. at'["gdb"] = "go" /\ Head(inbox).type = "vCont" /\ UNCHANGED inbox
    BY Zenon, <1>8, GDBGoto, Labels DEF MarkWaitingForStopPacket
  <2> QED  BY Zenon, <2>1
<1>9. CASE Go \/ HandleQueryHaltReason
  <2>1. at'["gdb"] = "idle"
    BY Zenon, <1>9, GDBGoto, Labels DEF Go, HandleQueryHaltReason, Handled
  <2> QED  BY Zenon, <2>1
<1>10. CASE CopyThreads("gdb") \/ PreferActive("gdb") \/ AskNext("gdb") \/ StoreNext("gdb")
  <2>1. at'["gdb"] \in Polling
    BY Zenon, <1>10, PollMoves
  <2> QED  BY Zenon, <2>1, Kinds
<1> QED
  BY Zenon, <1>1, <1>2, <1>3, <1>4, <1>5, <1>6, <1>7, <1>8, <1>9, <1>10, HandlersFrame, NothingElse
  DEF Next, GDBTurn

\* A report or another answer to a GDB that has no reply to read.
LEMMA OneAnswer ==
  ASSUME BridgeOK, replies = <<>>
  PROVE  /\ \A t \in Thread : Report(t) =>
              /\ AtMostOne(replies') /\ ~waiting_on_stop_packet_' /\ replies'[1].thread = t
              /\ DOMAIN replies' = {1}
         /\ Answers("error") =>
              /\ AtMostOne(replies') /\ UNCHANGED waiting_on_stop_packet_
              /\ replies'[1].type = "error" /\ DOMAIN replies' = {1}
<1>1. /\ \A t \in Thread : [type |-> "stop", thread |-> t] \in Reply
      /\ [type |-> "error", thread |-> None] \in Reply
  BY Zenon DEF Reply
<1>2. ASSUME NEW r \in Reply
      PROVE  /\ AtMostOne(Append(replies, r)) /\ Append(replies, r)[1] = r
             /\ DOMAIN Append(replies, r) = {1}
  <2>1. Tail(Append(replies, r)) = <<>>
    BY Zenon, Appended DEF BridgeOK
  <2>2. Append(replies, r) = <<r>>
    OBVIOUS
  <2> QED  BY <2>1, <2>2 DEF AtMostOne
<1>3. ASSUME NEW t \in Thread, Report(t)
      PROVE  /\ AtMostOne(replies') /\ ~waiting_on_stop_packet_' /\ replies'[1].thread = t
             /\ DOMAIN replies' = {1}
  BY <1>1, <1>2, <1>3 DEF Report
<1>4. ASSUME Answers("error")
      PROVE  /\ AtMostOne(replies') /\ UNCHANGED waiting_on_stop_packet_
             /\ replies'[1].type = "error" /\ DOMAIN replies' = {1}
  BY <1>1, <1>2, <1>4 DEF Answers
<1> QED  BY Zenon, <1>3, <1>4


\* GDB sends when nothing is due, and reads what ends its wait.
LEMMA ClientTurns ==
  ASSUME TypeOK, ShapeInv, ContinuesAll, Turns,
         Receive \/ \E p \in session.packet : SendPacket(p)
  PROVE  Turns'
<1> USE DEF TypeOK, Turns
<1>1. CASE Receive
  <2>1. replies # <<>> /\ replies' = Tail(replies) /\ client' = "stopped"
        /\ UNCHANGED <<waiting_on_stop_packet_, inbox, at>>
    BY Zenon, <1>1 DEF Receive
  <2>2. Due' = Due /\ Due = <<>> /\ ~waiting_on_stop_packet_ /\ replies' = <<>>
    BY Zenon, <2>1 DEF Due, AtMostOne
  <2> QED  BY Zenon, <2>1, <2>2 DEF AtMostOne
<1>2. ASSUME NEW p \in session.packet, SendPacket(p) PROVE Turns'
  <2>1. p.type \in {"?", "vCont"}
    BY Zenon DEF ContinuesAll
  <2>2. /\ client = "stopped" /\ client' \in {"asked", "running"} /\ inbox' = Append(inbox, p)
        /\ UNCHANGED <<at, waiting_on_stop_packet_, replies>>
    BY Zenon, <1>2, <2>1 DEF SendPacket, bridge
  <2>3. at["gdb"] # "idle" => inbox # <<>>
    BY Zenon DEF ShapeInv, GDBShape
  <2>4. Due' # <<>> /\ Tail(Due') = <<>>
    <3>1. /\ inbox = <<>> => inbox' # <<>> /\ Tail(inbox') = <<>>
          /\ inbox # <<>> /\ Tail(inbox) = <<>> => Tail(inbox') # <<>> /\ Tail(Tail(inbox')) = <<>>
      BY <2>2, Appended DEF BridgeOK
    <3> QED  BY Zenon, <2>2, <2>3, <3>1 DEF Due
  <2> QED  BY Zenon, <2>2, <2>4 DEF AtMostOne
<1> QED  BY Zenon, <1>1, <1>2

\* The GDB executor answers a request or passes it to the notification executor.
LEMMA GDBTurns ==
  ASSUME TypeOK, ShapeInv, ContinuesAll, Resumes, Turns, GDBTurn
  PROVE  Turns'
<1> USE DEF TypeOK, Turns
<1>1. ASSUME at["gdb"] # "go", at'["gdb"] # "go", at'["notification"] = at["notification"],
             UNCHANGED <<inbox, bridge, client>>
      PROVE  Turns'
  BY Zenon, <1>1 DEF Due, bridge
<1>2. CASE HandlePacket
  BY Zenon, <1>1, <1>2, ItsHandling DEF gdb
<1>3. CASE VContAction
  <2>1. /\ at["gdb"] = "vCont" /\ at'["gdb"] = "continuing" /\ UNCHANGED <<inbox, bridge, gdb>>
    BY Zenon, <1>3, ItsVCont
  <2>2. at'["notification"] = at["notification"]
    BY Zenon, <1>3, OthersFrame DEF GDBExecutor, NoteFrame
  <2> QED  BY Zenon, <1>1, <2>1, <2>2 DEF gdb
<1>4. CASE VContEnd
  BY Zenon, <1>1, <1>4, GDBGoto, Labels DEF VContEnd, gdb
<1>5. CASE ContinueAll
  <2>1. at["gdb"] = "continuing" /\ Head(inbox).type # "D" /\ UNCHANGED <<inbox, bridge, client>>
    BY Zenon, <1>5 DEF ContinueAll, Resumes, gdb
  <2>2. UNCHANGED at \/ Goto("gdb", "vCont")
    BY Zenon, <1>5, <2>1 DEF ContinueAll
  <2>3. at'["gdb"] # "go" /\ at'["notification"] = at["notification"]
    BY Zenon, <2>1, <2>2, GDBGoto, Labels
  <2> QED  BY Zenon, <1>1, <2>1, <2>3
<1>6. CASE CopyThreads("gdb") \/ PreferActive("gdb") \/ AskNext("gdb") \/ StoreNext("gdb")
  <2>1. /\ at["gdb"] \in Polling /\ at'["gdb"] \in Polling
        /\ at'["notification"] = at["notification"] /\ UNCHANGED <<inbox, bridge, gdb>>
    BY Zenon, <1>6, PollMoves
  <2> QED  BY Zenon, <1>1, <2>1, Kinds DEF gdb
<1>7. ASSUME at["gdb"] = "polled"
      PROVE  /\ inbox # <<>> /\ Tail(inbox) = <<>> /\ replies = <<>> /\ ~waiting_on_stop_packet_
             /\ client # "stopped" /\ at["notification"] # "send"
             /\ poll["gdb"].found \in Thread \cup {None}
  BY Zenon, <1>7, PollFacts, Labels DEF ShapeInv, GDBShape, Due, AtMostOne, Optional
<1>8. CASE MarkWaitingForStopPacket
  <2>1. /\ at["gdb"] = "polled" /\ at'["gdb"] = "go" /\ at'["notification"] = at["notification"]
        /\ UNCHANGED <<inbox, client>>
    BY Zenon, <1>8, GDBGoto, Labels DEF MarkWaitingForStopPacket, gdb
  <2>2. Due' = <<>>
    BY Zenon, <1>7, <2>1 DEF Due
  <2>3. \/ \E t \in Thread : Report(t)
        \/ UNCHANGED replies
    BY Zenon, <1>7, <1>8, <2>1 DEF MarkWaitingForStopPacket, CanReport
  <2>4. AtMostOne(replies') /\ (waiting_on_stop_packet_' => replies' = <<>>)
    BY Zenon, <1>7, <2>1, <2>3, OneAnswer
  <2> QED  BY Zenon, <1>7, <2>1, <2>2, <2>4 DEF AtMostOne
<1>9. CASE Go
  <2>1. /\ at["gdb"] = "go" /\ at'["gdb"] = "idle" /\ at'["notification"] = at["notification"]
        /\ inbox' = Tail(inbox) /\ UNCHANGED <<bridge, client>>
    BY Zenon, <1>9, GDBGoto, Labels DEF Go, Handled, gdb, Resumes
  <2>2. Due' = Due
    BY Zenon, <2>1 DEF Due
  <2> QED  BY Zenon, <2>1, <2>2 DEF bridge
<1>10. CASE HandleQueryHaltReason
  <2>1. /\ at["gdb"] = "polled" /\ at'["gdb"] = "idle" /\ at'["notification"] = at["notification"]
        /\ inbox' = Tail(inbox) /\ UNCHANGED client
    BY Zenon, <1>10, GDBGoto, Labels DEF HandleQueryHaltReason, Handled, gdb
  <2>2. Due' = <<>>
    BY Zenon, <1>7, <2>1 DEF Due
  <2>3. (\E t \in Thread : Report(t)) \/ Answers("error")
    BY Zenon, <1>7, <1>10, <2>1 DEF HandleQueryHaltReason, CanReport
  <2>4. AtMostOne(replies') /\ ~waiting_on_stop_packet_'
    BY <1>7, <2>1, <2>3, OneAnswer
  <2> QED  BY Zenon, <1>7, <2>1, <2>2, <2>4 DEF AtMostOne
<1> QED  BY Zenon, <1>2, <1>3, <1>4, <1>5, <1>6, <1>8, <1>9, <1>10 DEF GDBTurn

\* The notification executor answers only while the flag is set.
LEMMA NotificationTurns ==
  ASSUME TypeOK, Turns, NotificationExecutor
  PROVE  Turns'
<1> USE DEF TypeOK, Turns
<1>1. at'["gdb"] = at["gdb"] /\ UNCHANGED <<inbox, client>>
  BY Zenon, HandlersFrame DEF GDBFrame, gdb
<1>2. Due' = Due
  BY Zenon, <1>1 DEF Due
<1>3. ASSUME NEW l \in NoteLabel \ {"send"}, Goto("notification", l), UNCHANGED bridge
      PROVE  Turns'
  BY Zenon, <1>1, <1>2, <1>3, NoteGoto DEF bridge
<1>4. CASE OnExecutionStateChanged \/ ActivateStopped \/ OnThreadCreated \/ OnThreadTerminated
  BY Zenon, <1>3, <1>4, Labels
  DEF OnExecutionStateChanged, ActivateStopped, OnThreadCreated, OnThreadTerminated, Dispatched
<1>5. CASE OnStop \/ FetchStopReason \/ StoreAndJudge \/ IgnoreContinue \/ IgnoreGo
  BY Zenon, <1>3, <1>5, Labels DEF OnStop, FetchStopReason, StoreAndJudge, IgnoreContinue, IgnoreGo
<1>6. CASE \/ CopyThreads("notification") \/ PreferActive("notification")
           \/ AskNext("notification") \/ StoreNext("notification")
  BY Zenon, <1>3, <1>6, Labels DEF CopyThreads, PreferActive, AskNext, StoreNext
<1>7. CASE BridgeChecks
  <2>1. CASE waiting_on_stop_packet_
    BY Zenon, <1>1, <1>2, <1>7, <2>1, NoteGoto, Labels DEF BridgeChecks, bridge
  <2>2. CASE ~waiting_on_stop_packet_
    BY Zenon, <1>3, <1>7, <2>2, Labels DEF BridgeChecks, Dispatched
  <2> QED  BY Zenon, <2>1, <2>2
<1>8. CASE BridgeReports
  <2>1. CASE CanReport(ActiveThread)
    <3>1. ActiveThread \in Thread /\ Report(ActiveThread)
      BY Zenon, <1>8, <2>1, ThreadFacts DEF BridgeReports, CanReport, Optional
    <3>2. replies = <<>> /\ Due = <<>> /\ client # "stopped"
      BY Zenon, <1>8 DEF BridgeReports
    <3>3. AtMostOne(replies') /\ ~waiting_on_stop_packet_'
      BY Zenon, <3>1, <3>2, OneAnswer
    <3>4. at'["notification"] = "idle"
      BY Zenon, <1>8, NoteGoto, Labels DEF BridgeReports, Dispatched
    <3> QED  BY Zenon, <1>1, <1>2, <3>2, <3>3, <3>4 DEF AtMostOne
  <2>2. CASE ~CanReport(ActiveThread)
    BY Zenon, <1>3, <1>8, <2>2, Labels DEF BridgeReports, Dispatched
  <2> QED  BY Zenon, <2>1, <2>2
<1> QED  BY Zenon, <1>4, <1>5, <1>6, <1>7, <1>8 DEF NotificationExecutor

\* Every step keeps the turns.
LEMMA NextTurns ==
  ASSUME TypeOK, ShapeInv, TurnsInv, Next
  PROVE  TurnsInv'
<1>1. ContinuesAll' => ContinuesAll
  BY Zenon, SameSession DEF ContinuesAll
<1> SUFFICES ASSUME ContinuesAll, Resumes, Turns PROVE Resumes' /\ Turns'
  BY Zenon, <1>1 DEF TurnsInv
<1>2. Resumes'
  BY Zenon, NextResumes
<1>3. CASE Title
  <2>1. UNCHANGED <<at, inbox, bridge, gdb>>
    BY Zenon, <1>3 DEF Title, Hit, Create, Terminate
  <2> QED  BY Zenon, <1>2, <2>1 DEF Turns, Due, bridge, gdb
<1> QED
  BY Zenon, <1>2, <1>3, ClientTurns, NothingElse, GDBTurns, NotificationTurns DEF Next


----------------------------------------------------------------------------
(* What is reported                                                        *)

\* Breakpoints have no conditions and no answer was stale.
Calm == ContinuesAll /\ ~session.conditional /\ ~raced

Nobody == \A t \in Thread : ~held[t]
Resuming == at["gdb"] \in Polling /\ Head(inbox).type = "vCont"
Fetching == at["notification"] \in {"fetch", "fetched"}

\* The thread a notification will report if it is known to be stopped.
Candidate(t) ==
  \/ t = active_thread_id_ /\ ~Fetching
  \/ at["notification"] = "polled" /\ t = poll["notification"].found

\* The title runs only while the flag is set and nobody is held, so that a stop holds
\* one thread; while the flag is clear those held are in the list, and ContinueAll
\* leaves nobody held.
Holds ==
  /\ at["notification"] \notin {"ignore", "regardless"}
  /\ execution = "started" => waiting_on_stop_packet_ /\ at["gdb"] = "idle" /\ Nobody
  /\ at["gdb"] = "go" => waiting_on_stop_packet_ /\ Nobody
  /\ waiting_on_stop_packet_ => \A t, u \in Thread : held[t] /\ held[u] => t = u
  /\ ~waiting_on_stop_packet_ => \A t \in Thread : held[t] => t \in Members(threads_)
  /\ at["gdb"] = "continuing" => \A t \in Thread : held[t] => t \in Members(todo)
  /\ (at["gdb"] = "vCont" /\ commands = <<>>) => Nobody
  /\ Resuming => Nobody
  /\ (at["gdb"] = "polled" /\ poll["gdb"].found # None) => held[poll["gdb"].found]
  /\ Fetching => active_thread_id_ = Head(notes).thread

\* What is believed of thread t: before the Go of a vCont GetFirstStoppedThread asks
\* about the candidates, so none is still taken to be stopped when the flag is set.
Believed(t) ==
  /\ (Resuming /\ at["gdb"] = "active") =>
       /\ t \in Members(poll["gdb"].queue)
       /\ t = active_thread_id_ \/ t # poll["gdb"].skip
  /\ (Resuming /\ at["gdb"] \in {"ask", "store"}) => t \in Members(poll["gdb"].queue)
  /\ ~(Resuming /\ at["gdb"] = "polled") /\ at["gdb"] # "go"
  /\ waiting_on_stop_packet_ => held[t]
Believes == \A t \in Thread : Candidate(t) /\ last_stop_reason[t] => Believed(t)

\* The stops GDB has not read.
Stops == \A i \in DOMAIN replies : replies[i].type = "stop" => held[replies[i].thread]

CalmInv == Calm => Holds /\ Believes /\ Stops

\* A state that was reached without a stale answer was so before.
LEMMA CalmBefore ==
  ASSUME TypeOK, Next, Calm'
  PROVE  Calm
<1>1. ContinuesAll /\ ~session.conditional
  BY Zenon, SameSession DEF Calm, ContinuesAll
<1>2. raced => raced'
  <2> USE DEF TypeOK, BridgeOK
  <2>1. CASE Title \/ Receive \/ \E p \in session.packet : SendPacket(p)
    BY Zenon, <2>1 DEF Title, Hit, Create, Terminate, Receive, SendPacket
  <2>2. CASE GDBExecutor
    <3>1. CASE \/ HandlePacket \/ VContAction \/ VContEnd \/ ContinueAll \/ StepInstruction
               \/ SetTrapFlag \/ StepContinue \/ StepGo \/ MarkWaitingForStopPacket \/ Go
      BY Zenon, <3>1 DEF HandlePacket, VContAction, VContEnd, ContinueAll, StepInstruction,
                  SetTrapFlag, StepContinue, StepGo, MarkWaitingForStopPacket, Go
    <3>2. CASE \/ HandleQueryHaltReason \/ Halt \/ WaitForState \/ WaitForStateTimesOut
               \/ PickHalted \/ AwaitHalted \/ HaltGivesUp \/ StoreHalted \/ GoAfterHalt
               \/ ReportHalt \/ AssertThread
      BY Zenon, <3>2
      DEF HandleQueryHaltReason, Halt, WaitForState, WaitForStateTimesOut, PickHalted,
          AwaitHalted, HaltGivesUp, StoreHalted, GoAfterHalt, ReportHalt, AssertThread, StaleAnswer
    <3>3. CASE CopyThreads("gdb") \/ PreferActive("gdb") \/ AskNext("gdb") \/ StoreNext("gdb")
      BY Zenon, <3>3 DEF CopyThreads, PreferActive, AskNext, StoreNext, StaleAnswer
    <3> QED  BY Zenon, <2>2, <3>1, <3>2, <3>3 DEF GDBExecutor
  <2>3. CASE NotificationExecutor
    BY Zenon, <2>3
    DEF NotificationExecutor, OnExecutionStateChanged, ActivateStopped, OnThreadCreated,
                OnThreadTerminated, OnStop, FetchStopReason, StoreAndJudge, IgnoreContinue,
                IgnoreGo, BridgeChecks, BridgeReports, CopyThreads, PreferActive, AskNext,
                StoreNext, StaleAnswer
  <2> QED  BY Zenon, <2>1, <2>2, <2>3 DEF Next
<1> QED  BY Zenon, <1>1, <1>2 DEF Calm

\* An answer that is not stale is what the target would answer now.
LEMMA FreshAnswer ==
  ASSUME NEW t, NEW answer, StaleAnswer(t, answer), ~raced', answer = "stopped"
  PROVE  held[t]
BY Zenon DEF StaleAnswer, IsStopped

\* While a packet is being handled the flag is clear, nothing is sent and the title
\* does not run.
LEMMA Busy ==
  ASSUME ShapeInv, Turns, Holds, at["gdb"] \notin {"idle", "go"}
  PROVE  /\ inbox # <<>> /\ ~waiting_on_stop_packet_ /\ replies = <<>>
         /\ execution # "started"
BY Zenon DEF ShapeInv, GDBShape, Turns, Holds, Due

\* The inductive invariant, for a GDB that resumes all threads and a calm run.
CalmTurn ==
  /\ TypeOK /\ ShapeInv /\ LivesInv /\ KnownInv
  /\ Calm /\ Calm' /\ Resumes /\ Turns /\ Holds /\ Believes /\ Stops

\* The title runs with nobody held, so one thread stops.
LEMMA TitleHolds ==
  ASSUME CalmTurn, Title
  PROVE  Holds' /\ Believes' /\ Stops'
<1> USE DEF CalmTurn, TypeOK
<1>1. GDBFrame /\ NoteFrame
  BY Zenon, HandlersFrame, OthersFrame
<1>2. /\ execution = "started" /\ at["gdb"] = "idle" /\ waiting_on_stop_packet_ /\ Nobody
  BY Zenon DEF Title, Hit, Create, Terminate, Runs, Holds
<1>3. /\ UNCHANGED <<waiting_on_stop_packet_, replies, threads_, active_thread_id_,
                     last_stop_reason>>
  BY Zenon DEF Title, Hit, Create, Terminate, bridge, debugger
<1>4. \/ UNCHANGED <<held, execution>>
      \/ \E t \in Thread : held' = [held EXCEPT ![t] = TRUE] /\ execution' = "stopped"
  BY Zenon DEF Title, Hit, Create, Terminate
<1>5. \A t \in Thread : held[t] => held'[t]
  BY Zenon, <1>4 DEF TargetOK
<1>6. execution' = "started" => Nobody'
  BY Zenon, <1>2, <1>4 DEF Nobody, TargetOK
<1>7. \A t, u \in Thread : held'[t] /\ held'[u] => t = u
  BY Zenon, <1>2, <1>4 DEF Nobody, TargetOK
<1>8. Fetching' => active_thread_id_' = Head(notes').thread
  BY Zenon, <1>1, <1>3 DEF Holds, Fetching, NoteFrame, ShapeInv, NoteShape
<1>9. Holds'
  BY Zenon, <1>1, <1>2, <1>3, <1>6, <1>7, <1>8, Kinds DEF Holds, GDBFrame, NoteFrame, Resuming
<1>10. Believes'
  <2>1. \A t \in Thread : Candidate(t)' => Candidate(t)
    BY Zenon, <1>1, <1>3 DEF Candidate, Fetching, NoteFrame
  <2>2. \A t \in Thread : Believed(t) => Believed(t)'
    BY Zenon, <1>1, <1>2, <1>3, <1>5, Kinds DEF Believed, GDBFrame, Resuming
  <2> QED  BY Zenon, <1>3, <2>1, <2>2 DEF Believes
<1>11. Stops'
  <2>1. replies = <<>>
    BY Zenon, <1>2 DEF Turns
  <2> QED  BY <1>3, <2>1 DEF Stops
<1> QED  BY Zenon, <1>9, <1>10, <1>11


\* GDB sending and reading changes nothing of this.
LEMMA ClientHolds ==
  ASSUME CalmTurn, Receive \/ \E p \in session.packet : SendPacket(p)
  PROVE  Holds' /\ Believes' /\ Stops'
<1> USE DEF CalmTurn, TypeOK
<1>1. /\ UNCHANGED <<target, debugger, waiting_on_stop_packet_, at, poll, stepping>>
  BY Zenon DEF Receive, SendPacket, bridge
<1>2. inbox # <<>> => Head(inbox') = Head(inbox)
  <2>1. ASSUME NEW p \in session.packet, SendPacket(p)
        PROVE  inbox # <<>> => Head(inbox') = Head(inbox)
    BY <2>1, Appended DEF SendPacket, BridgeOK
  <2> QED  BY Zenon, <2>1 DEF Receive
<1>3. Resuming' <=> Resuming
  BY Zenon, <1>1, <1>2, Kinds DEF Resuming, ShapeInv, GDBShape
<1>4. Holds'
  BY Zenon, <1>1, <1>3 DEF Holds, Nobody, Fetching, target, debugger, stepping
<1>5. Believes'
  BY Zenon, <1>1, <1>3 DEF Believes, Believed, Candidate, Fetching, target, debugger
<1>6. Stops'
  <2>1. UNCHANGED replies \/ replies' = <<>>
    BY Zenon DEF Receive, SendPacket, bridge, Turns, AtMostOne
  <2> QED  BY <1>1, <2>1 DEF Stops, target
<1> QED  BY Zenon, <1>4, <1>5, <1>6

\* What the GDB executor leaves alone when it resumes all threads.
LEMMA TurnFrame ==
  ASSUME TypeOK, Resumes, GDBTurn
  PROVE  /\ NoteFrame /\ UNCHANGED <<threads_, active_thread_id_>>
         /\ UNCHANGED last_stop_reason \/ StoreNext("gdb")
         /\ UNCHANGED held \/ ContinueAll
         /\ UNCHANGED execution \/ Go
         /\ UNCHANGED bridge \/ MarkWaitingForStopPacket \/ HandleQueryHaltReason
<1> USE DEF debugger, target
<1>1. NoteFrame
  BY Zenon, OthersFrame DEF GDBTurn, GDBExecutor
<1>2. CASE VContAction
  BY Zenon, <1>1, <1>2, ItsVCont
<1>3. CASE HandlePacket \/ VContEnd \/ ContinueAll \/ MarkWaitingForStopPacket
  BY Zenon, <1>1, <1>3 DEF HandlePacket, VContEnd, ContinueAll, MarkWaitingForStopPacket
<1>4. CASE Go \/ HandleQueryHaltReason
  BY Zenon, <1>1, <1>4 DEF Go, HandleQueryHaltReason, Resumes
<1>5. CASE CopyThreads("gdb") \/ PreferActive("gdb") \/ AskNext("gdb") \/ StoreNext("gdb")
  BY Zenon, <1>1, <1>5 DEF CopyThreads, PreferActive, AskNext, StoreNext
<1> QED  BY Zenon, <1>2, <1>3, <1>4, <1>5 DEF GDBTurn

\* ContinueAll leaves nobody held, so the flag is set before Go.
LEMMA GDBHolds ==
  ASSUME CalmTurn, GDBTurn
  PROVE  Holds'
<1> USE DEF CalmTurn, TypeOK
<1>1. /\ NoteFrame /\ UNCHANGED <<threads_, active_thread_id_>>
      /\ UNCHANGED held \/ ContinueAll
      /\ UNCHANGED execution \/ Go
      /\ UNCHANGED bridge \/ MarkWaitingForStopPacket \/ HandleQueryHaltReason
  BY Zenon, TurnFrame
<1>2. /\ at'["notification"] \notin {"ignore", "regardless"}
      /\ Fetching' => active_thread_id_' = Head(notes').thread
  BY Zenon, <1>1 DEF Holds, Fetching, NoteFrame, ShapeInv, NoteShape
<1>3. ASSUME at["gdb"] \notin {"idle", "go"}, UNCHANGED <<bridge, execution, held>>,
             at'["gdb"] \notin {"go", "continuing"},
             at'["gdb"] = "vCont" => commands' # <<>>,
             Resuming' => Nobody,
             at'["gdb"] = "polled" /\ poll'["gdb"].found # None => held[poll'["gdb"].found]
      PROVE  Holds'
  BY Zenon, <1>1, <1>2, <1>3, Busy DEF Holds, Nobody, bridge
<1>4. CASE HandlePacket
  <2>1. /\ inbox # <<>> /\ at["gdb"] = "idle" /\ UNCHANGED <<bridge, held, execution, inbox>>
        /\ at'["gdb"] = IF Head(inbox).type = "vCont" THEN "vCont" ELSE "copy"
        /\ Head(inbox).type = "vCont" => commands' = AllThreads
    BY Zenon, <1>4, ItsHandling DEF Calm, target
  <2>2. ~waiting_on_stop_packet_
    BY Zenon, <2>1 DEF Turns, Due
  <2>3. execution # "started"
    BY Zenon, <2>2 DEF Holds
  <2>4. ~Resuming'
    BY Zenon, <2>1 DEF Resuming, Polling
  <2> QED
    BY Zenon, <1>1, <1>2, <2>1, <2>2, <2>3, <2>4, ItsActions DEF Holds, Nobody, bridge
<1>5. CASE VContAction
  <2>1. /\ at["gdb"] = "vCont" /\ at'["gdb"] = "continuing" /\ todo' = threads_
        /\ UNCHANGED <<bridge, held, execution>>
    BY Zenon, <1>5, ItsVCont
  <2>2. ~waiting_on_stop_packet_ /\ execution # "started"
    BY Zenon, <2>1, Busy
  <2>3. ~Resuming'
    BY Zenon, <2>1, Kinds DEF Resuming
  <2> QED
    BY Zenon, <1>1, <1>2, <2>1, <2>2, <2>3 DEF Holds, Nobody, bridge
<1>6. CASE VContEnd
  <2>1. /\ at["gdb"] = "vCont" /\ commands = <<>> /\ at'["gdb"] = "copy"
        /\ UNCHANGED <<bridge, held, execution>>
    BY Zenon, <1>6, GDBGoto, Labels DEF VContEnd, target
  <2> QED  BY Zenon, <1>3, <2>1 DEF Holds
<1>7. CASE ContinueAll
  <2>1. /\ at["gdb"] = "continuing" /\ commands = AllThreads /\ Head(inbox).type = "vCont"
        /\ UNCHANGED <<bridge, execution>>
    BY Zenon, <1>7 DEF ContinueAll, Resumes
  <2>2. ~waiting_on_stop_packet_ /\ execution # "started"
    BY Zenon, <2>1, Busy
  <2>3. CASE todo # <<>>
    <3>1. /\ Head(todo) \in Thread
          /\ \A x \in Members(todo) : x = Head(todo) \/ x \in Members(Tail(todo))
      BY Zenon, <2>3, HeadTail DEF LocalsOK
    <3>2. /\ held' = [held EXCEPT ![Head(todo)] = FALSE] /\ todo' = Tail(todo)
          /\ at'["gdb"] = "continuing"
      BY Zenon, <1>7, <2>1, <2>3 DEF ContinueAll, DoContinue
    <3>3. \A t \in Thread : held'[t] => held[t] /\ t # Head(todo)
      BY Zenon, <3>1, <3>2 DEF TargetOK
    <3>4. ~Resuming'
      BY Zenon, <3>2, Kinds DEF Resuming
    <3> QED
      BY Zenon, <1>1, <1>2, <2>1, <2>2, <3>1, <3>2, <3>3, <3>4 DEF Holds, bridge
  <2>4. CASE todo = <<>>
    <3>1. /\ at'["gdb"] = "vCont" /\ UNCHANGED held
      BY Zenon, <1>7, <2>1, <2>4, GDBGoto, Labels DEF ContinueAll
    <3>2. Members(todo) = {}
      BY <2>4 DEF Members
    <3>3. Nobody
      BY Zenon, <2>1, <3>2 DEF Holds, Nobody
    <3>4. ~Resuming'
      BY Zenon, <3>1, Kinds DEF Resuming
    <3> QED
      BY Zenon, <1>1, <1>2, <2>1, <2>2, <3>1, <3>3, <3>4 DEF Holds, Nobody, bridge
  <2> QED  BY Zenon, <2>3, <2>4
<1>8. CASE MarkWaitingForStopPacket
  <2>1. /\ at["gdb"] = "polled" /\ at'["gdb"] = "go" /\ UNCHANGED <<held, execution>>
        /\ Head(inbox).type = "vCont"
    BY Zenon, <1>8, GDBGoto, Labels DEF MarkWaitingForStopPacket, target
  <2>2. Nobody
    BY Zenon, <2>1 DEF Holds, Resuming, Polling
  <2>3. poll["gdb"].found \in Thread \cup {None}
    BY Zenon, PollFacts, Labels DEF Optional
  <2>4. poll["gdb"].found = None
    BY Zenon, <2>1, <2>2, <2>3 DEF Holds, Nobody
  <2>5. waiting_on_stop_packet_'
    BY Zenon, <1>8, <2>4 DEF MarkWaitingForStopPacket, CanReport
  <2>6. ~Resuming' /\ execution # "started"
    BY Zenon, <2>1, Kinds, Busy DEF Resuming
  <2> QED  BY Zenon, <1>1, <1>2, <2>1, <2>2, <2>5, <2>6 DEF Holds, Nobody
<1>9. CASE Go
  <2>1. at["gdb"] = "go" /\ at'["gdb"] = "idle" /\ UNCHANGED <<held, bridge>>
    BY Zenon, <1>9, GDBGoto, Labels DEF Go, Handled, Resumes
  <2>2. ~Resuming'
    BY Zenon, <2>1, Kinds DEF Resuming
  <2> QED  BY Zenon, <1>1, <1>2, <2>1, <2>2 DEF Holds, Nobody, bridge
<1>10. CASE HandleQueryHaltReason
  <2>1. at["gdb"] = "polled" /\ at'["gdb"] = "idle" /\ UNCHANGED <<held, execution>>
    BY Zenon, <1>10, GDBGoto, Labels DEF HandleQueryHaltReason, Handled, target
  <2>2. ~waiting_on_stop_packet_ /\ execution # "started"
    BY Zenon, <2>1, Busy
  <2>3. ~waiting_on_stop_packet_'
    BY Zenon, <1>10, <2>2 DEF HandleQueryHaltReason, Report, Answers
  <2>4. ~Resuming'
    BY Zenon, <2>1, Kinds DEF Resuming
  <2> QED  BY Zenon, <1>1, <1>2, <2>1, <2>2, <2>3, <2>4 DEF Holds, Nobody
<1>11. CASE CopyThreads("gdb") \/ PreferActive("gdb") \/ AskNext("gdb") \/ StoreNext("gdb")
  <2>1. /\ at["gdb"] \in Polling /\ at'["gdb"] \in Polling
        /\ UNCHANGED <<bridge, inbox, held, execution>>
    BY Zenon, <1>11, PollMoves DEF target
  <2>2. Resuming' => Nobody
    BY Zenon, <2>1 DEF Resuming, Holds
  <2>3. at'["gdb"] = "polled" /\ poll'["gdb"].found # None => held[poll'["gdb"].found]
    <3>1. CASE CopyThreads("gdb")
      <4>1. poll'["gdb"].found = None
        BY Zenon, <3>1, Labels DEF CopyThreads, NoPoll, LocalsOK
      <4> QED  BY Zenon, <4>1
    <3>2. CASE PreferActive("gdb")
      BY Zenon, <3>2, GDBGoto, Labels DEF PreferActive
    <3>3. CASE AskNext("gdb")
      <4>1. at["gdb"] = "ask" /\ poll'["gdb"].found = poll["gdb"].found
        BY Zenon, <3>3, Labels DEF AskNext, LocalsOK, Poll
      <4> QED  BY Zenon, <4>1, Labels DEF ShapeInv, PollShape
    <3>4. CASE StoreNext("gdb")
      <4>1. CASE poll["gdb"].answer = "stopped"
        <5>1. /\ StaleAnswer(Head(poll["gdb"].queue), poll["gdb"].answer)
              /\ poll'["gdb"].found = Head(poll["gdb"].queue)
          BY Zenon, <3>4, <4>1, Labels DEF StoreNext, NoPoll, LocalsOK
        <5> QED  BY Zenon, <4>1, <5>1, FreshAnswer DEF Calm
      <4>2. CASE poll["gdb"].answer # "stopped"
        BY Zenon, <3>4, <4>2, GDBGoto, Labels DEF StoreNext
      <4> QED  BY Zenon, <4>1, <4>2
    <3> QED  BY Zenon, <1>11, <3>1, <3>2, <3>3, <3>4
  <2> QED  BY Zenon, <1>3, <2>1, <2>2, <2>3, Kinds
<1> QED
  BY Zenon, <1>4, <1>5, <1>6, <1>7, <1>8, <1>9, <1>10, <1>11 DEF GDBTurn


\* The candidates are asked about before Go.
LEMMA GDBBelieves ==
  ASSUME CalmTurn, GDBTurn
  PROVE  Believes'
<1> USE DEF CalmTurn, TypeOK
<1>1. /\ NoteFrame /\ UNCHANGED <<threads_, active_thread_id_>>
      /\ UNCHANGED last_stop_reason \/ StoreNext("gdb")
      /\ UNCHANGED held \/ ContinueAll
      /\ UNCHANGED bridge \/ MarkWaitingForStopPacket \/ HandleQueryHaltReason
  BY Zenon, TurnFrame
<1>2. \A t \in Thread : Candidate(t)' <=> Candidate(t)
  BY Zenon, <1>1 DEF NoteFrame, Candidate, Fetching
<1>3. \A t \in Thread : Candidate(t) => t \in Members(threads_)
  BY Zenon, StopReplyAssumption DEF KnownInv, Candidate
<1>4. ASSUME UNCHANGED last_stop_reason,
             at'["gdb"] \notin {"active", "ask", "store", "polled", "go"},
             ~waiting_on_stop_packet_' \/ (UNCHANGED <<held, waiting_on_stop_packet_>>)
      PROVE  Believes'
  BY Zenon, <1>2, <1>4 DEF Believes, Believed
<1>5. ASSUME at["gdb"] \in Polling, UNCHANGED bridge,
             \A t \in Thread : Candidate(t) /\ last_stop_reason'[t] =>
               /\ (Resuming /\ at'["gdb"] = "active") =>
                    /\ t \in Members(poll'["gdb"].queue)
                    /\ t = active_thread_id_ \/ t # poll'["gdb"].skip
               /\ (Resuming /\ at'["gdb"] \in {"ask", "store"}) =>
                    t \in Members(poll'["gdb"].queue)
               /\ ~(Resuming /\ at'["gdb"] = "polled"),
             at'["gdb"] \in Polling, UNCHANGED inbox
      PROVE  Believes'
  <2>1. ~waiting_on_stop_packet_' /\ at'["gdb"] # "go"
    BY Zenon, <1>5, Busy, Kinds DEF bridge
  <2>2. Resuming' <=> Resuming
    BY Zenon, <1>5 DEF Resuming
  <2> QED  BY Zenon, <1>1, <1>2, <1>5, <2>1, <2>2 DEF Believes, Believed
<1>6. CASE HandlePacket
  <2>1. /\ at'["gdb"] \in {"vCont", "copy"} /\ UNCHANGED <<bridge, held, last_stop_reason>>
    BY Zenon, <1>6, ItsHandling DEF Calm, target, debugger
  <2> QED  BY Zenon, <1>4, <2>1 DEF bridge
<1>7. CASE VContAction
  <2>1. at'["gdb"] = "continuing" /\ UNCHANGED <<bridge, held, last_stop_reason>>
    BY Zenon, <1>7, ItsVCont DEF debugger
  <2> QED  BY Zenon, <1>4, <2>1 DEF bridge
<1>8. CASE VContEnd
  <2>1. at'["gdb"] = "copy" /\ UNCHANGED <<bridge, held, last_stop_reason>>
    BY Zenon, <1>8, GDBGoto, Labels DEF VContEnd, debugger, target
  <2> QED  BY Zenon, <1>4, <2>1 DEF bridge
<1>9. CASE ContinueAll
  <2>1. at["gdb"] = "continuing" /\ UNCHANGED <<bridge, last_stop_reason>>
    BY Zenon, <1>9 DEF ContinueAll, debugger
  <2>2. UNCHANGED at \/ Goto("gdb", "vCont")
    BY Zenon, <1>9 DEF ContinueAll, Resumes
  <2>3. at'["gdb"] \in {"continuing", "vCont"}
    BY Zenon, <2>1, <2>2, GDBGoto, Labels
  <2>4. ~waiting_on_stop_packet_
    BY Zenon, <2>1, Busy
  <2> QED  BY Zenon, <1>4, <2>1, <2>3, <2>4 DEF bridge
<1>10. CASE MarkWaitingForStopPacket
  <2>1. /\ at["gdb"] = "polled" /\ Head(inbox).type = "vCont"
        /\ UNCHANGED last_stop_reason
    BY Zenon, <1>10 DEF MarkWaitingForStopPacket, debugger
  <2>2. Resuming
    BY Zenon, <2>1 DEF Resuming, Polling
  <2>3. \A t \in Thread : ~(Candidate(t) /\ last_stop_reason[t])
    BY Zenon, <2>1, <2>2 DEF Believes, Believed
  <2> QED  BY Zenon, <1>2, <2>1, <2>3 DEF Believes
<1>11. CASE Go
  <2>1. at'["gdb"] = "idle" /\ UNCHANGED <<bridge, held, last_stop_reason>>
    BY Zenon, <1>11, GDBGoto, Labels DEF Go, Handled, Resumes, debugger
  <2> QED  BY Zenon, <1>4, <2>1 DEF bridge
<1>12. CASE HandleQueryHaltReason
  <2>1. /\ at["gdb"] = "polled" /\ at'["gdb"] = "idle" /\ UNCHANGED last_stop_reason
    BY Zenon, <1>12, GDBGoto, Labels DEF HandleQueryHaltReason, Handled, debugger
  <2>2. ~waiting_on_stop_packet_
    BY Zenon, <2>1, Busy
  <2>3. ~waiting_on_stop_packet_'
    BY Zenon, <1>12, <2>2 DEF HandleQueryHaltReason, Report, Answers
  <2> QED  BY Zenon, <1>4, <2>1, <2>3
<1>13. CASE CopyThreads("gdb")
  <2>1. /\ at["gdb"] \in Polling /\ at'["gdb"] \in Polling /\ UNCHANGED <<bridge, inbox>>
    BY Zenon, <1>13, PollMoves
  <2>2. at'["gdb"] = IF threads_ = <<>> THEN "polled" ELSE "active"
    BY Zenon, <1>13, GDBGoto, Labels DEF CopyThreads
  <2>3. poll'["gdb"].queue = threads_ /\ poll'["gdb"].skip = active_thread_id_
    BY Zenon, <1>13, Labels DEF CopyThreads, NoPoll, LocalsOK
  <2>4. threads_ = <<>> => Members(threads_) = {}
    BY DEF Members
  <2> QED  BY Zenon, <1>3, <1>5, <2>1, <2>2, <2>3, <2>4
<1>14. CASE PreferActive("gdb")
  <2>1. /\ at["gdb"] \in Polling /\ at'["gdb"] \in Polling
        /\ UNCHANGED <<bridge, inbox, last_stop_reason>>
    BY Zenon, <1>14, PollMoves DEF PreferActive, debugger
  <2>2. at["gdb"] = "active" /\ at'["gdb"] = "ask"
    BY Zenon, <1>14, GDBGoto, Labels DEF PreferActive
  <2>3. PICK others \in Seq(Thread) :
          /\ others = Erase(poll["gdb"].queue, poll["gdb"].skip)
          /\ \A t \in Members(poll["gdb"].queue) : t = poll["gdb"].skip \/ t \in Members(others)
    BY PollFacts, Erased, Labels
  <2>4. ActiveThread # None =>
          Members(<<ActiveThread>> \o others) = {ActiveThread} \cup Members(others)
    BY Zenon, ThreadFacts, Preferred DEF Optional
  <2>5. poll'["gdb"].queue = IF ActiveThread = None THEN others ELSE <<ActiveThread>> \o others
    BY Zenon, <1>14, <2>3, Labels DEF PreferActive, LocalsOK, Poll
  <2>6. ASSUME NEW t \in Thread, t = active_thread_id_
        PROVE  ActiveThread = t
    BY Zenon, <2>6, StopReplyAssumption DEF KnownInv, ActiveThread, GetThread
  <2>7. ASSUME NEW t \in Thread, Candidate(t), last_stop_reason[t], Resuming
        PROVE  t \in Members(poll'["gdb"].queue)
    <3>1. /\ t \in Members(poll["gdb"].queue)
          /\ t = active_thread_id_ \/ t # poll["gdb"].skip
      BY Zenon, <2>2, <2>7 DEF Believes, Believed
    <3>2. t = active_thread_id_ => ActiveThread = t /\ t # None
      BY Zenon, <2>6, StopReplyAssumption
    <3> QED  BY Zenon, <2>3, <2>4, <2>5, <3>1, <3>2
  <2> QED  BY Zenon, <1>5, <2>1, <2>2, <2>7
<1>15. CASE AskNext("gdb")
  <2>1. /\ at["gdb"] \in Polling /\ at'["gdb"] \in Polling
        /\ UNCHANGED <<bridge, inbox, last_stop_reason>>
    BY Zenon, <1>15, PollMoves DEF AskNext, debugger
  <2>2. /\ at["gdb"] = "ask" /\ at'["gdb"] = IF poll["gdb"].queue = <<>> THEN "polled" ELSE "store"
        /\ poll'["gdb"].queue = poll["gdb"].queue
    BY Zenon, <1>15, GDBGoto, Labels DEF AskNext, LocalsOK, Poll
  <2>3. poll["gdb"].queue = <<>> => Members(poll["gdb"].queue) = {}
    BY DEF Members
  <2>4. \A t \in Thread : Candidate(t) /\ last_stop_reason[t] /\ Resuming =>
          t \in Members(poll["gdb"].queue)
    BY Zenon, <2>2 DEF Believes, Believed
  <2> QED  BY Zenon, <1>5, <2>1, <2>2, <2>3, <2>4
<1>16. CASE StoreNext("gdb")
  <2>1. /\ at["gdb"] \in Polling /\ at'["gdb"] \in Polling
        /\ UNCHANGED <<bridge, inbox>>
    BY Zenon, <1>16, PollMoves
  <2>2. /\ at["gdb"] = "store"
        /\ at'["gdb"] = IF poll["gdb"].answer = "stopped" THEN "polled" ELSE "ask"
    BY Zenon, <1>16, GDBGoto, Labels DEF StoreNext
  <2>3. poll["gdb"].queue # <<>> /\ poll["gdb"].queue \in Seq(Thread)
    BY Zenon, <2>2, PollFacts, Labels DEF ShapeInv, PollShape
  <2>4. PICK u \in Thread : u = Head(poll["gdb"].queue)
    BY Zenon, <2>3, HeadTail
  <2>5. \A x \in Members(poll["gdb"].queue) : x = u \/ x \in Members(Tail(poll["gdb"].queue))
    BY Zenon, <2>3, <2>4, HeadTail
  <2>6. /\ StaleAnswer(u, poll["gdb"].answer)
        /\ last_stop_reason' = [last_stop_reason EXCEPT ![u] = poll["gdb"].answer = "stopped"]
    BY Zenon, <1>16, <2>4 DEF StoreNext, StoreStopReason
  <2>7. Resuming => poll["gdb"].answer # "stopped"
    BY Zenon, <2>6, FreshAnswer DEF Calm, Holds, Nobody
  <2>8. \A t \in Thread : last_stop_reason'[t] /\ Resuming => t # u /\ last_stop_reason[t]
    BY Zenon, <2>6, <2>7 DEF DebuggerOK
  <2>9. poll["gdb"].answer # "stopped" => poll'["gdb"].queue = Tail(poll["gdb"].queue)
    BY Zenon, <1>16, StoreNextPoll, Labels
  <2>10. \A t \in Thread : Candidate(t) /\ last_stop_reason[t] /\ Resuming =>
           t \in Members(poll["gdb"].queue)
    BY Zenon, <2>2 DEF Believes, Believed
  <2> QED  BY Zenon, <1>5, <2>1, <2>2, <2>5, <2>7, <2>8, <2>9, <2>10
<1> QED
  BY Zenon, <1>6, <1>7, <1>8, <1>9, <1>10, <1>11, <1>12, <1>13, <1>14, <1>15, <1>16 DEF GDBTurn

\* The GDB executor reports a thread it has just found to be held.
LEMMA GDBStops ==
  ASSUME CalmTurn, GDBTurn
  PROVE  Stops'
<1> USE DEF CalmTurn, TypeOK
<1>1. /\ UNCHANGED held \/ ContinueAll
      /\ UNCHANGED bridge \/ MarkWaitingForStopPacket \/ HandleQueryHaltReason
  BY Zenon, TurnFrame
<1>2. CASE ContinueAll
  <2>1. at["gdb"] = "continuing" /\ UNCHANGED replies
    BY Zenon, <1>2 DEF ContinueAll, bridge
  <2>2. replies = <<>>
    BY Zenon, <2>1, Busy
  <2> QED  BY <2>1, <2>2 DEF Stops
<1>3. CASE UNCHANGED bridge /\ UNCHANGED held
  BY Zenon, <1>3 DEF Stops, bridge
<1>4. CASE MarkWaitingForStopPacket \/ HandleQueryHaltReason
  <2>1. at["gdb"] = "polled" /\ UNCHANGED held
    BY Zenon, <1>4 DEF MarkWaitingForStopPacket, HandleQueryHaltReason, target
  <2>2. replies = <<>>
    BY Zenon, <2>1, Busy
  <2>3. poll["gdb"].found \in Thread \cup {None}
    BY Zenon, PollFacts, Labels DEF Optional
  <2>4. CASE CanReport(poll["gdb"].found)
    <3>1. PICK t \in Thread : t = poll["gdb"].found /\ Report(t)
      BY Zenon, <1>4, <2>3, <2>4 DEF CanReport, MarkWaitingForStopPacket, HandleQueryHaltReason
    <3>2. held[t]
      BY Zenon, <2>1, <2>4, <3>1 DEF Holds, CanReport
    <3>3. DOMAIN replies' = {1} /\ replies'[1].thread = t
      BY Zenon, <2>2, <3>1, OneAnswer
    <3> QED  BY Zenon, <2>1, <3>2, <3>3 DEF Stops
  <2>5. CASE ~CanReport(poll["gdb"].found)
    <3>1. UNCHANGED replies \/ Answers("error")
      BY Zenon, <1>4, <2>5 DEF MarkWaitingForStopPacket, HandleQueryHaltReason
    <3>2. CASE UNCHANGED replies
      BY <2>2, <3>2 DEF Stops
    <3>3. CASE Answers("error")
      <4>1. DOMAIN replies' = {1} /\ replies'[1].type = "error"
        BY Zenon, <2>2, <3>3, OneAnswer
      <4> QED  BY Zenon, <4>1 DEF Stops
    <3> QED  BY Zenon, <3>1, <3>2, <3>3
  <2> QED  BY Zenon, <2>4, <2>5
<1> QED  BY Zenon, <1>1, <1>2, <1>3, <1>4


\* Handlers that resume nothing.
LEMMA CalmHandlers ==
  ASSUME CalmTurn, NotificationExecutor
  PROVE  /\ GDBFrame /\ UNCHANGED <<execution, held>>
         /\ UNCHANGED bridge \/ BridgeReports
         /\ ~IgnoreContinue /\ ~IgnoreGo
<1> USE DEF CalmTurn, TypeOK
<1>1. GDBFrame
  BY Zenon, HandlersFrame
<1>2. ~IgnoreContinue /\ ~IgnoreGo
  BY Zenon DEF IgnoreContinue, IgnoreGo, Holds
<1>3. CASE OnExecutionStateChanged \/ ActivateStopped \/ OnThreadCreated \/ OnThreadTerminated
  BY Zenon, <1>1, <1>2, <1>3
  DEF OnExecutionStateChanged, ActivateStopped, OnThreadCreated, OnThreadTerminated, target
<1>4. CASE OnStop \/ FetchStopReason \/ StoreAndJudge \/ BridgeChecks \/ BridgeReports
  BY Zenon, <1>1, <1>2, <1>4 DEF OnStop, FetchStopReason, StoreAndJudge, BridgeChecks, BridgeReports,
                          target
<1>5. CASE \/ CopyThreads("notification") \/ PreferActive("notification")
           \/ AskNext("notification") \/ StoreNext("notification")
  BY Zenon, <1>1, <1>2, <1>5 DEF CopyThreads, PreferActive, AskNext, StoreNext, target
<1> QED  BY Zenon, <1>2, <1>3, <1>4, <1>5 DEF NotificationExecutor

\* A thread that the bridge reports for a notification is the one that is held.
LEMMA ReportedIsHeld ==
  ASSUME CalmTurn, at["notification"] = "send", CanReport(ActiveThread)
  PROVE  /\ ActiveThread \in Thread /\ ActiveThread \in Members(threads_)
         /\ held[ActiveThread] /\ waiting_on_stop_packet_ /\ replies = <<>>
         /\ \A t \in Thread : held[t] => t = ActiveThread
         /\ execution # "started" /\ at["gdb"] # "go"
<1> USE DEF CalmTurn, TypeOK
<1>1. PICK t \in Thread : /\ t = ActiveThread /\ t = active_thread_id_ /\ t \in Members(threads_)
                          /\ last_stop_reason[t]
  BY Zenon, ThreadFacts DEF CanReport, ActiveThread, GetThread, Optional
<1>2. waiting_on_stop_packet_ /\ replies = <<>>
  BY Zenon DEF Turns
<1>3. Candidate(t)
  BY Zenon, <1>1 DEF Candidate, Fetching
<1>4. held[t] /\ at["gdb"] # "go"
  BY Zenon, <1>1, <1>2, <1>3 DEF Believes, Believed
<1>5. \A u \in Thread : held[u] => u = t
  BY Zenon, <1>2, <1>4 DEF Holds
<1>6. execution # "started"
  BY Zenon, <1>4 DEF Holds, Nobody
<1> QED  BY Zenon, <1>1, <1>2, <1>4, <1>5, <1>6

\* The notification executor clears the flag only when the one thread held is listed.
LEMMA NotificationHolds ==
  ASSUME CalmTurn, NotificationExecutor
  PROVE  Holds'
<1> USE DEF CalmTurn, TypeOK
<1>1. /\ GDBFrame /\ UNCHANGED <<execution, held>>
      /\ UNCHANGED bridge \/ BridgeReports
      /\ ~IgnoreContinue /\ ~IgnoreGo
  BY Zenon, CalmHandlers
<1>2. Resuming' <=> Resuming
  BY Zenon, <1>1 DEF GDBFrame, Resuming
<1>3. ASSUME UNCHANGED bridge,
             at'["notification"] \notin {"ignore", "regardless"},
             Fetching' => active_thread_id_' = Head(notes').thread,
             \A t \in Thread : held[t] /\ t \in Members(threads_) => t \in Members(threads_')
      PROVE  Holds'
  BY Zenon, <1>1, <1>2, <1>3 DEF Holds, Nobody, GDBFrame, bridge, stepping
<1>4. ASSUME UNCHANGED <<bridge, threads_>>, NEW l \in NoteLabel, Goto("notification", l),
             l \notin {"ignore", "regardless", "fetch", "fetched"}
      PROVE  Holds'
  BY Zenon, <1>3, <1>4, NoteGoto DEF Fetching
<1>5. CASE OnExecutionStateChanged
  BY Zenon, <1>4, <1>5, Labels DEF OnExecutionStateChanged, Dispatched
<1>6. CASE ActivateStopped
  BY Zenon, <1>4, <1>6, Labels DEF ActivateStopped
<1>7. CASE OnThreadCreated
  <2>1. Head(notes).thread \in Thread
    BY Zenon, <1>7, HeadNote DEF OnThreadCreated
  <2>2. Members(threads_) \subseteq Members(threads_')
    BY <1>7, <2>1, Appended DEF OnThreadCreated, DebuggerOK
  <2>3. at'["notification"] = "idle" /\ UNCHANGED bridge
    BY Zenon, <1>7, NoteGoto, Labels DEF OnThreadCreated, Dispatched
  <2> QED  BY Zenon, <1>3, <2>2, <2>3 DEF Fetching
<1>8. CASE OnThreadTerminated
  <2>1. Head(notes) \in Members(notes) /\ Head(notes).type = "terminate"
    BY Zenon, <1>8, HeadTail DEF OnThreadTerminated, TargetOK
  <2>2. Head(notes).thread \in ended
    BY Zenon, <2>1 DEF LivesInv
  <2>3. \A t \in Thread : held[t] => t # Head(notes).thread
    BY Zenon, <2>2 DEF LivesInv
  <2>4. \A t \in Members(threads_) : t = Head(notes).thread \/ t \in Members(threads_')
    BY Zenon, <1>8, Erased DEF OnThreadTerminated, DebuggerOK
  <2>5. at'["notification"] = "idle" /\ UNCHANGED bridge
    BY Zenon, <1>8, NoteGoto, Labels DEF OnThreadTerminated, Dispatched
  <2> QED  BY Zenon, <1>3, <2>3, <2>4, <2>5 DEF Fetching
<1>9. CASE OnStop
  <2>1. CASE GetThread(Head(notes).thread) = None
    BY Zenon, <1>4, <1>9, <2>1, Labels DEF OnStop
  <2>2. CASE GetThread(Head(notes).thread) # None
    <3>1. active_thread_id_' = Head(notes).thread
      BY Zenon, <1>9, <2>2 DEF OnStop, SetActiveThread, GetThread
    <3>2. at'["notification"] = "fetch" /\ UNCHANGED <<bridge, threads_, notes>>
      BY Zenon, <1>9, <2>2, NoteGoto, Labels DEF OnStop, target
    <3> QED  BY Zenon, <1>3, <3>1, <3>2
  <2> QED  BY Zenon, <2>1, <2>2
<1>10. CASE FetchStopReason
  <2>1. /\ at["notification"] = "fetch" /\ at'["notification"] = "fetched"
        /\ UNCHANGED <<bridge, threads_, notes, active_thread_id_>>
    BY Zenon, <1>10, NoteGoto, Labels DEF FetchStopReason, target, debugger
  <2> QED  BY Zenon, <1>3, <2>1 DEF Holds, Fetching
<1>11. CASE StoreAndJudge
  <2>1. Goto("notification", "check")
    BY Zenon, <1>11 DEF StoreAndJudge, Calm
  <2> QED  BY Zenon, <1>4, <1>11, <2>1, Labels DEF StoreAndJudge
<1>12. CASE BridgeChecks
  BY Zenon, <1>4, <1>12, Labels DEF BridgeChecks, Dispatched, debugger
<1>13. CASE BridgeReports
  <2>1. CASE ~CanReport(ActiveThread)
    BY Zenon, <1>4, <1>13, <2>1, Labels DEF BridgeReports, Dispatched, debugger
  <2>2. CASE CanReport(ActiveThread)
    <3>1. /\ ActiveThread \in Members(threads_)
          /\ \A t \in Thread : held[t] => t = ActiveThread
          /\ execution # "started" /\ at["gdb"] # "go"
      BY Zenon, <1>13, <2>2, ReportedIsHeld DEF BridgeReports
    <3>2. ~waiting_on_stop_packet_' /\ UNCHANGED threads_
      BY Zenon, <1>13, <2>2 DEF BridgeReports, Report, debugger
    <3>3. at'["notification"] = "idle"
      BY Zenon, <1>13, NoteGoto, Labels DEF BridgeReports, Dispatched
    <3> QED  BY Zenon, <1>1, <1>2, <3>1, <3>2, <3>3 DEF Holds, Nobody, GDBFrame, Fetching, stepping
  <2> QED  BY Zenon, <2>1, <2>2
<1>14. CASE \/ CopyThreads("notification") \/ PreferActive("notification")
            \/ AskNext("notification") \/ StoreNext("notification")
  <2>1. PICK l \in {"active", "ask", "store", "polled"} : Goto("notification", l)
    BY Zenon, <1>14 DEF CopyThreads, PreferActive, AskNext, StoreNext
  <2>2. UNCHANGED <<bridge, threads_>>
    BY Zenon, <1>14 DEF CopyThreads, PreferActive, AskNext, StoreNext, debugger
  <2> QED  BY Zenon, <1>4, <2>1, <2>2, Labels
<1> QED
  BY Zenon, <1>1, <1>5, <1>6, <1>7, <1>8, <1>9, <1>10, <1>11, <1>12, <1>13, <1>14
  DEF NotificationExecutor

\* A new candidate is one the target has just said to be held.
LEMMA NotificationBelieves ==
  ASSUME CalmTurn, NotificationExecutor
  PROVE  Believes'
<1> USE DEF CalmTurn, TypeOK
<1>1. /\ GDBFrame /\ UNCHANGED <<execution, held>>
      /\ UNCHANGED bridge \/ BridgeReports
      /\ ~IgnoreContinue /\ ~IgnoreGo
  BY Zenon, CalmHandlers
<1>2. Resuming' <=> Resuming
  BY Zenon, <1>1 DEF GDBFrame, Resuming
<1>3. waiting_on_stop_packet_' => waiting_on_stop_packet_
  BY ZenonT(40), <1>1 DEF BridgeReports, Report, bridge
<1>4. ASSUME NEW t \in Thread, held[t] PROVE Believed(t)'
  <2>1. ~Resuming /\ at["gdb"] # "go"
    BY Zenon, <1>4 DEF Holds, Nobody
  <2> QED  BY Zenon, <1>1, <1>2, <1>4, <2>1 DEF Believed, GDBFrame
<1>5. ASSUME NEW t \in Thread, Candidate(t), last_stop_reason[t],
             UNCHANGED active_thread_id_ \/ t = active_thread_id_'
      PROVE  Believed(t)'
  <2>1. Believed(t)
    BY Zenon, <1>5 DEF Believes
  <2> QED  BY <1>1, <1>2, <1>3, <1>5, <2>1 DEF Believed, GDBFrame
<1>6. ASSUME UNCHANGED <<last_stop_reason, active_thread_id_>>,
             \A t \in Thread : Candidate(t)' => Candidate(t)
      PROVE  Believes'
  BY Zenon, <1>5, <1>6 DEF Believes
<1>7. ASSUME UNCHANGED <<last_stop_reason, active_thread_id_>>, ~Fetching,
             NEW l \in NoteLabel, Goto("notification", l), l # "polled"
      PROVE  Believes'
  BY Zenon, <1>6, <1>7, NoteGoto DEF Candidate
<1>8. CASE OnExecutionStateChanged
  BY Zenon, <1>7, <1>8, Labels DEF OnExecutionStateChanged, Dispatched, Fetching
<1>9. CASE ActivateStopped
  <2>1. at["notification"] = "polled" /\ at'["notification"] = "check" /\ UNCHANGED last_stop_reason
    BY Zenon, <1>9, NoteGoto, Labels DEF ActivateStopped
  <2>2. \/ UNCHANGED active_thread_id_
        \/ active_thread_id_' = poll["notification"].found
    BY Zenon, <1>9, <2>1 DEF ActivateStopped, SetActiveThread, GetThread, KnownInv
  <2>3. \A t \in Thread : Candidate(t)' => t = active_thread_id_' /\ Candidate(t)
    BY Zenon, <2>1, <2>2 DEF Candidate, Fetching
  <2> QED  BY Zenon, <1>5, <2>1, <2>3 DEF Believes
<1>10. CASE OnThreadCreated
  BY Zenon, <1>7, <1>10, Labels DEF OnThreadCreated, Dispatched, Fetching
<1>11. CASE OnThreadTerminated
  <2>1. /\ at["notification"] = "idle" /\ at'["notification"] = "idle" /\ UNCHANGED last_stop_reason
        /\ UNCHANGED active_thread_id_ \/ active_thread_id_' = None
    BY Zenon, <1>11, NoteGoto, Labels DEF OnThreadTerminated, Dispatched
  <2>2. \A t \in Thread : Candidate(t)' => t = active_thread_id_' /\ Candidate(t)
    BY Zenon, <2>1, StopReplyAssumption DEF Candidate, Fetching
  <2> QED  BY Zenon, <1>5, <2>1, <2>2 DEF Believes
<1>12. CASE OnStop
  <2>1. CASE GetThread(Head(notes).thread) = None
    BY Zenon, <1>7, <1>12, <2>1, Labels DEF OnStop, Fetching
  <2>2. CASE GetThread(Head(notes).thread) # None
    <3>1. at'["notification"] = "fetch"
      BY Zenon, <1>12, <2>2, NoteGoto, Labels DEF OnStop
    <3> QED  BY Zenon, <3>1 DEF Believes, Candidate, Fetching
  <2> QED  BY Zenon, <2>1, <2>2
<1>13. CASE FetchStopReason
  <2>1. at'["notification"] = "fetched"
    BY Zenon, <1>13, NoteGoto, Labels DEF FetchStopReason
  <2> QED  BY Zenon, <2>1 DEF Believes, Candidate, Fetching
<1>14. CASE StoreAndJudge
  <2>1. PICK u : u = Head(notes).thread /\ u = active_thread_id_
    BY Zenon, <1>14 DEF StoreAndJudge, Holds, Fetching
  <2>2. /\ StaleAnswer(u, poll["notification"].answer) /\ UNCHANGED active_thread_id_
        /\ last_stop_reason' =
             [last_stop_reason EXCEPT ![u] = poll["notification"].answer = "stopped"]
    BY Zenon, <1>14, <2>1 DEF StoreAndJudge, StoreStopReason
  <2>3. at'["notification"] = "check"
    BY Zenon, <1>14, NoteGoto, Labels DEF StoreAndJudge, Calm
  <2>4. ASSUME NEW t \in Thread, Candidate(t)', last_stop_reason'[t] PROVE Believed(t)'
    <3>1. t = u
      BY Zenon, <2>1, <2>2, <2>3, <2>4 DEF Candidate
    <3>2. poll["notification"].answer = "stopped"
      BY Zenon, <2>2, <2>4, <3>1 DEF DebuggerOK
    <3>3. held[t]
      BY Zenon, <2>2, <3>1, <3>2, FreshAnswer DEF Calm
    <3> QED  BY Zenon, <1>4, <3>3
  <2> QED  BY Zenon, <2>4 DEF Believes
<1>15. CASE BridgeChecks
  BY Zenon, <1>7, <1>15, Labels DEF BridgeChecks, Dispatched, debugger, Fetching
<1>16. CASE BridgeReports
  BY Zenon, <1>7, <1>16, Labels DEF BridgeReports, Dispatched, debugger, Fetching
<1>17. CASE CopyThreads("notification")
  <2>1. poll'["notification"].found = None /\ at["notification"] = "copy"
        /\ at'["notification"] \in {"polled", "active"}
        /\ UNCHANGED <<last_stop_reason, active_thread_id_>>
    BY Zenon, <1>17, NoteGoto, Labels DEF CopyThreads, NoPoll, LocalsOK, debugger
  <2> QED  BY Zenon, <1>6, <2>1, StopReplyAssumption DEF Candidate, Fetching
<1>18. CASE PreferActive("notification")
  BY Zenon, <1>7, <1>18, Labels DEF PreferActive, debugger, Fetching
<1>19. CASE AskNext("notification")
  <2>1. at["notification"] = "ask" /\ at'["notification"] \in {"polled", "store"}
        /\ UNCHANGED <<last_stop_reason, active_thread_id_>>
    BY Zenon, <1>19, NoteGoto, Labels DEF AskNext, debugger
  <2>2. poll'["notification"].found = poll["notification"].found
    BY Zenon, <1>19, Labels DEF AskNext, LocalsOK, Poll
  <2>3. poll["notification"].found = None
    BY Zenon, <2>1, Labels DEF ShapeInv, PollShape
  <2> QED  BY Zenon, <1>6, <2>1, <2>2, <2>3, StopReplyAssumption DEF Candidate, Fetching
<1>20. CASE StoreNext("notification")
  <2>1. PICK u : u = Head(poll["notification"].queue)
    BY Zenon
  <2>2. /\ StaleAnswer(u, poll["notification"].answer) /\ UNCHANGED active_thread_id_
        /\ last_stop_reason' =
             [last_stop_reason EXCEPT ![u] = poll["notification"].answer = "stopped"]
    BY Zenon, <1>20, <2>1 DEF StoreNext, StoreStopReason
  <2>3. /\ at["notification"] = "store"
        /\ at'["notification"] = IF poll["notification"].answer = "stopped" THEN "polled" ELSE "ask"
    BY Zenon, <1>20, NoteGoto, Labels DEF StoreNext
  <2>4. poll["notification"].answer = "stopped" => poll'["notification"].found = u
    BY Zenon, <1>20, <2>1, Labels DEF StoreNext, NoPoll, LocalsOK
  <2>5. ASSUME NEW t \in Thread, Candidate(t)', last_stop_reason'[t] PROVE Believed(t)'
    <3>1. CASE t = u
      <4>1. poll["notification"].answer = "stopped"
        BY Zenon, <2>2, <2>5, <3>1 DEF DebuggerOK
      <4>2. held[t]
        BY Zenon, <2>2, <3>1, <4>1, FreshAnswer DEF Calm
      <4> QED  BY Zenon, <1>4, <4>2
    <3>2. CASE t # u
      <4>1. Candidate(t)
        BY Zenon, <2>2, <2>3, <2>4, <2>5, <3>2 DEF Candidate, Fetching
      <4>2. last_stop_reason[t]
        BY Zenon, <2>2, <2>5, <3>2 DEF DebuggerOK
      <4> QED  BY Zenon, <1>5, <2>2, <4>1, <4>2
    <3> QED  BY Zenon, <3>1, <3>2
  <2> QED  BY Zenon, <2>5 DEF Believes
<1> QED
  BY Zenon, <1>1, <1>8, <1>9, <1>10, <1>11, <1>12, <1>13, <1>14, <1>15, <1>16, <1>17, <1>18, <1>19,
     <1>20 DEF NotificationExecutor


\* The bridge reports the thread that is held.
LEMMA NotificationStops ==
  ASSUME CalmTurn, NotificationExecutor
  PROVE  Stops'
<1> USE DEF CalmTurn, TypeOK
<1>1. UNCHANGED held /\ (UNCHANGED bridge \/ BridgeReports)
  BY Zenon, CalmHandlers
<1>2. CASE UNCHANGED replies
  BY Zenon, <1>1, <1>2 DEF Stops
<1>3. CASE BridgeReports /\ CanReport(ActiveThread)
  <2>1. ActiveThread \in Thread /\ held[ActiveThread] /\ replies = <<>>
    BY Zenon, <1>3, ReportedIsHeld DEF BridgeReports
  <2>2. DOMAIN replies' = {1} /\ replies'[1].thread = ActiveThread
    BY Zenon, <1>3, <2>1, OneAnswer DEF BridgeReports
  <2> QED  BY Zenon, <1>1, <2>1, <2>2 DEF Stops
<1> QED  BY Zenon, <1>1, <1>2, <1>3 DEF BridgeReports, bridge

\* Every step keeps the reports true.
LEMMA NextCalm ==
  ASSUME TypeOK, ShapeInv, LivesInv, KnownInv, TurnsInv, CalmInv, Next
  PROVE  CalmInv'
<1> SUFFICES ASSUME Calm' PROVE Holds' /\ Believes' /\ Stops'
  BY Zenon DEF CalmInv
<1>1. Calm
  BY Zenon, CalmBefore
<1>2. CalmTurn
  BY Zenon, <1>1 DEF CalmTurn, TurnsInv, CalmInv, Calm
<1>3. CASE GDBExecutor
  <2>1. GDBTurn
    BY Zenon, <1>2, <1>3, NothingElse DEF CalmTurn, Calm
  <2> QED  BY Zenon, <1>2, <2>1, GDBHolds, GDBBelieves, GDBStops
<1> QED
  BY Zenon, <1>2, <1>3, TitleHolds, ClientHolds, NotificationHolds, NotificationBelieves,
     NotificationStops DEF Next

----------------------------------------------------------------------------
(* Theorems                                                                *)

\* The inductive invariant.
IndInv ==
  /\ TypeOK /\ ShapeInv /\ LivesInv /\ KnownInv
  /\ TurnsInv /\ CalmInv

\* It holds when GDB has connected: every thread is held and listed.
LEMMA InitInd ==
  ASSUME Init
  PROVE  IndInv
<1>1. /\ session \in Session /\ session.initial \in Seq(Thread) /\ session.initial # <<>>
      /\ session.packet \subseteq Packet
  BY Zenon, StopReplyAssumption DEF Init
<1>2. /\ Head(session.initial) \in Thread /\ Head(session.initial) \in Members(session.initial)
  BY Zenon, <1>1, HeadTail
<1>3. Members(session.initial) \subseteq Thread
  BY <1>1, MembersOf, ElementOfSeq
<1>4. Members(<<>>) = {}
  BY DEF Members
<1>5. at["gdb"] = "idle" /\ at["notification"] = "idle"
  BY Zenon, Labels DEF Init
<1>6. TypeOK
  <2>1. TargetOK
    BY <1>3 DEF Init, TargetOK
  <2>2. DebuggerOK
    BY Zenon, <1>1, <1>2 DEF Init, DebuggerOK, Optional
  <2>3. BridgeOK
    <3>1. <<>> \in Seq(Reply) /\ <<>> \in Seq(session.packet)
      BY Zenon, EmptySeq
    <3> QED  BY Zenon, <1>1, <3>1 DEF Init, BridgeOK
  <2>4. AtOK
    BY Zenon, <1>5, Labels DEF Init, AtOK
  <2>5. LocalsOK
    <3>1. NoPoll \in Poll
      BY DEF NoPoll, Poll, Optional
    <3> QED  BY <3>1 DEF Init, LocalsOK, Optional
  <2> QED  BY Zenon, <2>1, <2>2, <2>3, <2>4, <2>5 DEF TypeOK
<1>7. ShapeInv
  <2>1. GDBShape /\ NoteShape
    BY Zenon, <1>5, Kinds DEF GDBShape, NoteShape
  <2>2. PollShape
    BY Zenon DEF Init, PollShape
  <2> QED  BY Zenon, <2>1, <2>2 DEF ShapeInv
<1>8. LivesInv
  BY Zenon, <1>4 DEF Init, LivesInv
<1>9. KnownInv
  BY Zenon, <1>2, <1>5 DEF Init, KnownInv
<1>10. TurnsInv
  BY Zenon, <1>5 DEF Init, TurnsInv, Resumes, Turns, Due, AtMostOne
<1>11. CalmInv
  <2>1. Holds
    BY Zenon, <1>5, Kinds DEF Init, Holds, Resuming, Fetching
  <2>2. Believes
    BY Zenon, <1>5, Kinds DEF Init, Believes, Believed, Resuming
  <2>3. Stops
    BY DEF Init, Stops
  <2> QED  BY Zenon, <2>1, <2>2, <2>3 DEF CalmInv
<1> QED  BY Zenon, <1>6, <1>7, <1>8, <1>9, <1>10, <1>11 DEF IndInv

\* Every step keeps it.
LEMMA NextInd ==
  ASSUME IndInv, Next
  PROVE  IndInv'
<1>1. TypeOK'
  BY Zenon, NextType DEF IndInv
<1>2. ShapeInv'
  BY Zenon, NextGDBShape, NextNoteShape, NextPollShape DEF IndInv, ShapeInv
<1>3. LivesInv' /\ KnownInv'
  BY Zenon, NextLives, NextKnown DEF IndInv
<1>4. TurnsInv'
  BY Zenon, NextTurns DEF IndInv
<1>5. CalmInv'
  BY Zenon, NextCalm DEF IndInv
<1> QED  BY Zenon, <1>1, <1>2, <1>3, <1>4, <1>5 DEF IndInv

\* A step that changes nothing keeps it.
LEMMA StutterInd ==
  ASSUME IndInv, UNCHANGED vars
  PROVE  IndInv'
<1> USE DEF vars, target, debugger, bridge, gdb, stepping
<1>1. TypeOK'
  BY Zenon DEF IndInv, TypeOK, TargetOK, DebuggerOK, BridgeOK, AtOK, LocalsOK
<1>2. ShapeInv' /\ LivesInv' /\ KnownInv'
  BY Zenon DEF IndInv, ShapeInv, GDBShape, NoteShape, PollShape, LivesInv, KnownInv
<1>3. TurnsInv'
  BY Zenon DEF IndInv, TurnsInv, ContinuesAll, Resumes, Turns, Due
<1>4. CalmInv'
  <2>1. /\ Holds' = Holds /\ Believes' = Believes /\ Stops' = Stops /\ Calm' = Calm
    BY Zenon DEF Holds, Believes, Believed, Stops, Candidate, Fetching, Resuming, Nobody, Calm,
           ContinuesAll
  <2> QED  BY Zenon, <2>1 DEF IndInv, CalmInv
<1> QED  BY Zenon, <1>1, <1>2, <1>3, <1>4 DEF IndInv

\* IndInv relates the flag, the packets, the replies, what is known of each thread and
\* what the target holds, through every interleaving of the two executors, the title
\* and GDB: it is an invariant.
THEOREM Inductive == Spec => []IndInv
<1>1. Init => IndInv
  BY Zenon, InitInd
<1>2. IndInv /\ [Next]_vars => IndInv'
  BY Zenon, NextInd, StutterInd
<1> QED  BY <1>1, <1>2, PTL DEF Spec

\* MarkWaitingForStopPacket and the notification handlers never both answer one resume:
\* a GDB that resumes all threads has at most one reply to read, and none while it
\* takes the target to be stopped.
THEOREM OneReply == Spec => []OneReplyPerResume
<1>1. IndInv => OneReplyPerResume
  <2> SUFFICES ASSUME IndInv, ContinuesAll
               PROVE  Len(replies) <= 1 /\ (client = "stopped" => replies = <<>>)
    BY Zenon DEF OneReplyPerResume
  <2>1. /\ replies \in Seq(Reply) /\ (replies # <<>> => Tail(replies) = <<>>)
        /\ client = "stopped" => replies = <<>>
    BY Zenon DEF IndInv, TypeOK, BridgeOK, TurnsInv, Turns, AtMostOne
  <2>2. Len(replies) <= 1
    <3>1. CASE replies = <<>>
      BY <3>1
    <3>2. CASE replies # <<>>
      <4>1. Len(Tail(replies)) = Len(replies) - 1
        BY Zenon, <2>1, <3>2, HeadTailProperties
      <4>2. PICK n \in Nat : n = Len(replies)
        BY Zenon, <2>1, LenProperties
      <4>3. PICK rest : rest = Tail(replies) /\ Len(rest) = 0
        <5>1. Len(<<>>) = 0
          BY Zenon
        <5> QED  BY Zenon, <2>1, <3>2, <5>1
      <4>4. 0 = n - 1
        BY Zenon, <4>1, <4>2, <4>3
      <4>5. n <= 1
        BY <4>4
      <4> QED  BY Zenon, <4>2, <4>5
    <3> QED  BY Zenon, <3>1, <3>2
  <2> QED  BY Zenon, <2>1, <2>2
<1> QED  BY <1>1, Inductive, PTL

\* SendThreadStopPacket tells the truth: unless an answer was stale when it was stored,
\* a thread reported to a GDB that resumes all threads is held until GDB has read the
\* report, and the title does not run while GDB takes it to be stopped.
THEOREM TrueReports == Spec => []ReportsAreTrueUnlessRaced
<1>1. IndInv => ReportsAreTrueUnlessRaced
  <2> SUFFICES ASSUME IndInv, Calm
               PROVE  /\ \A i \in DOMAIN replies :
                           replies[i].type = "stop" => held[replies[i].thread]
                      /\ client = "stopped" => \A t \in Thread : ~Runs(t)
    BY Zenon DEF ReportsAreTrueUnlessRaced, Calm
  <2>1. Turns /\ Holds /\ Stops
    BY Zenon DEF IndInv, TurnsInv, CalmInv, Calm
  <2>2. client = "stopped" => execution # "started"
    BY Zenon, <2>1 DEF Turns, Holds
  <2> QED  BY Zenon, <2>1, <2>2 DEF Stops, Runs
<1> QED  BY <1>1, Inductive, PTL
=============================================================================
