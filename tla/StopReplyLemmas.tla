-------------------------- MODULE StopReplyLemmas --------------------------
(***************************************************************************)
(* What holds in StopReply whatever GDB sends: types, the locals of the    *)
(* executors' calls, what an executor leaves alone of the other's, the     *)
(* threads that are alive and those the debugger lists.                    *)
(***************************************************************************)
EXTENDS StopReply, SequenceTheorems, TLAPS

----------------------------------------------------------------------------
(* The invariants                                                          *)

Optional == Thread \cup {None}
Poll == [queue : Seq(Thread), skip : Optional,
         answer : {"none", "gone", "stopped", "running"}, found : Optional]

Polling == {"copy", "active", "ask", "store", "polled"}
Stepping == {"step", "trap", "resume", "stepped"}
Halting == {"halt", "await"}
Halted == {"wait", "waited", "halted", "report", "aborted"}
Judging == {"fetch", "fetched", "ignore", "regardless"}
GDBLabel == {"idle", "vCont", "continuing", "go"} \cup Polling \cup Stepping
              \cup Halting \cup Halted
NoteLabel == {"idle", "check", "send"} \cup Polling \cup Judging

\* The types of the target's state, the debugger's, the bridge's and GDB's, and
\* the executors'.
TargetOK ==
  /\ execution \in {"started", "stopped"} /\ alive \subseteq Thread
  /\ ended \subseteq Thread /\ held \in [Thread -> BOOLEAN] /\ trap \subseteq Thread
  /\ events \in Nat /\ notes \in Seq(Note)
DebuggerOK ==
  /\ state_ \in {"started", "stopped"} /\ threads_ \in Seq(Thread)
  /\ active_thread_id_ \in Optional
  /\ stopped \in [Thread -> BOOLEAN] /\ last_stop_reason \in [Thread -> BOOLEAN]
BridgeOK ==
  /\ waiting_on_stop_packet_ \in BOOLEAN /\ replies \in Seq(Reply)
  /\ client \in {"stopped", "running", "asked", "detaching", "detached"}
  /\ interrupted \in BOOLEAN /\ packets \in Nat /\ raced \in BOOLEAN
  /\ session \in Session /\ inbox \in Seq(session.packet)
AtOK ==
  /\ at \in [Executor -> GDBLabel \cup NoteLabel]
  /\ at["gdb"] \in GDBLabel /\ at["notification"] \in NoteLabel
LocalsOK ==
  /\ poll \in [Executor -> Poll]
  /\ thread \in Optional /\ commands \in Seq(Command)
  /\ processed \subseteq Thread /\ todo \in Seq(Thread)
TypeOK == TargetOK /\ DebuggerOK /\ BridgeOK /\ AtOK /\ LocalsOK

\* What the locals of a call hold at each label.
GDBShape ==
  /\ at["gdb"] # "idle" => inbox # <<>>
  /\ at["gdb"] \in {"vCont"} \cup Stepping => Head(inbox).type = "vCont"
  /\ at["gdb"] \in {"continuing", "go"} => Head(inbox).type \in {"vCont", "D"}
  /\ at["gdb"] \in Polling => Head(inbox).type \in {"vCont", "?", "interrupt"}
  /\ at["gdb"] \in Halting \cup Halted => Head(inbox).type = "interrupt"
  /\ at["gdb"] \in Stepping => commands # <<>>
  /\ (at["gdb"] = "continuing" /\ Head(inbox).type = "vCont") => commands # <<>>
  /\ at["gdb"] \in {"trap", "resume", "stepped", "wait", "waited"} => thread # None
  /\ at["gdb"] \in Halting => todo # <<>>
  /\ (at["gdb"] \in Polling /\ Head(inbox).type = "interrupt") => todo # <<>>
NoteShape ==
  /\ at["notification"] # "idle" => notes # <<>>
  /\ at["notification"] \in Judging => Head(notes).type \in {"break", "step"}
PollShape ==
  \A e \in Executor : /\ at[e] = "store" => poll[e].queue # <<>>
                      /\ at[e] \in {"active", "ask", "store"} => poll[e].found = None
ShapeInv == GDBShape /\ NoteShape /\ PollShape

\* A thread ends once, and is held by XBDM only while it is alive.
LivesInv ==
  /\ alive \cap ended = {}
  /\ \A n \in Members(notes) : n.type = "terminate" => n.thread \in ended
  /\ \A t \in Thread : held[t] => t \in alive

\* The active thread, and the threads the notification executor is asking about, are
\* in the list: only that executor takes threads out.
KnownInv ==
  /\ active_thread_id_ # None => active_thread_id_ \in Members(threads_)
  /\ at["notification"] \in {"active", "ask", "store"} =>
       Members(poll["notification"].queue) \subseteq Members(threads_)
  /\ (at["notification"] = "polled" /\ poll["notification"].found # None) =>
       poll["notification"].found \in Members(threads_)


----------------------------------------------------------------------------
(* Sequences and records                                                   *)

\* The first element of a list and the rest.
LEMMA HeadTail ==
  ASSUME NEW S, NEW s \in Seq(S), s # <<>>
  PROVE  /\ Head(s) \in S /\ Tail(s) \in Seq(S) /\ Head(s) \in Members(s)
         /\ Members(Tail(s)) \subseteq Members(s)
         /\ \A x \in Members(s) : x = Head(s) \/ x \in Members(Tail(s))
<1>1. /\ Head(s) \in S /\ Tail(s) \in Seq(S) /\ Len(s) \in Nat \ {0}
      /\ Len(Tail(s)) = Len(s) - 1
      /\ \A i \in 1 .. Len(Tail(s)) : Tail(s)[i] = s[i + 1]
      /\ DOMAIN s = 1 .. Len(s) /\ DOMAIN Tail(s) = 1 .. Len(Tail(s)) /\ Head(s) = s[1]
  BY HeadTailProperties, LenProperties, EmptySeq
<1>2. Head(s) \in Members(s)
  BY <1>1 DEF Members
<1>3. ASSUME NEW x \in Members(Tail(s)) PROVE x \in Members(s)
  <2>1. PICK i \in 1 .. Len(Tail(s)) : x = Tail(s)[i]
    BY Zenon, <1>1, <1>3 DEF Members
  <2>2. i + 1 \in DOMAIN s /\ x = s[i + 1]
    BY <1>1, <2>1
  <2> QED  BY Zenon, <2>2 DEF Members
<1>4. ASSUME NEW x \in Members(s), x # Head(s) PROVE x \in Members(Tail(s))
  <2>1. PICK i \in 1 .. Len(s) : x = s[i]
    BY Zenon, <1>1, <1>4 DEF Members
  <2>2. i - 1 \in 1 .. Len(Tail(s)) /\ x = Tail(s)[i - 1]
    BY <1>1, <1>4, <2>1
  <2> QED  BY Zenon, <1>1, <2>2 DEF Members
<1> QED  BY Zenon, <1>1, <1>2, <1>3, <1>4

\* A list with one more element.
LEMMA Appended ==
  ASSUME NEW S, NEW s \in Seq(S), NEW x \in S
  PROVE  /\ Append(s, x) \in Seq(S) /\ Append(s, x) # <<>>
         /\ Members(Append(s, x)) = Members(s) \cup {x}
         /\ s # <<>> => Head(Append(s, x)) = Head(s)
         /\ s = <<>> => Head(Append(s, x)) = x /\ Tail(Append(s, x)) = <<>>
         /\ s # <<>> /\ Tail(s) = <<>> =>
              Tail(Append(s, x)) # <<>> /\ Tail(Tail(Append(s, x))) = <<>>
<1>1. /\ Append(s, x) \in Seq(S) /\ Append(s, x) # <<>> /\ Len(s) \in Nat
      /\ Len(Append(s, x)) = Len(s) + 1 /\ Append(s, x)[Len(s) + 1] = x
      /\ \A i \in 1 .. Len(s) : Append(s, x)[i] = s[i]
      /\ DOMAIN s = 1 .. Len(s) /\ DOMAIN Append(s, x) = 1 .. Len(Append(s, x))
  BY AppendProperties, LenProperties
<1>2. Members(Append(s, x)) = Members(s) \cup {x}
  <2>1. \A i \in DOMAIN Append(s, x) : i \in DOMAIN s \/ i = Len(s) + 1
    BY <1>1
  <2>2. DOMAIN s \subseteq DOMAIN Append(s, x) /\ Len(s) + 1 \in DOMAIN Append(s, x)
    BY <1>1
  <2> QED  BY Zenon, <1>1, <2>1, <2>2 DEF Members
<1>3. /\ Head(Append(s, x)) = IF s = <<>> THEN x ELSE Head(s)
      /\ Tail(Append(s, x)) = IF s = <<>> THEN <<>> ELSE Append(Tail(s), x)
  BY Zenon, HeadTailAppend
<1>4. ASSUME s # <<>>, Tail(s) = <<>>
      PROVE  Tail(Append(s, x)) # <<>> /\ Tail(Tail(Append(s, x))) = <<>>
  <2>1. <<>> \in Seq(S) /\ Tail(Append(s, x)) = Append(<<>>, x)
    BY Zenon, <1>3, <1>4, EmptySeq
  <2>2. Append(<<>>, x) # <<>> /\ Tail(Append(<<>>, x)) = <<>>
    BY <2>1, AppendProperties, HeadTailAppend
  <2> QED  BY Zenon, <2>1, <2>2
<1> QED  BY Zenon, <1>1, <1>2, <1>3, <1>4

\* A list with one element in front.
LEMMA Preferred ==
  ASSUME NEW S, NEW s \in Seq(S), NEW x \in S
  PROVE  <<x>> \o s \in Seq(S) /\ Members(<<x>> \o s) = {x} \cup Members(s)
<1>1. <<x>> \in Seq(S) /\ Len(<<x>>) = 1 /\ <<x>>[1] = x
  OBVIOUS
<1>2. /\ <<x>> \o s \in Seq(S) /\ Len(<<x>> \o s) = 1 + Len(s) /\ Len(s) \in Nat
      /\ \A i \in 1 .. 1 + Len(s) :
           (<<x>> \o s)[i] = IF i <= 1 THEN <<x>>[i] ELSE s[i - 1]
      /\ DOMAIN s = 1 .. Len(s) /\ DOMAIN (<<x>> \o s) = 1 .. 1 + Len(s)
  BY <1>1, ConcatProperties, LenProperties
<1>3. (<<x>> \o s)[1] = x /\ \A i \in 1 .. Len(s) : (<<x>> \o s)[i + 1] = s[i]
  BY <1>1, <1>2
<1>4. ASSUME NEW y \in Members(<<x>> \o s) PROVE y \in {x} \cup Members(s)
  <2>1. PICK i \in 1 .. 1 + Len(s) : y = (<<x>> \o s)[i]
    BY Zenon, <1>2, <1>4 DEF Members
  <2>2. i = 1 \/ (i - 1 \in DOMAIN s /\ y = s[i - 1])
    BY <1>2, <2>1
  <2> QED  BY Zenon, <1>3, <2>1, <2>2 DEF Members
<1>5. ASSUME NEW y \in Members(s) PROVE y \in Members(<<x>> \o s)
  <2>1. PICK i \in 1 .. Len(s) : y = s[i]
    BY Zenon, <1>2, <1>5 DEF Members
  <2>2. i + 1 \in DOMAIN (<<x>> \o s) /\ y = (<<x>> \o s)[i + 1]
    BY <1>2, <1>3, <2>1
  <2> QED  BY Zenon, <2>2 DEF Members
<1>6. x \in Members(<<x>> \o s)
  BY <1>2, <1>3 DEF Members
<1> QED  BY Zenon, <1>2, <1>4, <1>5, <1>6


\* The members of a sequence by their indices.
LEMMA MembersOf ==
  ASSUME NEW S, NEW s \in Seq(S)
  PROVE  \A x : x \in Members(s) <=> \E i \in 1 .. Len(s) : x = s[i]
BY Zenon, LenProperties DEF Members

\* Two lists that are another one without its element i.
LEMMA Joined ==
  ASSUME NEW S, NEW s \in Seq(S), NEW i \in 1 .. Len(s),
         NEW a \in Seq(S), Len(a) = i - 1, \A j \in 1 .. i - 1 : a[j] = s[j],
         NEW b \in Seq(S), Len(b) = Len(s) - i, \A j \in 1 .. Len(s) - i : b[j] = s[i + j]
  PROVE  /\ a \o b \in Seq(S) /\ Members(a \o b) \subseteq Members(s)
         /\ \A y \in Members(s) : y = s[i] \/ y \in Members(a \o b)
<1>1. Len(s) \in Nat
  BY Zenon, LenProperties
<1>4. /\ a \o b \in Seq(S) /\ Len(a \o b) = Len(s) - 1
      /\ \A j \in 1 .. Len(s) - 1 : (a \o b)[j] = IF j <= i - 1 THEN a[j] ELSE b[j - (i - 1)]
  <2>1. /\ a \o b \in Seq(S) /\ Len(a \o b) = Len(a) + Len(b)
        /\ \A j \in 1 .. Len(a) + Len(b) :
             (a \o b)[j] = IF j <= Len(a) THEN a[j] ELSE b[j - Len(a)]
    BY Zenon, ConcatProperties
  <2>2. Len(a) + Len(b) = Len(s) - 1
    BY <1>1
  <2> QED  BY Zenon, <2>1, <2>2
<1>5. ASSUME NEW j \in 1 .. i - 1 PROVE j \in 1 .. Len(s) - 1 /\ (a \o b)[j] = s[j]
  <2>1. j \in 1 .. Len(s) - 1 /\ j <= i - 1
    BY <1>1
  <2> QED  BY Zenon, <1>4, <2>1
<1>6. ASSUME NEW j \in i .. Len(s) - 1
      PROVE  j \in 1 .. Len(s) - 1 /\ (a \o b)[j] = s[j + 1]
  <2>1. /\ j \in 1 .. Len(s) - 1 /\ ~(j <= i - 1)
        /\ j - (i - 1) \in 1 .. Len(s) - i /\ i + (j - (i - 1)) = j + 1
    BY <1>1
  <2>2. (a \o b)[j] = b[j - (i - 1)]
    BY Zenon, <1>4, <2>1
  <2>3. b[j - (i - 1)] = s[i + (j - (i - 1))]
    BY Zenon, <2>1
  <2> QED  BY Zenon, <2>1, <2>2, <2>3
<1>7. ASSUME NEW y \in Members(a \o b) PROVE y \in Members(s)
  <2>0. \A z : z \in Members(a \o b) <=> \E j \in 1 .. Len(a \o b) : z = (a \o b)[j]
    BY Zenon, <1>4, MembersOf
  <2>1. PICK j \in 1 .. Len(a \o b) : y = (a \o b)[j]
    BY Zenon, <2>0, <1>7
  <2>2. CASE j \in 1 .. i - 1
    <3>1. j \in 1 .. Len(s) /\ y = s[j]
      BY <1>1, <1>5, <2>1, <2>2
    <3> QED  BY Zenon, <3>1, MembersOf
  <2>3. CASE j \in i .. Len(s) - 1
    <3>1. j + 1 \in 1 .. Len(s) /\ y = s[j + 1]
      BY <1>1, <1>6, <2>1, <2>3
    <3> QED  BY Zenon, <3>1, MembersOf
  <2> QED  BY <1>1, <1>4, <2>2, <2>3
<1>8. ASSUME NEW y \in Members(s), y # s[i] PROVE y \in Members(a \o b)
  <2>1. PICK k \in 1 .. Len(s) : y = s[k]
    BY <1>8, MembersOf
  <2>2. CASE k < i
    <3>1. k \in 1 .. i - 1
      BY <1>1, <2>2
    <3>2. k \in 1 .. Len(a \o b) /\ y = (a \o b)[k]
      BY Zenon, <1>4, <1>5, <2>1, <3>1
    <3> QED  BY Zenon, <1>4, <3>2, MembersOf
  <2>3. CASE k > i
    <3>1. k - 1 \in i .. Len(s) - 1 /\ (k - 1) + 1 = k
      BY <1>1, <2>3
    <3>2. k - 1 \in 1 .. Len(a \o b) /\ y = (a \o b)[k - 1]
      BY Zenon, <1>4, <1>6, <2>1, <3>1
    <3> QED  BY Zenon, <1>4, <3>2, MembersOf
  <2> QED  BY <1>1, <1>8, <2>1, <2>2, <2>3
<1> QED  BY Zenon, <1>4, <1>7, <1>8

\* A list without its element i.
LEMMA Cut ==
  ASSUME NEW S, NEW s \in Seq(S), NEW i \in 1 .. Len(s),
         NEW c, c = SubSeq(s, 1, i - 1) \o SubSeq(s, i + 1, Len(s))
  PROVE  /\ c \in Seq(S) /\ Members(c) \subseteq Members(s)
         /\ \A y \in Members(s) : y = s[i] \/ y \in Members(c)
<1>1. Len(s) \in Nat /\ \A j \in 1 .. Len(s) : s[j] \in S
  BY Zenon, LenProperties, ElementOfSeq
<1>2. PICK a : a = SubSeq(s, 1, i - 1)
  BY Zenon
<1>3. PICK b : b = SubSeq(s, i + 1, Len(s))
  BY Zenon
<1>4. /\ a \in Seq(S) /\ Len(a) = i - 1 /\ \A j \in 1 .. i - 1 : a[j] = s[j]
  <2>1. 1 \in Int /\ i - 1 \in Int /\ \A j \in 1 .. i - 1 : s[j] \in S
    BY <1>1
  <2>2. /\ a \in Seq(S)
        /\ Len(a) = IF 1 <= i - 1 THEN (i - 1) - 1 + 1 ELSE 0
        /\ \A j \in 1 .. (i - 1) - 1 + 1 : a[j] = s[1 + j - 1]
    BY <1>2, <2>1, SubSeqProperties
  <2> QED  BY <1>1, <2>2
<1>5. /\ b \in Seq(S) /\ Len(b) = Len(s) - i /\ \A j \in 1 .. Len(s) - i : b[j] = s[i + j]
  <2>1. i + 1 \in Int /\ Len(s) \in Int /\ \A j \in i + 1 .. Len(s) : s[j] \in S
    BY <1>1
  <2>2. /\ b \in Seq(S) /\ Len(b) = IF i + 1 <= Len(s) THEN Len(s) - (i + 1) + 1 ELSE 0
        /\ \A j \in 1 .. Len(s) - (i + 1) + 1 : b[j] = s[i + 1 + j - 1]
    BY <1>3, <2>1, SubSeqProperties
  <2>3. ASSUME NEW j \in 1 .. Len(s) - i PROVE b[j] = s[i + j]
    <3>1. j \in 1 .. Len(s) - (i + 1) + 1 /\ i + 1 + j - 1 = i + j
      BY <1>1
    <3> QED  BY Zenon, <2>2, <3>1
  <2>4. Len(b) = Len(s) - i
    BY <1>1, <2>2
  <2> QED  BY Zenon, <2>2, <2>3, <2>4
<1>6. c = a \o b
  BY Zenon, <1>2, <1>3
<1>7. /\ a \o b \in Seq(S) /\ Members(a \o b) \subseteq Members(s)
      /\ \A y \in Members(s) : y = s[i] \/ y \in Members(a \o b)
  BY <1>4, <1>5, Joined
<1> QED  BY Zenon, <1>6, <1>7

\* Erase takes out nothing but the one element.
LEMMA Erased ==
  ASSUME NEW S, NEW s \in Seq(S), NEW x
  PROVE  /\ Erase(s, x) \in Seq(S) /\ Members(Erase(s, x)) \subseteq Members(s)
         /\ \A y \in Members(s) : y = x \/ y \in Members(Erase(s, x))
<1>1. CASE x \notin Members(s)
  BY Zenon, <1>1 DEF Erase
<1>2. CASE x \in Members(s)
  <2>1. DOMAIN s = 1 .. Len(s)
    BY Zenon, LenProperties
  <2>2. PICK i \in 1 .. Len(s) :
          /\ s[i] = x
          /\ Erase(s, x) = SubSeq(s, 1, i - 1) \o SubSeq(s, i + 1, Len(s))
    <3>1. \E i \in DOMAIN s : s[i] = x
      BY Zenon, <1>2 DEF Members
    <3> DEFINE j == CHOOSE i \in DOMAIN s : s[i] = x
    <3>2. j \in DOMAIN s /\ s[j] = x
      BY Zenon, <3>1
    <3>3. Erase(s, x) = SubSeq(s, 1, j - 1) \o SubSeq(s, j + 1, Len(s))
      BY Zenon, <1>2 DEF Erase
    <3> HIDE DEF j
    <3> QED  BY Zenon, <2>1, <3>2, <3>3
  <2>3. /\ Erase(s, x) \in Seq(S) /\ Members(Erase(s, x)) \subseteq Members(s)
        /\ \A y \in Members(s) : y = s[i] \/ y \in Members(Erase(s, x))
    BY Zenon, <2>2, Cut
  <2> QED  BY Zenon, <2>2, <2>3
<1> QED  BY Zenon, <1>1, <1>2

\* A notification names a thread unless it is about the title.
LEMMA NoteFacts ==
  ASSUME NEW n \in Note
  PROVE  /\ n.type \in {"started", "stopped", "break", "step", "create", "terminate"}
         /\ n.type \notin {"started", "stopped"} => n.thread \in Thread
BY Zenon DEF Note

\* The notifications there are.
LEMMA NotesExist ==
  /\ \A s \in {"started", "stopped"} : StateNote(s) \in Note
  /\ \A x \in {"break", "step", "create", "terminate"}, t \in Thread : ThreadNote(x, t) \in Note
BY Zenon DEF Note, StateNote, ThreadNote

\* A packet of the session.
LEMMA PacketFacts ==
  ASSUME BridgeOK, NEW p \in session.packet
  PROVE  p.type \in {"vCont", "?", "interrupt", "D"} /\ p.commands \in Seq(Command)
<1>1. p \in Packet
  BY Zenon, StopReplyAssumption DEF BridgeOK
<1> QED  BY Zenon, <1>1 DEF Packet

\* The packet being handled.
LEMMA HeadPacket ==
  ASSUME BridgeOK, inbox # <<>>
  PROVE  /\ Head(inbox).type \in {"vCont", "?", "interrupt", "D"}
         /\ Head(inbox).commands \in Seq(Command) /\ Head(inbox) \in session.packet
<1>1. Head(inbox) \in session.packet
  BY Zenon, HeadTail DEF BridgeOK
<1> QED  BY Zenon, <1>1, PacketFacts

\* The notification being handled.
LEMMA HeadNote ==
  ASSUME TargetOK, notes # <<>>
  PROVE  /\ Head(notes).type \in
              {"started", "stopped", "break", "step", "create", "terminate"}
         /\ Head(notes).type \notin {"started", "stopped"} => Head(notes).thread \in Thread
<1>1. Head(notes) \in Note
  BY Zenon, HeadTail DEF TargetOK
<1> QED  BY Zenon, <1>1, NoteFacts

\* The list holds threads, and GetThread and ActiveThread find one or none.
LEMMA ThreadFacts ==
  ASSUME DebuggerOK
  PROVE  /\ Members(threads_) \subseteq Thread
         /\ \A t : GetThread(t) \in Optional
         /\ ActiveThread \in Optional
<1>1. Members(threads_) \subseteq Thread
  BY LenProperties DEF DebuggerOK, Members
<1>2. \A t : GetThread(t) \in Optional
  BY Zenon, <1>1 DEF GetThread, Optional
<1> QED  BY Zenon, <1>1, <1>2 DEF ActiveThread, Optional

\* The locals of GetFirstStoppedThread.
LEMMA PollFacts ==
  ASSUME LocalsOK, NEW e \in Executor
  PROVE  /\ poll[e].queue \in Seq(Thread) /\ poll[e].skip \in Optional
         /\ poll[e].answer \in {"none", "gone", "stopped", "running"}
         /\ poll[e].found \in Optional
BY Zenon DEF LocalsOK, Poll


\* The labels of the two executors.
LEMMA Labels ==
  /\ \A l \in {"idle", "vCont", "continuing", "go", "copy", "active", "ask", "store", "polled",
               "step", "trap", "resume", "stepped", "halt", "await", "wait", "waited",
               "halted", "report", "aborted"} : l \in GDBLabel
  /\ \A l \in {"idle", "check", "send", "copy", "active", "ask", "store", "polled", "fetch",
               "fetched", "ignore", "regardless"} : l \in NoteLabel
  /\ "gdb" \in Executor /\ "notification" \in Executor
BY Zenon DEF GDBLabel, NoteLabel, Polling, Stepping, Halting, Halted, Judging, Executor

\* One executor goes on and the other stays where it is.
LEMMA GotoFacts ==
  ASSUME at \in [Executor -> GDBLabel \cup NoteLabel], NEW e \in Executor, NEW l, Goto(e, l)
  PROVE  at'[e] = l /\ \A f \in Executor : f # e => at'[f] = at[f]
BY Zenon DEF Goto

\* The GDB executor goes on.
LEMMA GDBGoto ==
  ASSUME AtOK, NEW l \in GDBLabel, Goto("gdb", l)
  PROVE  AtOK' /\ at'["gdb"] = l /\ at'["notification"] = at["notification"]
BY Zenon DEF AtOK, Goto, Executor

\* The notification executor goes on.
LEMMA NoteGoto ==
  ASSUME AtOK, NEW l \in NoteLabel, Goto("notification", l)
  PROVE  AtOK' /\ at'["notification"] = l /\ at'["gdb"] = at["gdb"]
BY Zenon DEF AtOK, Goto, Executor

\* Either executor goes on with GetFirstStoppedThread.
LEMMA PollGoto ==
  ASSUME AtOK, NEW e \in Executor, NEW l \in Polling, Goto(e, l)
  PROVE  AtOK' /\ at'[e] = l /\ \A f \in Executor : f # e => at'[f] = at[f]
<1>1. l \in GDBLabel /\ l \in NoteLabel
  BY Zenon DEF GDBLabel, NoteLabel, Polling
<1> QED  BY Zenon, <1>1 DEF AtOK, Goto, Executor

----------------------------------------------------------------------------
(* Types                                                                   *)

\* Hit, Create and Terminate keep the types.
LEMMA TitleType ==
  ASSUME TypeOK, NEW t \in Thread, Hit(t) \/ Create(t) \/ Terminate(t)
  PROVE  TypeOK'
<1> USE DEF TypeOK, TargetOK
<1>1. CASE Hit(t)
  <2>1. PICK m, n \in Note : notes' = notes \o <<m, n>>
    BY Zenon, <1>1, NotesExist DEF Hit
  <2>2. notes' \in Seq(Note)
    BY <2>1, ConcatProperties
  <2>3. TargetOK'
    BY <1>1, <2>2 DEF Hit
  <2> QED
    BY Zenon, <1>1, <2>3 DEF Hit, debugger, bridge, gdb, stepping, DebuggerOK, BridgeOK, AtOK, LocalsOK
<1>2. CASE Create(t)
  BY <1>2, NotesExist, Appended
  DEF Create, debugger, bridge, gdb, stepping, DebuggerOK, BridgeOK, AtOK, LocalsOK
<1>3. CASE Terminate(t)
  BY <1>3, NotesExist, Appended
  DEF Terminate, debugger, bridge, gdb, stepping, DebuggerOK, BridgeOK, AtOK, LocalsOK
<1> QED  BY Zenon, <1>1, <1>2, <1>3

\* GDB sending and reading keeps the types.
LEMMA ClientType ==
  ASSUME TypeOK, Receive \/ \E p \in session.packet : SendPacket(p)
  PROVE  TypeOK'
<1> USE DEF TypeOK, target, debugger, bridge, stepping, TargetOK, DebuggerOK, AtOK, LocalsOK
<1>1. CASE Receive
  BY Zenon, <1>1, HeadTail DEF Receive, BridgeOK
<1>2. ASSUME NEW p \in session.packet, SendPacket(p) PROVE TypeOK'
  BY <1>2, Appended DEF SendPacket, BridgeOK
<1> QED  BY Zenon, <1>1, <1>2

\* What a stop, a go and a halt leave of the target's state.
LEMMA TargetCommands ==
  ASSUME TargetOK
  PROVE  /\ DoGo \/ DoStop => execution' \in {"started", "stopped"} /\ notes' \in Seq(Note)
         /\ DoHalt => /\ execution' \in {"started", "stopped"} /\ notes' \in Seq(Note)
                      /\ held' \in [Thread -> BOOLEAN]
         /\ \A t \in Thread : DoContinue(t) => held' \in [Thread -> BOOLEAN]
<1>1. DoGo \/ DoStop => execution' \in {"started", "stopped"} /\ notes' \in Seq(Note)
  BY NotesExist, Appended DEF TargetOK, DoGo, DoStop
<1> QED  BY Zenon, <1>1 DEF TargetOK, DoHalt, DoContinue

\* What a report and an answer leave of the bridge's state.
LEMMA ReplyTypes ==
  ASSUME BridgeOK
  PROVE  /\ \A t \in Thread : Report(t) =>
              waiting_on_stop_packet_' \in BOOLEAN /\ replies' \in Seq(Reply)
         /\ \A x \in {"OK", "error"} : Answers(x) =>
              waiting_on_stop_packet_' \in BOOLEAN /\ replies' \in Seq(Reply)
<1>1. /\ \A t \in Thread : [type |-> "stop", thread |-> t] \in Reply
      /\ \A x \in {"OK", "error"} : [type |-> x, thread |-> None] \in Reply
  BY Zenon DEF Reply
<1>2. ASSUME NEW r \in Reply PROVE Append(replies, r) \in Seq(Reply)
  BY Zenon, Appended DEF BridgeOK
<1> QED  BY Zenon, <1>1, <1>2 DEF BridgeOK, Report, Answers


\* HandlePacket and the steps of vCont keep the types.
LEMMA VContType ==
  ASSUME TypeOK, ShapeInv,
         \/ HandlePacket \/ VContAction \/ VContEnd \/ ContinueAll
         \/ MarkWaitingForStopPacket \/ Go
  PROVE  TypeOK'
<1> USE DEF TypeOK, target, debugger, bridge, gdb, stepping
<1>1. CASE HandlePacket
  <2>1. PICK l \in GDBLabel : Goto("gdb", l)
    BY Zenon, <1>1, HeadPacket, Labels DEF HandlePacket
  <2>2. AtOK'
    BY Zenon, <2>1, GDBGoto
  <2> QED
    BY Zenon, <1>1, <2>2, HeadPacket DEF HandlePacket, TargetOK, DebuggerOK, BridgeOK, LocalsOK
<1>2. CASE VContAction
  <2>1. /\ Head(commands).thread \in Optional /\ Head(commands).code \in {"c", "s"}
        /\ Tail(commands) \in Seq(Command)
    <3>1. commands # <<>>
      BY Zenon, <1>2 DEF VContAction
    <3>2. Head(commands) \in Command /\ Tail(commands) \in Seq(Command)
      BY Zenon, <3>1, HeadTail DEF LocalsOK
    <3> QED  BY Zenon, <3>2 DEF Command, Optional
  <2>2. /\ processed' = processed \cup ({Head(commands).thread} \ {None})
        /\ UNCHANGED <<execution, alive, ended, trap, events, notes, state_, threads_, stopped,
                       last_stop_reason, inbox, gdb, poll, thread, raced>>
    BY Zenon, <1>2 DEF VContAction
  <2>3. \/ /\ Goto("gdb", "continuing") /\ todo' = threads_
           /\ UNCHANGED <<held, active_thread_id_, bridge, commands>>
        \/ /\ commands' = Tail(commands) /\ UNCHANGED <<at, active_thread_id_, bridge, todo>>
           /\ (UNCHANGED held \/ \E t \in Thread : DoContinue(t))
        \/ /\ Goto("gdb", "step") /\ SetActiveThread(Head(commands).thread)
           /\ UNCHANGED <<held, bridge, commands, todo>>
        \/ /\ commands' = Tail(commands) /\ Answers("error")
           /\ UNCHANGED <<at, held, active_thread_id_, todo>>
    BY Zenon, <1>2, <2>1 DEF VContAction, Optional
  <2>4. AtOK'
    BY Zenon, <2>3, Labels, GDBGoto DEF AtOK
  <2>5. LocalsOK'
    BY Zenon, <2>1, <2>2, <2>3 DEF LocalsOK, DebuggerOK, Optional
  <2>6. TargetOK'
    BY Zenon, <2>2, <2>3, TargetCommands DEF TargetOK
  <2>7. DebuggerOK'
    BY Zenon, <2>2, <2>3, ThreadFacts DEF DebuggerOK, SetActiveThread
  <2>8. BridgeOK'
    BY Zenon, <2>2, <2>3, ReplyTypes DEF BridgeOK
  <2> QED  BY Zenon, <2>4, <2>5, <2>6, <2>7, <2>8
<1>3. CASE VContEnd
  BY Zenon, <1>3, Labels, GDBGoto DEF VContEnd, TargetOK, DebuggerOK, BridgeOK, LocalsOK
<1>4. CASE ContinueAll
  <2>1. todo # <<>> => Head(todo) \in Thread /\ Tail(todo) \in Seq(Thread)
    BY Zenon, HeadTail DEF LocalsOK
  <2>2. commands # <<>> => Tail(commands) \in Seq(Command)
    BY Zenon, HeadTail DEF LocalsOK
  <2>3. AtOK'
    BY Zenon, <1>4, Labels, GDBGoto DEF ContinueAll, AtOK
  <2>4. at["gdb"] = "continuing" /\ Head(inbox).type # "D" => commands # <<>>
    BY Zenon, <1>4 DEF ContinueAll, ShapeInv, GDBShape
  <2>5. LocalsOK'
    BY Zenon, <1>4, <2>1, <2>2, <2>4 DEF ContinueAll, LocalsOK
  <2>6. TargetOK'
    BY Zenon, <1>4, <2>1, TargetCommands DEF ContinueAll, TargetOK
  <2> QED  BY Zenon, <1>4, <2>3, <2>5, <2>6 DEF ContinueAll, DebuggerOK, BridgeOK
<1>5. CASE MarkWaitingForStopPacket
  <2>1. poll["gdb"].found \in Optional
    BY Zenon, PollFacts, Labels
  <2>2. AtOK'
    BY Zenon, <1>5, Labels, GDBGoto DEF MarkWaitingForStopPacket
  <2>3. BridgeOK'
    BY Zenon, <1>5, <2>1, ReplyTypes DEF MarkWaitingForStopPacket, BridgeOK, CanReport, Optional
  <2> QED  BY Zenon, <1>5, <2>2, <2>3 DEF MarkWaitingForStopPacket, TargetOK, DebuggerOK, LocalsOK
<1>6. CASE Go
  <2>1. inbox # <<>>
    BY Zenon, <1>6 DEF Go, ShapeInv, GDBShape
  <2>2. Tail(inbox) \in Seq(session.packet)
    BY Zenon, <2>1, HeadTail DEF BridgeOK
  <2>3. AtOK'
    BY Zenon, <1>6, Labels, GDBGoto DEF Go, Handled
  <2>4. BridgeOK'
    BY Zenon, <1>6, <2>2, ReplyTypes DEF Go, Handled, BridgeOK
  <2>5. TargetOK'
    BY Zenon, <1>6, TargetCommands DEF Go, TargetOK
  <2> QED  BY Zenon, <1>6, <2>3, <2>4, <2>5 DEF Go, DebuggerOK, LocalsOK
<1> QED  BY Zenon, <1>1, <1>2, <1>3, <1>4, <1>5, <1>6

\* The steps of a single step keep the types.
LEMMA StepType ==
  ASSUME TypeOK, ShapeInv,
         StepInstruction \/ SetTrapFlag \/ StepContinue \/ StepGo
  PROVE  TypeOK'
<1> USE DEF TypeOK, target, debugger, bridge, gdb, stepping
<1>1. at["gdb"] \in Stepping
  BY Zenon DEF StepInstruction, SetTrapFlag, StepContinue, StepGo, Stepping
<1>2. commands # <<>> /\ Tail(commands) \in Seq(Command)
  BY Zenon, <1>1, HeadTail DEF ShapeInv, GDBShape, LocalsOK
<1>3. ASSUME StepFails PROVE AtOK' /\ commands' \in Seq(Command)
                             /\ waiting_on_stop_packet_' \in BOOLEAN /\ replies' \in Seq(Reply)
  BY Zenon, <1>2, <1>3, Labels, GDBGoto, ReplyTypes DEF StepFails
<1>4. CASE StepInstruction
  <2>1. AtOK' /\ commands' \in Seq(Command)
        /\ waiting_on_stop_packet_' \in BOOLEAN /\ replies' \in Seq(Reply)
    BY Zenon, <1>3, <1>4, Labels, GDBGoto DEF StepInstruction, LocalsOK, BridgeOK
  <2>2. TargetOK'
    BY Zenon, <1>4, TargetCommands DEF StepInstruction, TargetOK
  <2> QED  BY Zenon, <1>4, <2>1, <2>2, ThreadFacts DEF StepInstruction, DebuggerOK, BridgeOK, LocalsOK
<1>5. CASE SetTrapFlag
  <2>1. AtOK' /\ commands' \in Seq(Command)
        /\ waiting_on_stop_packet_' \in BOOLEAN /\ replies' \in Seq(Reply)
    BY Zenon, <1>3, <1>5, Labels, GDBGoto DEF SetTrapFlag, LocalsOK, BridgeOK
  <2> QED  BY Zenon, <1>5, <2>1 DEF SetTrapFlag, TargetOK, DebuggerOK, BridgeOK, LocalsOK
<1>6. CASE StepContinue
  <2>1. AtOK' /\ commands' \in Seq(Command)
        /\ waiting_on_stop_packet_' \in BOOLEAN /\ replies' \in Seq(Reply)
    BY Zenon, <1>3, <1>6, Labels, GDBGoto DEF StepContinue, LocalsOK, BridgeOK
  <2>2. TargetOK'
    BY Zenon, <1>6, TargetCommands DEF StepContinue, TargetOK
  <2> QED  BY Zenon, <1>6, <2>1, <2>2 DEF StepContinue, DebuggerOK, BridgeOK, LocalsOK
<1>7. CASE StepGo
  <2>1. AtOK' /\ commands' \in Seq(Command)
        /\ waiting_on_stop_packet_' \in BOOLEAN /\ replies' \in Seq(Reply)
    BY Zenon, <1>2, <1>3, <1>7, Labels, GDBGoto DEF StepGo, BridgeOK
  <2>2. TargetOK'
    BY Zenon, <1>7, TargetCommands DEF StepGo, TargetOK
  <2> QED  BY Zenon, <1>7, <2>1, <2>2 DEF StepGo, DebuggerOK, BridgeOK, LocalsOK
<1> QED  BY Zenon, <1>4, <1>5, <1>6, <1>7


\* The steps of an interrupt and of ? keep the types.
LEMMA HaltType ==
  ASSUME TypeOK, ShapeInv,
         \/ HandleQueryHaltReason \/ Halt \/ WaitForState \/ WaitForStateTimesOut
         \/ PickHalted \/ AwaitHalted \/ HaltGivesUp \/ StoreHalted \/ GoAfterHalt \/ ReportHalt
         \/ AssertThread
  PROVE  TypeOK'
<1> USE DEF TypeOK, target, debugger, bridge, gdb, stepping
<1>1. inbox # <<>> /\ Tail(inbox) \in Seq(session.packet)
  <2>1. at["gdb"] # "idle"
    BY Zenon DEF HandleQueryHaltReason, Halt, WaitForState, WaitForStateTimesOut, PickHalted,
           AwaitHalted, HaltGivesUp, StoreHalted, GoAfterHalt, ReportHalt, AssertThread
  <2>2. inbox # <<>>
    BY Zenon, <2>1 DEF ShapeInv, GDBShape
  <2> QED  BY Zenon, <2>2, HeadTail DEF BridgeOK
<1>2. poll["gdb"].found \in Optional
  BY Zenon, PollFacts, Labels
<1>3. ASSUME Handled PROVE AtOK' /\ inbox' \in Seq(session.packet)
  BY Zenon, <1>1, <1>3, Labels, GDBGoto DEF Handled
<1>4. \A t : IsStopped(t) \in {"none", "gone", "stopped", "running"}
  BY Zenon DEF IsStopped
<1>5. CASE HandleQueryHaltReason
  <2>1. BridgeOK'
    BY Zenon, <1>2, <1>3, <1>5, ReplyTypes DEF HandleQueryHaltReason, BridgeOK, CanReport, Optional
  <2> QED  BY Zenon, <1>3, <1>5, <2>1 DEF HandleQueryHaltReason, TargetOK, DebuggerOK, LocalsOK
<1>6. CASE Halt
  <2>1. AtOK' /\ TargetOK'
    BY Zenon, <1>6, Labels, GDBGoto, TargetCommands DEF Halt, TargetOK
  <2> QED  BY Zenon, <1>6, <2>1 DEF Halt, DebuggerOK, BridgeOK, LocalsOK
<1>7. CASE WaitForState
  BY Zenon, <1>7, Labels, GDBGoto DEF WaitForState, TargetOK, DebuggerOK, BridgeOK, LocalsOK
<1>8. CASE WaitForStateTimesOut
  <2>1. BridgeOK'
    BY Zenon, <1>3, <1>8, ReplyTypes DEF WaitForStateTimesOut, BridgeOK
  <2> QED  BY Zenon, <1>3, <1>8, <2>1 DEF WaitForStateTimesOut, TargetOK, DebuggerOK, LocalsOK
<1>9. CASE PickHalted
  <2>1. todo # <<>>
    BY Zenon, <1>9 DEF PickHalted, ShapeInv, GDBShape, Polling
  <2>2. Head(todo) \in Thread
    BY Zenon, <2>1, HeadTail DEF LocalsOK
  <2>3. thread' \in Optional /\ active_thread_id_' \in Optional
    BY Zenon, <1>2, <1>9, <2>2, ThreadFacts DEF PickHalted, SetActiveThread, Optional
  <2>4. AtOK'
    BY Zenon, <1>9, Labels, GDBGoto DEF PickHalted
  <2> QED  BY Zenon, <1>9, <2>3, <2>4 DEF PickHalted, TargetOK, DebuggerOK, BridgeOK, LocalsOK
<1>10. CASE AwaitHalted
  <2>1. AtOK'
    BY Zenon, <1>10, Labels, GDBGoto DEF AwaitHalted
  <2>2. poll' \in [Executor -> Poll]
    <3>1. PICK x \in {"none", "gone", "stopped", "running"} :
            UNCHANGED poll \/ poll' = [poll EXCEPT !["gdb"].answer = x]
      BY Zenon, <1>4, <1>10 DEF AwaitHalted
    <3> QED  BY Zenon, <3>1, Labels DEF LocalsOK, Poll
  <2> QED  BY Zenon, <1>10, <2>1, <2>2 DEF AwaitHalted, TargetOK, DebuggerOK, BridgeOK, LocalsOK
<1>11. CASE HaltGivesUp
  <2>1. BridgeOK'
    BY Zenon, <1>3, <1>11, ReplyTypes DEF HaltGivesUp, BridgeOK
  <2> QED  BY Zenon, <1>3, <1>11, <2>1 DEF HaltGivesUp, TargetOK, DebuggerOK, LocalsOK
<1>12. CASE StoreHalted
  <2>1. AtOK'
    BY Zenon, <1>12, Labels, GDBGoto DEF StoreHalted
  <2>2. poll' \in [Executor -> Poll]
    BY Zenon, <1>12, Labels DEF StoreHalted, LocalsOK, Poll
  <2>3. DebuggerOK' /\ raced' \in BOOLEAN
    BY Zenon, <1>12 DEF StoreHalted, StoreStopReason, StaleAnswer, DebuggerOK, BridgeOK
  <2> QED  BY Zenon, <1>12, <2>1, <2>2, <2>3 DEF StoreHalted, TargetOK, BridgeOK, LocalsOK
<1>13. CASE GoAfterHalt
  <2>1. AtOK' /\ TargetOK'
    BY Zenon, <1>13, Labels, GDBGoto, TargetCommands DEF GoAfterHalt, TargetOK
  <2> QED  BY Zenon, <1>13, <2>1 DEF GoAfterHalt, DebuggerOK, BridgeOK, LocalsOK
<1>14. CASE ReportHalt
  <2>1. BridgeOK'
    BY Zenon, <1>3, <1>14, ThreadFacts, ReplyTypes DEF ReportHalt, BridgeOK, CanReport, Optional
  <2> QED  BY Zenon, <1>3, <1>14, <2>1 DEF ReportHalt, TargetOK, DebuggerOK, LocalsOK
<1>15. CASE AssertThread
  <2>1. AtOK'
    BY Zenon, <1>15, Labels, GDBGoto DEF AssertThread
  <2> QED  BY Zenon, <1>15, <2>1 DEF AssertThread, TargetOK, DebuggerOK, BridgeOK, LocalsOK
<1> QED
  BY Zenon, <1>5, <1>6, <1>7, <1>8, <1>9, <1>10, <1>11, <1>12, <1>13, <1>14, <1>15

\* GetFirstStoppedThread keeps the types, on either executor.
LEMMA PollType ==
  ASSUME TypeOK, ShapeInv, NEW e \in Executor,
         CopyThreads(e) \/ PreferActive(e) \/ AskNext(e) \/ StoreNext(e)
  PROVE  TypeOK'
<1> USE DEF TypeOK, target, debugger, bridge, gdb, stepping
<1>1. \A l \in {"copy", "active", "ask", "store", "polled"} : l \in Polling
  BY Zenon DEF Polling
<1>2. \A t : IsStopped(t) \in {"none", "gone", "stopped", "running"}
  BY Zenon DEF IsStopped
<1>3. NoPoll \in Poll /\ None \in Optional
  BY DEF NoPoll, Poll, Optional
<1>4. CASE CopyThreads(e)
  <2>1. AtOK'
    BY Zenon, <1>1, <1>4, PollGoto DEF CopyThreads
  <2>2. poll' \in [Executor -> Poll]
    BY Zenon, <1>3, <1>4 DEF CopyThreads, LocalsOK, DebuggerOK, Poll
  <2> QED  BY Zenon, <1>4, <2>1, <2>2 DEF CopyThreads, TargetOK, DebuggerOK, BridgeOK, LocalsOK
<1>5. CASE PreferActive(e)
  <2>1. AtOK'
    BY Zenon, <1>1, <1>5, PollGoto DEF PreferActive
  <2>2. PICK others \in Seq(Thread) : others = Erase(poll[e].queue, poll[e].skip)
    BY Zenon, PollFacts, Erased
  <2>3. ActiveThread # None => <<ActiveThread>> \o others \in Seq(Thread)
    BY Zenon, ThreadFacts, Preferred DEF Optional
  <2>4. poll' \in [Executor -> Poll]
    BY Zenon, <1>5, <2>2, <2>3 DEF PreferActive, LocalsOK, Poll
  <2> QED  BY Zenon, <1>5, <2>1, <2>4 DEF PreferActive, TargetOK, DebuggerOK, BridgeOK, LocalsOK
<1>6. CASE AskNext(e)
  <2>1. AtOK'
    BY Zenon, <1>1, <1>6, PollGoto DEF AskNext
  <2>2. poll' \in [Executor -> Poll]
    BY ZenonT(60), <1>2, <1>6 DEF AskNext, LocalsOK, Poll
  <2> QED  BY Zenon, <1>6, <2>1, <2>2 DEF AskNext, TargetOK, DebuggerOK, BridgeOK, LocalsOK
<1>7. CASE StoreNext(e)
  <2>1. AtOK'
    BY Zenon, <1>1, <1>7, PollGoto DEF StoreNext
  <2>2. poll[e].queue # <<>>
    BY Zenon, <1>7 DEF StoreNext, ShapeInv, PollShape
  <2>3. Head(poll[e].queue) \in Thread /\ Tail(poll[e].queue) \in Seq(Thread)
    BY Zenon, <2>2, PollFacts, HeadTail
  <2>4. poll' \in [Executor -> Poll]
    <3>1. [NoPoll EXCEPT !.found = Head(poll[e].queue)] \in Poll
      BY Zenon, <1>3, <2>3 DEF Poll, Optional
    <3>2. \/ poll' = [poll EXCEPT ![e] = [NoPoll EXCEPT !.found = Head(poll[e].queue)]]
          \/ poll' = [poll EXCEPT ![e].queue = Tail(@), ![e].answer = "none"]
      BY Zenon, <1>7 DEF StoreNext
    <3>3. CASE poll' = [poll EXCEPT ![e] = [NoPoll EXCEPT !.found = Head(poll[e].queue)]]
      BY Zenon, <3>1, <3>3 DEF LocalsOK
    <3>4. CASE poll' = [poll EXCEPT ![e].queue = Tail(@), ![e].answer = "none"]
      BY Zenon, <2>3, <3>4 DEF LocalsOK, Poll
    <3> QED  BY Zenon, <3>2, <3>3, <3>4
  <2>5. DebuggerOK' /\ raced' \in BOOLEAN
    BY Zenon, <1>7, <2>3 DEF StoreNext, StoreStopReason, StaleAnswer, DebuggerOK, BridgeOK
  <2> QED  BY Zenon, <1>7, <2>1, <2>4, <2>5 DEF StoreNext, TargetOK, BridgeOK, LocalsOK
<1> QED  BY Zenon, <1>4, <1>5, <1>6, <1>7


\* A notification that has been handled leaves the queue.
LEMMA DispatchedFacts ==
  ASSUME TargetOK, AtOK, notes # <<>>, Dispatched
  PROVE  /\ AtOK' /\ at'["notification"] = "idle" /\ at'["gdb"] = at["gdb"]
         /\ notes' = Tail(notes) /\ notes' \in Seq(Note) /\ Members(notes') \subseteq Members(notes)
BY Zenon, Labels, NoteGoto, HeadTail DEF Dispatched, TargetOK

\* The notification handlers of the debugger and of the bridge keep the types.
LEMMA HandlerType ==
  ASSUME TypeOK, ShapeInv,
         \/ OnExecutionStateChanged \/ ActivateStopped \/ OnThreadCreated \/ OnThreadTerminated
         \/ OnStop \/ FetchStopReason \/ StoreAndJudge \/ IgnoreContinue \/ IgnoreGo
         \/ BridgeChecks \/ BridgeReports
  PROVE  TypeOK'
<1> USE DEF TypeOK, target, debugger, bridge, gdb, stepping
<1>1. notes # <<>>
  <2>1. at["notification"] # "idle" \/ notes # <<>>
    BY Zenon DEF OnExecutionStateChanged, ActivateStopped, OnThreadCreated, OnThreadTerminated, OnStop,
           FetchStopReason, StoreAndJudge, IgnoreContinue, IgnoreGo, BridgeChecks, BridgeReports
  <2> QED  BY Zenon, <2>1 DEF ShapeInv, NoteShape
<1>2. at["notification"] \in Judging => Head(notes).thread \in Thread
  BY Zenon, <1>1, HeadNote DEF ShapeInv, NoteShape
<1>3. \A t : IsStopped(t) \in {"none", "gone", "stopped", "running"}
  BY Zenon DEF IsStopped
<1>4. CASE OnExecutionStateChanged
  <2>1. AtOK' /\ notes' \in Seq(Note)
    BY Zenon, <1>1, <1>4, DispatchedFacts, Labels, NoteGoto DEF OnExecutionStateChanged, TargetOK
  <2> QED
    BY Zenon, <1>4, <2>1 DEF OnExecutionStateChanged, TargetOK, DebuggerOK, BridgeOK, LocalsOK
<1>5. CASE ActivateStopped
  <2>1. AtOK' /\ DebuggerOK'
    BY Zenon, <1>5, Labels, NoteGoto, ThreadFacts DEF ActivateStopped, DebuggerOK, SetActiveThread
  <2> QED  BY Zenon, <1>5, <2>1 DEF ActivateStopped, TargetOK, BridgeOK, LocalsOK
<1>6. CASE OnThreadCreated
  <2>1. AtOK' /\ notes' \in Seq(Note)
    BY Zenon, <1>1, <1>6, DispatchedFacts DEF OnThreadCreated
  <2>2. Head(notes).thread \in Thread
    BY Zenon, <1>1, <1>6, HeadNote DEF OnThreadCreated
  <2>3. threads_' \in Seq(Thread)
    BY Zenon, <1>6, <2>2, Appended DEF OnThreadCreated, DebuggerOK
  <2> QED  BY Zenon, <1>6, <2>1, <2>3 DEF OnThreadCreated, TargetOK, DebuggerOK, BridgeOK, LocalsOK
<1>7. CASE OnThreadTerminated
  <2>1. AtOK' /\ notes' \in Seq(Note)
    BY Zenon, <1>1, <1>7, DispatchedFacts DEF OnThreadTerminated
  <2>2. /\ threads_' = Erase(threads_, Head(notes).thread)
        /\ active_thread_id_' \in {None, active_thread_id_}
    BY Zenon, <1>7 DEF OnThreadTerminated
  <2>3. threads_' \in Seq(Thread) /\ active_thread_id_' \in Optional
    BY Zenon, <2>2, Erased DEF DebuggerOK, Optional
  <2> QED  BY Zenon, <1>7, <2>1, <2>3 DEF OnThreadTerminated, TargetOK, DebuggerOK, BridgeOK, LocalsOK
<1>8. CASE OnStop
  <2>1. AtOK' /\ DebuggerOK'
    BY Zenon, <1>8, Labels, NoteGoto, ThreadFacts DEF OnStop, DebuggerOK, SetActiveThread
  <2> QED  BY Zenon, <1>8, <2>1 DEF OnStop, TargetOK, BridgeOK, LocalsOK
<1>9. CASE FetchStopReason
  <2>1. AtOK'
    BY Zenon, <1>9, Labels, NoteGoto DEF FetchStopReason
  <2>2. PICK x \in {"none", "gone", "stopped", "running"} :
          poll' = [poll EXCEPT !["notification"].answer = x]
    BY Zenon, <1>3, <1>9 DEF FetchStopReason
  <2>3. poll' \in [Executor -> Poll]
    BY Zenon, <2>2, Labels DEF LocalsOK, Poll
  <2> QED  BY Zenon, <1>9, <2>1, <2>3 DEF FetchStopReason, TargetOK, DebuggerOK, BridgeOK, LocalsOK
<1>10. CASE StoreAndJudge
  <2>1. AtOK'
    BY Zenon, <1>10, Labels, NoteGoto DEF StoreAndJudge
  <2>2. poll' \in [Executor -> Poll]
    BY ZenonT(40), <1>10, Labels DEF StoreAndJudge, LocalsOK, Poll
  <2>3. DebuggerOK' /\ raced' \in BOOLEAN
    BY Zenon, <1>10 DEF StoreAndJudge, StoreStopReason, StaleAnswer, DebuggerOK, BridgeOK
  <2> QED  BY Zenon, <1>10, <2>1, <2>2, <2>3 DEF StoreAndJudge, TargetOK, BridgeOK, LocalsOK
<1>11. CASE IgnoreContinue
  <2>1. AtOK' /\ held' \in [Thread -> BOOLEAN]
    BY Zenon, <1>2, <1>11, Labels, NoteGoto, TargetCommands
    DEF IgnoreContinue, TargetOK, Judging
  <2> QED  BY Zenon, <1>11, <2>1 DEF IgnoreContinue, TargetOK, DebuggerOK, BridgeOK, LocalsOK
<1>12. CASE IgnoreGo
  <2>1. AtOK' /\ TargetOK'
    BY Zenon, <1>12, Labels, NoteGoto, TargetCommands DEF IgnoreGo, TargetOK
  <2> QED  BY Zenon, <1>12, <2>1 DEF IgnoreGo, DebuggerOK, BridgeOK, LocalsOK
<1>13. CASE BridgeChecks
  <2>1. AtOK' /\ notes' \in Seq(Note)
    BY Zenon, <1>1, <1>13, DispatchedFacts, Labels, NoteGoto DEF BridgeChecks, TargetOK
  <2> QED  BY Zenon, <1>13, <2>1 DEF BridgeChecks, TargetOK, DebuggerOK, BridgeOK, LocalsOK
<1>14. CASE BridgeReports
  <2>1. AtOK' /\ notes' \in Seq(Note)
    BY Zenon, <1>1, <1>14, DispatchedFacts DEF BridgeReports
  <2>2. BridgeOK'
    BY Zenon, <1>14, ThreadFacts, ReplyTypes DEF BridgeReports, BridgeOK, CanReport, Optional
  <2> QED  BY Zenon, <1>14, <2>1, <2>2 DEF BridgeReports, TargetOK, DebuggerOK, LocalsOK
<1> QED
  BY Zenon, <1>4, <1>5, <1>6, <1>7, <1>8, <1>9, <1>10, <1>11, <1>12, <1>13, <1>14

\* Every step keeps the types.
LEMMA NextType ==
  ASSUME TypeOK, ShapeInv, Next
  PROVE  TypeOK'
<1>1. CASE Title
  BY Zenon, <1>1, TitleType DEF Title
<1>2. CASE Receive \/ \E p \in session.packet : SendPacket(p)
  BY Zenon, <1>2, ClientType
<1>3. CASE GDBExecutor
  BY Zenon, <1>3, VContType, StepType, HaltType, PollType, Labels DEF GDBExecutor
<1>4. CASE NotificationExecutor
  BY Zenon, <1>4, HandlerType, PollType, Labels DEF NotificationExecutor
<1> QED  BY Zenon, <1>1, <1>2, <1>3, <1>4 DEF Next


----------------------------------------------------------------------------
(* What an executor leaves alone                                           *)

\* What the notification executor relies on while it handles a notification.
NoteFrame ==
  /\ at'["notification"] = at["notification"] /\ poll'["notification"] = poll["notification"]
  /\ notes # <<>> => notes' # <<>> /\ Head(notes') = Head(notes)
  /\ UNCHANGED threads_

\* What the GDB executor relies on while it handles a packet.
GDBFrame ==
  /\ at'["gdb"] = at["gdb"] /\ poll'["gdb"] = poll["gdb"]
  /\ UNCHANGED <<inbox, stepping, gdb>>

\* A command of the GDB executor only adds notifications.
LEMMA CommandNotes ==
  ASSUME TargetOK, DoGo \/ DoStop
  PROVE  notes # <<>> => notes' # <<>> /\ Head(notes') = Head(notes)
BY NotesExist, Appended DEF TargetOK, DoGo, DoStop

\* Nobody else moves the notification executor or takes its notification.
LEMMA OthersFrame ==
  ASSUME TypeOK,
         Title \/ Receive \/ (\E p \in session.packet : SendPacket(p)) \/ GDBExecutor
  PROVE  NoteFrame
<1> USE DEF TypeOK, target, debugger, NoteFrame
<1>1. CASE Title
  <2>1. PICK t \in Thread : Hit(t) \/ Create(t) \/ Terminate(t)
    BY Zenon, <1>1 DEF Title
  <2>2. CASE Hit(t)
    <3>1. PICK m, n \in Note : notes' = notes \o <<m, n>>
      BY Zenon, <2>2, NotesExist DEF Hit
    <3>2. notes # <<>> => notes' # <<>> /\ Head(notes') = Head(notes)
      BY SMTT(30), <3>1, ConcatProperties DEF TargetOK
    <3> QED  BY Zenon, <2>2, <3>2 DEF Hit
  <2>3. CASE Create(t)
    BY <2>3, NotesExist, Appended DEF Create, TargetOK
  <2>4. CASE Terminate(t)
    BY <2>4, NotesExist, Appended DEF Terminate, TargetOK
  <2> QED  BY Zenon, <2>1, <2>2, <2>3, <2>4
<1>2. CASE Receive \/ \E p \in session.packet : SendPacket(p)
  BY Zenon, <1>2 DEF Receive, SendPacket
<1>3. ASSUME NEW l, Goto("gdb", l) PROVE at'["notification"] = at["notification"]
  BY Zenon, <1>3 DEF Goto, AtOK, Executor
<1>4. CASE HandlePacket
  BY Zenon, <1>3, <1>4 DEF HandlePacket
<1>5. CASE VContAction
  <2>1. UNCHANGED <<notes, poll, threads_>>
    BY Zenon, <1>5 DEF VContAction
  <2>2. UNCHANGED at \/ Goto("gdb", "continuing") \/ Goto("gdb", "step")
    <3>1. commands # <<>>
      BY Zenon, <1>5 DEF VContAction
    <3>2. Head(commands) \in Command
      BY Zenon, <3>1, HeadTail DEF LocalsOK
    <3>3. Head(commands).code \in {"c", "s"}
      BY Zenon, <3>2 DEF Command
    <3> QED  BY Zenon, <1>5, <3>3 DEF VContAction
  <2> QED  BY Zenon, <1>3, <2>1, <2>2
<1>6. CASE VContEnd \/ ContinueAll
  BY Zenon, <1>3, <1>6 DEF VContEnd, ContinueAll
<1>7. CASE StepInstruction
  BY Zenon, <1>3, <1>7, CommandNotes DEF StepInstruction, StepFails
<1>8. CASE SetTrapFlag
  BY Zenon, <1>3, <1>8 DEF SetTrapFlag, StepFails
<1>9. CASE StepContinue
  BY Zenon, <1>3, <1>9 DEF StepContinue, StepFails
<1>10. CASE StepGo
  BY Zenon, <1>3, <1>10, CommandNotes DEF StepGo, StepFails
<1>11. CASE MarkWaitingForStopPacket \/ HandleQueryHaltReason
  BY Zenon, <1>3, <1>11 DEF MarkWaitingForStopPacket, HandleQueryHaltReason, Handled
<1>12. CASE Go
  BY Zenon, <1>3, <1>12, CommandNotes DEF Go, Handled
<1>13. CASE Halt
  BY Zenon, <1>3, <1>13, CommandNotes DEF Halt, DoHalt
<1>14. CASE WaitForState \/ WaitForStateTimesOut \/ PickHalted
  BY Zenon, <1>3, <1>14 DEF WaitForState, WaitForStateTimesOut, PickHalted, Handled
<1>15. CASE AwaitHalted \/ HaltGivesUp \/ StoreHalted
  BY Zenon, <1>3, <1>15 DEF AwaitHalted, HaltGivesUp, StoreHalted, Handled, LocalsOK, Executor
<1>16. CASE GoAfterHalt
  BY Zenon, <1>3, <1>16, CommandNotes DEF GoAfterHalt
<1>17. CASE ReportHalt \/ AssertThread
  BY Zenon, <1>3, <1>17 DEF ReportHalt, AssertThread, Handled
<1>18. CASE CopyThreads("gdb") \/ PreferActive("gdb") \/ AskNext("gdb") \/ StoreNext("gdb")
  BY Zenon, <1>3, <1>18 DEF CopyThreads, PreferActive, AskNext, StoreNext, LocalsOK, Executor
<1> QED
  BY Zenon, <1>1, <1>2, <1>4, <1>5, <1>6, <1>7, <1>8, <1>9, <1>10, <1>11, <1>12, <1>13, <1>14, <1>15,
     <1>16, <1>17, <1>18 DEF GDBExecutor

\* Nor does the title or the notification executor move the GDB executor.
LEMMA HandlersFrame ==
  ASSUME TypeOK, Title \/ NotificationExecutor
  PROVE  GDBFrame
<1> USE DEF TypeOK, GDBFrame, stepping, gdb
<1>1. CASE Title
  BY Zenon, <1>1 DEF Title, Hit, Create, Terminate
<1>2. ASSUME NEW l, Goto("notification", l) PROVE at'["gdb"] = at["gdb"]
  BY Zenon, <1>2 DEF Goto, AtOK, Executor
<1>3. CASE OnExecutionStateChanged \/ ActivateStopped \/ OnThreadCreated \/ OnThreadTerminated
  BY Zenon, <1>2, <1>3
  DEF OnExecutionStateChanged, ActivateStopped, OnThreadCreated, OnThreadTerminated, Dispatched
<1>4. CASE OnStop \/ FetchStopReason \/ StoreAndJudge
  BY Zenon, <1>2, <1>4 DEF OnStop, FetchStopReason, StoreAndJudge, LocalsOK, Executor
<1>5. CASE IgnoreContinue \/ IgnoreGo
  BY Zenon, <1>2, <1>5 DEF IgnoreContinue, IgnoreGo
<1>6. CASE BridgeChecks \/ BridgeReports
  BY Zenon, <1>2, <1>6 DEF BridgeChecks, BridgeReports, Dispatched
<1>7. CASE \/ CopyThreads("notification") \/ PreferActive("notification")
           \/ AskNext("notification") \/ StoreNext("notification")
  BY Zenon, <1>2, <1>7 DEF CopyThreads, PreferActive, AskNext, StoreNext, LocalsOK, Executor
<1> QED
  BY Zenon, <1>1, <1>3, <1>4, <1>5, <1>6, <1>7 DEF NotificationExecutor


----------------------------------------------------------------------------
(* The shape of the calls                                                  *)

\* The labels of each kind.
LEMMA Kinds ==
  /\ "idle" \notin Polling \cup Stepping \cup Halting \cup Halted \cup {"vCont", "continuing"}
  /\ Polling \cap (Stepping \cup Halting \cup Halted \cup {"vCont", "continuing", "go"}) = {}
  /\ Stepping \cap (Halting \cup Halted \cup {"vCont", "continuing", "go"}) = {}
  /\ Halting \cap (Halted \cup {"vCont", "continuing", "go"}) = {}
  /\ Halted \cap {"vCont", "continuing", "go"} = {}
  /\ Judging \cap (Polling \cup {"idle", "check", "send"}) = {}
BY Zenon DEF Polling, Stepping, Halting, Halted, Judging

\* vCont and the first step of every packet leave the locals in shape.
LEMMA VContShape ==
  ASSUME TypeOK, GDBShape,
         \/ HandlePacket \/ VContAction \/ VContEnd \/ ContinueAll
         \/ MarkWaitingForStopPacket \/ Go
  PROVE  GDBShape'
<1> USE DEF TypeOK, GDBShape
<1>1. CASE HandlePacket
  <2>1. UNCHANGED inbox /\ inbox # <<>> /\ commands' = Head(inbox).commands /\ todo' = threads_
    BY Zenon, <1>1 DEF HandlePacket
  <2>2. Head(inbox).type \in {"vCont", "?", "interrupt", "D"}
    BY Zenon, <2>1, HeadPacket
  <2>3. at'["gdb"] = CASE Head(inbox).type = "vCont" -> "vCont"
                       [] Head(inbox).type = "?" -> "copy"
                       [] Head(inbox).type = "D" -> "continuing"
                       [] Head(inbox).type = "interrupt" ->
                            IF threads_ = <<>> THEN "halted" ELSE "halt"
    BY Zenon, <1>1, GotoFacts, Labels DEF HandlePacket, AtOK
  <2> QED  BY Zenon, <2>1, <2>2, <2>3 DEF Polling, Stepping, Halting, Halted
<1>2. CASE VContAction
  <2>1. at["gdb"] = "vCont" /\ commands # <<>> /\ UNCHANGED <<inbox, thread>>
    BY Zenon, <1>2 DEF VContAction
  <2>2. Head(commands) \in Command
    BY Zenon, <2>1, HeadTail DEF LocalsOK
  <2>3. Head(commands).code \in {"c", "s"}
    BY Zenon, <2>2 DEF Command
  <2>4. \/ UNCHANGED at
        \/ (Goto("gdb", "continuing") \/ Goto("gdb", "step")) /\ UNCHANGED commands
    BY Zenon, <1>2, <2>3 DEF VContAction
  <2>5. at'["gdb"] = "vCont" \/ (at'["gdb"] \in {"continuing", "step"} /\ UNCHANGED commands)
    BY Zenon, <2>1, <2>4, GDBGoto, Labels
  <2> QED  BY Zenon, <2>1, <2>5 DEF Polling, Stepping, Halting, Halted
<1>3. CASE VContEnd
  <2>1. at'["gdb"] = "copy" /\ at["gdb"] = "vCont" /\ UNCHANGED <<inbox, commands, thread, todo>>
    BY Zenon, <1>3, GDBGoto, Labels DEF VContEnd, stepping
  <2> QED  BY Zenon, <2>1 DEF Polling, Stepping, Halting, Halted
<1>4. CASE ContinueAll
  <2>1. at["gdb"] = "continuing" /\ UNCHANGED <<inbox, thread>>
    BY Zenon, <1>4 DEF ContinueAll
  <2>2. \/ UNCHANGED <<at, commands>>
        \/ at'["gdb"] = "go" /\ Head(inbox).type = "D"
        \/ at'["gdb"] = "vCont" /\ Head(inbox).type # "D"
    BY Zenon, <1>4, GDBGoto, Labels DEF ContinueAll
  <2> QED  BY Zenon, <2>1, <2>2 DEF Polling, Stepping, Halting, Halted
<1>5. CASE MarkWaitingForStopPacket
  <2>1. /\ at'["gdb"] = "go" /\ at["gdb"] = "polled" /\ Head(inbox).type = "vCont"
        /\ UNCHANGED inbox
    BY Zenon, <1>5, GDBGoto, Labels DEF MarkWaitingForStopPacket
  <2> QED  BY Zenon, <2>1 DEF Polling, Stepping, Halting, Halted
<1>6. CASE Go
  <2>1. at'["gdb"] = "idle"
    BY Zenon, <1>6, GDBGoto, Labels DEF Go, Handled
  <2> QED  BY Zenon, <2>1 DEF Polling, Stepping, Halting, Halted
<1> QED  BY Zenon, <1>1, <1>2, <1>3, <1>4, <1>5, <1>6

\* So do the steps of a single step.
LEMMA StepShape ==
  ASSUME TypeOK, GDBShape,
         StepInstruction \/ SetTrapFlag \/ StepContinue \/ StepGo
  PROVE  GDBShape'
<1> USE DEF TypeOK, GDBShape
<1>1. at["gdb"] \in Stepping /\ UNCHANGED inbox
  BY Zenon DEF StepInstruction, SetTrapFlag, StepContinue, StepGo, Stepping
<1>2. inbox # <<>> /\ Head(inbox).type = "vCont" /\ commands # <<>>
  BY Zenon, <1>1, Kinds
<1>3. StepFails => at'["gdb"] = "vCont"
  BY Zenon, GDBGoto, Labels DEF StepFails
<1>4. CASE StepInstruction
  <2>1. at'["gdb"] = "vCont" \/ (at'["gdb"] = "trap" /\ thread' # None /\ UNCHANGED commands)
    BY Zenon, <1>3, <1>4, GDBGoto, Labels DEF StepInstruction
  <2> QED  BY Zenon, <1>1, <1>2, <2>1 DEF Polling, Stepping, Halting, Halted
<1>5. CASE SetTrapFlag \/ StepContinue
  <2>1. at["gdb"] \in {"trap", "resume"} /\ UNCHANGED thread
    BY Zenon, <1>5 DEF SetTrapFlag, StepContinue
  <2>2. at'["gdb"] = "vCont" \/ (at'["gdb"] \in {"resume", "stepped"} /\ UNCHANGED commands)
    BY Zenon, <1>3, <1>5, GDBGoto, Labels DEF SetTrapFlag, StepContinue
  <2> QED  BY Zenon, <1>1, <1>2, <2>1, <2>2 DEF Polling, Stepping, Halting, Halted
<1>6. CASE StepGo
  <2>1. at'["gdb"] = "vCont"
    BY Zenon, <1>3, <1>6, GDBGoto, Labels DEF StepGo
  <2> QED  BY Zenon, <1>1, <1>2, <2>1 DEF Polling, Stepping, Halting, Halted
<1> QED  BY Zenon, <1>4, <1>5, <1>6

\* So do the steps of an interrupt and of ?.
LEMMA HaltShape ==
  ASSUME TypeOK, GDBShape,
         \/ HandleQueryHaltReason \/ Halt \/ WaitForState \/ WaitForStateTimesOut
         \/ PickHalted \/ AwaitHalted \/ HaltGivesUp \/ StoreHalted \/ GoAfterHalt \/ ReportHalt
         \/ AssertThread
  PROVE  GDBShape'
<1> USE DEF TypeOK, GDBShape
<1>1. CASE HandleQueryHaltReason \/ WaitForStateTimesOut \/ HaltGivesUp \/ ReportHalt
  <2>1. at'["gdb"] = "idle"
    BY Zenon, <1>1, GDBGoto, Labels
    DEF HandleQueryHaltReason, WaitForStateTimesOut, HaltGivesUp, ReportHalt, Handled
  <2> QED  BY Zenon, <2>1 DEF Polling, Stepping, Halting, Halted
<1>2. CASE Halt \/ WaitForState
  <2>1. at["gdb"] \in Halting /\ at'["gdb"] \in {"await", "copy"} /\ UNCHANGED <<inbox, todo>>
    BY Zenon, <1>2, GDBGoto, Labels DEF Halt, WaitForState, Halting, stepping
  <2> QED  BY Zenon, <2>1, Kinds DEF Polling, Stepping, Halting, Halted
<1>3. CASE PickHalted
  <2>1. /\ at["gdb"] = "polled" /\ at'["gdb"] = "wait" /\ UNCHANGED inbox
        /\ Head(inbox).type = "interrupt"
    BY Zenon, <1>3, GDBGoto, Labels DEF PickHalted
  <2>2. todo # <<>>
    BY Zenon, <2>1 DEF Polling
  <2>3. Head(todo) \in Thread
    BY Zenon, <2>2, HeadTail DEF LocalsOK
  <2>4. thread' # None
    BY Zenon, <1>3, <2>3, StopReplyAssumption DEF PickHalted
  <2> QED  BY Zenon, <2>1, <2>4 DEF Polling, Stepping, Halting, Halted
<1>4. CASE AwaitHalted \/ StoreHalted \/ GoAfterHalt \/ AssertThread
  <2>1. /\ at["gdb"] \in {"wait", "waited", "halted", "report"} /\ UNCHANGED <<inbox, thread>>
        /\ at'["gdb"] \in {"wait", "waited", "halted", "report", "aborted"}
        /\ at'["gdb"] \in {"wait", "waited"} => at["gdb"] \in {"wait", "waited"}
    BY Zenon, <1>4, GDBGoto, Labels DEF AwaitHalted, StoreHalted, GoAfterHalt, AssertThread, stepping
  <2> QED  BY Zenon, <2>1 DEF Polling, Stepping, Halting, Halted
<1> QED  BY Zenon, <1>1, <1>2, <1>3, <1>4

\* Every step leaves the locals of the GDB executor in shape.
LEMMA NextGDBShape ==
  ASSUME TypeOK, GDBShape, Next
  PROVE  GDBShape'
<1>1. CASE GDBFrame
  BY Zenon, <1>1 DEF GDBFrame, GDBShape, stepping
<1>2. CASE Receive
  BY Zenon, <1>2 DEF Receive, GDBShape, stepping
<1>3. ASSUME NEW p \in session.packet, SendPacket(p) PROVE GDBShape'
  <2>1. inbox' # <<>> /\ (inbox # <<>> => Head(inbox') = Head(inbox))
    BY <1>3, Appended DEF SendPacket, TypeOK, BridgeOK
  <2>2. UNCHANGED <<at, commands, thread, todo>>
    BY Zenon, <1>3 DEF SendPacket, stepping
  <2> QED  BY Zenon, <2>1, <2>2 DEF GDBShape, Polling, Stepping, Halting, Halted
<1>4. CASE CopyThreads("gdb") \/ PreferActive("gdb") \/ AskNext("gdb") \/ StoreNext("gdb")
  <2>1. at["gdb"] \in Polling /\ UNCHANGED <<inbox, commands, thread, todo>>
    BY Zenon, <1>4 DEF CopyThreads, PreferActive, AskNext, StoreNext, Polling, stepping
  <2>2. at'["gdb"] \in Polling
    <3>1. PICK l \in {"active", "ask", "store", "polled"} : Goto("gdb", l)
      BY Zenon, <1>4 DEF CopyThreads, PreferActive, AskNext, StoreNext
    <3> QED  BY Zenon, <3>1, GDBGoto, Labels DEF TypeOK, Polling
  <2> QED  BY Zenon, <2>1, <2>2, Kinds DEF GDBShape, Stepping, Halting, Halted
<1> QED
  BY Zenon, <1>1, <1>2, <1>3, <1>4, HandlersFrame, VContShape, StepShape, HaltShape
  DEF Next, GDBExecutor


\* Every step leaves a notification in the queue while it is being handled.
LEMMA NextNoteShape ==
  ASSUME TypeOK, NoteShape, Next
  PROVE  NoteShape'
<1> USE DEF TypeOK, NoteShape
<1>1. CASE NoteFrame
  BY Zenon, <1>1, Kinds DEF NoteFrame
<1>2. ASSUME NEW l \in NoteLabel, Goto("notification", l), UNCHANGED notes, notes # <<>>,
             l \in Judging => Head(notes).type \in {"break", "step"}
      PROVE  NoteShape'
  BY Zenon, <1>2, NoteGoto
<1>3. CASE Dispatched /\ notes # <<>>
  BY Zenon, <1>3, DispatchedFacts, Kinds
<1>4. CASE OnExecutionStateChanged
  BY Zenon, <1>2, <1>3, <1>4, Labels, Kinds DEF OnExecutionStateChanged, Polling
<1>5. CASE ActivateStopped
  BY Zenon, <1>2, <1>5, Labels, Kinds DEF ActivateStopped, target
<1>6. CASE OnThreadCreated \/ OnThreadTerminated
  BY Zenon, <1>3, <1>6 DEF OnThreadCreated, OnThreadTerminated
<1>7. CASE OnStop
  BY Zenon, <1>2, <1>7, Labels DEF OnStop, target
<1>8. CASE FetchStopReason
  BY Zenon, <1>2, <1>8, Labels DEF FetchStopReason, target, Judging
<1>9. CASE StoreAndJudge
  BY Zenon, <1>2, <1>9, Labels DEF StoreAndJudge, target, Judging
<1>10. CASE IgnoreContinue
  BY Zenon, <1>2, <1>10, Labels DEF IgnoreContinue, Judging
<1>11. CASE IgnoreGo
  <2>1. at["notification"] = "regardless" /\ at'["notification"] = "check" /\ DoGo
    BY Zenon, <1>11, NoteGoto, Labels DEF IgnoreGo
  <2>2. notes # <<>> => notes' # <<>>
    BY Zenon, <2>1, CommandNotes
  <2> QED  BY Zenon, <2>1, <2>2, Kinds
<1>12. CASE BridgeChecks
  BY Zenon, <1>2, <1>3, <1>12, Labels, Kinds DEF BridgeChecks
<1>13. CASE BridgeReports
  BY Zenon, <1>3, <1>13 DEF BridgeReports
<1>14. CASE \/ CopyThreads("notification") \/ PreferActive("notification")
            \/ AskNext("notification") \/ StoreNext("notification")
  <2>1. PICK l \in {"active", "ask", "store", "polled"} : Goto("notification", l)
    BY Zenon, <1>14 DEF CopyThreads, PreferActive, AskNext, StoreNext
  <2>2. UNCHANGED notes /\ at["notification"] # "idle"
    BY Zenon, <1>14 DEF CopyThreads, PreferActive, AskNext, StoreNext, target
  <2> QED  BY Zenon, <1>2, <2>1, <2>2, Labels, Kinds DEF Polling
<1> QED
  BY Zenon, <1>1, <1>4, <1>5, <1>6, <1>7, <1>8, <1>9, <1>10, <1>11, <1>12, <1>13, <1>14, OthersFrame
  DEF Next, NotificationExecutor

\* A step of GetFirstStoppedThread leaves the locals of its executor in shape.
LEMMA PollSteps ==
  ASSUME TypeOK, NEW e \in Executor, PollShape,
         CopyThreads(e) \/ PreferActive(e) \/ AskNext(e) \/ StoreNext(e)
  PROVE  /\ at'[e] = "store" => poll'[e].queue # <<>>
         /\ at'[e] \in {"active", "ask", "store"} => poll'[e].found = None
<1> USE DEF TypeOK, LocalsOK, PollShape
<1>1. \A l \in {"copy", "active", "ask", "store", "polled"} : l \in Polling
  BY Zenon DEF Polling
<1>2. CASE CopyThreads(e)
  <2>1. at'[e] \in {"polled", "active"}
    BY Zenon, <1>1, <1>2, PollGoto DEF CopyThreads
  <2>2. poll'[e].found = None
    BY Zenon, <1>2 DEF CopyThreads, NoPoll
  <2> QED  BY Zenon, <2>1, <2>2
<1>3. CASE PreferActive(e)
  <2>1. at'[e] = "ask" /\ at[e] = "active"
    BY Zenon, <1>1, <1>3, PollGoto DEF PreferActive
  <2>2. poll'[e].found = poll[e].found
    BY Zenon, <1>3 DEF PreferActive, Poll
  <2> QED  BY Zenon, <2>1, <2>2
<1>4. CASE AskNext(e)
  <2>1. at[e] = "ask" /\ at'[e] = IF poll[e].queue = <<>> THEN "polled" ELSE "store"
    BY Zenon, <1>1, <1>4, PollGoto DEF AskNext
  <2>2. poll'[e].queue = poll[e].queue /\ poll'[e].found = poll[e].found
    BY Zenon, <1>4 DEF AskNext, Poll
  <2> QED  BY Zenon, <2>1, <2>2
<1>5. CASE StoreNext(e)
  <2>1. at[e] = "store" /\ at'[e] = IF poll[e].answer = "stopped" THEN "polled" ELSE "ask"
    BY Zenon, <1>1, <1>5, PollGoto DEF StoreNext
  <2>2. poll[e].answer # "stopped" => poll'[e].found = poll[e].found
    BY Zenon, <1>5 DEF StoreNext, Poll
  <2> QED  BY Zenon, <2>1, <2>2
<1> QED  BY Zenon, <1>2, <1>3, <1>4, <1>5

\* Every step leaves the locals of GetFirstStoppedThread in shape.
LEMMA NextPollShape ==
  ASSUME TypeOK, PollShape, Next
  PROVE  PollShape'
<1>1. CASE GDBExecutor
  <2>1. NoteFrame
    BY Zenon, <1>1, OthersFrame
  <2>2. /\ at'["gdb"] = "store" => poll'["gdb"].queue # <<>>
        /\ at'["gdb"] \in {"active", "ask", "store"} => poll'["gdb"].found = None
    <3>1. CASE CopyThreads("gdb") \/ PreferActive("gdb") \/ AskNext("gdb") \/ StoreNext("gdb")
      BY Zenon, <3>1, PollSteps, Labels
    <3>2. CASE HandlePacket
      <4>1. PICK l : Goto("gdb", l) /\ l \notin {"active", "ask", "store"}
        <5>1. Head(inbox).type \in {"vCont", "?", "interrupt", "D"}
          BY Zenon, <3>2, HeadPacket DEF HandlePacket, TypeOK
        <5> QED  BY <3>2, <5>1 DEF HandlePacket
      <4> QED  BY Zenon, <4>1, GotoFacts, Labels DEF TypeOK, AtOK
    <3>3. CASE VContAction
      <4>1. at["gdb"] = "vCont" /\ commands # <<>>
        BY Zenon, <3>3 DEF VContAction
      <4>2. Head(commands) \in Command
        BY Zenon, <4>1, HeadTail DEF TypeOK, LocalsOK
      <4>3. Head(commands).code \in {"c", "s"}
        BY Zenon, <4>2 DEF Command
      <4>4. UNCHANGED at \/ Goto("gdb", "continuing") \/ Goto("gdb", "step")
        BY ZenonT(40), <3>3, <4>3 DEF VContAction
      <4> QED  BY Zenon, <4>1, <4>4, GDBGoto, Labels DEF TypeOK
    <3>4. CASE VContEnd \/ ContinueAll \/ MarkWaitingForStopPacket \/ Go
      BY Zenon, <3>4, GDBGoto, Labels
      DEF TypeOK, VContEnd, ContinueAll, MarkWaitingForStopPacket, Go, Handled
    <3>5. CASE StepInstruction \/ SetTrapFlag \/ StepContinue \/ StepGo
      BY Zenon, <3>5, GDBGoto, Labels
      DEF TypeOK, StepInstruction, SetTrapFlag, StepContinue, StepGo, StepFails
    <3>6. CASE \/ HandleQueryHaltReason \/ Halt \/ WaitForState \/ WaitForStateTimesOut
               \/ PickHalted \/ HaltGivesUp
      BY Zenon, <3>6, GDBGoto, Labels
      DEF TypeOK, HandleQueryHaltReason, Halt, WaitForState, WaitForStateTimesOut, PickHalted,
          HaltGivesUp, Handled
    <3>7. CASE AwaitHalted \/ StoreHalted \/ GoAfterHalt \/ ReportHalt \/ AssertThread
      BY Zenon, <3>7, GDBGoto, Labels
      DEF TypeOK, AwaitHalted, StoreHalted, GoAfterHalt, ReportHalt, AssertThread, Handled
    <3> QED
      BY Zenon, <1>1, <3>1, <3>2, <3>3, <3>4, <3>5, <3>6, <3>7 DEF GDBExecutor
  <2> QED  BY Zenon, <2>1, <2>2 DEF PollShape, NoteFrame, Executor
<1>2. CASE NotificationExecutor
  <2>1. GDBFrame
    BY Zenon, <1>2, HandlersFrame
  <2>2. /\ at'["notification"] = "store" => poll'["notification"].queue # <<>>
        /\ at'["notification"] \in {"active", "ask", "store"} =>
             poll'["notification"].found = None
    <3>1. CASE \/ CopyThreads("notification") \/ PreferActive("notification")
               \/ AskNext("notification") \/ StoreNext("notification")
      BY Zenon, <3>1, PollSteps, Labels
    <3>2. CASE OnExecutionStateChanged \/ ActivateStopped \/ OnThreadCreated \/ OnThreadTerminated
      BY Zenon, <3>2, NoteGoto, Labels
      DEF TypeOK, OnExecutionStateChanged, ActivateStopped, OnThreadCreated, OnThreadTerminated,
          Dispatched
    <3>3. CASE OnStop \/ FetchStopReason \/ StoreAndJudge \/ IgnoreContinue \/ IgnoreGo
      BY Zenon, <3>3, NoteGoto, Labels
      DEF TypeOK, OnStop, FetchStopReason, StoreAndJudge, IgnoreContinue, IgnoreGo
    <3>4. CASE BridgeChecks \/ BridgeReports
      BY Zenon, <3>4, NoteGoto, Labels DEF TypeOK, BridgeChecks, BridgeReports, Dispatched
    <3> QED  BY Zenon, <1>2, <3>1, <3>2, <3>3, <3>4 DEF NotificationExecutor
  <2> QED  BY Zenon, <2>1, <2>2 DEF PollShape, GDBFrame, Executor
<1>3. CASE Title \/ Receive \/ \E p \in session.packet : SendPacket(p)
  <2>1. UNCHANGED <<at, poll>>
    BY Zenon, <1>3 DEF Title, Hit, Create, Terminate, Receive, SendPacket
  <2> QED  BY Zenon, <2>1 DEF PollShape
<1> QED  BY Zenon, <1>1, <1>2, <1>3 DEF Next


----------------------------------------------------------------------------
(* Lives and lists                                                         *)

\* The notification of a step, and the first one that is left out.
LEMMA NotesAfter ==
  ASSUME TargetOK
  PROVE  /\ DoGo \/ DoStop => \A n \in Members(notes') :
              n \in Members(notes) \/ n.type \in {"started", "stopped"}
         /\ notes # <<>> => Members(Tail(notes)) \subseteq Members(notes)
<1>1. \A s : StateNote(s).type = s
  BY Zenon DEF StateNote
<1>2. ASSUME NEW s \in {"started", "stopped"}, notes' = Append(notes, StateNote(s))
      PROVE  \A n \in Members(notes') : n \in Members(notes) \/ n.type \in {"started", "stopped"}
  BY <1>1, <1>2, NotesExist, Appended DEF TargetOK
<1>3. DoGo \/ DoStop => \A n \in Members(notes') :
        n \in Members(notes) \/ n.type \in {"started", "stopped"}
  BY Zenon, <1>2 DEF DoGo, DoStop
<1> QED  BY Zenon, <1>3, HeadTail DEF TargetOK

\* Every step keeps apart the threads that are alive and those that ended.
LEMMA NextLives ==
  ASSUME TypeOK, ShapeInv, LivesInv, Next
  PROVE  LivesInv'
<1> USE DEF TypeOK, LivesInv, target
<1>1. ASSUME UNCHANGED <<alive, ended>>,
             \A n \in Members(notes') : n \in Members(notes) \/ n.type \in {"started", "stopped"},
             \A t \in Thread : held'[t] => held[t] \/ t \in alive
      PROVE  LivesInv'
  BY Zenon, <1>1
<1>2. CASE UNCHANGED <<alive, ended, held, notes>>
  BY Zenon, <1>2
<1>3. ASSUME NEW t \in Thread, DoContinue(t)
      PROVE  \A u \in Thread : held'[u] => held[u] \/ u \in alive
  BY Zenon, <1>3 DEF TargetOK, DoContinue
<1>4. CASE Title
  <2>1. PICK t \in Thread : Hit(t) \/ Create(t) \/ Terminate(t)
    BY Zenon, <1>4 DEF Title
  <2>2. CASE Hit(t)
    <3>1. PICK m, n \in Note : /\ notes' = notes \o <<m, n>>
                               /\ m.type # "terminate" /\ n.type # "terminate"
      BY Zenon, <2>2, NotesExist DEF Hit, StateNote, ThreadNote
    <3>2. Members(notes') \subseteq Members(notes) \cup {m, n}
      <4>1. <<m, n>> \in Seq(Note) /\ Len(<<m, n>>) = 2 /\ <<m, n>>[1] = m /\ <<m, n>>[2] = n
        OBVIOUS
      <4>2. /\ notes' \in Seq(Note) /\ Len(notes') = Len(notes) + 2 /\ Len(notes) \in Nat
            /\ \A i \in 1 .. Len(notes) + 2 :
                 notes'[i] = IF i <= Len(notes) THEN notes[i] ELSE <<m, n>>[i - Len(notes)]
        BY <3>1, <4>1, ConcatProperties, LenProperties DEF TargetOK
      <4>3. ASSUME NEW i \in 1 .. Len(notes) + 2
            PROVE  (i \in 1 .. Len(notes) /\ notes'[i] = notes[i]) \/ notes'[i] \in {m, n}
        BY <4>1, <4>2
      <4> QED  BY <4>2, <4>3, MembersOf DEF TargetOK
    <3>3. UNCHANGED <<alive, ended>> /\ held' = [held EXCEPT ![t] = TRUE] /\ t \in alive
      BY Zenon, <2>2 DEF Hit, Runs
    <3> QED  BY Zenon, <3>1, <3>2, <3>3 DEF TargetOK
  <2>3. CASE Create(t)
    <3>1. Members(notes') = Members(notes) \cup {ThreadNote("create", t)}
      BY <2>3, NotesExist, Appended DEF Create, TargetOK
    <3> QED  BY <2>3, <3>1 DEF Create, ThreadNote
  <2>4. CASE Terminate(t)
    <3>1. Members(notes') = Members(notes) \cup {ThreadNote("terminate", t)}
      BY <2>4, NotesExist, Appended DEF Terminate, TargetOK
    <3> QED  BY <2>4, <3>1 DEF Terminate, ThreadNote, Runs
  <2> QED  BY Zenon, <2>1, <2>2, <2>3, <2>4
<1>5. CASE Receive \/ \E p \in session.packet : SendPacket(p)
  BY Zenon, <1>2, <1>5 DEF Receive, SendPacket
<1>6. CASE VContAction
  <2>1. /\ UNCHANGED <<alive, ended, notes>> /\ commands # <<>>
    BY Zenon, <1>6 DEF VContAction
  <2>2. Head(commands) \in Command
    BY Zenon, <2>1, HeadTail DEF LocalsOK
  <2>3. Head(commands).code \in {"c", "s"} /\ Head(commands).thread \in Thread \cup {None}
    BY Zenon, <2>2 DEF Command
  <2>4. UNCHANGED held \/ \E t \in Thread : DoContinue(t)
    BY ZenonT(40), <1>6, <2>3 DEF VContAction
  <2> QED  BY Zenon, <1>1, <1>2, <1>3, <2>1, <2>4
<1>7. CASE ContinueAll
  <2>1. todo # <<>> => Head(todo) \in Thread
    BY Zenon, HeadTail DEF LocalsOK
  <2> QED  BY Zenon, <1>1, <1>2, <1>3, <1>7, <2>1 DEF ContinueAll
<1>8. CASE StepInstruction \/ StepGo \/ Go \/ GoAfterHalt \/ IgnoreGo
  <2>1. /\ UNCHANGED <<alive, ended, held>>
        /\ UNCHANGED notes \/ Members(notes') = Members(notes) \/ DoGo \/ DoStop
    BY Zenon, <1>8 DEF StepInstruction, StepGo, Go, GoAfterHalt, IgnoreGo
  <2> QED  BY Zenon, <1>1, <2>1, NotesAfter
<1>9. CASE StepContinue
  <2>1. thread \in Thread
    BY Zenon, <1>9 DEF StepContinue, ShapeInv, GDBShape, LocalsOK, Optional
  <2> QED  BY Zenon, <1>1, <1>2, <1>3, <1>9, <2>1 DEF StepContinue
<1>10. CASE Halt
  <2>1. UNCHANGED <<alive, ended>> /\ DoStop /\ held' = [t \in Thread |-> held[t] \/ t \in alive]
    BY Zenon, <1>10 DEF Halt, DoHalt
  <2> QED  BY Zenon, <1>1, <2>1, NotesAfter
<1>11. CASE HandlePacket \/ VContEnd \/ MarkWaitingForStopPacket \/ SetTrapFlag
  BY Zenon, <1>2, <1>11 DEF HandlePacket, VContEnd, MarkWaitingForStopPacket, SetTrapFlag
<1>12. CASE \/ HandleQueryHaltReason \/ WaitForState \/ WaitForStateTimesOut \/ PickHalted
            \/ AwaitHalted \/ HaltGivesUp \/ StoreHalted \/ ReportHalt \/ AssertThread
  BY Zenon, <1>2, <1>12 DEF HandleQueryHaltReason, WaitForState, WaitForStateTimesOut, PickHalted,
                     AwaitHalted, HaltGivesUp, StoreHalted, ReportHalt, AssertThread
<1>13. ASSUME NEW e \in Executor,
              CopyThreads(e) \/ PreferActive(e) \/ AskNext(e) \/ StoreNext(e)
       PROVE  LivesInv'
  BY Zenon, <1>2, <1>13 DEF CopyThreads, PreferActive, AskNext, StoreNext
<1>14. ASSUME UNCHANGED <<alive, ended, held>>, UNCHANGED notes \/ Dispatched, notes # <<>>
       PROVE  LivesInv'
  BY Zenon, <1>14, NotesAfter DEF Dispatched
<1>15. CASE ActivateStopped \/ OnStop \/ FetchStopReason \/ StoreAndJudge
  BY Zenon, <1>2, <1>15 DEF ActivateStopped, OnStop, FetchStopReason, StoreAndJudge
<1>16. CASE OnExecutionStateChanged \/ OnThreadCreated \/ OnThreadTerminated
  BY Zenon, <1>14, <1>16 DEF OnExecutionStateChanged, OnThreadCreated, OnThreadTerminated
<1>17. CASE BridgeChecks \/ BridgeReports
  <2>1. notes # <<>>
    BY ZenonT(40), <1>17 DEF BridgeChecks, BridgeReports, ShapeInv, NoteShape
  <2> QED  BY Zenon, <1>14, <1>17, <2>1 DEF BridgeChecks, BridgeReports
<1>18. CASE IgnoreContinue
  <2>1. Head(notes).thread \in Thread
    BY Zenon, <1>18, HeadNote DEF IgnoreContinue, ShapeInv, NoteShape, Judging
  <2> QED  BY Zenon, <1>1, <1>2, <1>3, <1>18, <2>1 DEF IgnoreContinue
<1> QED
  BY Zenon, <1>4, <1>5, <1>6, <1>7, <1>8, <1>9, <1>10, <1>11, <1>12, <1>13, <1>15, <1>16, <1>17, <1>18,
     Labels DEF Next, GDBExecutor, NotificationExecutor

\* What SetActiveThread does to the active thread.
LEMMA SetActiveFacts ==
  ASSUME NEW t, SetActiveThread(t)
  PROVE  /\ active_thread_id_' # None => active_thread_id_' \in Members(threads_)
         /\ t \in Members(threads_) => active_thread_id_' = t
BY Zenon DEF SetActiveThread, GetThread

\* The next thread to ask about after one that is not stopped.
LEMMA StoreNextPoll ==
  ASSUME LocalsOK, NEW e \in Executor, StoreNext(e), poll[e].answer # "stopped"
  PROVE  poll'[e].queue = Tail(poll[e].queue)
<1>1. PICK q : q = Tail(poll[e].queue)
  BY Zenon
<1>2. poll' = [poll EXCEPT ![e].queue = Tail(@), ![e].answer = "none"]
  BY Zenon DEF StoreNext
<1>3. poll[e] \in Poll
  BY Zenon DEF LocalsOK
<1>4. poll'[e] = [[poll[e] EXCEPT !.queue = Tail(@)] EXCEPT !.answer = "none"]
  BY Zenon, <1>2 DEF LocalsOK
<1>5. poll'[e] = [[poll[e] EXCEPT !.queue = q] EXCEPT !.answer = "none"]
  BY Zenon, <1>1, <1>3, <1>4 DEF Poll
<1>6. poll'[e].queue = q
  BY Zenon, <1>3, <1>5 DEF Poll
<1> QED  BY Zenon, <1>1, <1>6

\* Every step keeps the active thread, and those being asked about, in the list.
LEMMA NextKnown ==
  ASSUME TypeOK, ShapeInv, KnownInv, Next
  PROVE  KnownInv'
<1> USE DEF TypeOK, KnownInv
<1>1. ASSUME NoteFrame, UNCHANGED active_thread_id_ \/ \E t : SetActiveThread(t)
      PROVE  KnownInv'
  BY Zenon, <1>1, SetActiveFacts DEF NoteFrame
<1>2. CASE Title \/ Receive \/ (\E p \in session.packet : SendPacket(p)) \/ GDBExecutor
  <2>1. NoteFrame
    BY Zenon, <1>2, OthersFrame
  <2>2. CASE UNCHANGED debugger
    BY Zenon, <1>1, <2>1, <2>2 DEF debugger
  <2>3. CASE Title \/ Receive \/ (\E p \in session.packet : SendPacket(p))
    BY Zenon, <2>2, <2>3 DEF Title, Hit, Create, Terminate, Receive, SendPacket
  <2>4. CASE VContAction
    <3>1. commands # <<>>
      BY Zenon, <2>4 DEF VContAction
    <3>2. Head(commands) \in Command
      BY Zenon, <3>1, HeadTail DEF LocalsOK
    <3>3. Head(commands).code \in {"c", "s"}
      BY Zenon, <3>2 DEF Command
    <3>4. UNCHANGED active_thread_id_ \/ \E t : SetActiveThread(t)
      BY Zenon, <2>4, <3>3 DEF VContAction
    <3> QED  BY Zenon, <1>1, <2>1, <3>4
  <2>5. CASE HandlePacket \/ VContEnd \/ ContinueAll \/ MarkWaitingForStopPacket \/ Go
    BY Zenon, <2>2, <2>5 DEF HandlePacket, VContEnd, ContinueAll, MarkWaitingForStopPacket, Go
  <2>6. CASE StepInstruction \/ SetTrapFlag \/ StepContinue \/ StepGo
    BY Zenon, <2>2, <2>6 DEF StepInstruction, SetTrapFlag, StepContinue, StepGo
  <2>7. CASE HandleQueryHaltReason \/ Halt \/ WaitForState \/ WaitForStateTimesOut
    BY Zenon, <2>2, <2>7 DEF HandleQueryHaltReason, Halt, WaitForState, WaitForStateTimesOut
  <2>8. CASE AwaitHalted \/ HaltGivesUp \/ GoAfterHalt \/ ReportHalt \/ AssertThread
    BY Zenon, <2>2, <2>8 DEF AwaitHalted, HaltGivesUp, GoAfterHalt, ReportHalt, AssertThread
  <2>9. CASE PickHalted
    BY Zenon, <1>1, <2>1, <2>9 DEF PickHalted
  <2>10. CASE StoreHalted \/ StoreNext("gdb")
    BY Zenon, <1>1, <2>1, <2>10 DEF StoreHalted, StoreNext
  <2>11. CASE CopyThreads("gdb") \/ PreferActive("gdb") \/ AskNext("gdb")
    BY Zenon, <2>2, <2>11 DEF CopyThreads, PreferActive, AskNext
  <2> QED
    BY Zenon, <1>2, <2>3, <2>4, <2>5, <2>6, <2>7, <2>8, <2>9, <2>10, <2>11 DEF GDBExecutor
<1>3. ASSUME NEW l \in NoteLabel \ {"active", "ask", "store", "polled"}, Goto("notification", l),
             active_thread_id_' # None => active_thread_id_' \in Members(threads_')
      PROVE  KnownInv'
  BY Zenon, <1>3, NoteGoto
<1>4. CASE OnExecutionStateChanged
  BY Zenon, <1>3, <1>4, Labels DEF OnExecutionStateChanged, Dispatched
<1>5. CASE ActivateStopped
  BY Zenon, <1>3, <1>5, Labels, SetActiveFacts DEF ActivateStopped
<1>6. CASE OnThreadCreated
  <2>1. Head(notes).thread \in Thread
    BY ZenonT(40), <1>6, HeadNote DEF OnThreadCreated
  <2>2. Members(threads_) \subseteq Members(threads_')
    BY <1>6, <2>1, Appended DEF OnThreadCreated, DebuggerOK
  <2> QED  BY Zenon, <1>3, <1>6, <2>2, Labels DEF OnThreadCreated, Dispatched
<1>7. CASE OnThreadTerminated
  <2>1. \A t \in Members(threads_) : t = Head(notes).thread \/ t \in Members(threads_')
    BY Zenon, <1>7, Erased DEF OnThreadTerminated, DebuggerOK
  <2> QED  BY ZenonT(40), <1>3, <1>7, <2>1, Labels DEF OnThreadTerminated, Dispatched
<1>8. CASE OnStop
  BY Zenon, <1>3, <1>8, Labels, SetActiveFacts DEF OnStop
<1>9. CASE FetchStopReason \/ StoreAndJudge \/ IgnoreContinue \/ IgnoreGo
  BY Zenon, <1>3, <1>9, Labels DEF FetchStopReason, StoreAndJudge, IgnoreContinue, IgnoreGo, debugger
<1>10. CASE BridgeChecks \/ BridgeReports
  BY Zenon, <1>3, <1>10, Labels DEF BridgeChecks, BridgeReports, Dispatched, debugger
<1>11. CASE CopyThreads("notification")
  <2>1. UNCHANGED <<threads_, active_thread_id_>>
    BY Zenon, <1>11 DEF CopyThreads, debugger
  <2>2. poll'["notification"].queue = threads_ /\ poll'["notification"].found = None
    BY Zenon, <1>11, Labels DEF CopyThreads, LocalsOK, NoPoll
  <2> QED  BY Zenon, <2>1, <2>2
<1>12. CASE PreferActive("notification")
  <2>1. UNCHANGED <<threads_, active_thread_id_>> /\ at["notification"] = "active"
        /\ at'["notification"] = "ask"
    BY Zenon, <1>12, NoteGoto, Labels DEF PreferActive, debugger
  <2>2. PICK others \in Seq(Thread) :
          /\ others = Erase(poll["notification"].queue, poll["notification"].skip)
          /\ Members(others) \subseteq Members(poll["notification"].queue)
    BY Zenon, PollFacts, Erased, Labels
  <2>3. ActiveThread # None =>
          /\ ActiveThread \in Members(threads_)
          /\ Members(<<ActiveThread>> \o others) \subseteq {ActiveThread} \cup Members(others)
    BY Zenon, ThreadFacts, Preferred DEF ActiveThread, GetThread, Optional
  <2>4. poll'["notification"].queue = IF ActiveThread = None THEN others
                                      ELSE <<ActiveThread>> \o others
    BY Zenon, <1>12, <2>2, Labels DEF PreferActive, LocalsOK, Poll
  <2> QED  BY Zenon, <2>1, <2>2, <2>3, <2>4
<1>13. CASE AskNext("notification")
  <2>1. UNCHANGED <<threads_, active_thread_id_>> /\ at["notification"] = "ask"
        /\ at'["notification"] \in {"polled", "store"}
    BY Zenon, <1>13, NoteGoto, Labels DEF AskNext, debugger
  <2>2. /\ poll'["notification"].queue = poll["notification"].queue
        /\ poll'["notification"].found = poll["notification"].found
    BY Zenon, <1>13, Labels DEF AskNext, LocalsOK, Poll
  <2>3. poll["notification"].found = None
    BY Zenon, <2>1, Labels DEF ShapeInv, PollShape
  <2> QED  BY Zenon, <2>1, <2>2, <2>3
<1>14. CASE StoreNext("notification")
  <2>1. UNCHANGED <<threads_, active_thread_id_>> /\ at["notification"] = "store"
        /\ at'["notification"] = IF poll["notification"].answer = "stopped" THEN "polled"
                                 ELSE "ask"
    BY Zenon, <1>14, NoteGoto, Labels DEF StoreNext, debugger
  <2>2. poll["notification"].queue # <<>> /\ poll["notification"].queue \in Seq(Thread)
    BY Zenon, <2>1, PollFacts, Labels DEF ShapeInv, PollShape
  <2>3. /\ Head(poll["notification"].queue) \in Members(poll["notification"].queue)
        /\ Members(Tail(poll["notification"].queue)) \subseteq Members(poll["notification"].queue)
    BY Zenon, <2>2, HeadTail
  <2>4. CASE poll["notification"].answer = "stopped"
    <3>1. poll'["notification"].found = Head(poll["notification"].queue)
      BY Zenon, <1>14, <2>4, Labels DEF StoreNext, LocalsOK, NoPoll
    <3> QED  BY Zenon, <2>1, <2>3, <2>4, <3>1
  <2>5. CASE poll["notification"].answer # "stopped"
    <3>1. poll'["notification"].queue = Tail(poll["notification"].queue)
      BY Zenon, <1>14, <2>5, StoreNextPoll, Labels
    <3> QED  BY Zenon, <2>1, <2>3, <2>5, <3>1
  <2> QED  BY Zenon, <2>4, <2>5
<1> QED
  BY Zenon, <1>2, <1>4, <1>5, <1>6, <1>7, <1>8, <1>9, <1>10, <1>11, <1>12, <1>13, <1>14
  DEF Next, NotificationExecutor
=============================================================================
