---------------------------- MODULE GDBTransport ----------------------------
(***************************************************************************)
(* The connection to GDB: how GDBTransport cuts the bytes it receives into *)
(* packets, acknowledges and resends, and how two executors send on it.    *)
(*                                                                         *)
(* Bytes are the ones the code tells apart. A read takes any number of     *)
(* bytes off the stream, so that packets are cut anywhere. GDB is external: *)
(* it sends a packet once the last is answered, may interrupt while it     *)
(* waits, and reads, acknowledges or refuses what comes only while it      *)
(* waits. What the bridge does with a packet is reduced to the number of   *)
(* packets it sends.                                                       *)
(***************************************************************************)
EXTENDS Integers, Sequences, SequencesExt, FiniteSetsExt

CONSTANTS
  Packet,        \* bodies of the packets GDB may send
  MaxPackets,    \* bound on the packets GDB sends
  MaxInterrupts, \* bound on its interrupts
  MaxRefusals    \* bound on the packets GDB asks for again

\* "$", "#" and "}" frame and escape, "+" and "-" acknowledge and refuse, ETX
\* (0x03) interrupts; "1" is a hexadecimal digit, the other letters are not.
Control == {"+", "-", "ETX"}
Special == {"$", "#", "}"}
Digit == {"1"}
Byte == Control \cup Special \cup Digit \cup {"H", "Q", "X", "Z", "c", "m", "EOT", "]", "other"}
Executor == {"gdb", "notification"}

ASSUME GDBTransportAssumption ==
  /\ Packet \subseteq Seq(Byte) /\ <<>> \notin Packet
  /\ MaxPackets \in Nat /\ MaxInterrupts \in Nat /\ MaxRefusals \in Nat

VARIABLES
  \* GDB: the packets and interrupts it sent, whether it waits for an answer,
  \* whether it has stopped acknowledging, the answers it took, those refused
  sent, awaiting, quiet, received, refusals,
  \* the stream to the bridge, each byte with whether it is part of a packet,
  \* and the stream to GDB, of acknowledgements (0) and packets (their number)
  toBridge, toGDB,
  \* GDBTransport; packets are known by when they were given to Send
  read_buffer_, unescaped_read_buffer_, ack_buffer_, no_ack_mode_,
  \* the packets dispatched to the GDB executor
  inbox,
  \* the bridge: whether a stop is to be reported, where the executors are and
  \* how many packets each has yet to send
  waiting_on_stop_packet_, at, left,
  \* history, read by properties only: packets handled, number given to Send,
  \* number of acknowledgements GDB wrote, a read began inside a packet with a control byte, an acknowledgement or
  \* refusal followed a packet in one read, two Sends overlapped, a checksum was
  \* not numeric, the process ended
  handled, given, split, crossed, raced, garbled, aborted

gdb == <<sent, awaiting, quiet, received, refusals>>
streams == <<toBridge, toGDB>>
transport == <<read_buffer_, unescaped_read_buffer_, ack_buffer_, no_ack_mode_>>
bridge == <<inbox, waiting_on_stop_packet_, at, left>>
history == <<handled, given, split, crossed, raced, garbled, aborted>>
vars == <<gdb, streams, transport, bridge, history>>

Init ==
  /\ sent = <<>> /\ awaiting = FALSE /\ quiet = FALSE /\ received = <<>> /\ refusals = 0
  /\ toBridge = <<>> /\ toGDB = <<>>
  /\ read_buffer_ = <<>> /\ unescaped_read_buffer_ = <<>>
  /\ ack_buffer_ = <<>> /\ no_ack_mode_ = FALSE
  /\ inbox = <<>> /\ waiting_on_stop_packet_ = FALSE
  /\ at = [e \in Executor |-> "idle"] /\ left = [e \in Executor |-> 0]
  /\ handled = <<>> /\ given = 0
  /\ split = FALSE /\ crossed = FALSE /\ raced = FALSE
  /\ garbled = FALSE /\ aborted = FALSE

-----------------------------------------------------------------------------
(* GDBPacket.                                                              *)

\* The byte with bit 0x20 inverted.
Inverted(b) ==
  CASE b = "}" -> "]"   [] b = "]" -> "}"
    [] b = "$" -> "EOT" [] b = "EOT" -> "$"
    [] b = "#" -> "ETX" [] b = "ETX" -> "#"
    [] OTHER -> "other"

EscapeBuffer(data) ==
  FlattenSeq([i \in DOMAIN data |->
    IF data[i] \in Special THEN <<"}", Inverted(data[i])>> ELSE <<data[i]>>])

\* The checksum is two digits; nothing looks at whether it matches.
Serialize(data) == <<"$">> \o EscapeBuffer(data) \o <<"#", "1", "1">>

\* Of the bytes of an escape none is counted as consumed, nor is an escape
\* character that ends the buffer.
UnescapeBuffer(buffer) ==
  LET escapes[i \in 0..Len(buffer)] == i > 0 /\ buffer[i] = "}" /\ ~escapes[i - 1]
      kept == SelectSeq([i \in DOMAIN buffer |-> i], LAMBDA i : ~escapes[i])
  IN  [out |-> [k \in DOMAIN kept |->
                  IF escapes[kept[k] - 1] THEN Inverted(buffer[kept[k]]) ELSE buffer[kept[k]]],
       consumed |-> Cardinality({i \in DOMAIN buffer : ~escapes[i] /\ ~escapes[i - 1]})]

\* memchr: the first place at or after start that holds b, 0 if there is none.
Find(s, b, start) ==
  LET places == {i \in start..Len(s) : s[i] = b}
  IN  IF places = {} THEN 0 ELSE Min(places)

Unparsed == [consumed |-> 0, numeric |-> TRUE, data |-> <<>>]

\* A seeded fault: what follows a packet in the buffer goes with it.
ParseAll(buffer) ==
  LET start == Find(buffer, "$", 1)
      end == Find(buffer, "#", start + 1)
  IN  IF start = 0 \/ end = 0 \/ Len(buffer) < end + 2 THEN Unparsed
      ELSE [consumed |-> Len(buffer), numeric |-> TRUE,
            data |-> SubSeq(buffer, start + 1, end - 1)]

Parse(buffer) ==
  LET start == Find(buffer, "$", 1)
      end == Find(buffer, "#", start + 1)
  IN  IF start = 0 \/ end = 0 \/ Len(buffer) < end + 2 THEN Unparsed
      ELSE IF {buffer[end + 1], buffer[end + 2]} \subseteq Digit
      THEN [consumed |-> end + 2, numeric |-> TRUE,
            data |-> SubSeq(buffer, start + 1, end - 1)]
      ELSE [consumed |-> end, numeric |-> FALSE, data |-> <<>>]

-----------------------------------------------------------------------------
(* GDBTransport on the select thread.                                      *)

\* ProcessUnescapedReadBuffer. A packet whose checksum is not numeric leaves
\* the body of the one before, which is dispatched again.
RECURSIVE ProcessUnescapedReadBuffer(_)
ProcessUnescapedReadBuffer(s) ==
  LET parsed == Parse(s.rest)
      data == IF parsed.numeric THEN parsed.data ELSE s.packet
  IN  CASE s.rest = <<>> -> s
        [] s.rest # <<>> /\ s.rest[1] = "ETX" ->
             ProcessUnescapedReadBuffer([s EXCEPT !.packets = Append(@, <<"ETX">>), !.rest = Tail(@)])
        [] OTHER ->
             IF parsed.consumed = 0 THEN s
             ELSE ProcessUnescapedReadBuffer(
                    [packets |-> Append(s.packets, data), packet |-> data,
                     rest |-> SubSeq(s.rest, parsed.consumed + 1, Len(s.rest)),
                     numeric |-> s.numeric /\ parsed.numeric])

\* The bytes before the first that is not a control byte.
Leading(buffer) ==
  LET others == {i \in DOMAIN buffer : buffer[i] \notin Control}
  IN  IF others = {} THEN buffer ELSE SubSeq(buffer, 1, Min(others) - 1)

\* What "+" and "-" do to ack_buffer_, and what is sent again.
Obey(b, s) ==
  CASE b = "ETX" \/ s.acks = <<>> -> s
    [] b = "+" -> [s EXCEPT !.acks = Tail(@)]
    [] b = "-" -> [s EXCEPT !.out = Append(@, Head(s.acks))]

ShiftReadBuffer(buffer, shift) == SubSeq(buffer, shift + 1, Len(buffer))

\* DoReceive took n bytes and OnBytesRead deals with them.
OnBytesRead ==
  /\ ~aborted
  /\ \E n \in 1..Len(toBridge) :
     \E chunk \in {SubSeq(toBridge, 1, n)} :
     \E buffer \in {read_buffer_ \o [i \in 1..n |-> chunk[i][1]]} :
     \E leading \in {Leading(buffer)} :
     \E rest \in {ShiftReadBuffer(buffer, Len(leading))} :
     \E body \in {UnescapeBuffer(rest)} :
     \E added \in {SelectSeq(leading, LAMBDA b : b = "ETX") \o body.out} :
     \E obeyed \in {FoldLeft(LAMBDA s, b : Obey(b, s),
                             [acks |-> ack_buffer_, out |-> <<>>], leading)} :
     \E found \in {LET unescaped == [rest |-> unescaped_read_buffer_ \o added, packets |-> <<>>,
                                     packet |-> <<>>, numeric |-> TRUE]
                   IN  IF added = <<>> THEN unescaped ELSE ProcessUnescapedReadBuffer(unescaped)} :
       /\ toBridge' = SubSeq(toBridge, n + 1, Len(toBridge))
       /\ ack_buffer_' = obeyed.acks
       /\ read_buffer_' = ShiftReadBuffer(rest, body.consumed)
       /\ unescaped_read_buffer_' = found.rest
       /\ toGDB' = toGDB \o obeyed.out
                     \o [i \in 1..(IF no_ack_mode_ THEN 0 ELSE Len(found.packets)) |-> 0]
       /\ inbox' = inbox \o found.packets
       /\ handled' = handled \o found.packets
       /\ garbled' = (garbled \/ ~found.numeric)
       /\ split' = (split \/ (chunk[1][2] /\ chunk[1][1] \in Control))
       /\ crossed' = (crossed \/ \E i \in (Len(leading) + 1)..n :
                                   chunk[i][1] \in {"+", "-"} /\ ~chunk[i][2])
  /\ UNCHANGED <<gdb, no_ack_mode_, waiting_on_stop_packet_, at, left, given, raced, aborted>>

-----------------------------------------------------------------------------
(* Send on either executor, and what the bridge sends.                     *)

\* Send has put the packet on ack_buffer_ and released the lock. Reporting a
\* stop has withdrawn the flag just before.
Push(e) ==
  /\ ~aborted /\ at[e] \in {"send", "report"}
  /\ waiting_on_stop_packet_' = (waiting_on_stop_packet_ /\ at[e] # "report")
  /\ given' = given + 1
  /\ ack_buffer_' = Append(ack_buffer_, given')
  /\ raced' = (raced \/ \E o \in Executor \ {e} : at[o] = "pushed")
  /\ at' = [at EXCEPT ![e] = "pushed"]
  /\ UNCHANGED <<gdb, streams, read_buffer_, unescaped_read_buffer_, no_ack_mode_, inbox,
                 left, handled, split, crossed, garbled, aborted>>

\* A seeded fault: what waits longest is sent.
ToTransmitFront == Head(ack_buffer_)

ToTransmit == Last(ack_buffer_)

\* It sends what is now last there. back() of an empty list is undefined.
Transmit(e) ==
  /\ ~aborted /\ at[e] = "pushed"
  /\ IF ack_buffer_ = <<>> THEN aborted' = TRUE /\ UNCHANGED toGDB
     ELSE toGDB' = Append(toGDB, ToTransmit) /\ UNCHANGED aborted
  /\ left' = [left EXCEPT ![e] = @ - 1]
  /\ at' = [at EXCEPT ![e] = IF left'[e] = 0 THEN "idle" ELSE "send"]
  /\ UNCHANGED <<gdb, toBridge, transport, inbox, waiting_on_stop_packet_, handled,
                 given, split, crossed, raced, garbled>>

\* A seeded fault: no answer to an interrupt.
RepliesToNoInterrupt(packet) ==
  CASE Head(packet) = "Z" -> 2 [] Head(packet) \in {"c", "ETX"} -> 0 [] OTHER -> 1

\* How many packets the handler of a packet sends: two for a hardware
\* breakpoint, none when the title goes on.
Replies(packet) ==
  CASE Head(packet) = "Z" -> 2 [] Head(packet) = "c" -> 0 [] OTHER -> 1

\* DispatchGDBPacket. The command of an empty packet asserts. An interrupt is
\* answered by a stop if a thread was halted, with OK or an error otherwise.
DispatchGDBPacket ==
  /\ ~aborted /\ at["gdb"] = "idle" /\ inbox # <<>>
  /\ LET packet == Head(inbox)
         replies == IF packet = <<>> THEN 0 ELSE Replies(packet)
     IN  /\ inbox' = Tail(inbox)
         /\ aborted' = (packet = <<>>)
         /\ left' = [left EXCEPT !["gdb"] = replies]
         /\ \E next \in {"idle", "send", "report"} :
              /\ next = "idle" <=> replies = 0
              /\ next = "report" => packet = <<"ETX">>
              /\ at' = [at EXCEPT !["gdb"] = next]
         /\ no_ack_mode_' = (no_ack_mode_ \/ packet = <<"Q">>)
         /\ waiting_on_stop_packet_' = (waiting_on_stop_packet_ \/ packet = <<"c">>)
  /\ UNCHANGED <<gdb, streams, read_buffer_, unescaped_read_buffer_, ack_buffer_,
                 handled, given, split, crossed, raced, garbled>>

\* The title stopped, by itself or because an interrupt halts it, and the
\* notification executor saw waiting_on_stop_packet_.
OnStopped ==
  /\ ~aborted /\ at["notification"] = "idle" /\ waiting_on_stop_packet_
  /\ at' = [at EXCEPT !["notification"] = "report"]
  /\ left' = [left EXCEPT !["notification"] = 1]
  /\ UNCHANGED <<gdb, streams, transport, inbox, waiting_on_stop_packet_, history>>

-----------------------------------------------------------------------------
(* GDB.                                                                    *)

Inside(bytes) == [i \in DOMAIN bytes |-> <<bytes[i], TRUE>>]
Outside(bytes) == [i \in DOMAIN bytes |-> <<bytes[i], FALSE>>]
Interrupt == <<"ETX">>
Interrupts(packets) == SelectSeq(packets, LAMBDA p : p = Interrupt)
Framed(packets) == SelectSeq(packets, LAMBDA p : p # Interrupt)

GDBSends ==
  /\ ~aborted /\ ~awaiting /\ Len(Framed(sent)) < MaxPackets
  /\ \E p \in Packet : /\ sent' = Append(sent, p)
                       /\ toBridge' = toBridge \o Inside(Serialize(p))
  /\ awaiting' = TRUE
  /\ UNCHANGED <<quiet, received, refusals, toGDB, transport, bridge, history>>

\* The user interrupts the title that GDB let go on.
GDBInterrupts ==
  /\ ~aborted /\ awaiting /\ Last(sent) = <<"c">>
  /\ Len(Interrupts(sent)) < MaxInterrupts
  /\ sent' = Append(sent, Interrupt)
  /\ toBridge' = toBridge \o Outside(Interrupt)
  /\ UNCHANGED <<awaiting, quiet, received, refusals, toGDB, transport, bridge, history>>

\* While it waits GDB reads: acknowledgements it drops, an answer it takes and
\* acknowledges, or refuses. It stops doing so once QStartNoAckMode is answered.
GDBReads ==
  /\ ~aborted /\ awaiting /\ toGDB # <<>>
  /\ toGDB' = Tail(toGDB)
  /\ \/ /\ Head(toGDB) = 0
        /\ UNCHANGED <<awaiting, received, refusals, quiet, toBridge>>
     \/ /\ Head(toGDB) # 0
        /\ received' = Append(received, Head(toGDB))
        /\ awaiting' = FALSE
        /\ quiet' = (quiet \/ Last(sent) = <<"Q">>)
        /\ toBridge' = IF quiet THEN toBridge ELSE toBridge \o Outside(<<"+">>)
        /\ UNCHANGED refusals
     \/ /\ Head(toGDB) # 0 /\ ~quiet /\ refusals < MaxRefusals
        /\ refusals' = refusals + 1
        /\ toBridge' = toBridge \o Outside(<<"-">>)
        /\ UNCHANGED <<awaiting, received, quiet>>
  /\ UNCHANGED <<sent, transport, bridge, handled, given, split, crossed, raced, garbled, aborted>>

Next ==
  \/ GDBSends \/ GDBInterrupts \/ GDBReads
  \/ OnBytesRead \/ DispatchGDBPacket \/ OnStopped
  \/ \E e \in Executor : Push(e) \/ Transmit(e)

\* The select thread delivers what is there, the executors run and GDB reads
\* while it waits. Nothing makes the title stop or GDB send.
Fairness ==
  /\ WF_vars(OnBytesRead) /\ WF_vars(DispatchGDBPacket) /\ WF_vars(GDBReads)
  /\ \A e \in Executor : WF_vars(Push(e)) /\ WF_vars(Transmit(e))

Spec == Init /\ [][Next]_vars /\ Fairness

-----------------------------------------------------------------------------
(* Properties.                                                             *)

Escaped == \E i \in DOMAIN sent : ToSet(sent[i]) \cap Special # {}
Mangled == split \/ Escaped

\* What OnBytesRead makes of the stream is what GDB sent, whole, once and in
\* order, however the reads cut it, unless a body has escaped bytes or a read
\* begins inside a packet with a byte that OnBytesRead takes for a control
\* byte. Interrupts arrive too, unless one came behind an acknowledgement that
\* followed a packet, where Parse skips it.
PacketsArriveAsSent ==
  ~Mangled =>
    LET complete == toBridge = <<>>
    IN  /\ IsPrefix(Framed(handled), Framed(sent))
        /\ complete => Framed(handled) = Framed(sent)
        /\ ~crossed => /\ IsPrefix(handled, sent)
                       /\ complete => handled = sent
        /\ ~garbled /\ ~aborted

InFlight(b) == Len(SelectSeq(toBridge, LAMBDA c : c = <<b, FALSE>>))

Pushed == {e \in Executor : at[e] = "pushed"}
Unread == SelectSeq(toGDB, LAMBDA n : n # 0)

\* Every packet given to Send reaches GDB, and GDB takes it once, also when it
\* asks for some again: a packet is on its way or taken unless Send has yet to
\* transmit it or a refusal is under way. Not so if two executors were in Send at
\* once, as when an interrupt's stop is reported by both: both then transmit the
\* packet pushed last.
RepliesArriveOnce ==
  ~(Mangled \/ crossed \/ raced) =>
    /\ IsInjective(received \o Unread)
    /\ InFlight("-") = 0 =>
         given = Len(received) + Len(Unread) + Cardinality(Pushed)

\* Whatever GDB waits for, unless it let the title go on, it gets an answer.
EveryPacketIsAnswered ==
  (awaiting /\ Last(sent) # <<"c">>) ~> (~awaiting \/ Mangled \/ crossed)
=============================================================================
