---------------------------- MODULE MCGDBBridge ----------------------------
(* Instances of GDBBridge for TLC. A session is what GDB sends in one run.  *)
EXTENDS GDBBridge

CONSTANTS c1, c2

TwoThreads == <<1, 2>>
Plain(cmds) == {[cmd |-> c] : c \in cmds}
Known(S) == {<<v>> : v \in S}

Clients == Plain({"TStatus", "QStartNoAckMode"})
Selecting == [cmd : {"H"}, operation : {"g", "c"}, thread : Known({-1, 0, 2}) \cup {Unknown}]
Reading == [cmd : {"p"}, register : Known({1, 2, 3}) \cup {Unknown}] \cup Plain({"g"})
Writing == [cmd : {"P"}, register : Known({0, 2, 4, 5}) \cup {Unknown}, value : {30}]
Registers == Selecting \cup Reading \cup Writing
Memory == [cmd : {"m"}, address : {<<0>>, Unknown}, length : {<<0>>, <<1>>, Unknown}]
            \cup [cmd : {"X", "M"}, address : {<<0>>, Unknown}, length : {<<0>>, <<1>>, Unknown}, data : 0..1]
            \cup [cmd : {"Z", "z"}, type : {"software", "hardware", "write", "access", "other", "malformed"}]
Lists == Plain({"qf", "qs", "qC"}) \cup [cmd : {"ThreadExtraInfo"}, thread : {<<1>>, <<2>>, Unknown}]
Document == [cmd : {"Xfer"}, start : 0..3, length : {<<1>>, <<2>>, <<7>>, Unknown}]
Fixed == Plain(Unsupported \cup {"QStartNoAckMode", "Attached", "vCont?"})
           \cup [cmd : {"Supported"}, features : {Unknown, <<<<"empty">>>>, <<<<"unknown+", "swbreak+">>>>,
                                                   <<<<"swbreak+", "hwbreak+", "xml">>>>}]
Alone(S, n) == [clients |-> {c1}, packets |-> S, events |-> n]
Sessions == {[clients |-> {c1, c2}, packets |-> Clients, events |-> 0], Alone(Lists, 2)}
              \cup {Alone(P, 1) : P \in {Registers, Memory, Document, Fixed}}
=============================================================================
