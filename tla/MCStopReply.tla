---------------------------- MODULE MCStopReply ----------------------------
(* Instances of StopReply for TLC.                                         *)
EXTENDS StopReply

CONSTANTS t1, t2

VCont(cs) == [type |-> "vCont", commands |-> cs]
Plain(type) == [type |-> type, commands |-> <<>>]
Act(code, t) == [code |-> code, thread |-> t]

Continues == {VCont(<<Act("c", None)>>), Plain("?")}
Everything == {VCont(<<Act("c", None)>>), VCont(<<Act("c", t2)>>),
               VCont(<<Act("s", t1), Act("c", None)>>), VCont(<<Act("s", None)>>),
               Plain("?"), Plain("interrupt"), Plain("D")}

Sessions ==
  {[initial |-> <<t1, t2>>, packet |-> Continues, conditional |-> FALSE, events |-> 3, packets |-> 3],
   [initial |-> <<t1>>, packet |-> Everything, conditional |-> TRUE, events |-> 2, packets |-> 2]}
=============================================================================
