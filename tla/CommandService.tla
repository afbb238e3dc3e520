--------------------------- MODULE CommandService ---------------------------
(***************************************************************************)
(* What XBDMContext promises the callers of SendCommand: the commands are  *)
(* executed one at a time in the order they were submitted; each future    *)
(* becomes ready at most once, with a verdict that never changes; after    *)
(* the service is closed the commands that were not started are dropped    *)
(* and their futures broken.                                               *)
(***************************************************************************)
EXTENDS Sequences

CONSTANTS Request, Verdict, None

VARIABLES
  queue,    \* the commands submitted and not started, oldest first
  current,  \* the command being executed, or None
  future,   \* per command: "none", "pending", "set" or "broken"
  verdict,  \* per command: the result its caller reads, or None
  open      \* commands may be submitted

vars == <<queue, current, future, verdict, open>>

Init ==
  /\ queue = <<>>
  /\ current = None
  /\ future = [r \in Request |-> "none"]
  /\ verdict = [r \in Request |-> None]
  /\ open = TRUE

Submit(r) ==
  /\ open /\ future[r] = "none"
  /\ queue' = Append(queue, r)
  /\ future' = [future EXCEPT ![r] = "pending"]
  /\ UNCHANGED <<current, verdict, open>>

Start ==
  /\ open /\ current = None /\ queue # <<>>
  /\ current' = Head(queue)
  /\ queue' = Tail(queue)
  /\ UNCHANGED <<future, verdict, open>>

Settle(v) ==
  /\ current # None
  /\ future' = [future EXCEPT ![current] = "set"]
  /\ verdict' = [verdict EXCEPT ![current] = v]
  /\ current' = None
  /\ UNCHANGED <<queue, open>>

Close ==
  /\ open
  /\ open' = FALSE
  /\ future' = [r \in Request |->
       IF \E i \in DOMAIN queue : queue[i] = r THEN "broken" ELSE future[r]]
  /\ queue' = <<>>
  /\ UNCHANGED <<current, verdict>>

Next ==
  \/ \E r \in Request : Submit(r)
  \/ Start
  \/ \E v \in Verdict : Settle(v)
  \/ Close

Spec == Init /\ [][Next]_vars

=============================================================================
