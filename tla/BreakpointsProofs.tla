-------------------------- MODULE BreakpointsProofs --------------------------
(****************************************************************************)
(* Theorems about Breakpoints, for any addresses, jobs and bounds: IndInv   *)
(* is an invariant, and the four properties of the run follow from it.      *)
(* First come the invariant, the steps that concern one executor, which     *)
(* send at most one command and leave the target and breakpoints_ alone,    *)
(* and those of the control executor; then the steps of the title and those *)
(* that change breakpoints_ or start and end a notification.                *)
(****************************************************************************)
EXTENDS Breakpoints, FiniteSetTheorems, TLAPS

-----------------------------------------------------------------------------
(* The inductive invariant. The operators take where an executor stands (l) *)
(* and the locals of its call (j), so that a step of another executor        *)
(* leaves them alone.                                                        *)

\* Where the executor is, or will be once its command is answered
Loc(l, j) == IF l = "wait" THEN j.ret ELSE l

\* What the locals are at each place
ShapeOK(l, j) ==
  /\ Loc(l, j) # "wait"
  /\ Loc(l, j) = "suspend" => j.after \in {"read", "trap"} /\ j.todo \subseteq j.overlaps
  /\ Loc(l, j) = "restore" => j.after \in {"idle", "evaluate"} /\ j.todo \subseteq j.overlaps
  /\ Loc(l, j) \in {"read", "bytes"} => j.after = "read"
  /\ Loc(l, j) \in {"trap", "trapped", "stepped"} => j.after = "trap"
  /\ Loc(l, j) = "recorded" => j.after \in {"add", "remove"}
  /\ \/ Loc(l, j) \in {"suspend", "read", "bytes", "trap", "trapped", "stepped", "recorded"}
     \/ l = "context" /\ j.ok
     => j.addr \in Addr

\* The command an executor waits for is the one its place calls for.
Fits(c, j) ==
  \/ c.op = "clear" /\ j.ret = "suspend" /\ c.addr \in j.overlaps
  \/ c.op = "clear" /\ j.ret = "recorded" /\ j.after = "remove" /\ c.addr = j.addr
  \/ c.op = "clear" /\ j.ret = "idle" /\ c.by = "shell" /\ c.addr \in Addr
  \/ c.op = "set" /\ j.ret = "restore" /\ c.addr \in j.overlaps
  \/ c.op = "set" /\ j.ret = "recorded" /\ j.after = "add" /\ c.addr = j.addr
  \/ c.op = "set" /\ j.ret = "idle" /\ c.by = "shell" /\ c.addr \in Addr
  \/ c.op = "clearall" /\ j.ret = "idle"
  \/ c.op = "getmem" /\ j.ret = "bytes"
  \/ c.op = "stop" /\ j.ret = "stopped"
  \/ c.op = "getcontext" /\ j.ret = "context"
  \/ c.op = "step" /\ j.ret = "trapped"
  \/ c.op = "go" /\ j.ret \in {"stepped", "idle", "handled"}
  \/ c.op = "walkmem" /\ j.ret = "handled"

\* The executor is to set a again.
Restores(l, j, a) ==
  \/ /\ a \in j.overlaps
     /\ \/ Loc(l, j) \in {"suspend", "read", "bytes", "trap", "trapped", "repost"}
        \/ Loc(l, j) = "stepped" /\ (l = "stepped" => ~j.ok)
  \/ Loc(l, j) = "restore" /\ a \in j.todo

\* AddBreakpoint or RemoveBreakpoint is about to record its success.
Edits(l, j, what, a) ==
  l = "recorded" /\ j.ok /\ j.after = what /\ j.addr = a

\* What a read sees, with ins in the target and cl about to be cleared
InRange(j) == {a \in Addr : a >= j.addr /\ a < j.addr + j.len}
ReadOK(l, j, ins, cl) ==
  (/\ j.after = "read"
   /\ l \in {"suspend", "read", "bytes"} \/ (l = "wait" /\ j.ret \in {"suspend", "bytes"})) =>
    /\ l # "bytes" => j.saw = {}
    /\ j.addr + j.len < AddressSpace =>
         /\ Loc(l, j) = "suspend" =>
              \A a \in ins \cap j.known : a \in InRange(j) => a \in j.todo \cup cl
         /\ Loc(l, j) # "suspend" /\ l # "bytes" =>
              \A a \in ins \cap j.known : a \notin InRange(j)
         /\ l = "bytes" => j.saw \cap j.known = {}

\* What a step finds in its way
StepOK(l, j, ins, cl) ==
  j.after = "trap" /\ Loc(l, j) \in {"suspend", "trap", "trapped", "stepped"} =>
    /\ Loc(l, j) = "suspend" => ins \cap j.overlaps \subseteq j.todo \cup cl
    /\ Loc(l, j) # "suspend" /\ l # "stepped" => ins \cap j.overlaps = {}
    /\ j.addr + 1 < AddressSpace /\ j.addr \in j.known => j.addr \in j.overlaps

ShapeInv == \A e \in Executor : ShapeOK(at[e], job[e])

\* breakpoints_lock_ is held while an edit is under way.
LockInv == \A e \in Executor : Loc(at[e], job[e]) = "recorded" => breakpoints_lock_ = e

\* A notification stays at the head of the queue until it has been handled.
NoteInv == at["notification"] # "idle" => notes # <<>>

\* Whoever has a command in the queue waits for it, and has only that one.
QueueInv ==
  /\ \A i \in DOMAIN queue :
       IF queue[i].by = None THEN queue[i].op = "set" /\ queue[i].addr \in Addr
       ELSE at[queue[i].by] = "wait" /\ Fits(queue[i], job[queue[i].by])
  /\ \A i, k \in DOMAIN queue : queue[i].by = queue[k].by /\ queue[i].by # None => i = k

\* The notification of a stop has still to be handled.
StopNoted ==
  \E i \in DOMAIN notes : notes[i].type = "stopped" /\ (i = 1 => at["notification"] = "idle")

SetQueued(a) == \E i \in DOMAIN queue : queue[i].op = "set" /\ queue[i].addr = a

Adding(a) == \E e \in Executor : Edits(at[e], job[e], "add", a)
Removing(a) == \E e \in Executor : Edits(at[e], job[e], "remove", a)

\* Somebody is going to set what is on the list and not in the target: the
\* notification of a stop, a queued command, a read or a step.
Covered(a) ==
  \/ running \/ StopNoted \/ SetQueued(a)
  \/ \E e \in Executor : Restores(at[e], job[e], a)
RecordedInv ==
  \A a \in Addr :
    a \in breakpoints_ \/ Adding(a) =>
      a \in installed \/ a \in excused \/ Covered(a) \/ Removing(a)

\* What is in the target or will be set again is on the list or accounted for.
Due(a) ==
  \/ \E e \in Executor : a \in job[e].overlaps
  \/ \E i \in DOMAIN queue : queue[i].by = None /\ queue[i].op = "set" /\ queue[i].addr = a
OrphanInv ==
  \A a \in Addr :
    /\ a \in installed => a \in breakpoints_ \/ a \in shellSet \/ a \in lost \/ Adding(a)
    /\ Due(a) => a \in breakpoints_ \/ a \in lost
    /\ Removing(a) => /\ Due(a) => a \in lost
                      /\ a \in installed => a \in shellSet \/ a \in lost

Clears(e) == {a \in Addr : \E i \in DOMAIN queue :
                queue[i].by = e /\ queue[i].op = "clear" /\ queue[i].addr = a}
DisturbInv ==
  \A e \in Executor : e \notin disturbed =>
    /\ ReadOK(at[e], job[e], installed, Clears(e))
    /\ StepOK(at[e], job[e], installed, Clears(e))

IndInv ==
  /\ TypeOK /\ ShapeInv /\ LockInv /\ NoteInv /\ QueueInv
  /\ RecordedInv /\ OrphanInv /\ DisturbInv

-----------------------------------------------------------------------------
(* Facts about the queues and the steps of one executor.                    *)

\* The three executors are different, and none of them is None.
LEMMA Names ==
  /\ "gdb" \in Executor /\ "shell" \in Executor /\ "notification" \in Executor
  /\ None \notin Executor /\ None \notin Addr
BY Zenon, BreakpointsAssumption DEF Executor

\* A command at the end of the queue
LEMMA QueueAppend ==
  ASSUME queue \in Seq(Command), NEW c \in Command, queue' = Append(queue, c)
  PROVE  /\ queue' \in Seq(Command)
         /\ \A i \in DOMAIN queue : i \in DOMAIN queue' /\ queue'[i] = queue[i]
         /\ \A i \in DOMAIN queue' : i \in DOMAIN queue \/ i = Len(queue) + 1
         /\ Len(queue) + 1 \in DOMAIN queue' /\ Len(queue) + 1 \notin DOMAIN queue
         /\ queue'[Len(queue) + 1] = c
OBVIOUS

\* What is left of a queue whose head is taken off
LEMMA TailFacts ==
  ASSUME NEW S, NEW s \in Seq(S), s # <<>>
  PROVE  /\ Tail(s) \in Seq(S) /\ Head(s) = s[1] /\ 1 \in DOMAIN s /\ s[1] \in S
         /\ \A i \in DOMAIN Tail(s) : i + 1 \in DOMAIN s /\ Tail(s)[i] = s[i + 1] /\ i + 1 # 1
         /\ \A i \in DOMAIN s : i # 1 => i - 1 \in DOMAIN Tail(s) /\ Tail(s)[i - 1] = s[i]
<1>1. Len(s) \in Nat /\ Len(s) # 0 /\ DOMAIN s = 1 .. Len(s)
  OBVIOUS
<1>2. 1 \in DOMAIN s /\ s[1] \in S /\ Head(s) = s[1]
  BY <1>1
<1>3. Tail(s) \in Seq(S) /\ Len(Tail(s)) = Len(s) - 1
  BY <1>1
<1>4. DOMAIN Tail(s) = 1 .. Len(s) - 1
  BY <1>3
<1>5. \A i \in 1 .. Len(s) - 1 : Tail(s)[i] = s[i + 1]
  BY <1>1
<1> QED
  BY <1>1, <1>2, <1>3, <1>4, <1>5

\* A command off the head of the queue
LEMMA QueueTail ==
  ASSUME queue \in Seq(Command), queue # <<>>, queue' = Tail(queue)
  PROVE  /\ queue' \in Seq(Command) /\ Head(queue) = queue[1] /\ 1 \in DOMAIN queue
         /\ queue[1] \in Command
         /\ \A i \in DOMAIN queue' : i + 1 \in DOMAIN queue /\ queue'[i] = queue[i + 1] /\ i + 1 # 1
         /\ \A i \in DOMAIN queue : i # 1 => i - 1 \in DOMAIN queue' /\ queue'[i - 1] = queue[i]
BY Zenon, TailFacts

\* What is in the queue
LEMMA Queued ==
  ASSUME TypeOK, NEW i \in DOMAIN queue
  PROVE  queue[i] \in Command /\ queue[i].by \in Executor \cup {None}
         /\ queue[i].addr \in Addr \cup {None}
<1>1. queue \in Seq(Command)
  BY Zenon DEF TypeOK
<1>2. queue[i] \in Command
  BY <1>1
<1> QED
  BY Zenon, <1>2 DEF Command

\* A notification off the head
LEMMA NotesTail ==
  ASSUME notes \in Seq(Note), notes # <<>>, notes' = Tail(notes)
  PROVE  /\ notes' \in Seq(Note) /\ Head(notes) = notes[1] /\ 1 \in DOMAIN notes
         /\ notes[1] \in Note
         /\ \A i \in DOMAIN notes : i # 1 => i - 1 \in DOMAIN notes' /\ notes'[i - 1] = notes[i]
BY Zenon, TailFacts

-----------------------------------------------------------------------------
(* A step of one executor: it does not touch the target or breakpoints_,     *)
(* and sends at most one command.                                            *)

LocalStep(e) ==
  /\ TypeOK' /\ at[e] \notin {"wait", "recorded"} /\ at'[e] # "recorded"
  /\ \A d \in Executor \ {e} : at'[d] = at[d] /\ job'[d] = job[d]
  /\ UNCHANGED <<installed, running, notes, breakpoints_, shellSet, excused, lost>>
  /\ ShapeOK(at'[e], job'[e])
  /\ Loc(at'[e], job'[e]) = "recorded" => breakpoints_lock_' = e
  /\ breakpoints_lock_' = breakpoints_lock_ \/ breakpoints_lock_ = None
  /\ \/ queue' = queue /\ at'[e] # "wait"
     \/ \E c \in Command : /\ queue' = Append(queue, c) /\ c.by = e
                           /\ at'[e] = "wait" /\ Fits(c, job'[e])
  /\ \A a \in job'[e].overlaps :
       a \in job[e].overlaps \/ (breakpoints_lock_ = None /\ a \in breakpoints_)
  /\ \A a \in Addr : Restores(at[e], job[e], a) => Restores(at'[e], job'[e], a) \/ SetQueued(a)'
  /\ e = "notification" /\ at[e] = "idle" /\ at'[e] # "idle" =>
       /\ notes # <<>>
       /\ notes[1].type = "stopped" =>
            /\ breakpoints_lock_ = None
            /\ \A a \in breakpoints_ : Restores(at'[e], job'[e], a)
  /\ disturbed' \cup {e} = disturbed \cup {e}
  /\ e \notin disturbed' => /\ ReadOK(at'[e], job'[e], installed, Clears(e)')
                           /\ StepOK(at'[e], job'[e], installed, Clears(e)')

\* The commands in the queue before a step of e are there after it; the new
\* one, if any, is e's.
LEMMA LocalQueue ==
  ASSUME TypeOK, NEW e \in Executor, LocalStep(e)
  PROVE  /\ \A i \in DOMAIN queue : i \in DOMAIN queue' /\ queue'[i] = queue[i]
         /\ \A i \in DOMAIN queue' : i \in DOMAIN queue \/ (queue'[i].by = e /\ i = Len(queue) + 1)
<1>1. CASE queue' = queue
  BY Zenon, <1>1
<1>2. CASE \E c \in Command : queue' = Append(queue, c) /\ c.by = e
  <2>1. PICK c \in Command : queue' = Append(queue, c) /\ c.by = e
    BY Zenon, <1>2
  <2>2. queue \in Seq(Command)
    BY Zenon DEF TypeOK
  <2> QED
    BY Zenon, <2>1, <2>2, QueueAppend
<1> QED
  BY Zenon, <1>1, <1>2 DEF LocalStep

\* A step of one executor keeps the queue in order.
LEMMA LocalQueueInv ==
  ASSUME IndInv, NEW e \in Executor, LocalStep(e)
  PROVE  QueueInv'
<1>1. TypeOK /\ QueueInv
  BY Zenon DEF IndInv
<1>2. \A i \in DOMAIN queue : queue[i].by # e
  BY Zenon, <1>1, Names DEF QueueInv, LocalStep
<1>3. \A i \in DOMAIN queue : queue[i].by \in Executor \cup {None}
  BY Zenon, <1>1, Queued
<1>4. ASSUME NEW i \in DOMAIN queue'
      PROVE  IF queue'[i].by = None THEN queue'[i].op = "set" /\ queue'[i].addr \in Addr
             ELSE at'[queue'[i].by] = "wait" /\ Fits(queue'[i], job'[queue'[i].by])
  <2>1. CASE i \in DOMAIN queue
    <3>1. queue'[i] = queue[i]
      BY Zenon, <2>1, <1>1, LocalQueue
    <3>2. CASE queue[i].by = None
      BY Zenon, <2>1, <3>1, <3>2, <1>1 DEF QueueInv
    <3>3. CASE queue[i].by \in Executor \ {e}
      BY Zenon, <2>1, <3>1, <3>3, <1>1, Names DEF QueueInv, LocalStep
    <3> QED
      BY Zenon, <2>1, <3>2, <3>3, <1>2, <1>3
  <2>2. CASE i \notin DOMAIN queue
    <3>1. PICK c \in Command : /\ queue' = Append(queue, c) /\ c.by = e
                              /\ at'[e] = "wait" /\ Fits(c, job'[e])
      BY Zenon, <2>2 DEF LocalStep
    <3>2. queue'[i] = c
      BY Zenon, <2>2, <3>1, QueueAppend, <1>1 DEF TypeOK
    <3> QED
      BY Zenon, <3>1, <3>2, Names
  <2> QED
    BY Zenon, <2>1, <2>2
<1>5. ASSUME NEW i \in DOMAIN queue', NEW k \in DOMAIN queue', queue'[i].by = queue'[k].by,
             queue'[i].by # None
      PROVE  i = k
  BY Zenon, <1>1, <1>2, <1>5, LocalQueue DEF QueueInv
<1> QED
  BY Zenon, <1>4, <1>5 DEF QueueInv

\* A step of one executor leaves everything on the list covered.
LEMMA LocalRecordedInv ==
  ASSUME IndInv, NEW e \in Executor, LocalStep(e)
  PROVE  RecordedInv'
<1> SUFFICES ASSUME NEW a \in Addr, a \in breakpoints_' \/ Adding(a)'
             PROVE  a \in installed' \/ a \in excused' \/ Covered(a)' \/ Removing(a)'
  BY Zenon DEF RecordedInv
<1>1. TypeOK /\ QueueInv /\ RecordedInv /\ LockInv
  BY Zenon DEF IndInv
<1>2. ASSUME NEW what, NEW d \in Executor
      PROVE  Edits(at'[d], job'[d], what, a) <=> Edits(at[d], job[d], what, a)
  <2>1. CASE d = e
    BY Zenon, <2>1 DEF LocalStep, Edits
  <2>2. CASE d # e
    BY Zenon, <2>2 DEF LocalStep
  <2> QED
    BY Zenon, <2>1, <2>2
<1>3. (Adding(a)' <=> Adding(a)) /\ (Removing(a)' <=> Removing(a))
  BY Zenon, <1>2 DEF Adding, Removing
<1>4. a \in breakpoints_ \/ Adding(a)
  BY Zenon, <1>3 DEF LocalStep
<1>5. a \in installed \/ a \in excused \/ Covered(a) \/ Removing(a)
  BY Zenon, <1>1, <1>4 DEF RecordedInv
<1>6. SetQueued(a) => SetQueued(a)'
  BY Zenon, <1>1, LocalQueue DEF SetQueued
<1>7. ASSUME NEW d \in Executor, Restores(at[d], job[d], a)
      PROVE  Covered(a)'
  BY Zenon, <1>7 DEF Covered, LocalStep
<1>8. ASSUME StopNoted
      PROVE  Covered(a)'
  <2>1. PICK i \in DOMAIN notes : notes[i].type = "stopped" /\ (i = 1 => at["notification"] = "idle")
    BY Zenon, <1>8 DEF StopNoted
  <2>2. CASE i # 1 \/ at'["notification"] = "idle"
    BY Zenon, <2>1, <2>2 DEF StopNoted, Covered, LocalStep
  <2>3. CASE i = 1 /\ at'["notification"] # "idle"
    <3>1. e = "notification" /\ at[e] = "idle"
      BY Zenon, <2>1, <2>3, Names DEF LocalStep
    <3>2. breakpoints_lock_ = None /\ \A b \in breakpoints_ : Restores(at'[e], job'[e], b)
      BY Zenon, <2>1, <2>3, <3>1 DEF LocalStep
    <3>3. ~Adding(a)
      BY Zenon, <3>2, <1>1, Names DEF Adding, Edits, LockInv, Loc
    <3> QED
      BY Zenon, <1>4, <3>2, <3>3 DEF Covered
  <2> QED
    BY Zenon, <2>2, <2>3
<1> QED
  BY Zenon, <1>3, <1>5, <1>6, <1>7, <1>8 DEF Covered, LocalStep

\* A step of one executor leaves everything in the target accounted for.
LEMMA LocalOrphanInv ==
  ASSUME IndInv, NEW e \in Executor, LocalStep(e)
  PROVE  OrphanInv'
<1> SUFFICES ASSUME NEW a \in Addr
             PROVE  /\ a \in installed' =>
                         a \in breakpoints_' \/ a \in shellSet' \/ a \in lost' \/ Adding(a)'
                    /\ Due(a)' => a \in breakpoints_' \/ a \in lost'
                    /\ Removing(a)' => /\ Due(a)' => a \in lost'
                                       /\ a \in installed' => a \in shellSet' \/ a \in lost'
  BY Zenon DEF OrphanInv
<1>1. TypeOK /\ QueueInv /\ OrphanInv /\ LockInv
  BY Zenon DEF IndInv
<1>2. ASSUME NEW what, NEW d \in Executor
      PROVE  Edits(at'[d], job'[d], what, a) <=> Edits(at[d], job[d], what, a)
  <2>1. CASE d = e
    BY Zenon, <2>1 DEF LocalStep, Edits
  <2>2. CASE d # e
    BY Zenon, <2>2 DEF LocalStep
  <2> QED
    BY Zenon, <2>1, <2>2
<1>3. (Adding(a)' <=> Adding(a)) /\ (Removing(a)' <=> Removing(a))
  BY Zenon, <1>2 DEF Adding, Removing
<1>4. Due(a)' => Due(a) \/ (breakpoints_lock_ = None /\ a \in breakpoints_)
  <2>1. ASSUME NEW d \in Executor, a \in job'[d].overlaps
        PROVE  Due(a) \/ (breakpoints_lock_ = None /\ a \in breakpoints_)
    BY Zenon, <2>1 DEF Due, LocalStep
  <2>2. ASSUME NEW i \in DOMAIN queue', queue'[i].by = None, queue'[i].op = "set", queue'[i].addr = a
        PROVE  Due(a)
    <3>1. i \in DOMAIN queue /\ queue'[i] = queue[i]
      BY Zenon, <1>1, <2>2, LocalQueue, Names
    <3> QED
      BY Zenon, <2>2, <3>1 DEF Due
  <2> QED
    BY Zenon, <2>1, <2>2 DEF Due
<1>5. Removing(a) => breakpoints_lock_ # None
  BY Zenon, <1>1, Names DEF Removing, Edits, LockInv, Loc
<1>6. UNCHANGED <<installed, breakpoints_, shellSet, lost>>
  BY Zenon DEF LocalStep
<1> QED
  BY Zenon, <1>1, <1>3, <1>4, <1>5, <1>6 DEF OrphanInv

\* A step of one executor preserves IndInv.
LEMMA LocalIndInv ==
  ASSUME IndInv, NEW e \in Executor, LocalStep(e)
  PROVE  IndInv'
<1>1. TypeOK /\ ShapeInv /\ LockInv /\ NoteInv /\ DisturbInv
  BY Zenon DEF IndInv
<1>2. ShapeInv'
  BY Zenon, <1>1 DEF ShapeInv, LocalStep
<1>3. LockInv'
  BY Zenon, <1>1, Names DEF LockInv, LocalStep
<1>4. NoteInv'
  BY Zenon, <1>1, Names DEF NoteInv, LocalStep
<1>5. DisturbInv'
  <2> SUFFICES ASSUME NEW d \in Executor, d \notin disturbed'
               PROVE  /\ ReadOK(at'[d], job'[d], installed', Clears(d)')
                      /\ StepOK(at'[d], job'[d], installed', Clears(d)')
    BY Zenon DEF DisturbInv
  <2>1. CASE d = e
    BY Zenon, <2>1 DEF LocalStep
  <2>2. CASE d # e
    <3>1. Clears(d)' = Clears(d)
      BY Zenon, <2>2, <1>1, LocalQueue DEF Clears
    <3>2. d \notin disturbed
      BY <2>2 DEF LocalStep
    <3> QED
      BY Zenon, <2>2, <3>1, <3>2, <1>1 DEF LocalStep, DisturbInv
  <2> QED
    BY Zenon, <2>1, <2>2
<1> QED
  BY Zenon, <1>2, <1>3, <1>4, <1>5, LocalQueueInv, LocalRecordedInv, LocalOrphanInv DEF IndInv, LocalStep

-----------------------------------------------------------------------------
(* The steps of one executor, by what they do to its place and its locals.  *)

\* What a step of executor e leaves alone, and the lock it may take
OthersKept(e) ==
  /\ UNCHANGED <<installed, running, eip, trap, notes, breakpoints_,
                 events, failures, shellSet, excused, lost>>
  /\ jobs' \in Nat /\ breakpoint_conditions_' \in [Addr -> Condition \cup {None}]
  /\ breakpoints_lock_' = breakpoints_lock_ \/ (breakpoints_lock_ = None /\ breakpoints_lock_' = e)

\* An executor that does not wait has no command in the queue.
LEMMA NoneQueued ==
  ASSUME IndInv, NEW e \in Executor, at[e] # "wait"
  PROVE  Clears(e) = {} /\ \A i \in DOMAIN queue : queue[i].by # e
<1>1. \A i \in DOMAIN queue : queue[i].by # e
  BY Zenon, Names DEF IndInv, QueueInv
<1>2. Clears(e) = {}
  BY Zenon, <1>1 DEF Clears
<1> QED
  BY Zenon, <1>1, <1>2

\* Executor e goes from one place to another without sending a command.
LEMMA MoveIsLocal ==
  ASSUME IndInv, NEW e \in Executor, NEW l \in Label, NEW j \in Job,
         Goto(e, l), job' = [job EXCEPT ![e] = j], queue' = queue, OthersKept(e),
         at[e] \notin {"wait", "recorded"}, l \notin {"wait", "recorded"},
         ShapeOK(l, j),
         \A a \in j.overlaps :
           a \in job[e].overlaps \/ (breakpoints_lock_ = None /\ a \in breakpoints_),
         \A a \in Addr : Restores(at[e], job[e], a) => Restores(l, j, a),
         e = "notification" /\ at[e] = "idle" =>
           /\ notes # <<>>
           /\ notes[1].type = "stopped" =>
                breakpoints_lock_ = None /\ \A a \in breakpoints_ : Restores(l, j, a),
         disturbed' = disturbed \/ disturbed' = disturbed \ {e},
         e \notin disturbed' => ReadOK(l, j, installed, {}) /\ StepOK(l, j, installed, {})
  PROVE  LocalStep(e)
<1>1. TypeOK
  BY Zenon DEF IndInv
<1>2. at'[e] = l /\ at' \in [Executor -> Label] /\ \A d \in Executor \ {e} : at'[d] = at[d]
  BY Zenon, <1>1 DEF Goto, TypeOK
<1>3. job'[e] = j /\ job' \in [Executor -> Job] /\ \A d \in Executor \ {e} : job'[d] = job[d]
  BY Zenon, <1>1 DEF TypeOK
<1>4. Clears(e)' = {}
  BY Zenon, NoneQueued DEF Clears
<1>5. TypeOK'
  <2>1. disturbed' \subseteq Executor
    BY Zenon, <1>1 DEF TypeOK
  <2> QED
    BY Zenon, <1>1, <1>2, <1>3, <2>1 DEF TypeOK, OthersKept
<1>6. disturbed' \cup {e} = disturbed \cup {e}
  BY Zenon
<1>7. UNCHANGED <<installed, running, notes, breakpoints_, shellSet, excused, lost>>
  BY Zenon DEF OthersKept
<1>8. Loc(l, j) # "recorded"
  BY Zenon DEF Loc
<1> QED
  BY Zenon, <1>2, <1>3, <1>4, <1>5, <1>6, <1>7, <1>8 DEF LocalStep, OthersKept

\* What a command sets and clears
Sets(op, addr, a) == op = "set" /\ addr = a
Cleared(op, addr) == IF op = "clear" THEN {addr} ELSE {}

\* Executor e sends a command and waits.
LEMMA SendIsLocal ==
  ASSUME IndInv, NEW e \in Executor, NEW op, NEW addr, NEW ret \in Label, NEW r \in Job, NEW j,
         j = [r EXCEPT !.ret = ret], [by |-> e, op |-> op, addr |-> addr] \in Command,
         SendCommandSync(e, op, addr, ret, r), OthersKept(e),
         at[e] \notin {"wait", "recorded"}, e = "notification" => at[e] # "idle",
         ret = "recorded" => breakpoints_lock_' = e,
         ShapeOK("wait", j), Fits([by |-> e, op |-> op, addr |-> addr], j),
         j.overlaps \subseteq job[e].overlaps,
         \A a \in Addr : Restores(at[e], job[e], a) => Restores("wait", j, a) \/ Sets(op, addr, a),
         disturbed' = disturbed,
         e \notin disturbed => /\ ReadOK("wait", j, installed, Cleared(op, addr))
                              /\ StepOK("wait", j, installed, Cleared(op, addr))
  PROVE  LocalStep(e)
<1> DEFINE c == [by |-> e, op |-> op, addr |-> addr]
<1>1. TypeOK
  BY Zenon DEF IndInv
<1>2. at'[e] = "wait" /\ at' \in [Executor -> Label] /\ \A d \in Executor \ {e} : at'[d] = at[d]
  BY Zenon, <1>1 DEF SendCommandSync, Goto, TypeOK, Label
<1>3. j \in Job /\ j.ret = ret
  BY Zenon DEF Job
<1>4. job'[e] = j /\ job' \in [Executor -> Job] /\ \A d \in Executor \ {e} : job'[d] = job[d]
  BY Zenon, <1>1, <1>3 DEF SendCommandSync, Locals, TypeOK
<1>5. c \in Command /\ c.by = e /\ c.op = op /\ c.addr = addr /\ queue' = Append(queue, c)
  BY Zenon DEF SendCommandSync
<1>6. queue \in Seq(Command)
  BY Zenon, <1>1 DEF TypeOK
<1> HIDE DEF c
<1>7. /\ queue' \in Seq(Command)
      /\ \A i \in DOMAIN queue : i \in DOMAIN queue' /\ queue'[i] = queue[i]
      /\ \A i \in DOMAIN queue' : i \in DOMAIN queue \/ i = Len(queue) + 1
      /\ Len(queue) + 1 \in DOMAIN queue' /\ Len(queue) + 1 \notin DOMAIN queue
      /\ queue'[Len(queue) + 1] = c
  BY Zenon, <1>5, <1>6, QueueAppend
<1>8. \A i \in DOMAIN queue : queue[i].by # e
  BY Zenon, NoneQueued
<1>9. Clears(e)' = Cleared(op, addr)
  <2>1. CASE op = "clear"
    <3>1. addr \in Addr
      BY Zenon, <2>1, <1>3, <1>5 DEF Fits, ShapeOK, Loc, Job
    <3>2. \A a \in Addr : a \in Clears(e)' <=> a = addr
      BY Zenon, <2>1, <1>5, <1>7, <1>8 DEF Clears
    <3> QED
      BY Zenon, <2>1, <3>1, <3>2 DEF Clears, Cleared
  <2>2. CASE op # "clear"
    <3>1. ASSUME NEW i \in DOMAIN queue'
          PROVE  ~(queue'[i].by = e /\ queue'[i].op = "clear")
      <4>1. CASE i \in DOMAIN queue
        BY Zenon, <4>1, <1>7, <1>8
      <4>2. CASE i \notin DOMAIN queue
        BY Zenon, <4>2, <2>2, <1>5, <1>7
      <4> QED
        BY Zenon, <4>1, <4>2
    <3> QED
      BY Zenon, <2>2, <3>1 DEF Clears, Cleared
  <2> QED
    BY Zenon, <2>1, <2>2
<1>10. TypeOK'
  <2>1. breakpoints_lock_' \in Executor \cup {None}
    BY Zenon, <1>1 DEF TypeOK, OthersKept
  <2> QED
    BY Zenon, <1>1, <1>2, <1>4, <1>7, <2>1 DEF TypeOK, OthersKept
<1>11. UNCHANGED <<installed, running, notes, breakpoints_, shellSet, excused, lost>>
  BY Zenon DEF OthersKept
<1>12. Loc("wait", j) = "recorded" => breakpoints_lock_' = e
  BY Zenon, <1>3 DEF Loc
<1>13. \A a \in Addr : Sets(op, addr, a) => SetQueued(a)'
  BY Zenon, <1>5, <1>7 DEF SetQueued, Sets
<1>14. /\ \A a \in job'[e].overlaps : a \in job[e].overlaps
       /\ \A a \in Addr : Restores(at[e], job[e], a) => Restores(at'[e], job'[e], a) \/ SetQueued(a)'
  BY Zenon, <1>2, <1>4, <1>13
<1>15. \E d \in Command : /\ queue' = Append(queue, d) /\ d.by = e
                          /\ at'[e] = "wait" /\ Fits(d, job'[e])
  <2>1. Fits(c, job'[e])
    BY Zenon, <1>4 DEF c
  <2> QED
    BY Zenon, <2>1, <1>2, <1>5
<1> QED
  BY Zenon, <1>2, <1>4, <1>9, <1>10, <1>11, <1>12, <1>14, <1>15 DEF LocalStep, OthersKept

-----------------------------------------------------------------------------
(* Each of them.                                                             *)

\* The locals have their types.
LEMMA JobTyped ==
  ASSUME TypeOK, NEW e \in Executor
  PROVE  job[e] \in Job /\ at[e] \in Label
BY Zenon DEF TypeOK

\* The locals of an executor without a call
LEMMA NoJobTyped == NoJob \in Job
BY BreakpointsAssumption DEF NoJob, Job, Label

\* What the action leaves unchanged is what OthersKept asks for.
LEMMA KeptFrame ==
  ASSUME TypeOK, NEW e \in Executor,
         UNCHANGED <<installed, running, eip, trap, notes, breakpoints_, breakpoints_lock_,
                     breakpoint_conditions_, events, failures, shellSet, excused, lost>>,
         jobs' = jobs \/ jobs' = jobs + 1
  PROVE  OthersKept(e)
<1>1. jobs' \in Nat
  BY DEF TypeOK
<1> QED
  BY Zenon, <1>1 DEF TypeOK, OthersKept

\* SuspendBreakpoints clears the next breakpoint, or goes on when all are out.
LEMMA SuspendIsLocal ==
  ASSUME IndInv, NEW e \in Executor, SuspendBreakpoints(e)
  PROVE  LocalStep(e)
<1>1. TypeOK /\ at[e] = "suspend" /\ OthersKept(e) /\ disturbed' = disturbed
  BY Zenon, KeptFrame DEF IndInv, SuspendBreakpoints, target, debugger, bounds, history
<1>2. /\ job[e] \in Job /\ ShapeOK(at[e], job[e]) /\ Clears(e) = {}
      /\ e \notin disturbed => ReadOK(at[e], job[e], installed, {}) /\ StepOK(at[e], job[e], installed, {})
  BY Zenon, <1>1, JobTyped, NoneQueued DEF IndInv, ShapeInv, DisturbInv
<1>3. job[e].after \in {"read", "trap"} /\ job[e].todo \subseteq job[e].overlaps /\ job[e].addr \in Addr
  BY Zenon, <1>1, <1>2 DEF ShapeOK, Loc
<1>4. CASE job[e].todo = {}
  <2> DEFINE l == job[e].after
             j == job[e]
  <2>1. Goto(e, l) /\ queue' = queue /\ job' = job
    BY Zenon, <1>4 DEF SuspendBreakpoints
  <2>2. job' = [job EXCEPT ![e] = j]
    BY Zenon, <2>1, <1>1 DEF TypeOK
  <2>3. ShapeOK(l, j)
    BY Zenon, <1>1, <1>2, <1>3 DEF ShapeOK, Loc
  <2>4. \A a \in Addr : Restores(at[e], job[e], a) => Restores(l, j, a)
    BY Zenon, <1>1, <1>3 DEF Restores, Loc
  <2>5. e \notin disturbed => ReadOK(l, j, installed, {}) /\ StepOK(l, j, installed, {})
    BY Zenon, <1>1, <1>2, <1>3, <1>4 DEF ReadOK, StepOK, Loc
  <2>6. l \in Label /\ l \notin {"wait", "recorded"}
    BY Zenon, <1>3 DEF Label
  <2> HIDE DEF l, j
  <2> QED
    BY Zenon, <1>1, <1>2, <2>1, <2>2, <2>3, <2>4, <2>5, <2>6, MoveIsLocal DEF j
<1>5. CASE job[e].todo # {}
  <2>1. PICK bp \in job[e].todo :
          SendCommandSync(e, "clear", bp, "suspend", [job[e] EXCEPT !.todo = @ \ {bp}])
    BY Zenon, <1>5 DEF SuspendBreakpoints
  <2> DEFINE r == [job[e] EXCEPT !.todo = @ \ {bp}]
             j == [r EXCEPT !.ret = "suspend"]
             c == [by |-> e, op |-> "clear", addr |-> bp]
  <2>2. r \in Job /\ bp \in Addr
    BY Zenon, <1>2, <1>3 DEF Job
  <2>3. /\ j.ret = "suspend" /\ j.todo = job[e].todo \ {bp} /\ j.overlaps = job[e].overlaps
        /\ j.after = job[e].after /\ j.addr = job[e].addr /\ j.len = job[e].len
        /\ j.saw = job[e].saw /\ j.known = job[e].known
    BY Zenon, <1>2 DEF Job
  <2>4. c \in Command /\ c.op = "clear" /\ c.addr = bp
    BY Zenon, <2>2 DEF Command
  <2> HIDE DEF j, r, c
  <2>5. ShapeOK("wait", j)
    BY Zenon, <1>1, <1>2, <1>3, <2>3 DEF ShapeOK, Loc
  <2>6. Fits(c, j)
    BY Zenon, <1>3, <2>3, <2>4 DEF Fits
  <2>7. \A a \in Addr : Restores(at[e], job[e], a) => Restores("wait", j, a)
    BY Zenon, <1>1, <1>3, <2>3 DEF Restores, Loc
  <2>8. InRange(j) = InRange(job[e])
    BY Zenon, <2>3 DEF InRange
  <2>9. e \notin disturbed => /\ ReadOK("wait", j, installed, Cleared("clear", bp))
                             /\ StepOK("wait", j, installed, Cleared("clear", bp))
    BY Zenon, <1>1, <1>2, <1>3, <2>3, <2>8 DEF ReadOK, StepOK, Loc, Cleared
  <2>10. /\ j = [r EXCEPT !.ret = "suspend"] /\ c = [by |-> e, op |-> "clear", addr |-> bp]
         /\ "suspend" \in Label /\ SendCommandSync(e, "clear", bp, "suspend", r)
    BY Zenon, <2>1 DEF j, r, c, Label
  <2> QED
    BY Zenon, <1>1, <2>2, <2>3, <2>4, <2>5, <2>6, <2>7, <2>9, <2>10, SendIsLocal
<1> QED
  BY Zenon, <1>4, <1>5


\* A job that ends
LEMMA PlainMove ==
  ASSUME IndInv, NEW e \in Executor, NEW l \in {"idle", "handled", "evaluate"}, NEW j \in Job,
         Goto(e, l), job' = [job EXCEPT ![e] = j], queue' = queue, OthersKept(e),
         at[e] \notin {"wait", "recorded"}, j.overlaps \subseteq job[e].overlaps,
         \A a \in Addr : ~Restores(at[e], job[e], a),
         e = "notification" /\ at[e] = "idle" => notes # <<>> /\ notes[1].type # "stopped",
         disturbed' = disturbed
  PROVE  LocalStep(e)
<1>1. ShapeOK(l, j)
  BY Zenon DEF ShapeOK, Loc
<1>2. ReadOK(l, j, installed, {}) /\ StepOK(l, j, installed, {})
  BY Zenon DEF ReadOK, StepOK, Loc
<1>3. l \in Label /\ l \notin {"wait", "recorded"}
  BY Zenon DEF Label
<1>4. \A a \in j.overlaps : a \in job[e].overlaps
  BY Zenon
<1> QED
  BY Zenon, <1>1, <1>2, <1>3, <1>4, MoveIsLocal

\* Where the executor goes on after a command that begins or ends a job
PlainReturn(e, ret, r) ==
  /\ ret \in {"idle", "handled", "stopped", "recorded"}
  /\ ret = "recorded" => /\ breakpoints_lock_' = e
                         /\ r.after \in {"add", "remove"} /\ r.addr \in Addr
  /\ r.overlaps = {} /\ r.after \notin {"read", "trap"}
  /\ e = "notification" => at[e] # "idle"

\* A command that begins a job, or is all there is to it
LEMMA PlainSend ==
  ASSUME IndInv, NEW e \in Executor, NEW op, NEW addr, NEW r \in Job, NEW ret, PlainReturn(e, ret, r),
         [by |-> e, op |-> op, addr |-> addr] \in Command,
         SendCommandSync(e, op, addr, ret, r), OthersKept(e),
         at[e] \notin {"wait", "recorded"},
         Fits([by |-> e, op |-> op, addr |-> addr], [r EXCEPT !.ret = ret]),
         \A a \in Addr : ~Restores(at[e], job[e], a),
         disturbed' = disturbed
  PROVE  LocalStep(e)
<1> DEFINE j == [r EXCEPT !.ret = ret]
<1>1. j.ret = ret /\ j.after = r.after /\ j.addr = r.addr /\ j.overlaps = {}
  BY Zenon DEF Job, PlainReturn
<1>2. j = [r EXCEPT !.ret = ret] /\ Fits([by |-> e, op |-> op, addr |-> addr], j)
  BY Zenon
<1> HIDE DEF j
<1>3. ShapeOK("wait", j)
  BY Zenon, <1>1 DEF ShapeOK, Loc, PlainReturn
<1>4. \A cl : ReadOK("wait", j, installed, cl) /\ StepOK("wait", j, installed, cl)
  BY Zenon, <1>1 DEF ReadOK, StepOK, Loc, PlainReturn
<1>5. ret \in Label
  BY Zenon DEF Label, PlainReturn
<1>6. j.overlaps \subseteq job[e].overlaps
  BY Zenon, <1>1
<1> QED
  BY Zenon, <1>2, <1>3, <1>4, <1>5, <1>6, SendIsLocal DEF PlainReturn

\* RestoreBreakpoints sets the next breakpoint, or goes on when all are in.
LEMMA RestoreIsLocal ==
  ASSUME IndInv, NEW e \in Executor, RestoreBreakpoints(e)
  PROVE  LocalStep(e)
<1>1. TypeOK /\ at[e] = "restore" /\ OthersKept(e) /\ disturbed' = disturbed
  BY Zenon, KeptFrame DEF IndInv, RestoreBreakpoints, target, debugger, bounds, history
<1>2. job[e] \in Job /\ ShapeOK(at[e], job[e])
  BY Zenon, <1>1, JobTyped DEF IndInv, ShapeInv
<1>3. job[e].after \in {"idle", "evaluate"} /\ job[e].todo \subseteq job[e].overlaps
  BY Zenon, <1>1, <1>2 DEF ShapeOK, Loc
<1>4. CASE job[e].todo = {}
  <2> DEFINE l == job[e].after
             j == IF job[e].after = "idle" THEN NoJob
                  ELSE [job[e] EXCEPT !.overlaps = {}, !.saw = {}, !.known = {}]
  <2>1. Goto(e, l) /\ queue' = queue /\ job' = [job EXCEPT ![e] = j]
    BY Zenon, <1>4 DEF RestoreBreakpoints, Locals
  <2>2. j \in Job /\ j.overlaps \subseteq job[e].overlaps
    BY Zenon, <1>2, NoJobTyped DEF Job, NoJob
  <2>3. \A a \in Addr : ~Restores(at[e], job[e], a)
    BY Zenon, <1>1, <1>4 DEF Restores, Loc
  <2>4. l \in {"idle", "handled", "evaluate"}
    BY Zenon, <1>3
  <2> HIDE DEF l, j
  <2> QED
    BY Zenon, <1>1, <2>1, <2>2, <2>3, <2>4, PlainMove
<1>5. CASE job[e].todo # {}
  <2>1. PICK bp \in job[e].todo :
          SendCommandSync(e, "set", bp, "restore", [job[e] EXCEPT !.todo = @ \ {bp}])
    BY Zenon, <1>5 DEF RestoreBreakpoints
  <2> DEFINE r == [job[e] EXCEPT !.todo = @ \ {bp}]
             j == [r EXCEPT !.ret = "restore"]
             c == [by |-> e, op |-> "set", addr |-> bp]
  <2>2. r \in Job /\ bp \in Addr
    BY Zenon, <1>2, <1>3 DEF Job
  <2>3. /\ j.ret = "restore" /\ j.todo = job[e].todo \ {bp} /\ j.overlaps = job[e].overlaps
        /\ j.after = job[e].after /\ j.addr = job[e].addr
    BY Zenon, <1>2 DEF Job
  <2>4. c \in Command /\ c.op = "set" /\ c.addr = bp
    BY Zenon, <2>2 DEF Command
  <2> HIDE DEF j, r, c
  <2>5. ShapeOK("wait", j)
    BY Zenon, <1>1, <1>2, <1>3, <2>3 DEF ShapeOK, Loc
  <2>6. Fits(c, j)
    BY Zenon, <1>3, <2>3, <2>4 DEF Fits
  <2>7. \A a \in Addr : Restores(at[e], job[e], a) => Restores("wait", j, a) \/ Sets("set", bp, a)
    BY Zenon, <1>1, <1>3, <2>3 DEF Restores, Loc, Sets
  <2>8. /\ ReadOK("wait", j, installed, Cleared("set", bp))
        /\ StepOK("wait", j, installed, Cleared("set", bp))
    BY Zenon, <1>3, <2>3 DEF ReadOK, StepOK, Loc
  <2>9. /\ j = [r EXCEPT !.ret = "restore"] /\ c = [by |-> e, op |-> "set", addr |-> bp]
        /\ "restore" \in Label /\ SendCommandSync(e, "set", bp, "restore", r)
    BY Zenon, <2>1 DEF j, r, c, Label
  <2>10. /\ at[e] \notin {"wait", "recorded"} /\ at[e] # "idle" /\ "restore" # "recorded"
         /\ j.overlaps \subseteq job[e].overlaps
    BY Zenon, <1>1, <2>3
  <2>11. OthersKept(e) /\ disturbed' = disturbed
    BY Zenon, <1>1
  <2> QED
    BY Zenon, <2>2, <2>4, <2>5, <2>6, <2>7, <2>8, <2>9, <2>10, <2>11, SendIsLocal
<1> QED
  BY Zenon, <1>4, <1>5


\* A command between two places of the same read or step
LEMMA KeepSend ==
  ASSUME IndInv, NEW e \in Executor, NEW op, NEW addr \in Addr \cup {None}, NEW ret,
         SendCommandSync(e, op, addr, ret, job[e]), OthersKept(e), disturbed' = disturbed,
         \/ at[e] = "read" /\ op = "getmem" /\ ret = "bytes"
         \/ at[e] = "stopped" /\ op = "getcontext" /\ ret = "context"
         \/ at[e] = "trap" /\ op = "step" /\ ret = "trapped"
         \/ at[e] = "trapped" /\ op = "go" /\ ret = "stepped"
  PROVE  LocalStep(e)
<1> DEFINE j == [job[e] EXCEPT !.ret = ret]
           c == [by |-> e, op |-> op, addr |-> addr]
<1>1. at[e] # "wait" /\ at[e] # "idle" /\ at[e] \notin {"wait", "recorded"} /\ ret # "recorded"
  BY Zenon
<1>2. /\ job[e] \in Job /\ ShapeOK(at[e], job[e])
      /\ e \notin disturbed => ReadOK(at[e], job[e], installed, {}) /\ StepOK(at[e], job[e], installed, {})
  BY Zenon, <1>1, JobTyped, NoneQueued DEF IndInv, ShapeInv, DisturbInv
<1>3. /\ j.ret = ret /\ j.todo = job[e].todo /\ j.overlaps = job[e].overlaps
      /\ j.after = job[e].after /\ j.addr = job[e].addr /\ j.len = job[e].len
      /\ j.saw = job[e].saw /\ j.known = job[e].known
  BY Zenon, <1>2 DEF Job
<1>4. c \in Command /\ c.op = op
  BY Zenon DEF Command
<1>5. j = [job[e] EXCEPT !.ret = ret] /\ c = [by |-> e, op |-> op, addr |-> addr]
  BY Zenon
<1> HIDE DEF j, c
<1>6. ShapeOK("wait", j) /\ Fits(c, j)
  BY Zenon, <1>2, <1>3, <1>4 DEF ShapeOK, Loc, Fits
<1>7. \A a \in Addr : Restores(at[e], job[e], a) => Restores("wait", j, a)
  BY Zenon, <1>3 DEF Restores, Loc
<1>8. InRange(j) = InRange(job[e])
  BY Zenon, <1>3 DEF InRange
<1>9. e \notin disturbed => /\ ReadOK("wait", j, installed, Cleared(op, addr))
                            /\ StepOK("wait", j, installed, Cleared(op, addr))
  BY Zenon, <1>2, <1>3, <1>8 DEF ReadOK, StepOK, Loc, ShapeOK
<1>10. ret \in Label /\ j.overlaps \subseteq job[e].overlaps
  BY Zenon, <1>3 DEF Label
<1> QED
  BY Zenon, <1>1, <1>2, <1>4, <1>5, <1>6, <1>7, <1>9, <1>10, SendIsLocal

\* GetMemory asks for the bytes when the breakpoints are out.
LEMMA ReadBytesIsLocal ==
  ASSUME IndInv, NEW e \in Executor, ReadBytes(e)
  PROVE  LocalStep(e)
<1>1. TypeOK /\ at[e] = "read" /\ OthersKept(e) /\ disturbed' = disturbed
  BY Zenon, KeptFrame DEF IndInv, ReadBytes, target, debugger, bounds, history
<1>2. job[e].addr \in Addr \cup {None}
  BY Zenon, <1>1, JobTyped DEF Job
<1> QED
  BY Zenon, <1>1, <1>2, KeepSend DEF ReadBytes

\* StepFails and BytesRead go to RestoreBreakpoints with all that was taken out.
LEMMA BeginRestoreIsLocal ==
  ASSUME IndInv, NEW e \in Executor, NEW j \in Job, NEW after \in {"idle", "evaluate"},
         j.overlaps = job[e].overlaps, j.todo = job[e].overlaps, j.after = after,
         at[e] \in {"bytes", "trapped", "stepped"},
         Goto(e, "restore"), job' = [job EXCEPT ![e] = j], queue' = queue,
         OthersKept(e), disturbed' = disturbed
  PROVE  LocalStep(e)
<1>1. "restore" \in Label /\ at[e] \notin {"wait", "recorded"} /\ at[e] # "idle"
  BY Zenon DEF Label
<1>2. ShapeOK("restore", j)
  BY Zenon DEF ShapeOK, Loc
<1>3. \A a \in Addr : Restores(at[e], job[e], a) => Restores("restore", j, a)
  BY Zenon DEF Restores, Loc
<1>4. ReadOK("restore", j, installed, {}) /\ StepOK("restore", j, installed, {})
  BY Zenon DEF ReadOK, StepOK
<1>5. \A a \in j.overlaps : a \in job[e].overlaps
  BY Zenon
<1> QED
  BY Zenon, <1>1, <1>2, <1>3, <1>4, <1>5, MoveIsLocal

\* GetMemory has its answer and begins to restore.
LEMMA BytesReadIsLocal ==
  ASSUME IndInv, NEW e \in Executor, BytesRead(e)
  PROVE  LocalStep(e)
<1> DEFINE after == IF e = "notification" THEN "evaluate" ELSE "idle"
           j == [job[e] EXCEPT !.todo = job[e].overlaps, !.got = job[e].ok, !.after = after]
<1>1. TypeOK /\ at[e] = "bytes" /\ OthersKept(e) /\ disturbed' = disturbed /\ queue' = queue
  BY Zenon, KeptFrame DEF IndInv, BytesRead, target, debugger, bounds, history
<1>2. Goto(e, "restore") /\ job' = [job EXCEPT ![e] = j]
  BY Zenon DEF BytesRead, Locals
<1>3. j \in Job /\ j.overlaps = job[e].overlaps /\ j.todo = job[e].overlaps /\ j.after = after
  BY <1>1, JobTyped DEF Job, Label
<1>4. after \in {"idle", "evaluate"} /\ at[e] \in {"bytes", "trapped", "stepped"}
  BY Zenon, <1>1
<1> HIDE DEF j, after
<1> QED
  BY Zenon, <1>1, <1>2, <1>3, <1>4, BeginRestoreIsLocal

\* A StepInstruction that fails begins to restore.
LEMMA StepFailsIsLocal ==
  ASSUME IndInv, NEW e \in Executor, StepFails(e), at[e] \in {"trapped", "stepped"},
         OthersKept(e), disturbed' = disturbed
  PROVE  LocalStep(e)
<1> DEFINE j == [job[e] EXCEPT !.todo = job[e].overlaps, !.after = "idle"]
<1>1. Goto(e, "restore") /\ job' = [job EXCEPT ![e] = j] /\ queue' = queue
  BY Zenon DEF StepFails, Locals
<1>2. j \in Job /\ j.overlaps = job[e].overlaps /\ j.todo = job[e].overlaps /\ j.after = "idle"
  BY JobTyped DEF Job, Label, IndInv
<1>3. "idle" \in {"idle", "evaluate"} /\ at[e] \in {"bytes", "trapped", "stepped"}
  BY Zenon
<1> HIDE DEF j
<1> QED
  BY Zenon, <1>1, <1>2, <1>3, BeginRestoreIsLocal

\* The job is over, or fails before anything has been taken out.
LEMMA EndIsLocal ==
  ASSUME IndInv, NEW e \in Executor, NEW l \in {"idle", "handled"}, Goto(e, l), Locals(e, NoJob),
         queue' = queue, OthersKept(e), disturbed' = disturbed,
         at[e] \in {"stopped", "context", "stepped", "evaluate"}, at[e] = "stepped" => job[e].ok
  PROVE  LocalStep(e)
<1>1. \A a \in Addr : ~Restores(at[e], job[e], a)
  BY Zenon DEF Restores, Loc
<1>2. NoJob.overlaps \subseteq job[e].overlaps
  BY Zenon DEF NoJob
<1>3. at[e] \notin {"wait", "recorded"} /\ at[e] # "idle" /\ l \in {"idle", "handled", "evaluate"}
  BY Zenon
<1> QED
  BY Zenon, <1>1, <1>2, <1>3, PlainMove, NoJobTyped DEF Locals

\* StepInstruction asks where the thread stands, or gives up.
LEMMA StepFetchesContextIsLocal ==
  ASSUME IndInv, NEW e \in Executor, StepFetchesContext(e)
  PROVE  LocalStep(e)
<1>1. TypeOK /\ at[e] = "stopped" /\ OthersKept(e) /\ disturbed' = disturbed
  BY Zenon, KeptFrame DEF IndInv, StepFetchesContext, target, debugger, bounds, history
<1>2. at[e] \in {"stopped", "context", "stepped", "evaluate"} /\ None \in Addr \cup {None}
      /\ "idle" \in {"idle", "handled"} /\ at[e] # "stepped"
  BY Zenon, <1>1
<1>3. CASE job[e].ok
  BY Zenon, <1>1, <1>2, <1>3, KeepSend DEF StepFetchesContext
<1>4. CASE ~job[e].ok
  BY Zenon, <1>1, <1>2, <1>4, EndIsLocal DEF StepFetchesContext
<1> QED
  BY Zenon, <1>3, <1>4

\* StepInstruction asks for the trap flag.
LEMMA StepSetsTrapIsLocal ==
  ASSUME IndInv, NEW e \in Executor, StepSetsTrap(e)
  PROVE  LocalStep(e)
<1>1. TypeOK /\ at[e] = "trap" /\ OthersKept(e) /\ disturbed' = disturbed /\ None \in Addr \cup {None}
  BY Zenon, KeptFrame DEF IndInv, StepSetsTrap, target, debugger, bounds, history
<1> QED
  BY Zenon, <1>1, KeepSend DEF StepSetsTrap

\* StepInstruction lets the thread go, or restores when the trap flag failed.
LEMMA StepGoesIsLocal ==
  ASSUME IndInv, NEW e \in Executor, StepGoes(e)
  PROVE  LocalStep(e)
<1>1. TypeOK /\ at[e] = "trapped" /\ OthersKept(e) /\ disturbed' = disturbed /\ None \in Addr \cup {None}
  BY Zenon, KeptFrame DEF IndInv, StepGoes, target, debugger, bounds, history
<1>2. CASE job[e].ok
  BY Zenon, <1>1, <1>2, KeepSend DEF StepGoes
<1>3. CASE ~job[e].ok
  BY Zenon, <1>1, <1>3, StepFailsIsLocal DEF StepGoes
<1> QED
  BY Zenon, <1>2, <1>3

\* StepInstruction leaves the restoring to the stop, or does it itself.
LEMMA StepReturnsIsLocal ==
  ASSUME IndInv, NEW e \in Executor, StepReturns(e)
  PROVE  LocalStep(e)
<1>1. TypeOK /\ at[e] = "stepped" /\ OthersKept(e) /\ disturbed' = disturbed
  BY Zenon, KeptFrame DEF IndInv, StepReturns, target, debugger, bounds, history
<1>2. at[e] \in {"stopped", "context", "stepped", "evaluate"} /\ "idle" \in {"idle", "handled"}
  BY Zenon, <1>1
<1>3. CASE job[e].ok
  BY Zenon, <1>1, <1>2, <1>3, EndIsLocal DEF StepReturns
<1>4. CASE ~job[e].ok
  BY Zenon, <1>1, <1>4, StepFailsIsLocal DEF StepReturns
<1> QED
  BY Zenon, <1>3, <1>4


\* Addresses are numbers
LEMMA AddrNat ==
  ASSUME NEW a \in Addr
  PROVE  a \in Nat
<1>1. Addr \subseteq 0 .. AddressSpace - 1
  BY Zenon, BreakpointsAssumption
<1> QED
  BY <1>1

\* An address that does not wrap
LEMMA NoWrap ==
  ASSUME NEW x \in Nat, x < AddressSpace
  PROVE  x % AddressSpace = x
BY BreakpointsAssumption

\* The lookup finds what is on the list in a range that does not wrap.
LEMMA Lookup ==
  ASSUME TypeOK, NEW address \in Addr, NEW length \in 0 .. AddressSpace,
         NEW overlaps, overlaps = GetActiveBreakpointsInRange(address, length)
  PROVE  /\ overlaps \subseteq breakpoints_ /\ overlaps \subseteq Addr
         /\ address + length < AddressSpace =>
              \A a \in breakpoints_ : a >= address /\ a < address + length => a \in overlaps
<1>1. overlaps \subseteq breakpoints_ /\ overlaps \subseteq Addr
  BY Zenon DEF GetActiveBreakpointsInRange, TypeOK
<1>2. ASSUME address + length < AddressSpace
      PROVE  \A a \in breakpoints_ : a >= address /\ a < address + length => a \in overlaps
  <2>1. address + length \in Nat
    BY BreakpointsAssumption
  <2>2. (address + length) % AddressSpace = address + length
    BY Zenon, <1>2, <2>1, NoWrap
  <2> QED
    BY Zenon, <2>2 DEF GetActiveBreakpointsInRange
<1> QED
  BY Zenon, <1>1, <1>2

\* GetMemory looks the breakpoints in its range up under the lock: they are on
\* the list, and its read knows of all of them.
LEMMA GetMemoryIsLocal ==
  ASSUME IndInv, NEW e \in Executor, at[e] = "idle", NEW address \in Addr,
         NEW length \in 1 .. AddressSpace, NEW r \in Job, r.saw = {}, GetMemory(e, address, length, r),
         queue' = queue, OthersKept(e),
         e = "notification" => notes # <<>> /\ notes[1].type # "stopped"
  PROVE  LocalStep(e)
<1> DEFINE overlaps == GetActiveBreakpointsInRange(address, length)
           j == [r EXCEPT !.addr = address, !.len = length, !.overlaps = overlaps,
                          !.todo = overlaps, !.after = "read", !.known = breakpoints_]
<1>1. /\ TypeOK /\ breakpoints_lock_ = None /\ Goto(e, "suspend") /\ job' = [job EXCEPT ![e] = j]
      /\ disturbed' = disturbed \ {e}
  BY Zenon DEF IndInv, GetMemory, Locals
<1>2. breakpoints_ \subseteq Addr /\ length \in 0 .. AddressSpace
  BY <1>1, BreakpointsAssumption DEF TypeOK
<1>3. /\ overlaps \subseteq breakpoints_ /\ overlaps \subseteq Addr
      /\ address + length < AddressSpace =>
           \A a \in breakpoints_ : a >= address /\ a < address + length => a \in overlaps
  BY Zenon, <1>1, <1>2, Lookup
<1> HIDE DEF overlaps
<1>4. /\ j.addr = address /\ j.len = length /\ j.overlaps = overlaps /\ j.todo = overlaps
      /\ j.after = "read" /\ j.known = breakpoints_ /\ j.saw = {}
  BY Zenon DEF Job
<1>5. j \in Job
  BY Zenon, <1>2, <1>3 DEF Job, Label
<1> HIDE DEF j
<1>6. ShapeOK("suspend", j)
  BY Zenon, <1>4 DEF ShapeOK, Loc
<1>7. ReadOK("suspend", j, installed, {}) /\ StepOK("suspend", j, installed, {})
  BY Zenon, <1>3, <1>4 DEF ReadOK, StepOK, Loc, InRange
<1>8. \A a \in Addr : ~Restores(at[e], job[e], a)
  BY Zenon DEF Restores, Loc
<1>9. /\ \A a \in j.overlaps : breakpoints_lock_ = None /\ a \in breakpoints_
      /\ "suspend" \in Label /\ at[e] \notin {"wait", "recorded"}
      /\ "suspend" \notin {"wait", "recorded"}
  BY Zenon, <1>1, <1>3, <1>4 DEF Label
<1> QED
  BY Zenon, <1>1, <1>5, <1>6, <1>7, <1>8, <1>9, MoveIsLocal

\* A read that GDB or the shell asks for
LEMMA HandleReadMemoryIsLocal ==
  ASSUME IndInv, NEW e \in {"gdb", "shell"}, HandleReadMemory(e)
  PROVE  LocalStep(e)
<1>1. TypeOK /\ at[e] = "idle" /\ OthersKept(e) /\ queue' = queue
  BY Zenon, KeptFrame, Names DEF IndInv, HandleReadMemory, Begins, target, debugger
<1>2. PICK a \in Addr, n \in Lengths : GetMemory(e, a, n, NoJob)
  BY Zenon DEF HandleReadMemory
<1>3. n \in 1 .. AddressSpace /\ NoJob.saw = {} /\ e # "notification" /\ e \in Executor
  BY Zenon, BreakpointsAssumption DEF NoJob, Executor
<1> QED
  BY Zenon, <1>1, <1>2, <1>3, NoJobTyped, GetMemoryIsLocal

\* StepInstruction looks up the breakpoint where the thread stands.
LEMMA StepSuspendsIsLocal ==
  ASSUME IndInv, NEW e \in Executor, StepSuspends(e)
  PROVE  LocalStep(e)
<1>1. TypeOK /\ at[e] = "context" /\ OthersKept(e) /\ queue' = queue
  BY Zenon, KeptFrame DEF IndInv, StepSuspends, target, debugger, bounds
<1>2. job[e] \in Job /\ ShapeOK(at[e], job[e])
  BY Zenon, <1>1, JobTyped DEF IndInv, ShapeInv
<1>3. CASE job[e].ok
  <2> DEFINE overlaps == GetActiveBreakpointsInRange(job[e].addr, 1)
             j == [job[e] EXCEPT !.overlaps = overlaps, !.todo = overlaps,
                                 !.after = "trap", !.known = breakpoints_]
  <2>1. /\ breakpoints_lock_ = None /\ Goto(e, "suspend") /\ job' = [job EXCEPT ![e] = j]
        /\ disturbed' = disturbed \ {e}
    BY Zenon, <1>3 DEF StepSuspends, Locals
  <2>2. job[e].addr \in Addr
    BY Zenon, <1>1, <1>2, <1>3 DEF ShapeOK
  <2>3. breakpoints_ \subseteq Addr /\ 1 \in 0 .. AddressSpace
    BY <1>1, BreakpointsAssumption DEF TypeOK
  <2>4. /\ overlaps \subseteq breakpoints_ /\ overlaps \subseteq Addr
        /\ job[e].addr + 1 < AddressSpace =>
             \A a \in breakpoints_ : a >= job[e].addr /\ a < job[e].addr + 1 => a \in overlaps
    BY Zenon, <1>1, <2>2, <2>3, Lookup
  <2> HIDE DEF overlaps
  <2>5. /\ j.addr = job[e].addr /\ j.overlaps = overlaps /\ j.todo = overlaps
        /\ j.after = "trap" /\ j.known = breakpoints_
    BY Zenon, <1>2 DEF Job
  <2>6. j \in Job
    BY Zenon, <1>2, <2>3, <2>4 DEF Job, Label
  <2> HIDE DEF j
  <2>7. ShapeOK("suspend", j)
    BY Zenon, <2>2, <2>5 DEF ShapeOK, Loc
  <2>8. ReadOK("suspend", j, installed, {})
    BY Zenon, <2>5 DEF ReadOK
  <2>9. StepOK("suspend", j, installed, {})
    <3>1. job[e].addr \in Nat
      BY Zenon, <2>2, AddrNat
    <3>2. job[e].addr >= job[e].addr /\ job[e].addr < job[e].addr + 1
      BY <3>1
    <3>3. j.addr + 1 < AddressSpace /\ j.addr \in j.known => j.addr \in j.overlaps
      BY Zenon, <2>4, <2>5, <3>2
    <3>4. installed \cap j.overlaps \subseteq j.todo \cup {}
      BY Zenon, <2>5
    <3> QED
      BY Zenon, <3>3, <3>4 DEF StepOK, Loc
  <2>10. \A a \in Addr : ~Restores(at[e], job[e], a)
    BY Zenon, <1>1 DEF Restores, Loc
  <2>11. /\ \A a \in j.overlaps : breakpoints_lock_ = None /\ a \in breakpoints_
         /\ "suspend" \in Label /\ at[e] \notin {"wait", "recorded"} /\ at[e] # "idle"
         /\ "suspend" \notin {"wait", "recorded"}
    BY Zenon, <1>1, <2>1, <2>4, <2>5 DEF Label
  <2> QED
    BY Zenon, <1>1, <2>1, <2>6, <2>7, <2>8, <2>9, <2>10, <2>11, MoveIsLocal
<1>4. CASE ~job[e].ok
  <2>1. at[e] \in {"stopped", "context", "stepped", "evaluate"} /\ "idle" \in {"idle", "handled"}
        /\ at[e] # "stepped"
    BY Zenon, <1>1
  <2> QED
    BY Zenon, <1>1, <1>4, <2>1, EndIsLocal DEF StepSuspends
<1> QED
  BY Zenon, <1>3, <1>4


\* The first command of a job of the GDB executor or of the shell
FirstCommand(e, op, addr, ret) ==
  \/ op = "stop" /\ ret = "stopped"
  \/ op \in {"go", "clearall"} /\ ret = "idle"
  \/ op \in {"set", "clear"} /\ ret = "idle" /\ e = "shell" /\ addr \in Addr

\* An idle executor that sends one command and keeps no locals
LEMMA BeginSend ==
  ASSUME IndInv, NEW e \in Executor, e # "notification", at[e] = "idle", NEW op,
         NEW addr \in Addr \cup {None}, NEW ret, OthersKept(e), disturbed' = disturbed,
         SendCommandSync(e, op, addr, ret, NoJob), FirstCommand(e, op, addr, ret)
  PROVE  LocalStep(e)
<1> DEFINE c == [by |-> e, op |-> op, addr |-> addr]
           r == NoJob
<1>1. c \in Command
  BY Zenon DEF Command, FirstCommand
<1>2. at[e] \notin {"wait", "recorded"}
  BY Zenon
<1>3. PlainReturn(e, ret, r)
  BY Zenon DEF NoJob, FirstCommand, PlainReturn
<1>4. Fits(c, [r EXCEPT !.ret = ret])
  <2>1. [NoJob EXCEPT !.ret = ret].ret = ret
    BY Zenon DEF NoJob
  <2> QED
    BY Zenon, <2>1 DEF Fits, FirstCommand
<1>5. \A a \in Addr : ~Restores(at[e], job[e], a)
  BY Zenon DEF Restores, Loc
<1>6. [by |-> e, op |-> op, addr |-> addr] \in Command
      /\ Fits([by |-> e, op |-> op, addr |-> addr], [r EXCEPT !.ret = ret])
  BY Zenon, <1>1, <1>4
<1>7. r \in Job /\ SendCommandSync(e, op, addr, ret, r)
  BY Zenon, NoJobTyped
<1> HIDE DEF r
<1> QED
  BY Zenon, <1>2, <1>3, <1>5, <1>6, <1>7, PlainSend

\* StepInstruction begins by stopping the title.
LEMMA StepInstructionIsLocal ==
  ASSUME IndInv, NEW e \in {"gdb", "shell"}, StepInstruction(e)
  PROVE  LocalStep(e)
<1>1. /\ TypeOK /\ at[e] = "idle" /\ OthersKept(e) /\ disturbed' = disturbed
      /\ None \in Addr \cup {None} /\ e # "notification" /\ e \in Executor
  BY Zenon, KeptFrame, Names DEF IndInv, StepInstruction, Begins, target, debugger, history
<1> QED
  BY Zenon, <1>1, BeginSend DEF StepInstruction, FirstCommand

\* A continue is one go.
LEMMA ContinueIsLocal ==
  ASSUME IndInv, NEW e \in {"gdb", "shell"}, Continue(e)
  PROVE  LocalStep(e)
<1>1. /\ TypeOK /\ at[e] = "idle" /\ OthersKept(e) /\ disturbed' = disturbed
      /\ None \in Addr \cup {None} /\ e # "notification" /\ e \in Executor
  BY Zenon, KeptFrame, Names DEF IndInv, Continue, Begins, target, debugger, history
<1> QED
  BY Zenon, <1>1, BeginSend DEF Continue, FirstCommand

\* break clearall is one command.
LEMMA ClearAllIsLocal ==
  ASSUME IndInv, CommandBreakClearAll("shell")
  PROVE  LocalStep("shell")
<1>1. /\ TypeOK /\ at["shell"] = "idle" /\ OthersKept("shell") /\ disturbed' = disturbed
      /\ None \in Addr \cup {None} /\ "shell" # "notification" /\ "shell" \in Executor
  BY Zenon, KeptFrame, Names DEF IndInv, CommandBreakClearAll, Begins, target, debugger, history
<1> QED
  BY Zenon, <1>1, BeginSend DEF CommandBreakClearAll, FirstCommand

\* break addr changes a condition and sends one command.
LEMMA BreakAddressIsLocal ==
  ASSUME IndInv, CommandBreakAddress("shell")
  PROVE  LocalStep("shell")
<1>1. PICK a \in Addr, op \in {"set", "clear"}, condition \in Condition \cup {"empty", None} :
        /\ Begins("shell", "break")
        /\ breakpoint_conditions_' =
             CASE op = "clear" -> SetBreakpointCondition(a, "empty")
               [] op = "set" /\ condition # None -> SetBreakpointCondition(a, condition)
               [] OTHER -> breakpoint_conditions_
        /\ SendCommandSync("shell", op, a, "idle", NoJob)
        /\ UNCHANGED <<target, breakpoints_, breakpoints_lock_, events, failures, history>>
  BY Zenon DEF CommandBreakAddress
<1>2. TypeOK /\ at["shell"] = "idle" /\ disturbed' = disturbed
  BY Zenon, <1>1 DEF IndInv, Begins, history
<1>3. jobs' \in Nat
  BY <1>1, <1>2 DEF Begins, TypeOK
<1>4. breakpoint_conditions_' \in [Addr -> Condition \cup {None}]
  BY Zenon, <1>1, <1>2 DEF SetBreakpointCondition, TypeOK
<1>5. OthersKept("shell")
  BY Zenon, <1>1, <1>3, <1>4 DEF OthersKept, target, history
<1>6. FirstCommand("shell", op, a, "idle") /\ a \in Addr \cup {None} /\ "shell" # "notification"
  BY Zenon DEF FirstCommand
<1> QED
  BY Zenon, <1>1, <1>2, <1>5, <1>6, Names, BeginSend

\* AddBreakpoint and RemoveBreakpoint take the lock and send one command.
LEMMA EditIsLocal ==
  ASSUME IndInv, NEW e \in {"gdb", "shell"}, EditBreakpoint(e)
  PROVE  LocalStep(e)
<1>1. PICK a \in Addr, what \in {"add", "remove"} :
        /\ Begins(e, what) /\ breakpoints_lock_ = None /\ breakpoints_lock_' = e
        /\ SendCommandSync(e, IF what = "add" THEN "set" ELSE "clear", a, "recorded",
                           [NoJob EXCEPT !.addr = a, !.after = what])
  BY Zenon DEF EditBreakpoint
<1> DEFINE r == [NoJob EXCEPT !.addr = a, !.after = what]
           op == IF what = "add" THEN "set" ELSE "clear"
           c == [by |-> e, op |-> op, addr |-> a]
           j == [r EXCEPT !.ret = "recorded"]
<1>2. TypeOK /\ at[e] = "idle" /\ e \in Executor /\ e # "notification"
  BY Zenon, <1>1 DEF IndInv, Begins, Executor
<1>3. jobs' \in Nat
  BY <1>1, <1>2 DEF Begins, TypeOK
<1>4. OthersKept(e) /\ disturbed' = disturbed
  BY Zenon, <1>1, <1>2, <1>3 DEF OthersKept, EditBreakpoint, target, history, TypeOK
<1>5. r \in Job /\ r.overlaps = {} /\ r.after = what /\ r.addr = a
  BY Zenon, NoJobTyped DEF Job, NoJob, Label
<1>6. c \in Command /\ c.op = op /\ c.addr = a
  BY Zenon, <1>2 DEF Command
<1>7. j.ret = "recorded" /\ j.after = what /\ j.addr = a
  BY Zenon, <1>5 DEF Job
<1>8. Fits(c, j)
  <2> HIDE DEF c, j
  <2> QED
    BY Zenon, <1>6, <1>7 DEF Fits
<1>9. \A b \in Addr : ~Restores(at[e], job[e], b)
  BY Zenon, <1>2 DEF Restores, Loc
<1>10. at[e] \notin {"wait", "recorded"} /\ PlainReturn(e, "recorded", r)
  BY Zenon, <1>1, <1>2, <1>5 DEF PlainReturn
<1>11. SendCommandSync(e, op, a, "recorded", r)
  BY Zenon, <1>1
<1>12. [by |-> e, op |-> op, addr |-> a] \in Command
       /\ Fits([by |-> e, op |-> op, addr |-> a], [r EXCEPT !.ret = "recorded"])
  BY Zenon, <1>6, <1>8
<1> HIDE DEF r, op
<1> QED
  BY Zenon, <1>1, <1>2, <1>4, <1>5, <1>9, <1>10, <1>11, <1>12, PlainSend


\* The notification of a stop copies the list, all of which it is to set.
LEMMA OnStoppedIsLocal ==
  ASSUME IndInv, OnStopped
  PROVE  LocalStep("notification")
<1> DEFINE e == "notification"
           j == [NoJob EXCEPT !.overlaps = breakpoints_]
<1>1. /\ TypeOK /\ at[e] = "idle" /\ notes # <<>> /\ breakpoints_lock_ = None /\ queue' = queue
      /\ Goto(e, "repost") /\ job' = [job EXCEPT ![e] = j] /\ disturbed' = disturbed /\ OthersKept(e)
  BY Zenon, KeptFrame, Names
     DEF IndInv, OnStopped, Handles, Locals, target, debugger, bounds, history
<1>2. breakpoints_ \subseteq Addr
  BY Zenon, <1>1 DEF TypeOK
<1>3. j \in Job /\ j.overlaps = breakpoints_ /\ j.after = "idle"
  BY Zenon, <1>2, NoJobTyped DEF Job, NoJob
<1>4. "repost" \in Label /\ at[e] \notin {"wait", "recorded"} /\ "repost" \notin {"wait", "recorded"}
  BY Zenon, <1>1 DEF Label
<1> HIDE DEF j
<1>5. ShapeOK("repost", j)
  BY Zenon DEF ShapeOK, Loc
<1>6. ReadOK("repost", j, installed, {}) /\ StepOK("repost", j, installed, {})
  BY Zenon, <1>3 DEF ReadOK, StepOK
<1>7. /\ \A a \in Addr : ~Restores(at[e], job[e], a)
      /\ \A a \in breakpoints_ : Restores("repost", j, a)
  BY Zenon, <1>1, <1>3 DEF Restores, Loc
<1>8. \A a \in j.overlaps : breakpoints_lock_ = None /\ a \in breakpoints_
  BY Zenon, <1>1, <1>3
<1> QED
  BY Zenon, <1>1, <1>3, <1>4, <1>5, <1>6, <1>7, <1>8, Names, MoveIsLocal

\* The notification that OnBreakpoint and OnSingleStep handle
LEMMA NotStopped ==
  ASSUME TypeOK, NEW type, type # "stopped", Handles(type)
  PROVE  at["notification"] = "idle" /\ notes # <<>> /\ notes[1].type # "stopped"
         /\ notes[1] \in Note /\ Head(notes) = notes[1]
<1>1. notes \in Seq(Note) /\ notes # <<>>
  BY Zenon DEF TypeOK, Handles
<1>2. Head(notes) = notes[1] /\ notes[1] \in Note
  BY Zenon, <1>1, TailFacts
<1>3. Head(notes).type = type /\ at["notification"] = "idle"
  BY Zenon DEF Handles
<1>4. notes[1].type # "stopped"
  BY Zenon, <1>2, <1>3
<1> QED
  BY Zenon, <1>1, <1>2, <1>3, <1>4

\* The notification of a breakpoint reads memory for its condition, or is handled.
LEMMA OnBreakpointIsLocal ==
  ASSUME IndInv, OnBreakpoint
  PROVE  LocalStep("notification")
<1> DEFINE e == "notification"
           condition == breakpoint_conditions_[Head(notes).addr]
<1>1. TypeOK /\ queue' = queue /\ OthersKept(e) /\ Handles("break") /\ "break" # "stopped"
  BY Zenon, KeptFrame, Names DEF IndInv, OnBreakpoint, target, debugger, bounds
<1>2. /\ at[e] = "idle" /\ notes # <<>> /\ notes[1].type # "stopped"
      /\ notes[1] \in Note /\ Head(notes) = notes[1]
  BY Zenon, <1>1, NotStopped
<1>3. CASE condition = None
  <2>1. Goto(e, "handled") /\ job' = job /\ disturbed' = disturbed
    BY Zenon, <1>3 DEF OnBreakpoint
  <2>2. job' = [job EXCEPT ![e] = job[e]] /\ job[e] \in Job
    BY Zenon, <1>1, <2>1, Names DEF TypeOK
  <2>3. \A a \in Addr : ~Restores(at[e], job[e], a)
    BY Zenon, <1>2 DEF Restores, Loc
  <2>4. /\ job[e].overlaps \subseteq job[e].overlaps /\ at[e] \notin {"wait", "recorded"}
        /\ "handled" \in {"idle", "handled", "evaluate"}
    BY Zenon, <1>2
  <2> QED
    BY Zenon, <1>1, <1>2, <2>1, <2>2, <2>3, <2>4, Names, PlainMove
<1>4. CASE condition # None
  <2>1. PICK a \in Addr : GetMemory(e, a, 1, [NoJob EXCEPT !.condition = condition])
    BY Zenon, <1>4 DEF OnBreakpoint
  <2>2. Head(notes).addr \in Addr
    BY Zenon, <1>1, <1>2 DEF Note, Handles
  <2>3. condition \in Condition \cup {None}
    BY Zenon, <1>1, <2>2 DEF TypeOK
  <2> HIDE DEF condition
  <2> DEFINE r == [NoJob EXCEPT !.condition = condition]
  <2>4. r \in Job /\ r.saw = {}
    BY Zenon, <2>3, NoJobTyped DEF Job, NoJob
  <2>5. GetMemory(e, a, 1, r) /\ 1 \in 1 .. AddressSpace
    BY <2>1, BreakpointsAssumption
  <2> HIDE DEF r
  <2> QED
    BY Zenon, <1>1, <1>2, <2>4, <2>5, Names, GetMemoryIsLocal
<1> QED
  BY Zenon, <1>3, <1>4

\* The notification of a step is handled at once.
LEMMA OnSingleStepIsLocal ==
  ASSUME IndInv, OnSingleStep
  PROVE  LocalStep("notification")
<1> DEFINE e == "notification"
<1>1. /\ TypeOK /\ queue' = queue /\ OthersKept(e) /\ Handles("step") /\ "step" # "stopped"
      /\ Goto(e, "handled") /\ job' = job /\ disturbed' = disturbed
  BY Zenon, KeptFrame, Names DEF IndInv, OnSingleStep, target, debugger, bounds, history
<1>2. at[e] = "idle" /\ notes # <<>> /\ notes[1].type # "stopped"
  BY Zenon, <1>1, NotStopped
<1>3. job' = [job EXCEPT ![e] = job[e]] /\ job[e] \in Job
  BY Zenon, <1>1, Names DEF TypeOK
<1>4. \A a \in Addr : ~Restores(at[e], job[e], a)
  BY Zenon, <1>2 DEF Restores, Loc
<1>5. /\ job[e].overlaps \subseteq job[e].overlaps /\ at[e] \notin {"wait", "recorded"}
      /\ "handled" \in {"idle", "handled", "evaluate"}
  BY Zenon, <1>2
<1> QED
  BY Zenon, <1>1, <1>2, <1>3, <1>4, <1>5, Names, PlainMove

\* A condition lets the title go, or the notification is handled.
LEMMA EvaluateIsLocal ==
  ASSUME IndInv, Evaluate
  PROVE  LocalStep("notification")
<1> DEFINE e == "notification"
           false == job[e].got /\ job[e].condition = "false"
<1>1. TypeOK /\ OthersKept(e) /\ at[e] = "evaluate" /\ disturbed' = disturbed
  BY Zenon, KeptFrame, Names DEF IndInv, Evaluate, target, debugger, bounds, history
<1>2. CASE false
  <2> DEFINE r == NoJob
             c == [by |-> e, op |-> "go", addr |-> None]
  <2>1. SendCommandSync(e, "go", None, "handled", r) /\ r \in Job
    BY Zenon, <1>2, NoJobTyped DEF Evaluate
  <2>2. PlainReturn(e, "handled", r)
    BY Zenon, <1>1 DEF PlainReturn, NoJob
  <2>3. c \in Command /\ c.op = "go"
    BY Zenon, Names DEF Command
  <2>4. [r EXCEPT !.ret = "handled"].ret = "handled"
    BY Zenon DEF NoJob
  <2>5. [by |-> e, op |-> "go", addr |-> None] \in Command
        /\ Fits([by |-> e, op |-> "go", addr |-> None], [r EXCEPT !.ret = "handled"])
    BY Zenon, <2>3, <2>4 DEF Fits
  <2>6. \A a \in Addr : ~Restores(at[e], job[e], a)
    BY Zenon, <1>1 DEF Restores, Loc
  <2>7. at[e] \notin {"wait", "recorded"}
    BY Zenon, <1>1
  <2> HIDE DEF r, c
  <2> QED
    BY Zenon, <1>1, <2>1, <2>2, <2>5, <2>6, <2>7, Names, PlainSend
<1>3. CASE ~false
  <2>1. Goto(e, "handled") /\ Locals(e, NoJob) /\ queue' = queue
    BY Zenon, <1>3 DEF Evaluate
  <2>2. at[e] \in {"stopped", "context", "stepped", "evaluate"} /\ "handled" \in {"idle", "handled"}
        /\ at[e] # "stepped"
    BY Zenon, <1>1
  <2> QED
    BY Zenon, <1>1, <2>1, <2>2, Names, EndIsLocal
<1> QED
  BY Zenon, <1>2, <1>3

-----------------------------------------------------------------------------
(* The control executor. It takes the command at the head of the queue,     *)
(* changes the target or fails, and answers the executor that waits.        *)

\* ToBeRestored, said with the fields of the command
LEMMA DueIs ==
  ASSUME TypeOK, NEW a \in Addr, Due(a)
  PROVE  ToBeRestored(a)
<1>1. ASSUME NEW i \in DOMAIN queue, queue[i].by = None, queue[i].op = "set", queue[i].addr = a
      PROVE  queue[i] = SendCommand("set", a)
  <2>1. queue[i] \in Command
    BY Zenon, Queued
  <2> QED
    BY Zenon, <1>1, <2>1 DEF Command, SendCommand
<1> QED
  BY Zenon, <1>1 DEF Due, ToBeRestored


-----------------------------------------------------------------------------
(* The answer, as the executor that waits sees it: (l, j) is where it stood  *)
(* and its locals, (m, k) where it goes on and with what.                    *)

Replied(l, j, m, k, c, ok, ins) ==
  /\ l = "wait" /\ Fits(c, j) /\ m = j.ret
  /\ IF j.ret \in {"idle", "handled"} THEN k = NoJob
     ELSE /\ k.len = j.len /\ k.overlaps = j.overlaps /\ k.todo = j.todo /\ k.ret = j.ret
          /\ k.after = j.after /\ k.known = j.known /\ k.ok = ok
          /\ k.saw = IF c.op = "getmem" /\ ok THEN ins \cap InRange(j) ELSE j.saw
          /\ IF c.op = "getcontext" THEN k.addr \in Addr ELSE k.addr = j.addr

\* The executor goes on at the place it was to go on at.
LEMMA ReplyShape ==
  ASSUME NEW l, NEW j, NEW m, NEW k, NEW c, NEW ok, NEW ins,
         Replied(l, j, m, k, c, ok, ins), ShapeOK(l, j)
  PROVE  ShapeOK(m, k) /\ Loc(m, k) = Loc(l, j) /\ m # "wait"
<1>1. CASE j.ret \in {"idle", "handled"}
  BY Zenon, <1>1 DEF Replied, ShapeOK, Loc
<1>2. CASE j.ret \notin {"idle", "handled"}
  BY Zenon, <1>2 DEF Replied, ShapeOK, Loc, Fits
<1> QED
  BY Zenon, <1>1, <1>2

\* It restores what it was to restore, unless its go has let the title run.
LEMMA ReplyRestores ==
  ASSUME NEW l, NEW j, NEW m, NEW k, NEW c, NEW ok, NEW ins, NEW a,
         Replied(l, j, m, k, c, ok, ins), Restores(l, j, a)
  PROVE  Restores(m, k, a) \/ (c.op = "go" /\ ok)
BY Zenon DEF Replied, Restores, Loc, Fits

\* It is to restore no more than before.
LEMMA ReplyOverlaps ==
  ASSUME NEW l, NEW j, NEW m, NEW k, NEW c, NEW ok, NEW ins,
         Replied(l, j, m, k, c, ok, ins)
  PROVE  k.overlaps \subseteq j.overlaps
BY DEF Replied, NoJob

\* The target after a command: no breakpoint is new unless c is a set, and what
\* was to be cleared is.
CarriedOut(c, cl, ins, ins2) ==
  /\ c.op = "set" \/ ins2 \subseteq ins
  /\ \A a \in cl : c.op = "clear" /\ a \notin ins2

\* A set or a clear has an address.
LEMMA AddressOf ==
  ASSUME NEW c, NEW j \in Job, Fits(c, j), ShapeOK("wait", j), c.op \in {"set", "clear"}
  PROVE  c.addr \in Addr
BY Zenon DEF Fits, ShapeOK, Loc, Job

\* Its read and its step find what they expect: a clear that went well took its
\* breakpoint out, and the bytes are those of the target.
LEMMA ReplyReads ==
  ASSUME NEW l, NEW j, NEW m, NEW k, NEW c, NEW ok, NEW ins, NEW cl, NEW ins2,
         Replied(l, j, m, k, c, ok, ins), ReadOK(l, j, ins, cl), CarriedOut(c, cl, ins, ins2)
  PROVE  ReadOK(m, k, ins2, {})
<1>1. CASE j.ret \in {"idle", "handled"}
  BY Zenon, <1>1 DEF CarriedOut, Replied, ReadOK, NoJob
<1>2. CASE j.ret = "suspend"
  BY Zenon, <1>2 DEF CarriedOut, Replied, ReadOK, Fits, InRange, Loc
<1>3. CASE j.ret = "bytes"
  BY Zenon, <1>3 DEF CarriedOut, Replied, ReadOK, Fits, InRange, Loc
<1>4. CASE j.ret \notin {"idle", "handled", "suspend", "bytes"}
  BY Zenon, <1>4 DEF CarriedOut, Replied, ReadOK, Fits
<1> QED
  BY Zenon, <1>1, <1>2, <1>3, <1>4

\* The same for the step that waited
LEMMA ReplySteps ==
  ASSUME NEW l, NEW j, NEW m, NEW k, NEW c, NEW ok, NEW ins, NEW cl, NEW ins2,
         Replied(l, j, m, k, c, ok, ins), StepOK(l, j, ins, cl), CarriedOut(c, cl, ins, ins2)
  PROVE  StepOK(m, k, ins2, {})
<1>1. CASE j.ret \in {"idle", "handled"}
  BY <1>1 DEF CarriedOut, Replied, StepOK, NoJob
<1>2. CASE j.ret = "suspend"
  BY Zenon, <1>2 DEF CarriedOut, Replied, StepOK, Fits, Loc
<1>3. CASE j.ret \in {"trapped", "stepped"}
  BY Zenon, <1>3 DEF CarriedOut, Replied, StepOK, Fits, Loc
<1>4. CASE j.ret \notin {"idle", "handled", "suspend", "trapped", "stepped"}
  BY Zenon, <1>4 DEF CarriedOut, Replied, StepOK, Fits, Loc
<1> QED
  BY Zenon, <1>1, <1>2, <1>3, <1>4


\* The command at the head, and what it leaves
LEMMA Replies ==
  ASSUME IndInv, queue # <<>>, queue' = Tail(queue), NEW c, c = Head(queue),
         NEW ok \in BOOLEAN, Answer(c, ok)
  PROVE  /\ c \in Command /\ c.by \in Executor \cup {None}
         /\ at' \in [Executor -> Label] /\ job' \in [Executor -> Job]
         /\ \A d \in Executor : d # c.by => at'[d] = at[d] /\ job'[d] = job[d]
         /\ c.by = None => c.op = "set" /\ c.addr \in Addr
         /\ c.by # None =>
              Replied(at[c.by], job[c.by], at'[c.by], job'[c.by], c, ok, installed)
<1>1. TypeOK /\ QueueInv /\ ShapeInv
  BY Zenon DEF IndInv
<1>2. queue \in Seq(Command) /\ at \in [Executor -> Label] /\ job \in [Executor -> Job] /\ eip \in Addr
      /\ installed \subseteq Addr
  BY Zenon, <1>1 DEF TypeOK
<1>3. c = queue[1] /\ 1 \in DOMAIN queue /\ c \in Command /\ c.by \in Executor \cup {None}
  BY Zenon, <1>1, <1>2, QueueTail, Queued
<1>4. CASE c.by = None
  <2>1. at' = at /\ job' = job
    BY Zenon, <1>4 DEF Answer
  <2>2. c.op = "set" /\ c.addr \in Addr
    BY Zenon, <1>1, <1>3, <1>4 DEF QueueInv
  <2> QED
    BY Zenon, <1>2, <1>3, <1>4, <2>1, <2>2
<1>5. CASE c.by # None
  <2> DEFINE e == c.by
             j == job[e]
             k == IF j.ret \in {"idle", "handled"} THEN NoJob ELSE [j EXCEPT !.ok = ok,
                    !.saw = IF c.op = "getmem" /\ ok THEN installed \cap ReadRange(e) ELSE @,
                    !.addr = IF c.op = "getcontext" THEN eip ELSE @]
  <2>1. at' = [at EXCEPT ![e] = j.ret] /\ job' = [job EXCEPT ![e] = k]
    BY Zenon, <1>5 DEF Answer, Goto, Locals
  <2>2. e \in Executor /\ j \in Job
    BY Zenon, <1>2, <1>3, <1>5
  <2>3. at[e] = "wait" /\ Fits(c, j)
    BY Zenon, <1>1, <1>3, <1>5 DEF QueueInv
  <2>4. ReadRange(e) = InRange(j) /\ ReadRange(e) \subseteq Addr
    BY Zenon DEF ReadRange, InRange
  <2>5. j.ret \in Label
    BY Zenon, <2>2 DEF Job
  <2> HIDE DEF j
  <2>6. k \in Job
    <3>1. CASE j.ret \in {"idle", "handled"}
      BY Zenon, <3>1, NoJobTyped
    <3>2. CASE j.ret \notin {"idle", "handled"}
      <4>1. k = [j EXCEPT !.ok = ok,
                    !.saw = IF c.op = "getmem" /\ ok THEN installed \cap ReadRange(e) ELSE @,
                    !.addr = IF c.op = "getcontext" THEN eip ELSE @]
        BY Zenon, <3>2
      <4> HIDE DEF k
      <4> QED
        BY <1>2, <2>2, <2>4, <4>1 DEF Job
    <3> QED
      BY Zenon, <3>1, <3>2
  <2>7. Replied("wait", j, j.ret, k, c, ok, installed)
    <3>1. CASE j.ret \in {"idle", "handled"}
      BY Zenon, <2>3, <3>1 DEF Replied
    <3>2. CASE j.ret \notin {"idle", "handled"}
      <4>1. k = [j EXCEPT !.ok = ok,
                    !.saw = IF c.op = "getmem" /\ ok THEN installed \cap ReadRange(e) ELSE @,
                    !.addr = IF c.op = "getcontext" THEN eip ELSE @]
        BY Zenon, <3>2
      <4> HIDE DEF k
      <4>2. /\ k.len = j.len /\ k.overlaps = j.overlaps /\ k.todo = j.todo /\ k.ret = j.ret
            /\ k.after = j.after /\ k.known = j.known /\ k.ok = ok
            /\ k.saw = IF c.op = "getmem" /\ ok THEN installed \cap InRange(j) ELSE j.saw
            /\ IF c.op = "getcontext" THEN k.addr \in Addr ELSE k.addr = j.addr
        BY Zenon, <1>2, <2>2, <2>4, <4>1 DEF Job
      <4> QED
        BY Zenon, <2>3, <3>2, <4>2 DEF Replied
    <3> QED
      BY Zenon, <3>1, <3>2
  <2> HIDE DEF k
  <2>8. at'[e] = j.ret /\ at' \in [Executor -> Label] /\ \A d \in Executor : d # e => at'[d] = at[d]
    BY Zenon, <1>2, <2>1, <2>2, <2>5
  <2>9. job'[e] = k /\ job' \in [Executor -> Job] /\ \A d \in Executor : d # e => job'[d] = job[d]
    BY Zenon, <1>2, <2>1, <2>2, <2>6
  <2>10. Replied(at[e], job[e], at'[e], job'[e], c, ok, installed)
    BY Zenon, <2>3, <2>7, <2>8, <2>9 DEF j
  <2> QED
    BY Zenon, <1>3, <1>5, <2>8, <2>9, <2>10
<1> QED
  BY Zenon, <1>4, <1>5

\* The address of the command at the head
LEMMA HeadAddress ==
  ASSUME IndInv, queue # <<>>, queue' = Tail(queue), NEW c, c = Head(queue),
         NEW ok \in BOOLEAN, Answer(c, ok), c.op \in {"set", "clear"}
  PROVE  c.addr \in Addr
<1>1. /\ c.by \in Executor \cup {None} /\ (c.by = None => c.addr \in Addr)
      /\ c.by # None =>
           Replied(at[c.by], job[c.by], at'[c.by], job'[c.by], c, ok, installed)
  BY Zenon, Replies
<1>2. CASE c.by # None
  <2>1. c.by \in Executor /\ TypeOK /\ ShapeInv
    BY Zenon, <1>1, <1>2 DEF IndInv
  <2>2. Fits(c, job[c.by]) /\ at[c.by] = "wait"
    BY Zenon, <1>1, <1>2 DEF Replied
  <2>3. ShapeOK("wait", job[c.by]) /\ job[c.by] \in Job
    BY Zenon, <2>1, <2>2, JobTyped DEF ShapeInv
  <2> QED
    BY Zenon, <2>2, <2>3, AddressOf
<1> QED
  BY Zenon, <1>1, <1>2

\* What an answer does to the queue and to the places
LEMMA AnswerFrame ==
  ASSUME IndInv, queue # <<>>, queue' = Tail(queue), NEW c, c = Head(queue),
         NEW ok \in BOOLEAN, Answer(c, ok), breakpoints_lock_' = breakpoints_lock_
  PROVE  /\ queue' \in Seq(Command) /\ ShapeInv' /\ LockInv' /\ QueueInv'
         /\ \A d \in Executor : d # c.by => Clears(d)' = Clears(d)
         /\ c.by # None => /\ Clears(c.by)' = {}
                           /\ \A a \in Clears(c.by) : c.op = "clear" /\ c.addr = a
         /\ \A a \in Addr : /\ SetQueued(a) => SetQueued(a)' \/ (c.op = "set" /\ c.addr = a)
                            /\ Due(a)' => Due(a)
                            /\ c.op = "set" /\ c.addr = a =>
                                 \/ Due(a) \/ (c.by = "shell" /\ job["shell"].ret = "idle")
                                 \/ /\ c.by # None /\ job[c.by].ret = "recorded"
                                    /\ job[c.by].after = "add" /\ job[c.by].addr = a
<1>1. TypeOK /\ QueueInv /\ ShapeInv /\ LockInv
  BY Zenon DEF IndInv
<1>2. /\ c \in Command /\ c.by \in Executor \cup {None}
      /\ \A d \in Executor : d # c.by => at'[d] = at[d] /\ job'[d] = job[d]
      /\ c.by = None => c.op = "set" /\ c.addr \in Addr
      /\ c.by # None =>
           Replied(at[c.by], job[c.by], at'[c.by], job'[c.by], c, ok, installed)
  BY Zenon, Replies
<1>3. queue \in Seq(Command)
  BY Zenon, <1>1 DEF TypeOK
<1>4. /\ queue' \in Seq(Command) /\ c = queue[1] /\ 1 \in DOMAIN queue
      /\ \A i \in DOMAIN queue' : i + 1 \in DOMAIN queue /\ queue'[i] = queue[i + 1] /\ i + 1 # 1
      /\ \A i \in DOMAIN queue : i # 1 => i - 1 \in DOMAIN queue' /\ queue'[i - 1] = queue[i]
  BY Zenon, <1>3, QueueTail
<1>5. /\ \A i \in DOMAIN queue' : \E p \in DOMAIN queue : p # 1 /\ queue'[i] = queue[p]
      /\ \A p \in DOMAIN queue : p = 1 \/ \E i \in DOMAIN queue' : queue'[i] = queue[p]
  BY Zenon, <1>4
<1>6. \A d \in Executor : d = c.by =>
        Replied(at[d], job[d], at'[d], job'[d], c, ok, installed)
  BY Zenon, <1>2, Names
<1>7. \A i, k \in DOMAIN queue : queue[i].by = queue[k].by /\ queue[i].by # None => i = k
  BY Zenon, <1>1 DEF QueueInv
<1>8. \A i \in DOMAIN queue' : queue'[i].by # None => queue'[i].by # c.by
  BY Zenon, <1>4, <1>7
<1>9. ShapeInv' /\ LockInv'
  <2>1. ASSUME NEW d \in Executor
        PROVE  ShapeOK(at'[d], job'[d]) /\ Loc(at'[d], job'[d]) = Loc(at[d], job[d])
    <3>1. ShapeOK(at[d], job[d])
      BY Zenon, <1>1 DEF ShapeInv
    <3>2. CASE d = c.by
      <4>1. Replied(at[d], job[d], at'[d], job'[d], c, ok, installed)
        BY Zenon, <1>6, <3>2
      <4> QED
        BY Zenon, <3>1, <4>1, ReplyShape
    <3>3. CASE d # c.by
      BY Zenon, <1>2, <3>1, <3>3
    <3> QED
      BY Zenon, <3>2, <3>3
  <2> QED
    BY Zenon, <1>1, <2>1 DEF ShapeInv, LockInv
<1>10. QueueInv'
  <2>1. ASSUME NEW i \in DOMAIN queue'
        PROVE  IF queue'[i].by = None THEN queue'[i].op = "set" /\ queue'[i].addr \in Addr
               ELSE at'[queue'[i].by] = "wait" /\ Fits(queue'[i], job'[queue'[i].by])
    <3>1. PICK p \in DOMAIN queue : queue'[i] = queue[p]
      BY Zenon, <1>4
    <3>2. IF queue[p].by = None THEN queue[p].op = "set" /\ queue[p].addr \in Addr
          ELSE at[queue[p].by] = "wait" /\ Fits(queue[p], job[queue[p].by])
      BY Zenon, <1>1 DEF QueueInv
    <3>3. CASE queue[p].by = None
      BY Zenon, <3>1, <3>2, <3>3
    <3>4. CASE queue[p].by # None
      <4>1. queue[p].by \in Executor /\ queue[p].by # c.by
        BY Zenon, <1>1, <1>8, <3>1, <3>4, Queued
      <4>2. at'[queue[p].by] = at[queue[p].by] /\ job'[queue[p].by] = job[queue[p].by]
        BY Zenon, <1>2, <4>1
      <4> QED
        BY Zenon, <3>1, <3>2, <3>4, <4>2
    <3> QED
      BY Zenon, <3>3, <3>4
  <2>2. ASSUME NEW i \in DOMAIN queue', NEW k \in DOMAIN queue',
               queue'[i].by = queue'[k].by, queue'[i].by # None
        PROVE  i = k
    <3>1. i + 1 = k + 1
      <4>1. /\ i + 1 \in DOMAIN queue /\ queue'[i] = queue[i + 1]
            /\ k + 1 \in DOMAIN queue /\ queue'[k] = queue[k + 1]
        BY Zenon, <1>4
      <4>2. queue[i + 1].by = queue[k + 1].by /\ queue[i + 1].by # None
        BY Zenon, <2>2, <4>1
      <4> QED
        BY Zenon, <1>7, <4>1, <4>2
    <3>2. i \in Int /\ k \in Int
      BY <1>4
    <3> QED
      BY <3>1, <3>2
  <2> QED
    BY Zenon, <2>1, <2>2 DEF QueueInv
<1>11. ASSUME NEW d \in Executor, d # c.by
       PROVE  Clears(d)' = Clears(d)
  <2>1. \A i \in DOMAIN queue : queue[i].by = d => i # 1
    BY Zenon, <1>4, <1>11
  <2>2. ASSUME NEW a \in Clears(d)
        PROVE  a \in Clears(d)'
    <3>1. a \in Addr /\ \E p \in DOMAIN queue :
                           queue[p].by = d /\ queue[p].op = "clear" /\ queue[p].addr = a
      BY Zenon DEF Clears
    <3>2. PICK p \in DOMAIN queue : queue[p].by = d /\ queue[p].op = "clear" /\ queue[p].addr = a
      BY Zenon, <3>1
    <3>3. PICK i \in DOMAIN queue' : queue'[i] = queue[p]
      BY Zenon, <1>5, <2>1, <3>2
    <3> QED
      BY Zenon, <3>1, <3>2, <3>3 DEF Clears
  <2>3. ASSUME NEW a \in Clears(d)'
        PROVE  a \in Clears(d)
    <3>1. a \in Addr /\ \E i \in DOMAIN queue' :
                           queue'[i].by = d /\ queue'[i].op = "clear" /\ queue'[i].addr = a
      BY Zenon DEF Clears
    <3>2. PICK i \in DOMAIN queue' : queue'[i].by = d /\ queue'[i].op = "clear" /\ queue'[i].addr = a
      BY Zenon, <3>1
    <3>3. PICK p \in DOMAIN queue : queue'[i] = queue[p]
      BY Zenon, <1>5
    <3> QED
      BY Zenon, <3>1, <3>2, <3>3 DEF Clears
  <2> QED
    BY Zenon, <2>2, <2>3
<1>12. ASSUME c.by # None
       PROVE  Clears(c.by)' = {} /\ \A a \in Clears(c.by) : c.op = "clear" /\ c.addr = a
  <2>1. \A i \in DOMAIN queue' : queue'[i].by # c.by
    BY Zenon, <1>8, <1>12
  <2>2. \A i \in DOMAIN queue : queue[i].by = c.by => queue[i] = c
    BY Zenon, <1>4, <1>7, <1>12
  <2>3. Clears(c.by)' = {}
    BY Zenon, <2>1 DEF Clears
  <2>4. \A a \in Clears(c.by) : c.op = "clear" /\ c.addr = a
    BY Zenon, <2>2 DEF Clears
  <2> QED
    BY Zenon, <2>3, <2>4
<1>13. ASSUME NEW a \in Addr
       PROVE  SetQueued(a) => SetQueued(a)' \/ (c.op = "set" /\ c.addr = a)
  <2> SUFFICES ASSUME SetQueued(a), ~(c.op = "set" /\ c.addr = a)
               PROVE  SetQueued(a)'
    BY Zenon
  <2>1. PICK p \in DOMAIN queue : queue[p].op = "set" /\ queue[p].addr = a
    BY Zenon DEF SetQueued
  <2>2. PICK i \in DOMAIN queue' : queue'[i] = queue[p]
    BY Zenon, <1>4, <1>5, <2>1
  <2> QED
    BY Zenon, <2>1, <2>2 DEF SetQueued
<1>14. ASSUME NEW a \in Addr, Due(a)'
       PROVE  Due(a)
  <2>1. ASSUME NEW d \in Executor, a \in job'[d].overlaps
        PROVE  a \in job[d].overlaps
    <3>1. CASE d = c.by
      <4>1. job'[d].overlaps \subseteq job[d].overlaps
        <5>1. Replied(at[d], job[d], at'[d], job'[d], c, ok, installed)
          BY Zenon, <1>6, <3>1
        <5> QED
          BY Zenon, <5>1, ReplyOverlaps
      <4> QED
        BY Zenon, <2>1, <4>1
    <3>2. CASE d # c.by
      BY Zenon, <1>2, <2>1, <3>2
    <3> QED
      BY Zenon, <3>1, <3>2
  <2> QED
    <3>1. CASE \E i \in DOMAIN queue' :
                 queue'[i].by = None /\ queue'[i].op = "set" /\ queue'[i].addr = a
      <4>1. PICK i \in DOMAIN queue' :
              queue'[i].by = None /\ queue'[i].op = "set" /\ queue'[i].addr = a
        BY Zenon, <3>1
      <4>2. PICK p \in DOMAIN queue : queue'[i] = queue[p]
        BY Zenon, <1>5
      <4> QED
        BY Zenon, <4>1, <4>2 DEF Due
    <3>2. CASE \E d \in Executor : a \in job'[d].overlaps
      BY Zenon, <2>1, <3>2 DEF Due
    <3> QED
      BY Zenon, <1>14, <3>1, <3>2 DEF Due
<1>15. ASSUME NEW a \in Addr, c.op = "set", c.addr = a
       PROVE  \/ Due(a) \/ (c.by = "shell" /\ job["shell"].ret = "idle")
              \/ /\ c.by # None /\ job[c.by].ret = "recorded"
                 /\ job[c.by].after = "add" /\ job[c.by].addr = a
  <2>1. CASE c.by = None
    BY Zenon, <1>4, <1>15, <2>1 DEF Due
  <2>2. CASE c.by # None
    <3>1. Fits(c, job[c.by]) /\ c.by \in Executor
      BY Zenon, <1>2, <2>2 DEF Replied
    <3>2. \/ a \in job[c.by].overlaps \/ (c.by = "shell" /\ job[c.by].ret = "idle")
          \/ job[c.by].ret = "recorded" /\ job[c.by].after = "add" /\ job[c.by].addr = a
      BY Zenon, <1>15, <3>1 DEF Fits
    <3> QED
      BY Zenon, <2>2, <3>1, <3>2 DEF Due
  <2> QED
    BY Zenon, <2>1, <2>2
<1> QED
  BY Zenon, <1>4, <1>9, <1>10, <1>11, <1>12, <1>13, <1>14, <1>15


\* The edits that are about to be recorded
LEMMA AnswerEdits ==
  ASSUME IndInv, queue # <<>>, queue' = Tail(queue), NEW c, c = Head(queue),
         NEW ok \in BOOLEAN, Answer(c, ok), NEW a \in Addr
  PROVE  /\ Adding(a) => Adding(a)'
         /\ Removing(a) => Removing(a)'
         /\ Adding(a)' => Adding(a) \/ (ok /\ c.op = "set" /\ c.addr = a)
         /\ Removing(a)' =>
              \/ Removing(a)
              \/ ok /\ c.op = "clear" /\ c.addr = a /\ job[c.by].ret = "recorded"
         /\ ok /\ c.by # None /\ job[c.by].ret = "recorded" /\ job[c.by].addr = a =>
              /\ job[c.by].after = "add" => Adding(a)'
              /\ job[c.by].after = "remove" => Removing(a)'
<1>1. /\ \A d \in Executor : d # c.by => at'[d] = at[d] /\ job'[d] = job[d]
      /\ c.by \in Executor \cup {None}
      /\ c.by # None =>
           Replied(at[c.by], job[c.by], at'[c.by], job'[c.by], c, ok, installed)
  BY Zenon, Replies
<1>2. CASE c.by = None
  <2>1. \A d \in Executor : at'[d] = at[d] /\ job'[d] = job[d]
    BY Zenon, <1>1, <1>2, Names
  <2> QED
    BY Zenon, <1>2, <2>1 DEF Adding, Removing
<1>3. CASE c.by # None
  <2> DEFINE e == c.by
  <2>1. e \in Executor /\ Replied(at[e], job[e], at'[e], job'[e], c, ok, installed)
    BY Zenon, <1>1, <1>3
  <2> HIDE DEF e
  <2>3. /\ Edits(at'[e], job'[e], "add", a) <=>
             ok /\ job[e].ret = "recorded" /\ job[e].after = "add" /\ job[e].addr = a
        /\ Edits(at'[e], job'[e], "remove", a) <=>
             ok /\ job[e].ret = "recorded" /\ job[e].after = "remove" /\ job[e].addr = a
        /\ ~Edits(at[e], job[e], "add", a) /\ ~Edits(at[e], job[e], "remove", a)
        /\ Edits(at'[e], job'[e], "add", a) => c.op = "set" /\ c.addr = a
        /\ Edits(at'[e], job'[e], "remove", a) => c.op = "clear" /\ c.addr = a
    <3>1. Replied(at[e], job[e], at'[e], job'[e], c, ok, installed)
      BY Zenon, <2>1
    <3> QED
      BY Zenon, <3>1 DEF Replied, Edits, Fits
  <2>4. \A d \in Executor : d # e => at'[d] = at[d] /\ job'[d] = job[d]
    BY Zenon, <1>1 DEF e
  <2>5. Adding(a) => Adding(a)'
    BY Zenon, <2>3, <2>4 DEF Adding
  <2>6. Removing(a) => Removing(a)'
    BY Zenon, <2>3, <2>4 DEF Removing
  <2>7. Adding(a)' => Adding(a) \/ (ok /\ c.op = "set" /\ c.addr = a)
    BY Zenon, <2>3, <2>4 DEF Adding
  <2>8. Removing(a)' => Removing(a) \/ (ok /\ c.op = "clear" /\ c.addr = a /\ job[e].ret = "recorded")
    BY Zenon, <2>3, <2>4 DEF Removing
  <2>9. ok /\ job[e].ret = "recorded" /\ job[e].addr = a =>
          /\ job[e].after = "add" => Adding(a)'
          /\ job[e].after = "remove" => Removing(a)'
    <3>1. e \in Executor
      BY Zenon, <2>1
    <3>2. Edits(at'[e], job'[e], "add", a) => Adding(a)'
      BY Zenon, <3>1 DEF Adding
    <3>3. Edits(at'[e], job'[e], "remove", a) => Removing(a)'
      BY Zenon, <3>1 DEF Removing
    <3> QED
      BY Zenon, <2>3, <3>2, <3>3
  <2> QED
    BY Zenon, <1>3, <2>5, <2>6, <2>7, <2>8, <2>9 DEF e
<1> QED
  BY Zenon, <1>2, <1>3

\* Whoever was to set a again still is
LEMMA AnswerRestores ==
  ASSUME IndInv, queue # <<>>, queue' = Tail(queue), NEW c, c = Head(queue),
         NEW ok \in BOOLEAN, Answer(c, ok), NEW a \in Addr
  PROVE  /\ (\E e \in Executor : Restores(at[e], job[e], a)) =>
              (\E e \in Executor : Restores(at'[e], job'[e], a)) \/ (c.op = "go" /\ ok)
         /\ c.op = "clear" /\ c.addr = a =>
              \/ \E e \in Executor : Restores(at'[e], job'[e], a)
              \/ c.by = "shell" /\ job["shell"].ret = "idle"
              \/ ok => Removing(a)'
<1>1. /\ \A d \in Executor : d # c.by => at'[d] = at[d] /\ job'[d] = job[d]
      /\ c.by \in Executor \cup {None} /\ (c.by = None => c.op = "set")
      /\ c.by # None =>
           Replied(at[c.by], job[c.by], at'[c.by], job'[c.by], c, ok, installed)
  BY Zenon, Replies
<1>2. ASSUME NEW e \in Executor, Restores(at[e], job[e], a)
      PROVE  (\E d \in Executor : Restores(at'[d], job'[d], a)) \/ (c.op = "go" /\ ok)
  <2>1. CASE e # c.by
    BY Zenon, <1>1, <1>2, <2>1
  <2>2. CASE e = c.by
    <3>1. Replied(at[e], job[e], at'[e], job'[e], c, ok, installed)
      BY Zenon, <1>1, <2>2, Names
    <3>2. Restores(at'[e], job'[e], a) \/ (c.op = "go" /\ ok)
      BY <1>2, <3>1, ReplyRestores
    <3> QED
      BY Zenon, <3>2
  <2> QED
    BY Zenon, <2>1, <2>2
<1>3. ASSUME c.op = "clear", c.addr = a
      PROVE  \/ \E e \in Executor : Restores(at'[e], job'[e], a)
             \/ c.by = "shell" /\ job["shell"].ret = "idle"
             \/ ok => Removing(a)'
  <2> DEFINE e == c.by
  <2>1. c.by # None
    BY Zenon, <1>1, <1>3
  <2>2. e \in Executor /\ Replied(at[e], job[e], at'[e], job'[e], c, ok, installed)
    BY Zenon, <1>1, <2>1
  <2>3. Fits(c, job[e])
    BY Zenon, <2>2 DEF Replied
  <2> HIDE DEF e
  <2>4. \/ job[e].ret = "suspend" /\ a \in job[e].overlaps
        \/ job[e].ret = "recorded" /\ job[e].after = "remove" /\ job[e].addr = a
        \/ job[e].ret = "idle" /\ c.by = "shell"
    BY Zenon, <1>3, <2>3 DEF Fits
  <2>5. CASE job[e].ret = "suspend" /\ a \in job[e].overlaps
    <3>1. Restores(at'[e], job'[e], a)
      <4>1. at'[e] = "suspend" /\ job'[e].overlaps = job[e].overlaps
        BY Zenon, <2>2, <2>5 DEF Replied
      <4> QED
        BY Zenon, <2>5, <4>1 DEF Restores, Loc
    <3> QED
      BY Zenon, <2>2, <3>1
  <2>6. CASE job[e].ret = "recorded" /\ job[e].after = "remove" /\ job[e].addr = a
    BY Zenon, <2>1, <2>6, AnswerEdits DEF e
  <2>7. CASE job[e].ret = "idle" /\ c.by = "shell"
    BY Zenon, <2>7 DEF e
  <2> QED
    BY Zenon, <2>4, <2>5, <2>6, <2>7
<1> QED
  BY Zenon, <1>2, <1>3

\* What is on the list stays covered by the answer: a set is in the target or
\* excused, the breakpoint of a clear is restored, removed or excused, and a stop
\* is noted.
LEMMA AnswerRecorded ==
  ASSUME IndInv, queue # <<>>, queue' = Tail(queue), NEW c, c = Head(queue),
         NEW ok \in BOOLEAN, Answer(c, ok), breakpoints_' = breakpoints_,
         breakpoints_lock_' = breakpoints_lock_,
         excused \subseteq excused',
         \A a \in Addr : c.op = "set" /\ c.addr = a => a \in installed' \/ (~ok /\ a \in excused'),
         \A a \in installed : a \in installed' \/ a \in excused' \/ (ok /\ c.op = "clear" /\ c.addr = a),
         c.by = "shell" /\ job["shell"].ret = "idle" /\ c.op = "clear" /\ ok => c.addr \in excused',
         running => running' \/ StopNoted', StopNoted => StopNoted',
         c.op = "go" /\ ok => running'
  PROVE  RecordedInv'
<1> SUFFICES ASSUME NEW a \in Addr, a \in breakpoints_' \/ Adding(a)',
                    a \notin installed', a \notin excused'
             PROVE  Covered(a)' \/ Removing(a)'
  BY Zenon DEF RecordedInv
<1>1. a \in breakpoints_ \/ Adding(a)
  BY Zenon, AnswerEdits
<1>2. a \in installed \/ a \in excused \/ Covered(a) \/ Removing(a)
  BY Zenon, <1>1 DEF IndInv, RecordedInv
<1>3. a \notin excused
  BY Zenon
<1>4. CASE a \in installed
  <2>1. ok /\ c.op = "clear" /\ c.addr = a
    BY Zenon, <1>4
  <2>2. \/ \E e \in Executor : Restores(at'[e], job'[e], a)
        \/ c.by = "shell" /\ job["shell"].ret = "idle"
        \/ ok => Removing(a)'
    BY Zenon, <2>1, AnswerRestores
  <2> QED
    BY Zenon, <2>1, <2>2 DEF Covered
<1>5. CASE Removing(a)
  BY Zenon, <1>5, AnswerEdits
<1>6. CASE Covered(a)
  <2>1. SetQueued(a) => SetQueued(a)' \/ (c.op = "set" /\ c.addr = a)
    BY Zenon, AnswerFrame
  <2>2. SetQueued(a) => SetQueued(a)'
    BY Zenon, <2>1
  <2>3. (\E e \in Executor : Restores(at[e], job[e], a)) =>
          (\E e \in Executor : Restores(at'[e], job'[e], a)) \/ (c.op = "go" /\ ok)
    BY Zenon, AnswerRestores
  <2> QED
    BY Zenon, <1>6, <2>2, <2>3 DEF Covered
<1> QED
  BY Zenon, <1>2, <1>3, <1>4, <1>5, <1>6


\* What reads and steps find after an answer: the executor that waited goes on
\* as it was to, and a set by another either is not in its way or disturbs it.
LEMMA AnswerDisturb ==
  ASSUME IndInv, queue # <<>>, queue' = Tail(queue), NEW c, c = Head(queue),
         NEW ok \in BOOLEAN, Answer(c, ok), breakpoints_lock_' = breakpoints_lock_,
         disturbed \subseteq disturbed', c.op = "set" \/ installed' \subseteq installed,
         \A a \in Addr : c.op = "clear" /\ c.addr = a => a \notin installed' \/ c.by \in disturbed',
         \A d \in Executor \ {c.by} : d \notin disturbed' =>
           /\ ReadOK(at[d], job[d], installed, Clears(d)) =>
                ReadOK(at[d], job[d], installed', Clears(d))
           /\ StepOK(at[d], job[d], installed, Clears(d)) =>
                StepOK(at[d], job[d], installed', Clears(d))
  PROVE  DisturbInv'
<1> SUFFICES ASSUME NEW d \in Executor, d \notin disturbed'
             PROVE  /\ ReadOK(at'[d], job'[d], installed', Clears(d)')
                    /\ StepOK(at'[d], job'[d], installed', Clears(d)')
  BY Zenon DEF DisturbInv
<1>1. /\ \A b \in Executor : b # c.by => at'[b] = at[b] /\ job'[b] = job[b]
      /\ c.by # None =>
           Replied(at[c.by], job[c.by], at'[c.by], job'[c.by], c, ok, installed)
  BY Zenon, Replies
<1>2. /\ \A b \in Executor : b # c.by => Clears(b)' = Clears(b)
      /\ c.by # None => /\ Clears(c.by)' = {}
                        /\ \A a \in Clears(c.by) : c.op = "clear" /\ c.addr = a
  BY Zenon, AnswerFrame
<1>3. d \notin disturbed
  BY Zenon
<1>4. ReadOK(at[d], job[d], installed, Clears(d)) /\ StepOK(at[d], job[d], installed, Clears(d))
  BY Zenon, <1>3 DEF IndInv, DisturbInv
<1>5. CASE d # c.by
  <2>1. at'[d] = at[d] /\ job'[d] = job[d] /\ Clears(d)' = Clears(d)
    BY Zenon, <1>1, <1>2, <1>5
  <2>2. ReadOK(at[d], job[d], installed', Clears(d)) /\ StepOK(at[d], job[d], installed', Clears(d))
    BY Zenon, <1>4, <1>5
  <2> QED
    BY Zenon, <2>1, <2>2
<1>6. CASE d = c.by
  <2>1. Replied(at[d], job[d], at'[d], job'[d], c, ok, installed)
    BY Zenon, <1>1, <1>6, Names
  <2>2. Clears(d)' = {} /\ Clears(d) \subseteq Addr
    <3>1. Clears(d)' = {}
      BY Zenon, <1>2, <1>6, Names
    <3>2. Clears(d) \subseteq Addr
      BY Zenon DEF Clears
    <3> QED
      BY Zenon, <3>1, <3>2
  <2>3. \A a \in Clears(d) : c.op = "clear" /\ a \notin installed'
    <3>1. \A a \in Clears(d) : c.op = "clear" /\ c.addr = a
      BY Zenon, <1>2, <1>6, Names
    <3> QED
      BY Zenon, <1>6, <2>2, <3>1
  <2>4. CarriedOut(c, Clears(d), installed, installed')
    BY Zenon, <2>3 DEF CarriedOut
  <2>5. ReadOK(at'[d], job'[d], installed', {})
    BY Zenon, <1>4, <2>1, <2>4, ReplyReads
  <2>6. StepOK(at'[d], job'[d], installed', {})
    BY Zenon, <1>4, <2>1, <2>4, ReplySteps
  <2> QED
    BY Zenon, <2>2, <2>5, <2>6
<1> QED
  BY Zenon, <1>5, <1>6

\* A command that fails
LEMMA FailsIsSafe ==
  ASSUME IndInv, Fails
  PROVE  IndInv'
<1> DEFINE c == Head(queue)
<1>1. /\ TypeOK /\ ShapeInv /\ LockInv /\ NoteInv /\ QueueInv /\ RecordedInv /\ OrphanInv
      /\ DisturbInv
  BY Zenon DEF IndInv
<1>2. /\ queue # <<>> /\ queue' = Tail(queue) /\ Answer(c, FALSE) /\ failures' = failures + 1
      /\ excused' = IF c.op = "set" THEN excused \cup {c.addr} ELSE excused
      /\ disturbed' = IF c.op = "clear" THEN disturbed \cup {c.by} ELSE disturbed
      /\ UNCHANGED <<installed, running, eip, trap, notes, breakpoints_, breakpoints_lock_,
                     breakpoint_conditions_, jobs, events, shellSet, lost>>
  BY Zenon DEF Fails, target, debugger
<1> HIDE DEF c
<1>3. /\ c \in Command /\ c.by \in Executor \cup {None}
      /\ at' \in [Executor -> Label] /\ job' \in [Executor -> Job]
      /\ \A d \in Executor : d # c.by => at'[d] = at[d] /\ job'[d] = job[d]
      /\ c.by = None => c.op = "set" /\ c.addr \in Addr
      /\ c.by # None =>
           Replied(at[c.by], job[c.by], at'[c.by], job'[c.by], c, FALSE, installed)
  BY Zenon, <1>2, Replies DEF c
<1>4. queue' \in Seq(Command) /\ ShapeInv' /\ LockInv' /\ QueueInv'
  BY Zenon, <1>2, AnswerFrame DEF c
<1>5. c.op = "set" => c.addr \in Addr
  BY Zenon, <1>2, HeadAddress DEF c
<1>6. TypeOK'
  <2>1. failures' \in Nat
    BY <1>1, <1>2 DEF TypeOK
  <2>2. excused' \subseteq Addr
    BY Zenon, <1>1, <1>2, <1>5 DEF TypeOK
  <2>3. disturbed' \subseteq Executor
    BY Zenon, <1>1, <1>2, <1>3 DEF TypeOK
  <2> QED
    BY Zenon, <1>1, <1>2, <1>3, <1>4, <2>1, <2>2, <2>3 DEF TypeOK
<1>7. at["notification"] = "idle" => at'["notification"] = "idle"
  BY Zenon, <1>3, Names DEF Replied
<1>8. NoteInv' /\ (StopNoted => StopNoted')
  <2>1. at'["notification"] # "idle" => at["notification"] # "idle"
    BY Zenon, <1>7
  <2> QED
    BY Zenon, <1>1, <1>2, <1>7, <2>1 DEF NoteInv, StopNoted
<1>9. RecordedInv'
  <2>1. excused \subseteq excused'
    BY Zenon, <1>2
  <2>2. \A a \in Addr : c.op = "set" /\ c.addr = a => a \in installed' \/ (~FALSE /\ a \in excused')
    BY Zenon, <1>2
  <2>3. \A a \in installed : a \in installed' \/ a \in excused' \/ (FALSE /\ c.op = "clear" /\ c.addr = a)
    BY Zenon, <1>2
  <2>4. running => running' \/ StopNoted'
    BY Zenon, <1>2
  <2> QED
    BY Zenon, <1>2, <1>8, <2>1, <2>2, <2>3, <2>4, AnswerRecorded DEF c
<1>10. OrphanInv'
  <2> SUFFICES ASSUME NEW a \in Addr
               PROVE  /\ a \in installed => a \in breakpoints_ \/ a \in shellSet \/ a \in lost \/ Adding(a)'
                      /\ Due(a)' => a \in breakpoints_ \/ a \in lost
                      /\ Removing(a)' => /\ Due(a)' => a \in lost
                                         /\ a \in installed => a \in shellSet \/ a \in lost
    BY Zenon, <1>2 DEF OrphanInv
  <2>1. (Adding(a) => Adding(a)') /\ (Removing(a)' => Removing(a))
    BY Zenon, <1>2, AnswerEdits DEF c
  <2>2. Due(a)' => Due(a)
    BY Zenon, <1>2, AnswerFrame DEF c
  <2> QED
    BY Zenon, <1>1, <2>1, <2>2 DEF OrphanInv
<1>11. DisturbInv'
  <2>1. disturbed \subseteq disturbed' /\ (c.op = "clear" => c.by \in disturbed')
    BY Zenon, <1>2
  <2>2. installed' = installed /\ (c.op = "set" \/ installed' \subseteq installed)
    BY Zenon, <1>2
  <2> QED
    BY Zenon, <1>2, <2>1, <2>2, AnswerDisturb DEF c
<1> QED
  BY Zenon, <1>4, <1>6, <1>8, <1>9, <1>10, <1>11 DEF IndInv


\* A breakpoint set out of the way of a read or a step does not concern it.
LEMMA OutOfTheWay ==
  ASSUME NEW l, NEW j \in Job, NEW ins, NEW cl, NEW ins2, NEW a,
         ins2 \subseteq ins \cup {a},
         ~(/\ l \in {"suspend", "read"} \/ (l = "wait" /\ j.ret \in {"suspend", "bytes"})
           /\ a \in InRange(j)),
         ~(j.after = "trap" /\ l # "stepped" /\ a \in j.overlaps)
  PROVE  /\ ReadOK(l, j, ins, cl) => ReadOK(l, j, ins2, cl)
         /\ StepOK(l, j, ins, cl) => StepOK(l, j, ins2, cl)
<1>1. ASSUME ReadOK(l, j, ins, cl)
      PROVE  ReadOK(l, j, ins2, cl)
  BY Zenon, <1>1 DEF ReadOK, Loc
<1>2. ASSUME StepOK(l, j, ins, cl)
      PROVE  StepOK(l, j, ins2, cl)
  BY Zenon, <1>2 DEF StepOK, Loc
<1> QED
  BY Zenon, <1>1, <1>2

\* Fewer breakpoints are in nobody's way.
LEMMA FewerBreakpoints ==
  ASSUME NEW l, NEW j, NEW ins, NEW cl, NEW ins2, ins2 \subseteq ins
  PROVE  /\ ReadOK(l, j, ins, cl) => ReadOK(l, j, ins2, cl)
         /\ StepOK(l, j, ins, cl) => StepOK(l, j, ins2, cl)
<1>1. ASSUME ReadOK(l, j, ins, cl)
      PROVE  ReadOK(l, j, ins2, cl)
  BY Zenon, <1>1 DEF ReadOK, Loc
<1>2. ASSUME StepOK(l, j, ins, cl)
      PROVE  StepOK(l, j, ins2, cl)
  BY Zenon, <1>2 DEF StepOK, Loc
<1> QED
  BY Zenon, <1>1, <1>2

\* A command that is carried out
LEMMA SucceedsIsSafe ==
  ASSUME IndInv, Succeeds
  PROVE  IndInv'
<1> DEFINE c == Head(queue)
           ok == (c.op = "go" => ~running)
           shell == c.by = "shell" /\ job["shell"].ret = "idle"
           reading(e) == \/ at[e] \in {"suspend", "read"}
                         \/ at[e] = "wait" /\ job[e].ret \in {"suspend", "bytes"}
           stepping(e) == job[e].after = "trap" /\ at[e] # "stepped"
           others == {e \in Executor \ {c.by} :
                        \/ reading(e) /\ c.addr \in ReadRange(e)
                        \/ stepping(e) /\ c.addr \in job[e].overlaps}
<1>1. /\ TypeOK /\ ShapeInv /\ LockInv /\ NoteInv /\ QueueInv /\ RecordedInv /\ OrphanInv
      /\ DisturbInv
  BY Zenon DEF IndInv
<1>2. /\ queue # <<>> /\ queue' = Tail(queue) /\ Answer(c, ok)
      /\ UNCHANGED <<eip, breakpoints_, breakpoints_lock_, breakpoint_conditions_,
                     jobs, events, failures>>
  BY Zenon DEF Succeeds, debugger, bounds
<1>3. /\ c.op = "set" => installed' = installed \cup {c.addr}
      /\ c.op = "clear" => installed' = installed \ {c.addr}
      /\ c.op = "clearall" => installed' = {}
      /\ c.op \notin {"set", "clear", "clearall"} => installed' = installed
  BY Zenon DEF Succeeds
<1>4. /\ c.op = "stop" => running' = FALSE
      /\ c.op = "go" => running' = TRUE
      /\ c.op \notin {"stop", "go"} => running' = running
  BY Zenon DEF Succeeds
<1>5. /\ trap' = (c.op = "step" \/ trap)
      /\ notes' = IF c.op = "stop" /\ running
                  THEN Append(notes, [type |-> "stopped", addr |-> None]) ELSE notes
  BY Zenon DEF Succeeds
<1>6. /\ c.op = "set" => shellSet' = IF shell THEN shellSet \cup {c.addr} ELSE shellSet
      /\ c.op = "clear" => shellSet' = shellSet \ {c.addr}
      /\ c.op = "clearall" => shellSet' = {}
      /\ c.op \notin {"set", "clear", "clearall"} => shellSet' = shellSet
  BY Zenon DEF Succeeds
<1>7. /\ c.op = "clear" => excused' = IF shell THEN excused \cup {c.addr} ELSE excused
      /\ c.op = "clearall" => excused' = Addr
      /\ c.op \notin {"clear", "clearall"} => excused' = excused
  BY Zenon DEF Succeeds
<1>8. disturbed' = IF c.op = "set" THEN disturbed \cup others ELSE disturbed
  BY Zenon DEF Succeeds
<1>9. lost' = IF c.op # "clear" THEN lost
              ELSE IF ~ToBeRestored(c.addr) THEN lost \ {c.addr}
              ELSE IF job[c.by].ret = "recorded" THEN lost \cup {c.addr} ELSE lost
  BY Zenon DEF Succeeds
<1>10. ok \in BOOLEAN /\ (c.op # "go" => ok)
  BY Zenon DEF ok
<1>11. /\ \A e \in Executor : e \notin others /\ e # c.by =>
            /\ ~(/\ at[e] \in {"suspend", "read"} \/ (at[e] = "wait" /\ job[e].ret \in {"suspend", "bytes"})
                 /\ c.addr \in InRange(job[e]))
            /\ ~(job[e].after = "trap" /\ at[e] # "stepped" /\ c.addr \in job[e].overlaps)
       /\ others \subseteq Executor
  BY Zenon DEF ReadRange, InRange
<1> HIDE DEF c, ok, others
<1>12. /\ c \in Command /\ c.by \in Executor \cup {None}
       /\ at' \in [Executor -> Label] /\ job' \in [Executor -> Job]
       /\ \A d \in Executor : d # c.by => at'[d] = at[d] /\ job'[d] = job[d]
       /\ c.by # None =>
            Replied(at[c.by], job[c.by], at'[c.by], job'[c.by], c, ok, installed)
  BY Zenon, <1>2, <1>10, Replies DEF c
<1>13. /\ queue' \in Seq(Command) /\ ShapeInv' /\ LockInv' /\ QueueInv'
       /\ \A a \in Addr : /\ Due(a)' => Due(a)
                          /\ c.op = "set" /\ c.addr = a =>
                               \/ Due(a) \/ shell
                               \/ /\ c.by # None /\ job[c.by].ret = "recorded"
                                  /\ job[c.by].after = "add" /\ job[c.by].addr = a
  BY Zenon, <1>2, <1>10, AnswerFrame DEF c
<1>14. c.op \in {"set", "clear"} => c.addr \in Addr
  BY Zenon, <1>2, <1>10, HeadAddress DEF c
<1>15. notes' \in Seq(Note) /\ (notes # <<>> => notes' # <<>>)
       /\ (\A i \in DOMAIN notes : i \in DOMAIN notes' /\ notes'[i] = notes[i])
       /\ (c.op = "stop" /\ running =>
             \E i \in DOMAIN notes' : notes'[i].type = "stopped" /\ (i = 1 => notes = <<>>))
  <2>1. notes \in Seq(Note)
    BY Zenon, <1>1 DEF TypeOK
  <2>2. CASE c.op = "stop" /\ running
    <3> DEFINE note == [type |-> "stopped", addr |-> None]
    <3>1. notes' = Append(notes, note)
      BY Zenon, <1>5, <2>2
    <3>2. note \in Note /\ note.type = "stopped"
      BY Zenon DEF Note
    <3> HIDE DEF note
    <3>3. /\ notes' \in Seq(Note) /\ notes' # <<>> /\ Len(notes) \in Nat
          /\ Len(notes) + 1 \in DOMAIN notes' /\ notes'[Len(notes) + 1] = note
          /\ (Len(notes) + 1 = 1 => notes = <<>>)
      BY <2>1, <3>1, <3>2
    <3>4. \A i \in DOMAIN notes : i \in DOMAIN notes' /\ notes'[i] = notes[i]
      BY <2>1, <3>1, <3>2
    <3> QED
      BY Zenon, <3>2, <3>3, <3>4
  <2>3. CASE ~(c.op = "stop" /\ running)
    BY Zenon, <1>5, <2>1, <2>3
  <2> QED
    BY Zenon, <2>2, <2>3
<1>16. TypeOK'
  <2>1. installed' \subseteq Addr
    BY Zenon, <1>1, <1>3, <1>14 DEF TypeOK
  <2>2. running' \in BOOLEAN
    BY Zenon, <1>1, <1>4 DEF TypeOK
  <2>3. trap' \in BOOLEAN
    BY Zenon, <1>5
  <2>4. shellSet' \subseteq Addr
    BY Zenon, <1>1, <1>6, <1>14 DEF TypeOK
  <2>5. excused' \subseteq Addr
    BY Zenon, <1>1, <1>7, <1>14 DEF TypeOK
  <2>6. lost' \subseteq Addr
    BY Zenon, <1>1, <1>9, <1>14 DEF TypeOK
  <2>7. disturbed' \subseteq Executor
    BY Zenon, <1>1, <1>8, <1>11 DEF TypeOK
  <2> QED
    BY Zenon, <1>1, <1>2, <1>12, <1>13, <1>15, <2>1, <2>2, <2>3, <2>4, <2>5, <2>6, <2>7 DEF TypeOK
<1>17. at["notification"] = "idle" => at'["notification"] = "idle"
  BY Zenon, <1>12, Names DEF Replied
<1>18. NoteInv' /\ (StopNoted => StopNoted') /\ (c.op = "stop" /\ running => StopNoted')
  <2>1. at'["notification"] # "idle" => at["notification"] # "idle"
    BY Zenon, <1>17
  <2>2. notes = <<>> => at'["notification"] = "idle"
    BY Zenon, <1>1, <2>1 DEF NoteInv
  <2>3. NoteInv'
    BY Zenon, <1>1, <1>15, <2>1 DEF NoteInv
  <2>4. StopNoted => StopNoted'
    BY Zenon, <1>15, <1>17 DEF StopNoted
  <2>5. c.op = "stop" /\ running => StopNoted'
    BY Zenon, <1>15, <2>2 DEF StopNoted
  <2> QED
    BY Zenon, <2>3, <2>4, <2>5
<1>19. RecordedInv'
  <2>1. excused \subseteq excused'
    BY Zenon, <1>1, <1>7 DEF TypeOK
  <2>2. \A a \in Addr : c.op = "set" /\ c.addr = a => a \in installed' \/ (~ok /\ a \in excused')
    BY Zenon, <1>3
  <2>3. \A a \in installed : a \in installed' \/ a \in excused' \/ (ok /\ c.op = "clear" /\ c.addr = a)
    BY Zenon, <1>1, <1>3, <1>7, <1>10 DEF TypeOK
  <2>4. shell /\ c.op = "clear" /\ ok => c.addr \in excused'
    BY Zenon, <1>7
  <2>5. running => running' \/ StopNoted'
    BY Zenon, <1>4, <1>18
  <2>6. c.op = "go" /\ ok => running'
    BY Zenon, <1>4
  <2> QED
    BY Zenon, <1>2, <1>10, <1>18, <2>1, <2>2, <2>3, <2>4, <2>5, <2>6, AnswerRecorded DEF c
<1>20. ASSUME NEW a \in Addr
       PROVE  /\ Adding(a) => Adding(a)'
              /\ Removing(a)' =>
                   \/ Removing(a)
                   \/ c.op = "clear" /\ c.addr = a /\ job[c.by].ret = "recorded"
              /\ c.op = "set" /\ c.by # None /\ job[c.by].ret = "recorded" /\ job[c.by].addr = a
                 /\ job[c.by].after = "add" => Adding(a)'
  BY Zenon, <1>2, <1>10, AnswerEdits DEF c
<1>21. ASSUME NEW a \in Addr, c.op = "set", c.addr = a
       PROVE  Due(a) \/ a \in shellSet' \/ (Adding(a)' /\ ~Removing(a))
  <2>1. CASE shell
    BY Zenon, <1>6, <1>21, <2>1
  <2>2. CASE /\ c.by # None /\ job[c.by].ret = "recorded"
             /\ job[c.by].after = "add" /\ job[c.by].addr = a
    <3>1. c.by \in Executor /\ at[c.by] = "wait"
      BY Zenon, <1>12, <2>2 DEF Replied
    <3>2. Loc(at[c.by], job[c.by]) = "recorded"
      BY Zenon, <2>2, <3>1 DEF Loc
    <3>3. \A d \in Executor : Loc(at[d], job[d]) = "recorded" => d = c.by
      BY Zenon, <1>1, <3>1, <3>2 DEF LockInv
    <3>4. ~Removing(a)
      BY Zenon, <3>1, <3>3 DEF Removing, Edits, Loc
    <3> QED
      BY Zenon, <1>20, <1>21, <2>2, <3>4
  <2> QED
    BY Zenon, <1>13, <1>21, <2>1, <2>2
<1>22. OrphanInv'
  <2> SUFFICES ASSUME NEW a \in Addr
               PROVE  /\ a \in installed' => a \in breakpoints_ \/ a \in shellSet' \/ a \in lost' \/ Adding(a)'
                      /\ Due(a)' => a \in breakpoints_ \/ a \in lost'
                      /\ Removing(a)' => /\ Due(a)' => a \in lost'
                                         /\ a \in installed' => a \in shellSet' \/ a \in lost'
    BY Zenon, <1>2 DEF OrphanInv
  <2>1. /\ a \in installed => a \in breakpoints_ \/ a \in shellSet \/ a \in lost \/ Adding(a)
        /\ Due(a) => a \in breakpoints_ \/ a \in lost
        /\ Removing(a) => /\ Due(a) => a \in lost
                          /\ a \in installed => a \in shellSet \/ a \in lost
    BY Zenon, <1>1 DEF OrphanInv
  <2>2. a \in lost => a \in lost' \/ (a \notin installed' /\ ~Due(a))
    BY Zenon, <1>1, <1>3, <1>9, DueIs
  <2>3. Due(a)' => Due(a)
    BY Zenon, <1>13
  <2>4. a \in installed' => (a \in installed /\ (a \in shellSet => a \in shellSet'))
                            \/ (c.op = "set" /\ c.addr = a)
    BY Zenon, <1>3, <1>6
  <2>5. a \in installed' => a \in breakpoints_ \/ a \in shellSet' \/ a \in lost' \/ Adding(a)'
    BY Zenon, <1>20, <1>21, <2>1, <2>2, <2>4
  <2>6. Removing(a) => /\ Due(a)' => a \in lost'
                       /\ a \in installed' => a \in shellSet' \/ a \in lost'
    BY Zenon, <1>21, <2>1, <2>2, <2>3, <2>4
  <2>7. ASSUME c.op = "clear", c.addr = a, job[c.by].ret = "recorded"
        PROVE  (Due(a)' => a \in lost') /\ a \notin installed'
    <3>1. Due(a) => ToBeRestored(a)
      BY Zenon, <1>1, DueIs
    <3> QED
      BY Zenon, <1>3, <1>9, <2>3, <2>7, <3>1
  <2> QED
    BY Zenon, <1>20, <2>1, <2>2, <2>3, <2>5, <2>6, <2>7
<1>23. DisturbInv'
  <2>1. disturbed \subseteq disturbed'
    BY Zenon, <1>8
  <2>2. c.op = "set" \/ installed' \subseteq installed
    BY Zenon, <1>3
  <2>3. \A a \in Addr : c.op = "clear" /\ c.addr = a => a \notin installed' \/ c.by \in disturbed'
    BY Zenon, <1>3
  <2>4. ASSUME NEW d \in Executor \ {c.by}, d \notin disturbed'
        PROVE  /\ ReadOK(at[d], job[d], installed, Clears(d)) =>
                    ReadOK(at[d], job[d], installed', Clears(d))
               /\ StepOK(at[d], job[d], installed, Clears(d)) =>
                    StepOK(at[d], job[d], installed', Clears(d))
    <3>1. CASE c.op = "set"
      <4>1. d \notin others
        BY Zenon, <1>8, <2>4, <3>1
      <4>2. installed' \subseteq installed \cup {c.addr}
        BY Zenon, <1>3, <3>1
      <4>3. /\ ~(/\ at[d] \in {"suspend", "read"} \/ (at[d] = "wait" /\ job[d].ret \in {"suspend", "bytes"})
                 /\ c.addr \in InRange(job[d]))
            /\ ~(job[d].after = "trap" /\ at[d] # "stepped" /\ c.addr \in job[d].overlaps)
        BY Zenon, <1>11, <4>1
      <4>4. job[d] \in Job
        BY Zenon, <1>1, JobTyped
      <4> QED
        BY Zenon, <4>2, <4>3, <4>4, OutOfTheWay
    <3>2. CASE c.op # "set"
      BY Zenon, <2>2, <3>2, FewerBreakpoints
    <3> QED
      BY Zenon, <3>1, <3>2
  <2> QED
    BY Zenon, <1>2, <1>10, <2>1, <2>2, <2>3, <2>4, AnswerDisturb DEF c
<1> QED
  BY Zenon, <1>13, <1>16, <1>18, <1>19, <1>22, <1>23 DEF IndInv

-----------------------------------------------------------------------------
(* The title.                                                               *)

\* Steps that leave the executors and the queue alone
LEMMA SameExecutors ==
  ASSUME IndInv, UNCHANGED <<at, job, queue, breakpoints_lock_>>
  PROVE  /\ ShapeInv' /\ LockInv' /\ QueueInv'
         /\ \A e \in Executor : Clears(e)' = Clears(e)
         /\ \A a \in Addr : /\ (Adding(a)' <=> Adding(a)) /\ (Removing(a)' <=> Removing(a))
                            /\ (Due(a)' <=> Due(a)) /\ (SetQueued(a)' <=> SetQueued(a))
BY Zenon DEF IndInv, ShapeInv, LockInv, QueueInv, Clears, Adding, Removing, Due, SetQueued

\* A stop that is reported
LEMMA StopsIsSafe ==
  ASSUME IndInv, NEW address \in Addr, NEW more \in Seq(Note), Stops(address, more),
         events' \in Nat,
         UNCHANGED <<installed, debugger, queue, at, job, jobs, failures,
                     shellSet, excused, lost, disturbed>>
  PROVE  IndInv'
<1> DEFINE note == [type |-> "stopped", addr |-> None]
<1>1. TypeOK /\ notes \in Seq(Note) /\ NoteInv
  BY Zenon DEF IndInv, TypeOK
<1>2. note \in Note /\ note.type = "stopped"
  BY Zenon DEF Note
<1>3. /\ notes' \in Seq(Note)
      /\ \E i \in DOMAIN notes' : notes'[i] = note /\ (i = 1 => notes = <<>>)
  <2>0. notes' = notes \o more \o <<note>> \/ notes' = notes \o <<note>> \o more
    BY Zenon DEF Stops
  <2> HIDE DEF note
  <2>1. CASE notes' = notes \o more \o <<note>>
    <3>1. notes \o more \in Seq(Note) /\ Len(notes \o more) = Len(notes) + Len(more)
      BY <1>1
    <3>2. notes' \in Seq(Note) /\ Len(notes') = Len(notes) + Len(more) + 1
      BY <2>1, <3>1, <1>2
    <3>3. notes'[Len(notes) + Len(more) + 1] = note
      BY <2>1, <3>1, <1>2
    <3>4. Len(notes) \in Nat /\ Len(more) \in Nat /\ (Len(notes) = 0 => notes = <<>>)
      BY <1>1
    <3> QED
      BY <3>2, <3>3, <3>4
  <2>2. CASE notes' = notes \o <<note>> \o more
    <3>1. notes \o <<note>> \in Seq(Note) /\ Len(notes \o <<note>>) = Len(notes) + 1
      BY <1>1, <1>2
    <3>2. (notes \o <<note>>)[Len(notes) + 1] = note
      BY <1>1, <1>2
    <3>3. notes' \in Seq(Note) /\ Len(notes') = Len(notes) + 1 + Len(more)
      BY <2>2, <3>1
    <3>4. notes'[Len(notes) + 1] = note
      BY <2>2, <3>1, <3>2
    <3>5. Len(notes) \in Nat /\ Len(more) \in Nat /\ (Len(notes) = 0 => notes = <<>>)
      BY <1>1
    <3> QED
      BY <3>3, <3>4, <3>5
  <2> QED
    BY Zenon, <2>0, <2>1, <2>2
<1>4. StopNoted' /\ NoteInv'
  <2>1. PICK i \in DOMAIN notes' : notes'[i] = note /\ (i = 1 => notes = <<>>)
    BY Zenon, <1>3
  <2>2. notes' # <<>>
    BY <2>1
  <2> QED
    BY Zenon, <1>1, <1>2, <2>1, <2>2 DEF StopNoted, NoteInv
<1>5. TypeOK'
  <2>1. running' \in BOOLEAN /\ trap' \in BOOLEAN /\ eip' \in Addr
    BY Zenon DEF Stops
  <2> QED
    BY Zenon, <1>1, <1>3, <2>1 DEF TypeOK, debugger
<1>6. /\ ShapeInv' /\ LockInv' /\ QueueInv'
      /\ \A e \in Executor : Clears(e)' = Clears(e)
      /\ \A a \in Addr : /\ (Adding(a)' <=> Adding(a)) /\ (Removing(a)' <=> Removing(a))
                         /\ (Due(a)' <=> Due(a)) /\ (SetQueued(a)' <=> SetQueued(a))
  BY Zenon, SameExecutors DEF debugger
<1>7. RecordedInv'
  BY Zenon, <1>4 DEF RecordedInv, Covered
<1>8. OrphanInv'
  BY Zenon, <1>6 DEF IndInv, OrphanInv, debugger
<1>9. DisturbInv'
  BY Zenon, <1>6 DEF IndInv, DisturbInv
<1> QED
  BY Zenon, <1>4, <1>5, <1>6, <1>7, <1>8, <1>9 DEF IndInv

\* The title stops, or reboots: a stop is noted, and a reboot leaves it running.
LEMMA TitleIsSafe ==
  ASSUME IndInv, Title
  PROVE  IndInv'
<1>1. TypeOK
  BY Zenon DEF IndInv
<1>2. CASE TitleHits
  <2>1. PICK a \in installed : Stops(a, <<[type |-> "break", addr |-> a]>>)
    BY Zenon, <1>2 DEF TitleHits
  <2>2. a \in Addr /\ events' \in Nat
    BY <1>1, <1>2 DEF TypeOK, TitleHits, Happens
  <2>3. <<[type |-> "break", addr |-> a]>> \in Seq(Note)
    BY <2>2 DEF Note
  <2> QED
    BY Zenon, <1>2, <2>1, <2>2, <2>3, StopsIsSafe DEF TitleHits
<1>3. CASE TitleSteps
  <2>1. PICK a \in Addr : Stops(a, <<[type |-> "step", addr |-> None]>>)
    BY Zenon, <1>3 DEF TitleSteps
  <2>2. events' \in Nat
    BY <1>1, <1>3 DEF TypeOK, TitleSteps, Happens
  <2>3. <<[type |-> "step", addr |-> None]>> \in Seq(Note)
    BY DEF Note
  <2> QED
    BY Zenon, <1>3, <2>1, <2>2, <2>3, StopsIsSafe DEF TitleSteps
<1>4. CASE Reboots
  <2>1. /\ installed' = {} /\ running' = TRUE /\ trap' = FALSE /\ shellSet' = {}
        /\ UNCHANGED <<at, job, queue, breakpoints_, breakpoints_lock_, breakpoint_conditions_,
                       eip, jobs, failures, excused, disturbed>>
        /\ lost' = {a \in lost : ToBeRestored(a)}
    BY Zenon, <1>4 DEF Reboots, debugger
  <2>2. notes' \in Seq(Note) /\ notes' # <<>>
    <3>1. notes \in Seq(Note) /\ notes' = Append(notes, [type |-> "rebooting", addr |-> None])
      BY Zenon, <1>1, <1>4 DEF TypeOK, Reboots
    <3>2. [type |-> "rebooting", addr |-> None] \in Note
      BY Zenon DEF Note
    <3> QED
      BY <3>1, <3>2
  <2>3. TypeOK' /\ NoteInv'
    <3>1. events' \in Nat
      BY <1>1, <1>4 DEF TypeOK, Reboots, Happens
    <3>2. installed' \subseteq Addr /\ shellSet' \subseteq Addr /\ running' \in BOOLEAN
          /\ trap' \in BOOLEAN /\ lost' \subseteq Addr
      BY Zenon, <1>1, <2>1 DEF TypeOK
    <3> QED
      BY Zenon, <1>1, <2>1, <2>2, <3>1, <3>2 DEF TypeOK, NoteInv
  <2>4. /\ ShapeInv' /\ LockInv' /\ QueueInv'
        /\ \A e \in Executor : Clears(e)' = Clears(e)
        /\ \A a \in Addr : /\ (Adding(a)' <=> Adding(a)) /\ (Removing(a)' <=> Removing(a))
                           /\ (Due(a)' <=> Due(a)) /\ (SetQueued(a)' <=> SetQueued(a))
    BY Zenon, <2>1, SameExecutors
  <2>5. RecordedInv'
    BY Zenon, <2>1 DEF RecordedInv, Covered
  <2>6. OrphanInv'
    <3>1. \A a \in Addr : Due(a) /\ a \in lost => a \in lost'
      BY Zenon, <1>1, <2>1, DueIs
    <3> QED
      BY Zenon, <2>1, <2>4, <3>1 DEF IndInv, OrphanInv
  <2>7. DisturbInv'
    <3> SUFFICES ASSUME NEW e \in Executor, e \notin disturbed
                 PROVE  /\ ReadOK(at[e], job[e], {}, Clears(e))
                        /\ StepOK(at[e], job[e], {}, Clears(e))
      BY Zenon, <2>1, <2>4 DEF DisturbInv
    <3>1. ReadOK(at[e], job[e], installed, Clears(e)) /\ StepOK(at[e], job[e], installed, Clears(e))
      BY Zenon DEF IndInv, DisturbInv
    <3> QED
      BY Zenon, <3>1 DEF ReadOK, StepOK
  <2> QED
    BY Zenon, <2>3, <2>4, <2>5, <2>6, <2>7 DEF IndInv
<1> QED
  BY Zenon, <1>2, <1>3, <1>4 DEF Title

-----------------------------------------------------------------------------
(* What changes breakpoints_, and the notifications.                        *)

\* AddBreakpoint and RemoveBreakpoint record what they did and release the lock.
LEMMA RecordIsSafe ==
  ASSUME IndInv, NEW e \in Executor, RecordBreakpoint(e)
  PROVE  IndInv'
<1>1. /\ TypeOK /\ ShapeInv /\ LockInv /\ NoteInv /\ QueueInv /\ RecordedInv /\ OrphanInv
      /\ DisturbInv
  BY Zenon DEF IndInv
<1>2. /\ at[e] = "recorded" /\ breakpoints_lock_' = None
      /\ breakpoints_' = IF ~job[e].ok THEN breakpoints_
                         ELSE IF job[e].after = "add" THEN breakpoints_ \cup {job[e].addr}
                         ELSE breakpoints_ \ {job[e].addr}
      /\ UNCHANGED <<installed, running, eip, trap, notes, breakpoint_conditions_, queue,
                     jobs, events, failures, shellSet, excused, lost, disturbed>>
  BY Zenon DEF RecordBreakpoint, target, bounds, history
<1>3. at'[e] = "idle" /\ at' \in [Executor -> Label] /\ \A d \in Executor \ {e} : at'[d] = at[d]
  BY Zenon, <1>1 DEF RecordBreakpoint, Goto, TypeOK, Label
<1>4. job'[e] = NoJob /\ job' \in [Executor -> Job] /\ \A d \in Executor \ {e} : job'[d] = job[d]
  BY Zenon, <1>1, NoJobTyped DEF RecordBreakpoint, Locals, TypeOK
<1>5. job[e] \in Job /\ job[e].after \in {"add", "remove"} /\ job[e].addr \in Addr
  BY Zenon, <1>1, <1>2, JobTyped DEF ShapeInv, ShapeOK, Loc
<1>6. \A d \in Executor \ {e} : Loc(at[d], job[d]) # "recorded"
  BY Zenon, <1>1, <1>2 DEF LockInv, Loc
<1>7. TypeOK'
  <2>1. breakpoints_' \subseteq Addr /\ breakpoints_lock_' \in Executor \cup {None}
    BY Zenon, <1>1, <1>2, <1>5 DEF TypeOK
  <2> QED
    BY Zenon, <1>1, <1>2, <1>3, <1>4, <2>1 DEF TypeOK
<1>8. ShapeOK("idle", NoJob)
  BY Zenon DEF ShapeOK, Loc
<1>9. ShapeInv' /\ LockInv' /\ NoteInv'
  <2>1. Loc("idle", NoJob) # "recorded"
    BY Zenon DEF Loc
  <2>2. NoteInv'
    BY Zenon, <1>1, <1>2, <1>3, Names DEF NoteInv
  <2> QED
    BY Zenon, <1>1, <1>3, <1>4, <1>6, <1>8, <2>1, <2>2 DEF ShapeInv, LockInv
<1>10. \A i \in DOMAIN queue : queue[i].by \in (Executor \ {e}) \cup {None}
  BY Zenon, <1>1, <1>2, NoneQueued, Queued
<1>11. QueueInv'
  <2>1. queue' = queue /\ QueueInv
    BY Zenon, <1>1, <1>2
  <2> QED
    BY Zenon, <1>3, <1>4, <1>10, <2>1, Names DEF QueueInv
<1>12. \A d \in Executor : Clears(d)' = Clears(d)
  BY Zenon, <1>2 DEF Clears
<1>13. DisturbInv'
  <2>1. ReadOK("idle", NoJob, installed, Clears(e)) /\ StepOK("idle", NoJob, installed, Clears(e))
    BY Zenon DEF ReadOK, StepOK, NoJob
  <2> QED
    BY Zenon, <1>1, <1>2, <1>3, <1>4, <1>12, <2>1 DEF DisturbInv
<1>14. \A a : ~Adding(a)' /\ ~Removing(a)'
  BY Zenon, <1>3, <1>4, <1>6 DEF Adding, Removing, Edits, Loc
<1>15. \A a : Adding(a) => job[e].ok /\ job[e].after = "add" /\ job[e].addr = a
  BY Zenon, <1>6 DEF Adding, Edits, Loc
<1>16. \A a : (job[e].ok /\ job[e].after = "remove" /\ job[e].addr = a) <=> Removing(a)
  BY Zenon, <1>2, <1>6 DEF Removing, Edits, Loc
<1>17. /\ \A a \in breakpoints_ : a \in breakpoints_' \/ Removing(a)
       /\ \A a \in breakpoints_' : a \in breakpoints_ \/ (job[e].ok /\ job[e].after = "add" /\ job[e].addr = a)
       /\ \A a \in breakpoints_' : ~Removing(a)
       /\ \A a : Adding(a) => a \in breakpoints_'
  BY Zenon, <1>2, <1>5, <1>15, <1>16
<1>18. RecordedInv'
  <2> SUFFICES ASSUME NEW a \in Addr, a \in breakpoints_'
               PROVE  a \in installed' \/ a \in excused' \/ Covered(a)'
    BY Zenon, <1>14 DEF RecordedInv
  <2>1. a \in breakpoints_ \/ Adding(a)
    BY Zenon, <1>2, <1>17 DEF Adding, Edits
  <2>2. a \in installed \/ a \in excused \/ Covered(a)
    BY Zenon, <1>1, <1>17, <2>1 DEF RecordedInv
  <2>3. ~Restores(at[e], job[e], a)
    BY Zenon, <1>2 DEF Restores, Loc
  <2>4. StopNoted => StopNoted'
    BY Zenon, <1>2, <1>3, Names DEF StopNoted
  <2>5. SetQueued(a) => SetQueued(a)'
    BY Zenon, <1>2 DEF SetQueued
  <2> QED
    BY Zenon, <1>2, <1>3, <1>4, <2>2, <2>3, <2>4, <2>5 DEF Covered
<1>19. OrphanInv'
  <2> SUFFICES ASSUME NEW a \in Addr
               PROVE  /\ a \in installed => a \in breakpoints_' \/ a \in shellSet \/ a \in lost
                      /\ Due(a)' => a \in breakpoints_' \/ a \in lost
    BY Zenon, <1>2, <1>14 DEF OrphanInv
  <2>1. Due(a)' => Due(a)
    <3>1. NoJob.overlaps = {}
      BY Zenon DEF NoJob
    <3>2. \A d \in Executor : a \in job'[d].overlaps => a \in job[d].overlaps
      BY Zenon, <1>4, <3>1
    <3> QED
      BY Zenon, <1>2, <3>2 DEF Due
  <2> QED
    BY Zenon, <1>1, <1>17, <2>1 DEF OrphanInv
<1> QED
  BY Zenon, <1>7, <1>9, <1>11, <1>13, <1>18, <1>19 DEF IndInv

\* The next notification
LEMMA StopNotedTail ==
  ASSUME TypeOK, notes # <<>>, notes' = Tail(notes), at'["notification"] = "idle",
         at["notification"] # "idle" \/ notes[1].type # "stopped", StopNoted
  PROVE  StopNoted'
<1>1. notes \in Seq(Note)
  BY Zenon DEF TypeOK
<1>2. PICK i \in DOMAIN notes : notes[i].type = "stopped" /\ (i = 1 => at["notification"] = "idle")
  BY Zenon DEF StopNoted
<1>3. i # 1
  BY Zenon, <1>2
<1>4. i - 1 \in DOMAIN notes' /\ notes'[i - 1] = notes[i]
  BY Zenon, <1>1, <1>3, NotesTail
<1> QED
  BY Zenon, <1>2, <1>4 DEF StopNoted

\* The notification of a reboot clears the list; what is on it and in the target or on
\* its way there counts as lost.
LEMMA RebootingIsSafe ==
  ASSUME IndInv, OnRebooting
  PROVE  IndInv'
<1>1. /\ TypeOK /\ ShapeInv /\ LockInv /\ NoteInv /\ QueueInv /\ RecordedInv /\ OrphanInv
      /\ DisturbInv
  BY Zenon DEF IndInv
<1>2. /\ Handles("rebooting") /\ notes' = Tail(notes) /\ breakpoints_lock_ = None /\ breakpoints_' = {}
      /\ lost' = lost \cup {a \in breakpoints_ : ToBeRestored(a) \/ a \in installed}
      /\ UNCHANGED <<installed, running, eip, trap, breakpoints_lock_, breakpoint_conditions_,
                     queue, at, job, jobs, events, failures, shellSet, excused, disturbed>>
  BY Zenon DEF OnRebooting, Handled, bounds
<1>3. at["notification"] = "idle" /\ notes # <<>>
  BY Zenon, <1>2 DEF Handles
<1>4. notes' \in Seq(Note)
  BY Zenon, <1>1, <1>2, <1>3, NotesTail DEF TypeOK
<1>5. TypeOK' /\ NoteInv'
  <2>1. breakpoints_' \subseteq Addr /\ lost' \subseteq Addr
    BY Zenon, <1>1, <1>2 DEF TypeOK
  <2> QED
    BY Zenon, <1>1, <1>2, <1>3, <1>4, <2>1 DEF TypeOK, NoteInv
<1>6. /\ ShapeInv' /\ LockInv' /\ QueueInv'
      /\ \A e \in Executor : Clears(e)' = Clears(e)
      /\ \A a \in Addr : /\ (Adding(a)' <=> Adding(a)) /\ (Removing(a)' <=> Removing(a))
                         /\ (Due(a)' <=> Due(a)) /\ (SetQueued(a)' <=> SetQueued(a))
  BY Zenon, <1>2, SameExecutors
<1>7. \A a \in Addr : ~Adding(a) /\ ~Removing(a)
  BY Zenon, <1>1, <1>2, Names DEF Adding, Removing, Edits, LockInv, Loc
<1>8. RecordedInv'
  BY Zenon, <1>2, <1>6, <1>7 DEF RecordedInv
<1>9. OrphanInv'
  <2>1. \A a \in Addr : Due(a) => a \in lost'
    BY Zenon, <1>1, <1>2, DueIs DEF OrphanInv
  <2>2. \A a \in Addr : a \in installed => a \in lost' \/ a \in shellSet
    BY Zenon, <1>1, <1>2, <1>7 DEF OrphanInv
  <2> QED
    BY Zenon, <1>2, <1>6, <1>7, <2>1, <2>2 DEF OrphanInv
<1>10. DisturbInv'
  BY Zenon, <1>1, <1>2, <1>6 DEF DisturbInv
<1> QED
  BY Zenon, <1>5, <1>6, <1>8, <1>9, <1>10 DEF IndInv

\* The next notification gets its turn.
LEMMA DoneIsSafe ==
  ASSUME IndInv, NotificationDone
  PROVE  IndInv'
<1> DEFINE e == "notification"
<1>1. /\ TypeOK /\ ShapeInv /\ LockInv /\ NoteInv /\ QueueInv /\ RecordedInv /\ OrphanInv
      /\ DisturbInv /\ e \in Executor
  BY Zenon, Names DEF IndInv
<1>2. /\ at[e] = "handled" /\ notes' = Tail(notes) /\ Goto(e, "idle")
      /\ UNCHANGED <<installed, running, eip, trap, breakpoints_, breakpoints_lock_,
                     breakpoint_conditions_, queue, job, jobs, events, failures,
                     shellSet, excused, lost, disturbed>>
  BY Zenon DEF NotificationDone, Handled, debugger, bounds, history
<1>3. at'[e] = "idle" /\ at' \in [Executor -> Label] /\ \A d \in Executor \ {e} : at'[d] = at[d]
  BY Zenon, <1>1, <1>2 DEF Goto, TypeOK, Label
<1>4. notes # <<>>
  BY Zenon, <1>1, <1>2 DEF NoteInv
<1>5. notes' \in Seq(Note)
  BY Zenon, <1>1, <1>2, <1>4, NotesTail DEF TypeOK
<1>6. TypeOK' /\ NoteInv'
  BY Zenon, <1>1, <1>2, <1>3, <1>5 DEF TypeOK, NoteInv
<1>7. ShapeOK("idle", job[e]) /\ Loc("idle", job[e]) # "recorded"
  BY Zenon DEF ShapeOK, Loc
<1>8. ShapeInv' /\ LockInv'
  BY Zenon, <1>1, <1>2, <1>3, <1>7 DEF ShapeInv, LockInv
<1>9. \A i \in DOMAIN queue : queue[i].by \in (Executor \ {e}) \cup {None}
  BY Zenon, <1>1, <1>2, NoneQueued, Queued
<1>10. QueueInv'
  BY Zenon, <1>1, <1>2, <1>3, <1>9, Names DEF QueueInv
<1>11. ASSUME NEW what, NEW a, NEW d \in Executor
       PROVE  Edits(at'[d], job'[d], what, a) <=> Edits(at[d], job[d], what, a)
  BY Zenon, <1>2, <1>3 DEF Edits
<1>12. \A a \in Addr : (Adding(a)' <=> Adding(a)) /\ (Removing(a)' <=> Removing(a))
  BY Zenon, <1>11 DEF Adding, Removing
<1>13. \A a \in Addr : (Due(a)' <=> Due(a)) /\ (SetQueued(a)' <=> SetQueued(a))
  BY Zenon, <1>2 DEF Due, SetQueued
<1>14. StopNoted => StopNoted'
  BY Zenon, <1>1, <1>2, <1>3, <1>4, StopNotedTail
<1>15. \A a \in Addr : Covered(a) => Covered(a)'
  <2>1. \A a \in Addr : ~Restores(at[e], job[e], a)
    BY Zenon, <1>2 DEF Restores, Loc
  <2> QED
    BY Zenon, <1>2, <1>3, <1>13, <1>14, <2>1 DEF Covered
<1>16. RecordedInv'
  BY Zenon, <1>1, <1>2, <1>12, <1>15 DEF RecordedInv
<1>17. OrphanInv'
  BY Zenon, <1>1, <1>2, <1>12, <1>13 DEF OrphanInv
<1>18. DisturbInv'
  <2>1. \A cl : ReadOK("idle", job[e], installed, cl) /\ StepOK("idle", job[e], installed, cl)
    BY Zenon DEF ReadOK, StepOK, Loc
  <2>2. \A d \in Executor : Clears(d)' = Clears(d)
    BY Zenon, <1>2 DEF Clears
  <2> QED
    BY Zenon, <1>1, <1>2, <1>3, <2>1, <2>2 DEF DisturbInv
<1> QED
  BY Zenon, <1>6, <1>8, <1>10, <1>16, <1>17, <1>18 DEF IndInv


\* The indices of the sets in that queue
LEMMA Between ==
  ASSUME NEW l \in Nat, NEW n \in Nat, NEW i \in 1 .. (l + n + 1), i \notin 1 .. l, i # l + n + 1
  PROVE  \E k \in 1 .. n : i = l + k
<1>1. i - l \in 1 .. n /\ i = l + (i - l)
  OBVIOUS
<1> QED
  BY Zenon, <1>1

\* The queue after RepostBreakpoints
Reposted(bps, w) == queue \o [i \in DOMAIN bps |-> SendCommand("set", bps[i])] \o <<w>>

\* What RepostBreakpoints adds to the queue: a set for every breakpoint it
\* copied, and the command it waits for
LEMMA RepostQueue ==
  ASSUME TypeOK, NEW S, S \subseteq Addr, NEW bps \in Ascending(S), NEW w \in Command,
         queue' = Reposted(bps, w)
  PROVE  /\ queue' \in Seq(Command)
         /\ \A i \in DOMAIN queue : i \in DOMAIN queue' /\ queue'[i] = queue[i]
         /\ \A i \in DOMAIN queue' :
              \/ i \in DOMAIN queue
              \/ queue'[i].by = None /\ queue'[i].op = "set" /\ queue'[i].addr \in S
              \/ i = Len(queue') /\ queue'[i] = w
         /\ Len(queue') \in DOMAIN queue' /\ queue'[Len(queue')] = w /\ Len(queue') \notin DOMAIN queue
         /\ \A a \in S : \E i \in DOMAIN queue' : queue'[i].op = "set" /\ queue'[i].addr = a
<1> DEFINE n == Cardinality(S)
           sets == [i \in DOMAIN bps |-> SendCommand("set", bps[i])]
<1>1. n \in Nat
  <2>1. IsFiniteSet(0 .. AddressSpace - 1)
    BY FS_Interval, BreakpointsAssumption
  <2>2. S \subseteq 0 .. AddressSpace - 1
    BY Zenon, BreakpointsAssumption
  <2>3. IsFiniteSet(S)
    BY Zenon, <2>1, <2>2, FS_Subset
  <2> QED
    BY Zenon, <2>3, FS_CardinalityType
<1> HIDE DEF n
<1>2. bps \in [1 .. n -> S] /\ \A a \in S : \E i \in 1 .. n : bps[i] = a
  BY Zenon DEF Ascending, Surjection, n
<1>3. \A a \in Addr : /\ SendCommand("set", a) \in Command /\ SendCommand("set", a).by = None
                      /\ SendCommand("set", a).op = "set" /\ SendCommand("set", a).addr = a
  BY Zenon DEF SendCommand, Command
<1>4. DOMAIN bps = 1 .. n /\ \A i \in 1 .. n : bps[i] \in Addr /\ bps[i] \in S
  BY Zenon, <1>2
<1>5. sets = [i \in 1 .. n |-> SendCommand("set", bps[i])]
  BY Zenon, <1>4
<1>6. sets \in [1 .. n -> Command]
  BY Zenon, <1>3, <1>4, <1>5
<1>7. sets \in Seq(Command) /\ Len(sets) = n
  <2> HIDE DEF sets
  <2> QED
    BY <1>1, <1>6
<1>8. \A i \in 1 .. n : /\ sets[i].by = None /\ sets[i].op = "set" /\ sets[i].addr = bps[i]
  BY Zenon, <1>3, <1>4, <1>5
<1>9. queue \in Seq(Command) /\ queue' = (queue \o sets) \o <<w>>
  BY Zenon DEF TypeOK, Reposted
<1> HIDE DEF sets
<1> DEFINE q == queue \o sets
<1>10. /\ q \in Seq(Command) /\ Len(q) = Len(queue) + n
       /\ \A i \in 1 .. Len(queue) : q[i] = queue[i]
       /\ \A i \in 1 .. n : q[Len(queue) + i] = sets[i]
  <2>1. queue \in Seq(Command) /\ sets \in Seq(Command) /\ Len(sets) = n
    BY Zenon, <1>7, <1>9
  <2>2. /\ q \in Seq(Command) /\ Len(q) = Len(queue) + Len(sets)
        /\ \A i \in 1 .. Len(queue) : q[i] = queue[i]
        /\ \A i \in 1 .. Len(sets) : q[Len(queue) + i] = sets[i]
    <3>1. queue \in Seq(Command) /\ sets \in Seq(Command)
      BY Zenon, <2>1
    <3> QED
      BY <3>1
  <2> HIDE DEF q
  <2> QED
    BY Zenon, <2>1, <2>2
<1>11. Len(queue) \in Nat /\ Len(q) \in Nat /\ DOMAIN queue = 1 .. Len(queue)
  <2>1. queue \in Seq(Command) /\ q \in Seq(Command)
    BY Zenon, <1>9, <1>10
  <2> HIDE DEF q
  <2> QED
    BY <2>1
<1>12. queue' = q \o <<w>>
  BY Zenon, <1>9
<1> HIDE DEF q
<1>13. /\ queue' \in Seq(Command) /\ Len(queue') = Len(q) + 1
       /\ \A i \in 1 .. Len(q) : queue'[i] = q[i]
       /\ queue'[Len(q) + 1] = w
  <2>1. q \in Seq(Command)
    BY Zenon, <1>10
  <2> QED
    BY <1>12, <2>1
<1> DEFINE l == Len(queue)
<1>14. /\ DOMAIN queue' = 1 .. (l + n + 1) /\ Len(queue') = l + n + 1 /\ Len(q) = l + n
       /\ DOMAIN queue = 1 .. l /\ l \in Nat
  BY <1>10, <1>11, <1>13
<1> HIDE DEF l
<1>15. \A i \in DOMAIN queue : i \in DOMAIN queue' /\ queue'[i] = queue[i]
  <2>1. \A i \in 1 .. l : i \in 1 .. (l + n + 1) /\ i \in 1 .. (l + n)
    BY <1>1, <1>14
  <2>2. \A i \in 1 .. l : q[i] = queue[i]
    BY Zenon, <1>10 DEF l
  <2> QED
    BY Zenon, <1>13, <1>14, <2>1, <2>2
<1>16. \A i \in 1 .. n : queue'[l + i] = sets[i] /\ l + i \in DOMAIN queue'
  <2>1. \A i \in 1 .. n : l + i \in 1 .. (l + n + 1) /\ l + i \in 1 .. (l + n)
    BY <1>1, <1>14
  <2>2. \A i \in 1 .. n : q[l + i] = sets[i]
    BY Zenon, <1>10 DEF l
  <2> QED
    BY Zenon, <1>13, <1>14, <2>1, <2>2
<1>17. ASSUME NEW i \in DOMAIN queue', i \notin DOMAIN queue, i # Len(queue')
       PROVE  queue'[i].by = None /\ queue'[i].op = "set" /\ queue'[i].addr \in S
  <2>1. i \in 1 .. (l + n + 1) /\ i \notin 1 .. l /\ i # l + n + 1
    BY Zenon, <1>14, <1>17
  <2>2. PICK k \in 1 .. n : i = l + k
    BY Zenon, <1>1, <1>14, <2>1, Between
  <2>3. queue'[i] = sets[k]
    BY Zenon, <1>16, <2>2
  <2> QED
    BY Zenon, <1>4, <1>8, <2>2, <2>3
<1>18. Len(queue') \in DOMAIN queue' /\ queue'[Len(queue')] = w /\ Len(queue') \notin DOMAIN queue
  <2>1. l + n + 1 \in 1 .. (l + n + 1) /\ l + n + 1 \notin 1 .. l
    BY <1>1, <1>14
  <2> QED
    BY Zenon, <1>13, <1>14, <2>1
<1>19. ASSUME NEW a \in S
       PROVE  \E i \in DOMAIN queue' : queue'[i].op = "set" /\ queue'[i].addr = a
  <2>1. PICK i \in 1 .. n : bps[i] = a
    BY Zenon, <1>2
  <2> QED
    BY Zenon, <1>8, <1>16, <2>1
<1> QED
  BY Zenon, <1>13, <1>15, <1>17, <1>18, <1>19

\* The breakpoints copied at the stop are now in the queue.
LEMMA RepostIsSafe ==
  ASSUME IndInv, RepostBreakpoints
  PROVE  IndInv'
<1> DEFINE e == "notification"
           S == job[e].overlaps
           w == [by |-> e, op |-> "walkmem", addr |-> None]
           j == [NoJob EXCEPT !.ret = "handled"]
<1>1. /\ TypeOK /\ ShapeInv /\ LockInv /\ NoteInv /\ QueueInv /\ RecordedInv /\ OrphanInv
      /\ DisturbInv /\ e \in Executor
  BY Zenon, Names DEF IndInv
<1>2. /\ at[e] = "repost" /\ Goto(e, "wait") /\ job' = [job EXCEPT ![e] = j]
      /\ UNCHANGED <<installed, running, eip, trap, notes, breakpoints_, breakpoints_lock_,
                     breakpoint_conditions_, jobs, events, failures,
                     shellSet, excused, lost, disturbed>>
  BY Zenon DEF RepostBreakpoints, Locals, target, debugger, bounds, history
<1>3. PICK bps \in Ascending(S) : queue' = Reposted(bps, w)
  BY Zenon DEF RepostBreakpoints, Reposted
<1>4. S \subseteq Addr
  BY Zenon, <1>1, JobTyped DEF Job
<1>5. w \in Command /\ w.by = e /\ w.op = "walkmem"
  BY Zenon DEF Command, Executor
<1>6. j \in Job /\ j.overlaps = {} /\ j.ret = "handled" /\ j.after = "idle"
  BY Zenon, NoJobTyped DEF Job, NoJob, Label
<1> HIDE DEF S, w, j
<1>7. /\ queue' \in Seq(Command)
      /\ \A i \in DOMAIN queue : i \in DOMAIN queue' /\ queue'[i] = queue[i]
      /\ \A i \in DOMAIN queue' :
           \/ i \in DOMAIN queue
           \/ queue'[i].by = None /\ queue'[i].op = "set" /\ queue'[i].addr \in S
           \/ i = Len(queue') /\ queue'[i] = w
      /\ Len(queue') \in DOMAIN queue' /\ queue'[Len(queue')] = w /\ Len(queue') \notin DOMAIN queue
      /\ \A a \in S : \E i \in DOMAIN queue' : queue'[i].op = "set" /\ queue'[i].addr = a
  BY Zenon, <1>1, <1>3, <1>4, <1>5, RepostQueue
<1>8. at'[e] = "wait" /\ at' \in [Executor -> Label] /\ \A d \in Executor \ {e} : at'[d] = at[d]
  BY Zenon, <1>1, <1>2 DEF Goto, TypeOK, Label
<1>9. job'[e] = j /\ job' \in [Executor -> Job] /\ \A d \in Executor \ {e} : job'[d] = job[d]
  BY Zenon, <1>1, <1>2, <1>6 DEF TypeOK
<1>10. TypeOK'
  BY Zenon, <1>1, <1>2, <1>7, <1>8, <1>9 DEF TypeOK
<1>11. NoteInv'
  BY Zenon, <1>1, <1>2 DEF NoteInv
<1>12. ShapeOK("wait", j) /\ Loc("wait", j) # "recorded" /\ Fits(w, j)
  BY Zenon, <1>5, <1>6 DEF ShapeOK, Loc, Fits
<1>13. ShapeInv' /\ LockInv'
  BY Zenon, <1>1, <1>2, <1>8, <1>9, <1>12 DEF ShapeInv, LockInv
<1>14. \A i \in DOMAIN queue : queue[i].by \in (Executor \ {e}) \cup {None}
  BY Zenon, <1>1, <1>2, NoneQueued, Queued
<1>15. QueueInv'
  <2>1. ASSUME NEW i \in DOMAIN queue'
        PROVE  IF queue'[i].by = None THEN queue'[i].op = "set" /\ queue'[i].addr \in Addr
               ELSE at'[queue'[i].by] = "wait" /\ Fits(queue'[i], job'[queue'[i].by])
    <3>1. CASE i \in DOMAIN queue
      <4>1. queue'[i] = queue[i] /\ QueueInv
        BY Zenon, <1>1, <1>7, <3>1
      <4>2. IF queue[i].by = None THEN queue[i].op = "set" /\ queue[i].addr \in Addr
            ELSE at[queue[i].by] = "wait" /\ Fits(queue[i], job[queue[i].by])
        BY Zenon, <3>1, <4>1 DEF QueueInv
      <4>3. CASE queue[i].by = None
        BY Zenon, <4>1, <4>2, <4>3
      <4>4. CASE queue[i].by # None
        <5>1. queue[i].by \in Executor \ {e}
          BY Zenon, <1>14, <3>1, <4>4
        <5>2. at'[queue[i].by] = at[queue[i].by] /\ job'[queue[i].by] = job[queue[i].by]
          BY Zenon, <1>8, <1>9, <5>1
        <5> QED
          BY Zenon, <4>1, <4>2, <4>4, <5>2
      <4> QED
        BY Zenon, <4>3, <4>4
    <3>2. CASE queue'[i].by = None /\ queue'[i].op = "set" /\ queue'[i].addr \in S
      BY Zenon, <1>4, <3>2
    <3>3. CASE queue'[i] = w
      BY Zenon, <1>5, <1>8, <1>9, <1>12, <3>3, Names
    <3> QED
      BY Zenon, <1>7, <3>1, <3>2, <3>3
  <2>2. ASSUME NEW i \in DOMAIN queue', NEW k \in DOMAIN queue', queue'[i].by = queue'[k].by,
               queue'[i].by # None
        PROVE  i = k
    <3>1. \A m \in DOMAIN queue' : queue'[m].by # None =>
            \/ m \in DOMAIN queue /\ queue'[m] = queue[m] /\ queue[m].by # e
            \/ m = Len(queue') /\ queue'[m].by = e
      BY Zenon, <1>1, <1>2, <1>5, <1>7, NoneQueued
    <3>2. CASE i \in DOMAIN queue /\ k \in DOMAIN queue
      <4>1. queue'[i] = queue[i] /\ queue'[k] = queue[k]
        BY Zenon, <1>7, <3>2
      <4>2. \A m, o \in DOMAIN queue : queue[m].by = queue[o].by /\ queue[m].by # None => m = o
        BY Zenon, <1>1 DEF QueueInv
      <4>3. queue[i].by = queue[k].by /\ queue[i].by # None
        BY Zenon, <2>2, <4>1
      <4> QED
        BY Zenon, <3>2, <4>2, <4>3
    <3>3. CASE ~(i \in DOMAIN queue /\ k \in DOMAIN queue)
      BY Zenon, <2>2, <3>1, <3>3, <1>7
    <3> QED
      BY Zenon, <3>2, <3>3
  <2> QED
    BY Zenon, <2>1, <2>2 DEF QueueInv
<1>16. ASSUME NEW what, NEW a, NEW d \in Executor
       PROVE  Edits(at'[d], job'[d], what, a) <=> Edits(at[d], job[d], what, a)
  BY Zenon, <1>2, <1>8, <1>9 DEF Edits
<1>17. \A a \in Addr : (Adding(a)' <=> Adding(a)) /\ (Removing(a)' <=> Removing(a))
  BY Zenon, <1>16 DEF Adding, Removing
<1>18. RecordedInv'
  <2>1. ASSUME NEW a \in Addr, Covered(a)
        PROVE  Covered(a)'
    <3>1. SetQueued(a) \/ a \in S => SetQueued(a)'
      BY Zenon, <1>7 DEF SetQueued
    <3>2. Restores(at[e], job[e], a) => a \in S
      BY Zenon, <1>2 DEF Restores, Loc, S
    <3>3. StopNoted => StopNoted'
      BY Zenon, <1>2, <1>8 DEF StopNoted
    <3> QED
      BY Zenon, <1>2, <1>8, <1>9, <2>1, <3>1, <3>2, <3>3 DEF Covered
  <2> QED
    BY Zenon, <1>1, <1>2, <1>17, <2>1 DEF RecordedInv
<1>19. OrphanInv'
  <2>1. ASSUME NEW a \in Addr, Due(a)'
        PROVE  Due(a)
    <3>1. ASSUME NEW d \in Executor, a \in job'[d].overlaps
          PROVE  Due(a)
      <4>1. d # e
        BY Zenon, <1>6, <1>9, <3>1
      <4> QED
        BY Zenon, <1>9, <3>1, <4>1 DEF Due
    <3>2. ASSUME NEW i \in DOMAIN queue', queue'[i].by = None, queue'[i].op = "set", queue'[i].addr = a
          PROVE  Due(a)
      <4>1. i \in DOMAIN queue \/ a \in S
        BY Zenon, <1>5, <1>7, <3>2, Names
      <4>2. i \in DOMAIN queue => Due(a)
        BY Zenon, <1>7, <3>2 DEF Due
      <4>3. a \in S => Due(a)
        BY Zenon, <1>1 DEF Due, S
      <4> QED
        BY Zenon, <4>1, <4>2, <4>3
    <3> QED
      BY Zenon, <2>1, <3>1, <3>2 DEF Due
  <2> QED
    BY Zenon, <1>1, <1>2, <1>17, <2>1 DEF OrphanInv
<1>20. DisturbInv'
  <2>1. \A cl : ReadOK("wait", j, installed, cl) /\ StepOK("wait", j, installed, cl)
    BY Zenon, <1>6 DEF ReadOK, StepOK
  <2>2. ASSUME NEW d \in Executor, d # e
        PROVE  Clears(d)' = Clears(d)
    <3>1. \A i \in DOMAIN queue' : queue'[i].by = d => i \in DOMAIN queue /\ queue'[i] = queue[i]
      BY Zenon, <1>5, <1>7, <2>2, Names
    <3>2. \A i \in DOMAIN queue : i \in DOMAIN queue' /\ queue'[i] = queue[i]
      BY Zenon, <1>7
    <3> QED
      BY Zenon, <3>1, <3>2 DEF Clears
  <2>3. ASSUME NEW d \in Executor, d \notin disturbed'
        PROVE  /\ ReadOK(at'[d], job'[d], installed', Clears(d)')
               /\ StepOK(at'[d], job'[d], installed', Clears(d)')
    <3>1. d \notin disturbed /\ installed' = installed
      BY Zenon, <1>2, <2>3
    <3>2. CASE d = e
      BY Zenon, <1>8, <1>9, <2>1, <3>1, <3>2
    <3>3. CASE d # e
      <4>1. at'[d] = at[d] /\ job'[d] = job[d]
        BY Zenon, <1>8, <1>9, <3>3
      <4>2. ReadOK(at[d], job[d], installed, Clears(d)) /\ StepOK(at[d], job[d], installed, Clears(d))
        BY Zenon, <1>1, <3>1 DEF DisturbInv
      <4>3. Clears(d)' = Clears(d)
        BY Zenon, <2>2, <3>3
      <4> QED
        BY Zenon, <3>1, <4>1, <4>2, <4>3
    <3> QED
      BY Zenon, <3>2, <3>3
  <2> QED
    BY Zenon, <2>3 DEF DisturbInv
<1> QED
  BY Zenon, <1>10, <1>11, <1>13, <1>15, <1>18, <1>19, <1>20 DEF IndInv


-----------------------------------------------------------------------------
(* The whole.                                                               *)

\* A program that starts satisfies the invariant.
LEMMA InitIsSafe ==
  ASSUME Init
  PROVE  IndInv
<1>1. TypeOK
  <2>1. at \in [Executor -> Label] /\ job \in [Executor -> Job]
    BY Zenon, NoJobTyped DEF Init, Label
  <2>2. queue \in Seq(Command) /\ notes \in Seq(Note)
    BY DEF Init
  <2>3. breakpoint_conditions_ \in [Addr -> Condition \cup {None}]
    BY Zenon DEF Init
  <2>4. /\ installed \subseteq Addr /\ running \in BOOLEAN /\ eip \in Addr /\ trap \in BOOLEAN
        /\ breakpoints_ \subseteq Addr /\ breakpoints_lock_ \in Executor \cup {None}
        /\ jobs \in Nat /\ events \in Nat /\ failures \in Nat
        /\ shellSet \subseteq Addr /\ excused \subseteq Addr /\ lost \subseteq Addr
        /\ disturbed \subseteq Executor
    BY Zenon DEF Init
  <2> QED
    BY Zenon, <2>1, <2>2, <2>3, <2>4 DEF TypeOK
<1>2. \A e \in Executor : at[e] = "idle" /\ job[e] = NoJob
  BY Zenon DEF Init
<1>3. \A i \in DOMAIN queue : FALSE
  BY DEF Init
<1>4. ShapeOK("idle", NoJob) /\ Loc("idle", NoJob) = "idle" /\ NoJob.overlaps = {}
  BY Zenon DEF ShapeOK, Loc, NoJob
<1>5. ShapeInv /\ LockInv /\ NoteInv
  BY Zenon, <1>2, <1>4, Names DEF ShapeInv, LockInv, NoteInv
<1>6. QueueInv
  BY Zenon, <1>3 DEF QueueInv
<1>7. \A a \in Addr : ~Adding(a) /\ ~Removing(a) /\ ~Due(a)
  BY Zenon, <1>2, <1>3, <1>4 DEF Adding, Removing, Due, Edits
<1>8. RecordedInv /\ OrphanInv
  <2>1. installed = breakpoints_
    BY Zenon DEF Init
  <2> QED
    BY Zenon, <1>7, <2>1 DEF RecordedInv, OrphanInv
<1>9. DisturbInv
  <2>1. \A cl : ReadOK("idle", NoJob, installed, cl) /\ StepOK("idle", NoJob, installed, cl)
    BY Zenon DEF ReadOK, StepOK, Loc, NoJob
  <2> QED
    BY Zenon, <1>2, <2>1 DEF DisturbInv
<1> QED
  BY Zenon, <1>1, <1>5, <1>6, <1>8, <1>9 DEF IndInv

\* Nothing happens.
LEMMA StutterIsSafe ==
  ASSUME IndInv, UNCHANGED vars
  PROVE  IndInv'
<1>1. /\ TypeOK /\ NoteInv /\ RecordedInv /\ OrphanInv /\ DisturbInv
  BY Zenon DEF IndInv
<1>2. UNCHANGED <<installed, running, eip, trap, notes, breakpoints_, breakpoints_lock_,
                  breakpoint_conditions_, queue, at, job, jobs, events, failures,
                  shellSet, excused, lost, disturbed>>
  BY Zenon DEF vars, target, debugger, bounds, history
<1>3. /\ ShapeInv' /\ LockInv' /\ QueueInv'
      /\ \A e \in Executor : Clears(e)' = Clears(e)
      /\ \A a \in Addr : /\ (Adding(a)' <=> Adding(a)) /\ (Removing(a)' <=> Removing(a))
                         /\ (Due(a)' <=> Due(a)) /\ (SetQueued(a)' <=> SetQueued(a))
  BY Zenon, <1>2, SameExecutors
<1>4. TypeOK' /\ NoteInv' /\ (StopNoted' <=> StopNoted)
  BY Zenon, <1>1, <1>2 DEF TypeOK, NoteInv, StopNoted
<1>5. \A a \in Addr : Covered(a) => Covered(a)'
  BY Zenon, <1>2, <1>3, <1>4 DEF Covered
<1>6. RecordedInv'
  BY Zenon, <1>1, <1>2, <1>3, <1>5 DEF RecordedInv
<1>7. OrphanInv'
  BY Zenon, <1>1, <1>2, <1>3 DEF OrphanInv
<1>8. DisturbInv'
  BY Zenon, <1>1, <1>2, <1>3 DEF DisturbInv
<1> QED
  BY Zenon, <1>3, <1>4, <1>6, <1>7, <1>8 DEF IndInv

\* Every step of the program keeps the invariant.
LEMMA NextIsSafe ==
  ASSUME IndInv, Next
  PROVE  IndInv'
<1>1. CASE Title
  BY Zenon, <1>1, TitleIsSafe
<1>2. CASE ControlExecutor
  BY Zenon, <1>2, SucceedsIsSafe, FailsIsSafe DEF ControlExecutor
<1>3. CASE NotificationExecutor
  <2>1. CASE OnRebooting
    BY Zenon, <2>1, RebootingIsSafe
  <2>2. CASE OnStopped
    BY Zenon, <2>2, OnStoppedIsLocal, LocalIndInv, Names
  <2>3. CASE RepostBreakpoints
    BY Zenon, <2>3, RepostIsSafe
  <2>4. CASE OnBreakpoint
    BY Zenon, <2>4, OnBreakpointIsLocal, LocalIndInv, Names
  <2>5. CASE Evaluate
    BY Zenon, <2>5, EvaluateIsLocal, LocalIndInv, Names
  <2>6. CASE OnSingleStep
    BY Zenon, <2>6, OnSingleStepIsLocal, LocalIndInv, Names
  <2>7. CASE NotificationDone
    BY Zenon, <2>7, DoneIsSafe
  <2> QED
    BY Zenon, <1>3, <2>1, <2>2, <2>3, <2>4, <2>5, <2>6, <2>7 DEF NotificationExecutor
<1>4. ASSUME NEW e \in Executor, Serves(e)
      PROVE  IndInv'
  <2>1. CASE SuspendBreakpoints(e)
    BY Zenon, <2>1, SuspendIsLocal, LocalIndInv
  <2>2. CASE RestoreBreakpoints(e)
    BY Zenon, <2>2, RestoreIsLocal, LocalIndInv
  <2>3. CASE ReadBytes(e)
    BY Zenon, <2>3, ReadBytesIsLocal, LocalIndInv
  <2>4. CASE BytesRead(e)
    BY Zenon, <2>4, BytesReadIsLocal, LocalIndInv
  <2>5. CASE RecordBreakpoint(e)
    BY Zenon, <2>5, RecordIsSafe
  <2>6. CASE StepFetchesContext(e)
    BY Zenon, <2>6, StepFetchesContextIsLocal, LocalIndInv
  <2>7. CASE StepSuspends(e)
    BY Zenon, <2>7, StepSuspendsIsLocal, LocalIndInv
  <2>8. CASE StepSetsTrap(e)
    BY Zenon, <2>8, StepSetsTrapIsLocal, LocalIndInv
  <2>9. CASE StepGoes(e)
    BY Zenon, <2>9, StepGoesIsLocal, LocalIndInv
  <2>10. CASE StepReturns(e)
    BY Zenon, <2>10, StepReturnsIsLocal, LocalIndInv
  <2> QED
    BY Zenon, <1>4, <2>1, <2>2, <2>3, <2>4, <2>5, <2>6, <2>7, <2>8, <2>9, <2>10 DEF Serves
<1>5. CASE Break
  BY Zenon, <1>5, ClearAllIsLocal, BreakAddressIsLocal, LocalIndInv, Names DEF Break
<1>6. ASSUME NEW e \in {"gdb", "shell"}, Asked(e)
      PROVE  IndInv'
  <2>0. e \in Executor
    BY Zenon DEF Executor
  <2>1. CASE HandleReadMemory(e)
    BY Zenon, <2>0, <2>1, HandleReadMemoryIsLocal, LocalIndInv
  <2>2. CASE EditBreakpoint(e)
    BY Zenon, <2>0, <2>2, EditIsLocal, LocalIndInv
  <2>3. CASE StepInstruction(e)
    BY Zenon, <2>0, <2>3, StepInstructionIsLocal, LocalIndInv
  <2>4. CASE Continue(e)
    BY Zenon, <2>0, <2>4, ContinueIsLocal, LocalIndInv
  <2> QED
    BY Zenon, <1>6, <2>1, <2>2, <2>3, <2>4 DEF Asked
<1> QED
  BY Zenon, <1>1, <1>2, <1>3, <1>4, <1>5, <1>6 DEF Next

\* IndInv holds in every state the three executors, the title and the control
\* executor can reach, however they are interleaved.
THEOREM Inductive == Spec => []IndInv
<1>1. Init => IndInv
  BY Zenon, InitIsSafe
<1>2. IndInv /\ [Next]_vars => IndInv'
  BY Zenon, NextIsSafe, StutterIsSafe
<1> QED
  BY <1>1, <1>2, PTL DEF Spec

\* The queue of the control executor, breakpoints_ and the locals of the calls
\* under way keep their types.
THEOREM TypeCorrect == Spec => []TypeOK
<1>1. IndInv => TypeOK
  BY Zenon DEF IndInv
<1> QED
  BY <1>1, Inductive, PTL

\* GetMemory returns bytes without the breakpoints it knew of, unless another
\* thread set one of them while it ran or one of its clears failed.
THEOREM ReadsAreTransparent == Spec => []ReadsAreTransparentUnlessDisturbed
<1>1. IndInv => ReadsAreTransparentUnlessDisturbed
  <2> SUFFICES ASSUME IndInv, NEW e \in Executor, at[e] = "bytes",
                      job[e].addr + job[e].len < AddressSpace, e \notin disturbed
               PROVE  job[e].saw \cap job[e].known = {}
    BY Zenon DEF ReadsAreTransparentUnlessDisturbed
  <2>1. ShapeOK(at[e], job[e]) /\ ReadOK(at[e], job[e], installed, Clears(e))
    BY Zenon DEF IndInv, ShapeInv, DisturbInv
  <2> QED
    BY Zenon, <2>1 DEF ShapeOK, ReadOK, Loc
<1> QED
  BY <1>1, Inductive, PTL

\* StepInstruction's go finds the breakpoint at the thread's address taken out,
\* unless another thread set it again or the clear failed.
THEOREM StepsOver == Spec => StepsOverUnlessDisturbed
<1>1. ASSUME IndInv, NEW e \in Executor, at[e] = "wait", job[e].ret = "stepped",
             job[e].addr = eip, eip + 1 < AddressSpace, e \notin disturbed
      PROVE  eip \notin installed \cap job[e].known
  <2>1. ShapeOK(at[e], job[e]) /\ StepOK(at[e], job[e], installed, Clears(e))
    BY Zenon, <1>1 DEF IndInv, ShapeInv, DisturbInv
  <2> QED
    BY Zenon, <1>1, <2>1 DEF ShapeOK, StepOK, Loc
<1>2. IndInv => [\A e \in Executor :
        /\ at[e] = "wait" /\ job[e].ret = "stepped"
        /\ at'[e] = "stepped" /\ job'[e].ok
        /\ job[e].addr = eip /\ eip + 1 < AddressSpace
        => eip \notin installed \cap job[e].known \/ e \in disturbed]_vars
  BY Zenon, <1>1
<1> QED
  BY <1>2, Inductive, PTL DEF StepsOverUnlessDisturbed

\* When nothing is under way and the title is stopped, what breakpoints_ lists is
\* in the target.
THEOREM Recorded == Spec => []RecordedAreInstalled
<1>1. IndInv => RecordedAreInstalled
  <2> SUFFICES ASSUME IndInv, Quiet, ~running, NEW a \in breakpoints_, a \notin excused
               PROVE  a \in installed
    BY Zenon DEF RecordedAreInstalled
  <2>1. queue = <<>> /\ notes = <<>> /\ \A e \in Executor : at[e] = "idle"
    BY Zenon DEF Quiet
  <2>2. ~StopNoted /\ ~SetQueued(a)
    BY <2>1 DEF StopNoted, SetQueued
  <2>3. \A e \in Executor : ~Restores(at[e], job[e], a)
    BY Zenon, <2>1 DEF Restores, Loc
  <2>4. ~Removing(a)
    BY Zenon, <2>1 DEF Removing, Edits
  <2>5. RecordedInv /\ a \in Addr
    BY Zenon DEF IndInv, TypeOK
  <2> QED
    BY Zenon, <2>2, <2>3, <2>4, <2>5 DEF RecordedInv, Covered
<1> QED
  BY <1>1, Inductive, PTL

\* When nothing is under way, what is in the target is listed, or set by the
\* shell, or was removed while another thread was to restore it.
THEOREM NoOrphans == Spec => []NoOrphansUnlessRaced
<1>1. IndInv => NoOrphansUnlessRaced
  <2> SUFFICES ASSUME IndInv, Quiet, NEW a \in installed
               PROVE  a \in breakpoints_ \/ a \in shellSet \/ a \in lost
    BY Zenon DEF NoOrphansUnlessRaced
  <2>1. \A e \in Executor : at[e] = "idle"
    BY Zenon DEF Quiet
  <2>2. ~Adding(a)
    BY Zenon, <2>1 DEF Adding, Edits
  <2>3. OrphanInv /\ a \in Addr
    BY Zenon DEF IndInv, TypeOK
  <2> QED
    BY Zenon, <2>2, <2>3 DEF OrphanInv
<1> QED
  BY <1>1, Inductive, PTL
==============================================================================
