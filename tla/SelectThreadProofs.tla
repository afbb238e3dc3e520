------------------------- MODULE SelectThreadProofs -------------------------
(***************************************************************************)
(* Proofs about SelectThread, for every number of connections, servers,    *)
(* tasks, waiters and descriptors: the select thread blocks in recv or     *)
(* accept only after a connection was closed, and an empty select settles  *)
(* what every pending fence waits for.                                     *)
(***************************************************************************)
EXTENDS SelectThread, SequenceTheorems, TLAPS

-----------------------------------------------------------------------------
(* The invariants                                                          *)

Watching == {"pass", "select", "blocked"}
Processing == {"process", "swap", "tasks", "body", "read", "recv"}
Work == Task \cup {"noop", "stop"}
Life == {"new", "accepted", "appending", "adopting", "added", "connecting", "up"}

SocketsOK ==
  /\ socket_ \in [Conn -> Fd \cup {0}]
  /\ pipe \in [Entry -> {"quiet", "signalled", "closed"}]
  /\ is_shutdown_ \in [Conn -> BOOLEAN] /\ write_buffer_ \in [Conn -> Nat]
  /\ close_after_flush_ \in [Conn -> BOOLEAN]
OwnersOK ==
  /\ selectables_ \in Seq(Entry) /\ life \in [Conn -> Life] /\ closing \subseteq Conn
  /\ running_ \in BOOLEAN /\ stopping \in BOOLEAN /\ session \in Session
NetOK ==
  received \in [Conn -> Nat] /\ consumed \in [Conn -> Nat] /\ hangup \in [Conn -> BOOLEAN]
TasksOK ==
  /\ task_queue_ \in Seq(Work) /\ tasks_to_run \in Seq(Work)
  /\ delayed_tasks_ \subseteq Task /\ due \subseteq Task /\ ran \subseteq Task
FencesOK ==
  /\ pending_fences_ \subseteq Waiter
  /\ wait \in [Waiter -> {"none", "pushed", "waiting", "returned"}]
  /\ owed \in [Waiter -> [tasks : SUBSET Task, chunks : [Conn -> Nat]]]
LoopOK ==
  /\ at \in Watching \cup Processing \cup {"done"} /\ todo \in Seq(Entry)
  /\ sets \in [pipes : SUBSET Entry, read : SUBSET Fd, write : SUBSET Fd]
  /\ files \subseteq Fd \X Conn /\ soonest_scheduled \in BOOLEAN
  /\ has_fences \in BOOLEAN /\ fds \in {0, 1}

\* The entry under way, and when there is none.
ShapeOK ==
  /\ at \in {"swap", "tasks"} => todo # <<>> /\ Head(todo) = Signaller
  /\ at \in {"body", "read", "recv"} => todo # <<>> /\ Head(todo) \in Conn
  /\ at \in {"select", "blocked"} => todo = <<>>
TypeOK ==
  SocketsOK /\ OwnersOK /\ NetOK /\ TasksOK /\ FencesOK /\ LoopOK /\ ShapeOK

\* A list has every entry once.
Distinct(s) == \A i, j \in 1 .. Len(s) : s[i] = s[j] => i = j

\* The lists have every entry once.
OnceInv == Distinct(selectables_) /\ Distinct(todo)

\* A connection is listed, has a socket and is closed only after its owner got so far;
\* no listening socket hangs up.
LifeInv ==
  \A c \in Conn :
    /\ life[c] \in {"new", "accepted"} => c \notin Members(selectables_)
    /\ life[c] = "new" => c \notin Members(todo)
    /\ life[c] # "new" => c \in session.conns
    /\ life[c] \in {"new", "appending", "added"} => socket_[c] = 0
    /\ is_shutdown_[c] => life[c] # "new"
    /\ c \in closing => is_shutdown_[c]
    /\ hangup[c] => c \in Stream

\* Open sockets have different descriptors.
SocketInv == \A c, d \in Conn : socket_[c] = socket_[d] /\ socket_[c] # 0 => c = d

ListInv == OnceInv /\ LifeInv /\ SocketInv

\* A connection that was closed for good.
Gone(d) == is_shutdown_[d] /\ socket_[d] = 0

\* The number of c's socket was another connection's when select looked.
Reused(c) == \E d \in Conn \ {c} : <<socket_[c], d>> \in files /\ Gone(d)

\* The descriptors of the sets: whose they were when select looked, and that they are
\* theirs still unless they were closed since; what select reported has something to
\* read, or the number has changed hands.
ReadInv ==
  /\ at = "blocked" \/ at \in Processing =>
       \A f \in files : socket_[f[2]] = f[1] \/ Gone(f[2])
  /\ at \in Processing =>
       /\ \A fd \in sets.read : \E d \in Conn : <<fd, d>> \in files
       /\ \A c \in Conn :
            c \in Members(todo) /\ socket_[c] \in sets.read =>
              received[c] > consumed[c] \/ hangup[c] \/ Reused(c)

NoBlockInv == TypeOK /\ ListInv /\ ReadInv /\ BlocksOnlyOnReused

\* A pipe is closed with its connection, and the signaller's never.
PipeInv ==
  /\ pipe[Signaller] # "closed"
  /\ \A c \in Conn : is_shutdown_[c] <=> pipe[c] = "closed"

\* The list has the signaller, and every connection that was added and is not closed.
KeptInv ==
  /\ Signaller \in Members(selectables_)
  /\ \A c \in Conn : life[c] \notin {"new", "accepted"} /\ ~is_shutdown_[c]
                       => c \in Members(selectables_)

\* A queued task has signalled.
TaskInv ==
  /\ tasks_to_run # <<>> => at = "tasks"
  /\ task_queue_ # <<>> => pipe[Signaller] = "signalled" \/ at = "swap"

\* A stream the select thread was told of.
Known(c) == life[c] = "up" /\ socket_[c] # 0 /\ ~is_shutdown_[c]

\* The pass will see, or the select watches, the signaller, every connection that was
\* added and every socket of a stream; or a signal ends the select.
WatchInv ==
  at \in Watching =>
    /\ Signaller \in Members(todo) \cup sets.pipes
    /\ \A c \in Conn : life[c] \in {"added", "connecting", "up"} /\ ~is_shutdown_[c] =>
         c \in Members(todo) \cup sets.pipes \/ pipe[Signaller] = "signalled"
    /\ \A c \in Stream : Known(c) =>
         \/ c \in Members(todo)
         \/ at \in {"pass", "select"} /\ socket_[c] \in sets.read
         \/ at = "blocked" /\ <<socket_[c], c>> \in files
         \/ c \in sets.pipes /\ pipe[c] = "signalled"
         \/ pipe[Signaller] = "signalled"

\* What a fence waits for is queued, or running, or done; and on its way to a stream
\* that is still watched, unless the stream was closed.
OwedInv ==
  \A w \in Waiter : wait[w] # "none" =>
    /\ owed[w].tasks \subseteq ran \cup Members(task_queue_) \cup Members(tasks_to_run)
    /\ \A c \in Conn : /\ received[c] >= owed[w].chunks[c]
                       /\ owed[w].chunks[c] > 0 => Known(c) \/ is_shutdown_[c]
                       /\ owed[w].chunks[c] > 0 => c \in session.conns

\* Nothing that the fence of w waits for is left to do.
Settled(w) ==
  /\ owed[w].tasks \subseteq ran
  /\ \A c \in Stream : consumed[c] >= owed[w].chunks[c] \/ is_shutdown_[c]

FenceInv == PipeInv /\ KeptInv /\ TaskInv /\ WatchInv /\ OwedInv

\* An empty select settles every fence that is pending when it returns.
EmptySelectSettles ==
  at = "blocked" /\ at' = "process" /\ fds' = 0 =>
    \A w \in Waiter : wait[w] # "none" => Settled(w)

\* With one waiter the fence that was seen before select is the one that is fulfilled.
OneWaiter == \A s \in Session : \A v, w \in s.waiters : v = w
OneInv ==
  /\ \A w \in Waiter : wait[w] # "none" => w \in session.waiters
  /\ \A w \in pending_fences_ : wait[w] # "none"
  /\ has_fences => \E w \in Waiter : wait[w] # "none"
  /\ at \in Processing /\ has_fences /\ fds = 0 =>
       \A w \in Waiter : wait[w] # "none" => Settled(w)
  /\ \A w \in Waiter : wait[w] # "none" /\ w \notin pending_fences_ => Settled(w)

-----------------------------------------------------------------------------
(* Lists and descriptors                                                   *)

\* The members of a list by their indices.
LEMMA MembersOf ==
  ASSUME NEW S, NEW s \in Seq(S)
  PROVE  /\ \A x : x \in Members(s) <=> \E i \in 1 .. Len(s) : x = s[i]
         /\ Len(s) \in Nat /\ Members(s) \subseteq S
<1>1. Len(s) \in Nat /\ DOMAIN s = 1 .. Len(s) /\ \A i \in 1 .. Len(s) : s[i] \in S
  BY Zenon, LenProperties, ElementOfSeq
<1> QED  BY Zenon, <1>1 DEF Members

\* Appending adds one member; it is the last.
LEMMA Appended ==
  ASSUME NEW S, NEW s \in Seq(S), NEW x \in S
  PROVE  /\ Append(s, x) \in Seq(S) /\ Append(s, x) # <<>>
         /\ Members(Append(s, x)) = Members(s) \cup {x}
         /\ Distinct(s) /\ x \notin Members(s) => Distinct(Append(s, x))
<1>1. /\ Append(s, x) \in Seq(S) /\ Append(s, x) # <<>> /\ Len(Append(s, x)) = Len(s) + 1
      /\ \A i \in 1 .. Len(s) : Append(s, x)[i] = s[i]
      /\ Append(s, x)[Len(s) + 1] = x /\ Len(s) \in Nat
  BY AppendProperties, LenProperties
<1>2. PICK t : t = Append(s, x)
  BY Zenon
<1>3. /\ t \in Seq(S) /\ Len(t) = Len(s) + 1 /\ t[Len(s) + 1] = x /\ Len(s) \in Nat
      /\ \A i \in 1 .. Len(s) : t[i] = s[i]
  BY Zenon, <1>1, <1>2
<1>4. /\ \A y : y \in Members(t) <=> \E i \in 1 .. Len(t) : y = t[i]
      /\ \A y : y \in Members(s) <=> \E i \in 1 .. Len(s) : y = s[i]
  BY Zenon, <1>3, MembersOf
<1>5. \A i \in 1 .. Len(t) : i \in 1 .. Len(s) \/ i = Len(s) + 1
  BY <1>3
<1>6. 1 .. Len(s) \subseteq 1 .. Len(t) /\ Len(s) + 1 \in 1 .. Len(t)
  BY <1>3
<1>7. Members(t) = Members(s) \cup {x}
  <2>1. ASSUME NEW y \in Members(t) PROVE y \in Members(s) \cup {x}
    BY <1>3, <1>4, <1>5
  <2>2. ASSUME NEW y \in Members(s) PROVE y \in Members(t)
    BY Zenon, <1>3, <1>4, <1>6
  <2>3. x \in Members(t)
    BY Zenon, <1>3, <1>4, <1>6
  <2> QED  BY Zenon, <2>1, <2>2, <2>3
<1>8. ASSUME Distinct(s), x \notin Members(s) PROVE Distinct(t)
  BY <1>3, <1>4, <1>5, <1>8 DEF Distinct
<1> QED  BY Zenon, <1>1, <1>2, <1>7, <1>8

\* The list in front of its head.
LEMMA Behind ==
  ASSUME NEW S, NEW s \in Seq(S), s # <<>>
  PROVE  /\ Head(s) \in S /\ Tail(s) \in Seq(S)
         /\ Members(s) = Members(Tail(s)) \cup {Head(s)}
         /\ Distinct(s) => Distinct(Tail(s)) /\ Head(s) \notin Members(Tail(s))
<1>1. /\ Head(s) \in S /\ Tail(s) \in Seq(S) /\ Len(Tail(s)) = Len(s) - 1
      /\ \A i \in 1 .. Len(Tail(s)) : Tail(s)[i] = s[i + 1]
      /\ Len(s) \in Nat /\ Len(s) > 0 /\ Head(s) = s[1]
  <2>1. Len(s) \in Nat /\ Len(s) # 0
    BY Zenon, LenProperties, EmptySeq
  <2> QED  BY <2>1, HeadTailProperties
<1>2. PICK t : t = Tail(s)
  BY Zenon
<1>3. /\ t \in Seq(S) /\ Len(t) = Len(s) - 1 /\ \A i \in 1 .. Len(t) : t[i] = s[i + 1]
  BY Zenon, <1>1, <1>2
<1>4. /\ \A y : y \in Members(t) <=> \E i \in 1 .. Len(t) : y = t[i]
      /\ \A y : y \in Members(s) <=> \E i \in 1 .. Len(s) : y = s[i]
  BY Zenon, <1>3, MembersOf
<1>5. \A i \in 1 .. Len(s) : i = 1 \/ (i - 1 \in 1 .. Len(t) /\ s[i] = t[i - 1])
  BY <1>1, <1>3
<1>6. 1 \in 1 .. Len(s) /\ \A i \in 1 .. Len(t) : i + 1 \in 1 .. Len(s) /\ i + 1 # 1
  BY <1>1, <1>3
<1>7. Members(s) = Members(t) \cup {s[1]}
  <2>1. ASSUME NEW y \in Members(s) PROVE y \in Members(t) \cup {s[1]}
    BY <1>4, <1>5
  <2>2. ASSUME NEW y \in Members(t) PROVE y \in Members(s)
    BY <1>3, <1>4, <1>6
  <2>3. s[1] \in Members(s)
    BY Zenon, <1>4, <1>6
  <2> QED  BY Zenon, <2>1, <2>2, <2>3
<1>8. ASSUME Distinct(s) PROVE Distinct(t) /\ s[1] \notin Members(t)
  <2>1. ASSUME NEW i \in 1 .. Len(t), NEW j \in 1 .. Len(t), t[i] = t[j] PROVE i = j
    <3>1. i + 1 = j + 1
      BY Zenon, <1>3, <1>6, <1>8, <2>1 DEF Distinct
    <3> QED  BY <3>1
  <2>2. ASSUME NEW i \in 1 .. Len(t), t[i] = s[1] PROVE FALSE
    BY Zenon, <1>3, <1>6, <1>8, <2>2 DEF Distinct
  <2> QED  BY Zenon, <1>4, <2>1, <2>2 DEF Distinct
<1> QED  BY Zenon, <1>1, <1>2, <1>7, <1>8

\* The empty list.
LEMMA Nothing ==
  Members(<<>>) = {} /\ Distinct(<<>>) /\ \A S : <<>> \in Seq(S)
BY EmptySeq DEF Members, Distinct

\* A list without its element i.
LEMMA Cut ==
  ASSUME NEW S, NEW s \in Seq(S), NEW i \in 1 .. Len(s),
         NEW t, t = SubSeq(s, 1, i - 1) \o SubSeq(s, i + 1, Len(s))
  PROVE  /\ t \in Seq(S) /\ Len(t) = Len(s) - 1
         /\ \A j \in 1 .. Len(t) : t[j] = IF j < i THEN s[j] ELSE s[j + 1]
<1>1. PICK n \in Nat : n = Len(s)
  BY Zenon, LenProperties
<1>2. \A j \in 1 .. n : s[j] \in S
  BY Zenon, <1>1, ElementOfSeq
<1>3. i \in 1 .. n
  BY Zenon, <1>1
<1>4. PICK a : a = SubSeq(s, 1, i - 1)
  BY Zenon
<1>5. PICK b : b = SubSeq(s, i + 1, n)
  BY Zenon
<1>6. a \in Seq(S) /\ Len(a) = i - 1 /\ \A j \in 1 .. i - 1 : a[j] = s[j]
  <2>1. 1 \in Int /\ i - 1 \in Int /\ \A j \in 1 .. i - 1 : s[j] \in S
    BY <1>2, <1>3
  <2>2. /\ a \in Seq(S)
        /\ Len(a) = IF 1 <= i - 1 THEN (i - 1) - 1 + 1 ELSE 0
        /\ \A j \in 1 .. (i - 1) - 1 + 1 : a[j] = s[1 + j - 1]
    BY <1>4, <2>1, SubSeqProperties
  <2> QED  BY <1>3, <2>2
<1>7. b \in Seq(S) /\ Len(b) = n - i /\ \A j \in 1 .. n - i : b[j] = s[i + j]
  <2>1. i + 1 \in Int /\ n \in Int /\ \A j \in i + 1 .. n : s[j] \in S
    BY <1>2, <1>3
  <2>2. /\ b \in Seq(S) /\ Len(b) = IF i + 1 <= n THEN n - (i + 1) + 1 ELSE 0
        /\ \A j \in 1 .. n - (i + 1) + 1 : b[j] = s[i + 1 + j - 1]
    BY <1>5, <2>1, SubSeqProperties
  <2>3. ASSUME NEW j \in 1 .. n - i PROVE b[j] = s[i + j]
    <3>1. j \in 1 .. n - (i + 1) + 1 /\ i + 1 + j - 1 = i + j
      BY <1>3
    <3> QED  BY Zenon, <2>2, <3>1
  <2>4. Len(b) = n - i
    BY <1>3, <2>2
  <2> QED  BY Zenon, <2>2, <2>3, <2>4
<1>8. /\ t \in Seq(S) /\ Len(t) = Len(a) + Len(b)
      /\ \A j \in 1 .. Len(a) + Len(b) : t[j] = IF j <= Len(a) THEN a[j] ELSE b[j - Len(a)]
  <2>1. t = a \o b
    BY Zenon, <1>1, <1>4, <1>5
  <2>2. /\ a \o b \in Seq(S) /\ Len(a \o b) = Len(a) + Len(b)
        /\ \A j \in 1 .. Len(a) + Len(b) :
             (a \o b)[j] = IF j <= Len(a) THEN a[j] ELSE b[j - Len(a)]
    BY Zenon, <1>6, <1>7, ConcatProperties
  <2> QED  BY Zenon, <2>1, <2>2
<1>9. PICK m \in Nat, k \in Nat : m = Len(a) /\ k = Len(b) /\ m = i - 1 /\ k = n - i
  BY <1>3, <1>6, <1>7
<1>10. Len(t) = m + k /\ \A j \in 1 .. m + k : t[j] = IF j <= m THEN a[j] ELSE b[j - m]
  BY Zenon, <1>8, <1>9
<1>11. m + k = n - 1
  BY <1>3, <1>9
<1>12. ASSUME NEW j \in 1 .. m + k PROVE t[j] = IF j < i THEN s[j] ELSE s[j + 1]
  <2>1. CASE j < i
    <3>1. j \in 1 .. i - 1 /\ j <= m
      BY <1>3, <1>9, <2>1
    <3> QED  BY Zenon, <1>6, <1>10, <2>1, <3>1
  <2>2. CASE ~(j < i)
    <3>1. ~(j <= m) /\ j - m \in 1 .. n - i /\ i + (j - m) = j + 1
      BY <1>3, <1>9, <2>2
    <3> QED  BY Zenon, <1>7, <1>10, <2>2, <3>1
  <2> QED  BY Zenon, <2>1, <2>2
<1> QED  BY Zenon, <1>1, <1>8, <1>10, <1>11, <1>12

\* std::erase_if takes out nothing but the one entry.
LEMMA Erased ==
  ASSUME selectables_ \in Seq(Entry), NEW e
  PROVE  /\ Without(e) \in Seq(Entry) /\ Members(Without(e)) \subseteq Members(selectables_)
         /\ \A x \in Members(selectables_) : x = e \/ x \in Members(Without(e))
         /\ Distinct(selectables_) => Distinct(Without(e))
<1> DEFINE s == selectables_
<1>1. CASE e \notin Members(s)
  BY Zenon, <1>1 DEF Without
<1>2. CASE e \in Members(s)
  <2>1. DOMAIN s = 1 .. Len(s) /\ Len(s) \in Nat
    BY Zenon, LenProperties
  <2>2. PICK i \in 1 .. Len(s) :
          s[i] = e /\ Without(e) = SubSeq(s, 1, i - 1) \o SubSeq(s, i + 1, Len(s))
    <3>1. \E i \in DOMAIN s : s[i] = e
      BY Zenon, <1>2 DEF Members
    <3> DEFINE j == CHOOSE i \in DOMAIN s : s[i] = e
    <3>2. j \in DOMAIN s /\ s[j] = e
      BY Zenon, <3>1
    <3>3. Without(e) = SubSeq(s, 1, j - 1) \o SubSeq(s, j + 1, Len(s))
      BY Zenon, <1>2 DEF Without
    <3> HIDE DEF j
    <3> QED  BY Zenon, <2>1, <3>2, <3>3
  <2>3. PICK t : t = Without(e)
    BY Zenon
  <2>4. /\ t \in Seq(Entry) /\ Len(t) = Len(s) - 1
        /\ \A j \in 1 .. Len(t) : t[j] = IF j < i THEN s[j] ELSE s[j + 1]
    <3>1. t = SubSeq(s, 1, i - 1) \o SubSeq(s, i + 1, Len(s))
      BY Zenon, <2>2, <2>3
    <3>2. i \in 1 .. Len(selectables_) /\ selectables_ \in Seq(Entry)
      BY Zenon
    <3>3. t = SubSeq(selectables_, 1, i - 1) \o SubSeq(selectables_, i + 1, Len(selectables_))
      BY Zenon, <3>1
    <3> HIDE DEF s
    <3>4. /\ t \in Seq(Entry) /\ Len(t) = Len(selectables_) - 1
          /\ \A j \in 1 .. Len(t) :
               t[j] = IF j < i THEN selectables_[j] ELSE selectables_[j + 1]
      BY ZenonT(40), <3>2, <3>3, Cut
    <3> QED  BY Zenon, <3>4 DEF s
  <2> HIDE DEF s
  <2>5. /\ \A y : y \in Members(t) <=> \E j \in 1 .. Len(t) : y = t[j]
        /\ \A y : y \in Members(s) <=> \E j \in 1 .. Len(s) : y = s[j]
    BY Zenon, <2>4, MembersOf DEF s
  <2>12. PICK n \in Nat : n = Len(s) /\ i \in 1 .. n /\ Len(t) = n - 1
    BY Zenon, <2>1, <2>4
  <2>6. \A j \in 1 .. Len(t) : j \in 1 .. Len(s) /\ j + 1 \in 1 .. Len(s)
    BY <2>12
  <2>7. ASSUME NEW j \in 1 .. Len(s)
        PROVE  \/ j < i /\ j \in 1 .. Len(t)
               \/ j = i
               \/ j - 1 \in 1 .. Len(t) /\ ~(j - 1 < i) /\ (j - 1) + 1 = j
    <3>1. j \in 1 .. n
      BY Zenon, <2>12
    <3>2. \/ j < i /\ j \in 1 .. n - 1
          \/ j = i
          \/ j - 1 \in 1 .. n - 1 /\ ~(j - 1 < i) /\ (j - 1) + 1 = j
      BY <2>12, <3>1
    <3> QED  BY Zenon, <2>12, <3>2
  <2>8. ASSUME NEW y \in Members(t) PROVE y \in Members(s)
    BY Zenon, <2>4, <2>5, <2>6
  <2>9. ASSUME NEW y \in Members(s) PROVE y = e \/ y \in Members(t)
    <3>1. PICK j \in 1 .. Len(s) : y = s[j]
      BY Zenon, <2>5, <2>9
    <3> QED  BY Zenon, <2>2, <2>4, <2>5, <2>7, <3>1 DEF s
  <2>10. ASSUME Distinct(s), NEW j \in 1 .. Len(t), NEW k \in 1 .. Len(t), t[j] = t[k]
         PROVE  j = k
    <3>1. PICK m \in 1 .. Len(s) : t[j] = s[m] /\ m = IF j < i THEN j ELSE j + 1
      BY Zenon, <2>4, <2>6
    <3>2. PICK o \in 1 .. Len(s) : t[k] = s[o] /\ o = IF k < i THEN k ELSE k + 1
      BY Zenon, <2>4, <2>6
    <3>3. m = o
      BY Zenon, <2>10, <3>1, <3>2 DEF Distinct
    <3> QED  BY <3>1, <3>2, <3>3
  <2>11. Distinct(s) => Distinct(t)
    BY Zenon, <2>10 DEF Distinct
  <2> QED  BY Zenon, <2>3, <2>4, <2>8, <2>9, <2>11 DEF s
<1> QED  BY Zenon, <1>1, <1>2

\* A new socket has a descriptor that no other has.
LEMMA Opened ==
  ASSUME SocketsOK, NEW c \in Conn, Opens(c)
  PROVE  /\ socket_' \in [Conn -> Fd \cup {0}] /\ socket_'[c] \in Fd
         /\ \A d \in Conn : socket_[d] # socket_'[c]
         /\ \A d \in Conn \ {c} : socket_'[d] = socket_[d]
<1>1. PICK fd \in FreeFds : socket_' = [socket_ EXCEPT ![c] = fd]
  BY Zenon DEF Opens
<1>2. fd \in Fd /\ \A d \in Conn : socket_[d] # fd
  BY Zenon DEF FreeFds
<1> QED  BY Zenon, <1>1, <1>2 DEF SocketsOK

-----------------------------------------------------------------------------
(* Types                                                                   *)

LEMMA InitType ==
  ASSUME Init
  PROVE  TypeOK
<1> USE DEF Init
<1>1. SocketsOK /\ NetOK
  BY Zenon DEF SocketsOK, NetOK, Conn
<1>2. OwnersOK
  <2>1. Signaller \in Entry
    BY Zenon DEF Entry
  <2>2. <<Signaller>> \in Seq(Entry)
    BY <2>1
  <2> QED  BY Zenon, <2>2 DEF OwnersOK, Life
<1>3. TasksOK
  BY Zenon, Nothing DEF TasksOK
<1>4. FencesOK
  BY Zenon DEF FencesOK
<1>5. LoopOK /\ ShapeOK
  BY Zenon, <1>2 DEF LoopOK, ShapeOK, OwnersOK, Watching, NoFds
<1> QED  BY Zenon, <1>1, <1>2, <1>3, <1>4, <1>5 DEF TypeOK

\* A signal changes one pipe.
LEMMA SignalledPipe ==
  ASSUME pipe \in [Entry -> {"quiet", "signalled", "closed"}], NEW e \in Entry
  PROVE  /\ Signalled(pipe, e) \in [Entry -> {"quiet", "signalled", "closed"}]
         /\ \A d \in Entry \ {e} : Signalled(pipe, e)[d] = pipe[d]
         /\ pipe[e] = "closed" => Signalled(pipe, e)[e] = "closed"
         /\ pipe[e] # "closed" => Signalled(pipe, e)[e] = "signalled"
BY Zenon DEF Signalled

LEMMA OthersType ==
  ASSUME TypeOK, Others
  PROVE  TypeOK'
<1> USE DEF sock, net, tasking, fences, loop, control
<1> USE DEF TypeOK, SocketsOK, OwnersOK, NetOK, TasksOK, FencesOK, LoopOK, ShapeOK
<1>1. Signaller \in Entry /\ Conn \subseteq Entry
  BY Zenon DEF Entry
<1>2. ASSUME NEW task \in Work, Enqueue(task)
      PROVE  /\ task_queue_' \in Seq(Work)
             /\ pipe' \in [Entry -> {"quiet", "signalled", "closed"}]
  BY Zenon, <1>1, <1>2, Appended, SignalledPipe DEF Enqueue
<1>3. {"noop", "stop"} \subseteq Work /\ Task \subseteq Work
  BY Zenon DEF Work
<1>4. ASSUME NEW c \in Conn, AddConnection(c) PROVE TypeOK'
  <2>1. selectables_' \in Seq(Entry)
    BY Zenon, <1>1, <1>4, Appended DEF AddConnection
  <2>2. life' \in [Conn -> Life]
    BY Zenon, <1>4 DEF AddConnection, Life
  <2> QED  BY Zenon, <1>4, <2>1, <2>2 DEF AddConnection
<1>5. ASSUME NEW c \in Conn, AddConnectionPosts(c) PROVE TypeOK'
  <2>1. life' \in [Conn -> Life]
    BY Zenon, <1>5 DEF AddConnectionPosts, Life
  <2>2. Enqueue("noop")
    BY Zenon, <1>5 DEF AddConnectionPosts
  <2> QED  BY Zenon, <1>2, <1>3, <1>5, <2>1, <2>2 DEF AddConnectionPosts
<1>6. ASSUME NEW c \in Conn, Connect(c) \/ Listen(c) PROVE TypeOK'
  <2>1. life' \in [Conn -> Life]
    <3>1. CASE Connect(c)
      BY Zenon, <3>1 DEF Connect, Life
    <3>2. CASE Listen(c)
      BY Zenon, <3>2 DEF Listen, Life
    <3> QED  BY Zenon, <1>6, <3>1, <3>2
  <2>2. socket_' \in [Conn -> Fd \cup {0}]
    BY Zenon, <1>6, Opened DEF Connect, Listen
  <2>3. CASE Connect(c)
    BY Zenon, <2>1, <2>2, <2>3 DEF Connect
  <2>4. CASE Listen(c)
    BY Zenon, <2>1, <2>2, <2>4 DEF Listen
  <2> QED  BY Zenon, <1>6, <2>3, <2>4
<1>7. ASSUME NEW c \in Conn, Connected(c) PROVE TypeOK'
  <2>1. life' \in [Conn -> Life]
    BY Zenon, <1>7 DEF Connected, Life
  <2>2. pipe' \in [Entry -> {"quiet", "signalled", "closed"}]
    BY Zenon, <1>1, <1>7, SignalledPipe DEF Connected
  <2> QED  BY Zenon, <1>7, <2>1, <2>2 DEF Connected
<1>8. ASSUME NEW c \in Conn, Send(c) PROVE TypeOK'
  <2>1. pipe' \in [Entry -> {"quiet", "signalled", "closed"}]
    BY Zenon, <1>1, <1>8, SignalledPipe DEF Send
  <2>2. write_buffer_' \in [Conn -> Nat]
    BY <1>8 DEF Send
  <2> QED  BY Zenon, <1>8, <2>1, <2>2 DEF Send
<1>9. ASSUME NEW c \in Conn, BeginClose(c)
      PROVE  /\ pipe' \in [Entry -> {"quiet", "signalled", "closed"}]
             /\ is_shutdown_' \in [Conn -> BOOLEAN] /\ closing' \subseteq Conn
  BY Zenon, <1>1, <1>9 DEF BeginClose
<1>10. ASSUME NEW c \in Conn, Close(c) PROVE TypeOK'
  BY Zenon, <1>9, <1>10 DEF Close
<1>11. ASSUME NEW c \in Conn, CloseSocket(c) PROVE TypeOK'
  <2>1. socket_' \in [Conn -> Fd \cup {0}] /\ closing' \subseteq Conn
    BY Zenon, <1>11 DEF CloseSocket
  <2> QED  BY Zenon, <1>11, <2>1 DEF CloseSocket
<1>12. ASSUME NEW c \in Conn, FlushAndClose(c) PROVE TypeOK'
  <2>1. /\ pipe' \in [Entry -> {"quiet", "signalled", "closed"}]
        /\ is_shutdown_' \in [Conn -> BOOLEAN] /\ closing' \subseteq Conn
        /\ close_after_flush_' \in [Conn -> BOOLEAN]
    BY Zenon, <1>9, <1>12 DEF FlushAndClose
  <2> QED  BY Zenon, <1>12, <2>1 DEF FlushAndClose
<1>13. ASSUME NEW c \in Conn, Arrive(c) \/ HangUp(c) PROVE TypeOK'
  <2>1. received' \in [Conn -> Nat] /\ hangup' \in [Conn -> BOOLEAN]
    <3>1. CASE Arrive(c)
      BY <3>1 DEF Arrive
    <3>2. CASE HangUp(c)
      BY Zenon, <3>2 DEF HangUp
    <3> QED  BY Zenon, <1>13, <3>1, <3>2
  <2>2. CASE Arrive(c)
    BY Zenon, <2>1, <2>2 DEF Arrive
  <2>3. CASE HangUp(c)
    BY Zenon, <2>1, <2>3 DEF HangUp
  <2> QED  BY Zenon, <1>13, <2>2, <2>3
<1>14. ASSUME NEW k \in Task, Post(k) PROVE TypeOK'
  BY Zenon, <1>2, <1>3, <1>14 DEF Post
<1>15. ASSUME NEW k \in Task, PostDelayed(k) PROVE TypeOK'
  <2>1. pipe' \in [Entry -> {"quiet", "signalled", "closed"}]
    BY Zenon, <1>1, <1>15, SignalledPipe DEF PostDelayed
  <2> QED  BY Zenon, <1>15, <2>1 DEF PostDelayed
<1>16. ASSUME NEW k \in Task, Expire(k) PROVE TypeOK'
  BY Zenon, <1>16 DEF Expire
<1>17. ASSUME NEW w \in Waiter, AwaitQuiescence(w) PROVE TypeOK'
  <2>1. Pending \in [tasks : SUBSET Task, chunks : [Conn -> Nat]]
    BY Zenon DEF Pending
  <2>2. owed' \in [Waiter -> [tasks : SUBSET Task, chunks : [Conn -> Nat]]]
    BY Zenon, <1>17, <2>1 DEF AwaitQuiescence
  <2>3. /\ wait' \in [Waiter -> {"none", "pushed", "waiting", "returned"}]
        /\ pending_fences_' \subseteq Waiter
    BY Zenon, <1>17 DEF AwaitQuiescence
  <2> QED  BY Zenon, <1>17, <2>2, <2>3 DEF AwaitQuiescence
<1>18. ASSUME NEW w \in Waiter, AwaitQuiescenceSignals(w) \/ AwaitQuiescenceReturns(w)
       PROVE  TypeOK'
  <2>1. /\ wait' \in [Waiter -> {"none", "pushed", "waiting", "returned"}]
        /\ pipe' \in [Entry -> {"quiet", "signalled", "closed"}]
    <3>1. CASE AwaitQuiescenceSignals(w)
      BY Zenon, <1>1, <3>1, SignalledPipe DEF AwaitQuiescenceSignals
    <3>2. CASE AwaitQuiescenceReturns(w)
      BY Zenon, <3>2 DEF AwaitQuiescenceReturns
    <3> QED  BY Zenon, <1>18, <3>1, <3>2
  <2>2. CASE AwaitQuiescenceSignals(w)
    BY Zenon, <2>1, <2>2 DEF AwaitQuiescenceSignals
  <2>3. CASE AwaitQuiescenceReturns(w)
    BY Zenon, <2>1, <2>3 DEF AwaitQuiescenceReturns
  <2> QED  BY Zenon, <1>18, <2>2, <2>3
<1>19. CASE Stop
  BY Zenon, <1>2, <1>3, <1>19 DEF Stop
<1> QED
  BY Zenon, <1>4, <1>5, <1>6, <1>7, <1>8, <1>10, <1>11, <1>12, <1>13, <1>14, <1>15, <1>16,
     <1>17, <1>18, <1>19 DEF Others

\* What Process of a connection does up to the read: it leaves a connection without a
\* socket alone, closes, or goes on to the read.
BodyLeaves(c) ==
  /\ socket_[c] = 0 /\ at' = "process" /\ todo' = Tail(todo) /\ UNCHANGED sock
  /\ selectables_' = selectables_ \/ (is_shutdown_[c] /\ selectables_' = Without(c))
BodyCloses(c) ==
  /\ socket_[c] # 0 /\ CloseInside(c)
  /\ write_buffer_' \in [Conn -> Nat] /\ close_after_flush_' \in [Conn -> BOOLEAN]
  /\ \/ at' = "process" /\ todo' = Tail(todo) /\ selectables_' = Without(c)
     \/ at' = "read" /\ UNCHANGED <<todo, selectables_>>
BodyGoesOn(c) ==
  /\ socket_[c] # 0 /\ at' = "read"
  /\ write_buffer_' \in [Conn -> Nat] /\ UNCHANGED close_after_flush_
  /\ UNCHANGED <<selectables_, todo, socket_, pipe, is_shutdown_>>

LEMMA BodyCases ==
  ASSUME TypeOK, ProcessBody
  PROVE  /\ at = "body" /\ todo # <<>> /\ Head(todo) \in Conn
         /\ UNCHANGED <<life, closing, received, consumed, hangup, tasking, fences,
                        running_, sets, files, soonest_scheduled, has_fences, fds,
                        stopping, session>>
         /\ BodyLeaves(Head(todo)) \/ BodyCloses(Head(todo)) \/ BodyGoesOn(Head(todo))
<1> DEFINE c == Head(todo)
<1>1. at = "body" /\ todo # <<>> /\ c \in Conn
  BY Zenon DEF ProcessBody, TypeOK, ShapeOK
<1>2. UNCHANGED <<life, closing, received, consumed, hangup, tasking, fences, running_,
                  sets, files, soonest_scheduled, has_fences, fds, stopping, session>>
  BY Zenon DEF ProcessBody, net, control
<1>3. write_buffer_ \in [Conn -> Nat] /\ close_after_flush_ \in [Conn -> BOOLEAN]
  BY Zenon DEF TypeOK, SocketsOK
<1>4. \/ /\ socket_[c] = 0 /\ at' = "process" /\ todo' = Tail(todo) /\ UNCHANGED sock
         /\ selectables_' = IF is_shutdown_[c] THEN Without(c) ELSE selectables_
      \/ /\ socket_[c] # 0 /\ CloseInside(c) /\ selectables_' = Without(c)
         /\ at' = "process" /\ todo' = Tail(todo)
         /\ UNCHANGED <<write_buffer_, close_after_flush_>>
      \/ /\ socket_[c] # 0 /\ CloseInside(c) /\ at' = "read"
         /\ UNCHANGED <<selectables_, todo, write_buffer_, close_after_flush_>>
      \/ /\ socket_[c] # 0
         /\ \E left \in 0 .. write_buffer_[c] :
              /\ write_buffer_' = [write_buffer_ EXCEPT ![c] = left]
              /\ \/ /\ CloseInside(c) /\ selectables_' = Without(c)
                    /\ close_after_flush_' = [close_after_flush_ EXCEPT ![c] = FALSE]
                    /\ at' = "process" /\ todo' = Tail(todo)
                 \/ /\ at' = "read"
                    /\ UNCHANGED <<socket_, pipe, is_shutdown_, todo, close_after_flush_,
                                   selectables_>>
      \/ socket_[c] # 0 /\ at' = "read" /\ UNCHANGED <<selectables_, todo, sock>>
  BY Zenon DEF ProcessBody
<1> HIDE DEF c
<1>5. ASSUME NEW left \in 0 .. write_buffer_[c],
             write_buffer_' = [write_buffer_ EXCEPT ![c] = left]
      PROVE  write_buffer_' \in [Conn -> Nat]
  BY <1>1, <1>3, <1>5
<1>6. [close_after_flush_ EXCEPT ![c] = FALSE] \in [Conn -> BOOLEAN]
  BY Zenon, <1>1, <1>3
<1>7. BodyLeaves(c) \/ BodyCloses(c) \/ BodyGoesOn(c)
  BY Zenon, <1>3, <1>4, <1>5, <1>6 DEF BodyLeaves, BodyCloses, BodyGoesOn, sock
<1> QED  BY Zenon, <1>1, <1>2, <1>7 DEF c

\* DoReceive takes what has come, closes after the peer, or blocks.
ReceiveTakes(c) ==
  /\ consumed[c] < received[c] /\ consumed' = [consumed EXCEPT ![c] = @ + 1]
  /\ at' = "process" /\ todo' = Tail(todo) /\ UNCHANGED <<socket_, pipe, is_shutdown_>>
ReceiveCloses(c) ==
  CloseInside(c) /\ at' = "process" /\ todo' = Tail(todo) /\ UNCHANGED consumed
ReceiveBlocks(c) ==
  /\ at = "read" /\ consumed[c] = received[c] /\ ~hangup[c] /\ Readable(c)
  /\ at' = "recv" /\ UNCHANGED <<socket_, pipe, is_shutdown_, consumed, todo>>

LEMMA ReceiveCases ==
  ASSUME TypeOK, DoReceive
  PROVE  /\ at \in {"read", "recv"} /\ todo # <<>> /\ Head(todo) \in Conn
         /\ UNCHANGED <<selectables_, write_buffer_, close_after_flush_, life, closing,
                        received, hangup, tasking, fences, running_, sets, files,
                        soonest_scheduled, has_fences, fds, stopping, session>>
         /\ \/ ReceiveTakes(Head(todo)) \/ ReceiveCloses(Head(todo))
            \/ ReceiveBlocks(Head(todo))
<1>1. at \in {"read", "recv"} /\ todo # <<>> /\ Head(todo) \in Conn
  BY Zenon DEF DoReceive, TypeOK, ShapeOK
<1>2. UNCHANGED <<selectables_, write_buffer_, close_after_flush_, life, closing, received,
                  hangup, tasking, fences, running_, sets, files, soonest_scheduled,
                  has_fences, fds, stopping, session>>
  BY Zenon DEF DoReceive, control
<1>3. ReceiveTakes(Head(todo)) \/ ReceiveCloses(Head(todo)) \/ ReceiveBlocks(Head(todo))
  BY Zenon DEF DoReceive, Proceed, ReceiveTakes, ReceiveCloses, ReceiveBlocks
<1> QED  BY Zenon, <1>1, <1>2, <1>3

\* TCPServer::Process takes a client, which it may give to a connection, or blocks.
AcceptTakes(c) ==
  /\ consumed[c] < received[c] /\ consumed' = [consumed EXCEPT ![c] = @ + 1]
  /\ at' = "process" /\ todo' = Tail(todo)
  /\ \/ UNCHANGED <<socket_, life>>
     \/ \E s \in Stream \cap session.conns :
          /\ life[s] = "new" /\ Opens(s)
          /\ life' = [life EXCEPT ![s] = "accepted"]
AcceptBlocks(c) ==
  /\ at = "read" /\ consumed[c] = received[c] /\ Readable(c)
  /\ at' = "recv" /\ UNCHANGED <<socket_, life, consumed, todo>>

LEMMA AcceptCases ==
  ASSUME TypeOK, Accept
  PROVE  /\ at \in {"read", "recv"} /\ todo # <<>> /\ Head(todo) \in Server
         /\ UNCHANGED <<selectables_, pipe, is_shutdown_, write_buffer_, close_after_flush_,
                        closing, received, hangup, tasking, fences, running_, sets, files,
                        soonest_scheduled, has_fences, fds, stopping, session>>
         /\ AcceptTakes(Head(todo)) \/ AcceptBlocks(Head(todo))
<1>1. at \in {"read", "recv"} /\ todo # <<>> /\ Head(todo) \in Server
  BY Zenon DEF Accept, TypeOK, ShapeOK
<1>2. UNCHANGED <<selectables_, pipe, is_shutdown_, write_buffer_, close_after_flush_, closing,
                  received, hangup, tasking, fences, running_, sets, files,
                  soonest_scheduled, has_fences, fds, stopping, session>>
  BY Zenon DEF Accept, control
<1>3. AcceptTakes(Head(todo)) \/ AcceptBlocks(Head(todo))
  BY Zenon DEF Accept, Proceed, AcceptTakes, AcceptBlocks
<1> QED  BY Zenon, <1>1, <1>2, <1>3

\* The second pass drops an entry whose pipe is closed and goes on with another.
EntryDropped(e) ==
  /\ pipe[e] = "closed" /\ selectables_' = Without(e) /\ todo' = Tail(todo)
  /\ UNCHANGED <<at, pipe>>
EntryTaken(e) ==
  /\ pipe[e] # "closed" /\ pipe' = Drained(e) /\ UNCHANGED <<selectables_, todo>>
  /\ at' = IF e = Signaller THEN "swap" ELSE "body"

LEMMA EntryCases ==
  ASSUME TypeOK, ProcessEntry
  PROVE  /\ at = "process" /\ todo # <<>> /\ Head(todo) \in Entry
         /\ UNCHANGED <<socket_, is_shutdown_, write_buffer_, close_after_flush_, life,
                        closing, net, tasking, fences, running_, sets, files,
                        soonest_scheduled, has_fences, fds, stopping, session>>
         /\ EntryDropped(Head(todo)) \/ EntryTaken(Head(todo))
<1>1. at = "process" /\ todo # <<>>
  BY Zenon DEF ProcessEntry
<1>2. Head(todo) \in Entry
  BY Zenon, <1>1, Behind DEF TypeOK, LoopOK
<1>3. UNCHANGED <<socket_, is_shutdown_, write_buffer_, close_after_flush_, life, closing, net,
                  tasking, fences, running_, sets, files, soonest_scheduled, has_fences, fds,
                  stopping, session>>
  BY Zenon DEF ProcessEntry, control
<1>4. EntryDropped(Head(todo)) \/ EntryTaken(Head(todo))
  BY Zenon DEF ProcessEntry, EntryDropped, EntryTaken
<1> QED  BY Zenon, <1>1, <1>2, <1>3, <1>4

\* CloseInside closes one connection at once.
LEMMA ClosedInside ==
  ASSUME SocketsOK, NEW c \in Conn, CloseInside(c)
  PROVE  /\ socket_' \in [Conn -> Fd \cup {0}]
         /\ pipe' \in [Entry -> {"quiet", "signalled", "closed"}]
         /\ is_shutdown_' \in [Conn -> BOOLEAN]
         /\ socket_'[c] = 0 /\ pipe'[c] = "closed" /\ is_shutdown_'[c]
         /\ \A d \in Conn \ {c} : socket_'[d] = socket_[d] /\ is_shutdown_'[d] = is_shutdown_[d]
         /\ \A e \in Entry \ {c} : pipe'[e] = pipe[e]
BY Zenon DEF SocketsOK, CloseInside, Entry

\* What TaskConnection::Process runs: the queue and then what is due.
LEMMA SwappedTasks ==
  ASSUME TasksOK, SwapTasks
  PROVE  tasks_to_run' \in Seq(Work) /\ Members(task_queue_) \subseteq Members(tasks_to_run')
<1>1. PICK late \in Orders(due \cap delayed_tasks_) : tasks_to_run' = task_queue_ \o late
  BY Zenon DEF SwapTasks
<1>2. late \in Seq(Work)
  <2> DEFINE S == due \cap delayed_tasks_
  <2>1. S \subseteq Work
    BY Zenon DEF TasksOK, Work
  <2>2. PICK n \in 0 .. Cardinality(S) : late \in [1 .. n -> S]
    BY Zenon DEF Orders
  <2>3. n \in Nat
    OBVIOUS
  <2> HIDE DEF S
  <2>4. late \in Seq(S)
    BY <2>2, <2>3
  <2> QED  BY <2>1, <2>4
<1>3. /\ task_queue_ \o late \in Seq(Work)
      /\ Len(task_queue_ \o late) = Len(task_queue_) + Len(late)
      /\ \A i \in 1 .. Len(task_queue_) + Len(late) :
           (task_queue_ \o late)[i] =
             IF i <= Len(task_queue_) THEN task_queue_[i] ELSE late[i - Len(task_queue_)]
  BY Zenon, <1>2, ConcatProperties DEF TasksOK
<1>4. PICK t : t = task_queue_ \o late
  BY Zenon
<1>5. PICK m \in Nat, n \in Nat : m = Len(task_queue_) /\ n = Len(late)
  BY Zenon, <1>2, LenProperties DEF TasksOK
<1>6. \A i \in 1 .. m : i \in 1 .. m + n /\ i <= m
  BY <1>5
<1>7. t \in Seq(Work) /\ Len(t) = m + n /\ \A i \in 1 .. m : t[i] = task_queue_[i]
  BY Zenon, <1>3, <1>4, <1>5, <1>6
<1>8. /\ \A y : y \in Members(t) <=> \E j \in 1 .. Len(t) : y = t[j]
      /\ \A y : y \in Members(task_queue_) <=> \E j \in 1 .. m : y = task_queue_[j]
  <2>1. \A y : y \in Members(t) <=> \E j \in 1 .. Len(t) : y = t[j]
    BY Zenon, <1>7, MembersOf
  <2>2. task_queue_ \in Seq(Work)
    BY Zenon DEF TasksOK
  <2>3. \A y : y \in Members(task_queue_) <=> \E j \in 1 .. Len(task_queue_) : y = task_queue_[j]
    BY Zenon, <2>2, MembersOf
  <2> QED  BY Zenon, <1>5, <2>1, <2>3
<1>9. Members(task_queue_) \subseteq Members(t)
  BY Zenon, <1>6, <1>7, <1>8
<1> QED  BY Zenon, <1>1, <1>4, <1>7, <1>9

LEMMA ThreadType ==
  ASSUME TypeOK, ThreadMain
  PROVE  TypeOK'
<1> USE DEF sock, net, tasking, fences, loop, control
<1> USE DEF TypeOK, SocketsOK, OwnersOK, NetOK, TasksOK, FencesOK, LoopOK, ShapeOK
<1> USE DEF Watching, Processing
<1>1. /\ Signaller \in Entry /\ Conn \subseteq Entry
      /\ \A e \in Entry : e # Signaller => e \in Conn
  BY Zenon DEF Entry
<1>2. /\ todo # <<>> => Head(todo) \in Entry /\ Tail(todo) \in Seq(Entry)
      /\ NoFds \in [pipes : SUBSET Entry, read : SUBSET Fd, write : SUBSET Fd]
      /\ <<>> \in Seq(Entry) /\ <<>> \in Seq(Work)
  BY Zenon, Behind, Nothing DEF NoFds
<1>3. \A e : Without(e) \in Seq(Entry)
  BY Zenon, Erased
<1>4. CASE SelectEntry
  <2>1. todo # <<>> /\ Head(todo) \in Entry
    BY Zenon, <1>2, <1>4 DEF SelectEntry
  <2>2. sets' \in [pipes : SUBSET Entry, read : SUBSET Fd, write : SUBSET Fd]
    BY <1>1, <1>4, <2>1 DEF SelectEntry
  <2>3. soonest_scheduled' \in BOOLEAN
    BY Zenon, <1>4 DEF SelectEntry
  <2>4. selectables_' \in Seq(Entry)
    BY Zenon, <1>3, <1>4 DEF SelectEntry
  <2> QED  BY Zenon, <1>2, <1>4, <2>1, <2>2, <2>3, <2>4 DEF SelectEntry
<1>5. CASE ReadFences
  BY Zenon, <1>5 DEF ReadFences
<1>6. CASE CallSelect
  <2>1. files' \subseteq Fd \X Conn
    BY <1>6 DEF CallSelect
  <2> QED  BY Zenon, <1>2, <1>6, <2>1 DEF CallSelect
<1>7. CASE SelectReturns
  <2>1. Ready \in [pipes : SUBSET Entry, read : SUBSET Fd, write : SUBSET Fd]
    <3>1. ReadyPipes \subseteq Entry /\ ReadyToRead \subseteq Fd
      BY DEF ReadyPipes, ReadyToRead
    <3> QED  BY Zenon, <3>1 DEF Ready
  <2> QED  BY Zenon, <1>2, <1>7, <2>1 DEF SelectReturns
<1>8. CASE ProcessEntry
  <2>1. todo # <<>> /\ Head(todo) \in Entry /\ Tail(todo) \in Seq(Entry)
    BY Zenon, <1>2, <1>8 DEF ProcessEntry
  <2>2. EntryDropped(Head(todo)) \/ EntryTaken(Head(todo))
    BY Zenon, <1>8, EntryCases
  <2>3. pipe' \in [Entry -> {"quiet", "signalled", "closed"}]
    BY Zenon, <2>1, <2>2 DEF EntryDropped, EntryTaken, Drained
  <2>4. selectables_' \in Seq(Entry) /\ todo' \in Seq(Entry)
    <3>1. /\ selectables_' \in {selectables_, Without(Head(todo))}
          /\ todo' \in {todo, Tail(todo)}
      BY Zenon, <2>2 DEF EntryDropped, EntryTaken
    <3>2. selectables_ \in Seq(Entry) /\ todo \in Seq(Entry)
      BY Zenon
    <3> HIDE DEF TypeOK
    <3> QED  BY Zenon, <1>3, <2>1, <3>1, <3>2
  <2>5. ShapeOK' /\ at' \in Processing
    BY Zenon, <1>1, <1>8, <2>1, <2>2 DEF ProcessEntry, EntryDropped, EntryTaken
  <2> QED  BY Zenon, <1>8, <2>3, <2>4, <2>5, EntryCases
<1>9. CASE SwapTasks
  <2>1. tasks_to_run' \in Seq(Work)
    BY Zenon, <1>9, SwappedTasks
  <2> QED  BY Zenon, <1>2, <1>9, <2>1 DEF SwapTasks
<1>10. CASE RunTask
  <2>1. tasks_to_run' \in Seq(Work)
    BY Zenon, <1>10, Behind DEF RunTask
  <2> QED  BY Zenon, <1>10, <2>1 DEF RunTask
<1>11. CASE TasksDone
  BY Zenon, <1>2, <1>11 DEF TasksDone
<1>12. CASE ProcessBody
  <2>1. /\ at = "body" /\ todo # <<>> /\ Head(todo) \in Conn /\ Tail(todo) \in Seq(Entry)
        /\ BodyLeaves(Head(todo)) \/ BodyCloses(Head(todo)) \/ BodyGoesOn(Head(todo))
    BY Zenon, <1>2, <1>12, BodyCases
  <2>2. SocketsOK'
    BY Zenon, <2>1, ClosedInside DEF BodyLeaves, BodyCloses, BodyGoesOn
  <2>3. selectables_' \in Seq(Entry)
    <3>1. selectables_' \in {selectables_, Without(Head(todo))}
      BY Zenon, <2>1 DEF BodyLeaves, BodyCloses, BodyGoesOn
    <3> QED  BY <1>3, <3>1
  <2>4. \/ at' = "process" /\ todo' = Tail(todo)
        \/ at' = "read" /\ todo' = todo
    BY Zenon, <2>1 DEF BodyLeaves, BodyCloses, BodyGoesOn
  <2> QED  BY Zenon, <1>12, <2>1, <2>2, <2>3, <2>4, BodyCases
<1>13. CASE NothingToRead
  BY Zenon, <1>2, <1>13 DEF NothingToRead, Proceed
<1>14. CASE DoReceive
  <2>1. /\ todo # <<>> /\ Head(todo) \in Conn /\ Tail(todo) \in Seq(Entry)
        /\ \/ ReceiveTakes(Head(todo)) \/ ReceiveCloses(Head(todo))
           \/ ReceiveBlocks(Head(todo))
    BY Zenon, <1>2, <1>14, ReceiveCases
  <2>2. /\ socket_' \in [Conn -> Fd \cup {0}] /\ is_shutdown_' \in [Conn -> BOOLEAN]
        /\ pipe' \in [Entry -> {"quiet", "signalled", "closed"}]
    BY Zenon, <2>1, ClosedInside DEF ReceiveTakes, ReceiveCloses, ReceiveBlocks
  <2>3. consumed' \in [Conn -> Nat]
    BY <2>1 DEF ReceiveTakes, ReceiveCloses, ReceiveBlocks
  <2>4. \/ at' = "process" /\ todo' = Tail(todo)
        \/ at' = "recv" /\ todo' = todo
    BY Zenon, <2>1 DEF ReceiveTakes, ReceiveCloses, ReceiveBlocks
  <2> QED  BY Zenon, <1>14, <2>1, <2>2, <2>3, <2>4, ReceiveCases
<1>15. CASE Accept
  <2>1. /\ todo # <<>> /\ Head(todo) \in Conn /\ Tail(todo) \in Seq(Entry)
        /\ AcceptTakes(Head(todo)) \/ AcceptBlocks(Head(todo))
    BY Zenon, <1>2, <1>15, AcceptCases DEF Conn
  <2>2. consumed' \in [Conn -> Nat]
    <3>1. \/ consumed' = [consumed EXCEPT ![Head(todo)] = @ + 1]
          \/ consumed' = consumed
      BY Zenon, <2>1 DEF AcceptTakes, AcceptBlocks
    <3>2. consumed \in [Conn -> Nat]
      BY Zenon
    <3> HIDE DEF TypeOK
    <3> QED  BY <2>1, <3>1, <3>2
  <2>3. \/ at' = "process" /\ todo' = Tail(todo)
        \/ at' = "recv" /\ todo' = todo
    BY Zenon, <2>1 DEF AcceptTakes, AcceptBlocks
  <2>4. socket_' \in [Conn -> Fd \cup {0}] /\ life' \in [Conn -> Life]
    <3>1. CASE UNCHANGED <<socket_, life>>
      BY Zenon, <3>1
    <3>2. CASE ~UNCHANGED <<socket_, life>>
      <4>1. PICK s \in Stream : Opens(s) /\ life' = [life EXCEPT ![s] = "accepted"]
        BY Zenon, <2>1, <3>2 DEF AcceptTakes, AcceptBlocks
      <4>2. s \in Conn /\ "accepted" \in Life
        BY Zenon DEF Conn, Life
      <4> QED  BY Zenon, <4>1, <4>2, Opened
    <3> QED  BY Zenon, <3>1, <3>2
  <2> QED  BY Zenon, <1>15, <2>1, <2>2, <2>3, <2>4, AcceptCases
<1>16. CASE EndOfPass
  BY Zenon, <1>2, <1>16 DEF EndOfPass
<1> QED
  BY Zenon, <1>4, <1>5, <1>6, <1>7, <1>8, <1>9, <1>10, <1>11, <1>12, <1>13, <1>14, <1>15,
     <1>16 DEF ThreadMain

\* Type correctness of a step.
LEMMA NextType ==
  ASSUME TypeOK, [Next]_vars
  PROVE  TypeOK'
<1>1. CASE Next
  BY Zenon, <1>1, OthersType, ThreadType DEF Next
<1>2. CASE UNCHANGED vars
  BY Zenon, <1>2 DEF vars, sock, net, tasking, fences, loop, control, TypeOK, SocketsOK, OwnersOK,
              NetOK, TasksOK, FencesOK, LoopOK, ShapeOK
<1> QED  BY Zenon, <1>1, <1>2

-----------------------------------------------------------------------------
(* The lists, the sockets and their owners                                 *)

\* What the select thread does to sockets: it closes an entry of the pass or accepts.
LEMMA ThreadSockets ==
  ASSUME TypeOK, ThreadMain
  PROVE  /\ UNCHANGED <<closing, session, received, hangup>>
         /\ \/ UNCHANGED <<socket_, is_shutdown_, life>>
            \/ todo # <<>> /\ Head(todo) \in Conn /\ CloseInside(Head(todo)) /\ UNCHANGED life
            \/ Accept
<1> USE DEF sock, net, control
<1>1. CASE SelectEntry \/ ReadFences \/ CallSelect \/ SelectReturns
  BY Zenon, <1>1 DEF SelectEntry, ReadFences, CallSelect, SelectReturns
<1>2. CASE SwapTasks \/ RunTask \/ TasksDone \/ NothingToRead \/ EndOfPass
  BY Zenon, <1>2 DEF SwapTasks, RunTask, TasksDone, NothingToRead, EndOfPass
<1>3. CASE ProcessEntry
  BY Zenon, <1>3 DEF ProcessEntry
<1>4. CASE ProcessBody
  BY Zenon, <1>4, BodyCases DEF BodyLeaves, BodyCloses, BodyGoesOn
<1>5. CASE DoReceive
  BY Zenon, <1>5, ReceiveCases DEF ReceiveTakes, ReceiveCloses, ReceiveBlocks
<1>6. CASE Accept
  BY Zenon, <1>6 DEF Accept
<1> QED  BY Zenon, <1>1, <1>2, <1>3, <1>4, <1>5, <1>6 DEF ThreadMain

\* What becomes of the list of the pass.
LEMMA TodoSteps ==
  ASSUME TypeOK, Next
  PROVE  \/ UNCHANGED todo
         \/ todo # <<>> /\ todo' = Tail(todo)
         \/ todo' = selectables_
         \/ todo' = <<>>
<1>1. CASE Others
  BY Zenon, <1>1 DEF Others, AddConnection, AddConnectionPosts, Connect, Connected, Listen,
     Send, Close, CloseSocket, FlushAndClose, Arrive, HangUp, Post, PostDelayed, Expire,
     AwaitQuiescence, AwaitQuiescenceSignals, AwaitQuiescenceReturns, Stop, loop
<1>2. CASE SelectEntry \/ ReadFences \/ CallSelect \/ SelectReturns
  BY Zenon, <1>2 DEF SelectEntry, ReadFences, CallSelect, SelectReturns
<1>3. CASE SwapTasks \/ RunTask \/ EndOfPass
  BY Zenon, <1>3 DEF SwapTasks, RunTask, EndOfPass, loop
<1>4. CASE TasksDone \/ NothingToRead
  <2>1. todo # <<>>
    BY Zenon, <1>4 DEF TasksDone, NothingToRead, TypeOK, ShapeOK
  <2> QED  BY Zenon, <1>4, <2>1 DEF TasksDone, NothingToRead, Proceed
<1>5. CASE ProcessEntry
  BY Zenon, <1>5 DEF ProcessEntry
<1>6. CASE ProcessBody
  BY Zenon, <1>6, BodyCases DEF BodyLeaves, BodyCloses, BodyGoesOn
<1>7. CASE DoReceive
  BY Zenon, <1>7, ReceiveCases DEF ReceiveTakes, ReceiveCloses, ReceiveBlocks
<1>8. CASE Accept
  BY Zenon, <1>8, AcceptCases DEF AcceptTakes, AcceptBlocks
<1> QED
  BY Zenon, <1>1, <1>2, <1>3, <1>4, <1>5, <1>6, <1>7, <1>8 DEF Next, ThreadMain

\* What becomes of the list of the thread: an entry is erased when its pipe is closed or
\* when it is being closed.
LEMMA ListSteps ==
  ASSUME TypeOK, Next
  PROVE  \/ UNCHANGED selectables_
         \/ \E e \in Entry : /\ selectables_' = Without(e)
                             /\ pipe[e] = "closed" \/ (e \in Conn /\ is_shutdown_'[e])
         \/ \E c \in Conn : AddConnection(c)
<1>1. CASE Others
  BY Zenon, <1>1 DEF Others, AddConnectionPosts, Connect, Connected, Listen,
     Send, Close, CloseSocket, FlushAndClose, Arrive, HangUp, Post, PostDelayed, Expire,
     AwaitQuiescence, AwaitQuiescenceSignals, AwaitQuiescenceReturns, Stop
<1>2. CASE SelectEntry
  <2>1. todo # <<>> /\ Head(todo) \in Entry
    BY Zenon, <1>2, Behind DEF SelectEntry, TypeOK, LoopOK
  <2> QED  BY Zenon, <1>2, <2>1 DEF SelectEntry
<1>3. CASE ReadFences \/ CallSelect \/ SelectReturns
  BY Zenon, <1>3 DEF ReadFences, CallSelect, SelectReturns
<1>4. CASE SwapTasks \/ RunTask \/ TasksDone \/ NothingToRead \/ EndOfPass
  BY Zenon, <1>4 DEF SwapTasks, RunTask, TasksDone, NothingToRead, EndOfPass
<1>5. CASE ProcessEntry
  BY Zenon, <1>5, EntryCases DEF EntryDropped, EntryTaken
<1>6. CASE ProcessBody
  <2>1. Head(todo) \in Conn /\ Head(todo) \in Entry
    BY Zenon, <1>6, BodyCases DEF Entry
  <2>2. CASE BodyLeaves(Head(todo))
    BY Zenon, <2>1, <2>2 DEF BodyLeaves, sock
  <2>3. CASE BodyCloses(Head(todo))
    <3>1. is_shutdown_'[Head(todo)]
      BY Zenon, <2>1, <2>3, ClosedInside DEF BodyCloses, TypeOK
    <3> QED  BY Zenon, <2>1, <2>3, <3>1 DEF BodyCloses
  <2>4. CASE BodyGoesOn(Head(todo))
    BY Zenon, <2>4 DEF BodyGoesOn
  <2> QED  BY Zenon, <1>6, <2>2, <2>3, <2>4, BodyCases
<1>7. CASE DoReceive \/ Accept
  BY Zenon, <1>7 DEF DoReceive, Accept
<1> QED  BY Zenon, <1>1, <1>2, <1>3, <1>4, <1>5, <1>6, <1>7 DEF Next, ThreadMain

LEMMA NextOnce ==
  ASSUME TypeOK, ListInv, Next
  PROVE  OnceInv'
<1>1. selectables_ \in Seq(Entry) /\ todo \in Seq(Entry)
  BY Zenon DEF TypeOK, OwnersOK, LoopOK
<1>2. Distinct(selectables_) /\ Distinct(todo)
  BY Zenon DEF ListInv, OnceInv
<1>3. Distinct(selectables_')
  <2>1. CASE UNCHANGED selectables_
    BY Zenon, <1>2, <2>1
  <2>2. ASSUME NEW e, selectables_' = Without(e) PROVE Distinct(selectables_')
    BY Zenon, <1>1, <1>2, <2>2, Erased
  <2>3. ASSUME NEW c \in Conn, AddConnection(c) PROVE Distinct(selectables_')
    <3>1. c \notin Members(selectables_) /\ c \in Entry /\ selectables_' = Append(selectables_, c)
      BY Zenon, <2>3 DEF AddConnection, ListInv, LifeInv, Entry
    <3> QED  BY Zenon, <1>1, <1>2, <3>1, Appended
  <2> QED  BY Zenon, <2>1, <2>2, <2>3, ListSteps
<1>4. Distinct(todo')
  <2>1. todo # <<>> => Distinct(Tail(todo))
    BY Zenon, <1>1, <1>2, Behind
  <2> QED  BY Zenon, <1>2, <2>1, TodoSteps, Nothing
<1> QED  BY Zenon, <1>3, <1>4 DEF OnceInv

\* Most steps change little of what LifeInv speaks of.
LEMMA LifeKept ==
  ASSUME LifeInv, UNCHANGED <<life, session, hangup>>,
         Members(selectables_') \subseteq Members(selectables_),
         Members(todo') \subseteq Members(todo) \cup Members(selectables_),
         \A c \in Conn : /\ socket_'[c] = socket_[c] \/ socket_'[c] = 0
                         /\ is_shutdown_'[c] => is_shutdown_[c] \/ life[c] # "new"
                         /\ is_shutdown_[c] => is_shutdown_'[c]
                         /\ c \in closing' => c \in closing \/ is_shutdown_'[c]
  PROVE  LifeInv'
BY Zenon DEF LifeInv

\* The members of the lists after a step.
LEMMA MemberSteps ==
  ASSUME TypeOK, Next
  PROVE  /\ Members(todo') \subseteq Members(todo) \cup Members(selectables_)
         /\ \/ Members(selectables_') \subseteq Members(selectables_)
            \/ \E c \in Conn : /\ AddConnection(c)
                               /\ Members(selectables_') = Members(selectables_) \cup {c}
<1>1. selectables_ \in Seq(Entry) /\ todo \in Seq(Entry)
  BY Zenon DEF TypeOK, OwnersOK, LoopOK
<1>2. todo # <<>> => Members(Tail(todo)) \subseteq Members(todo)
  BY Zenon, <1>1, Behind
<1>3. Members(todo') \subseteq Members(todo) \cup Members(selectables_)
  BY Zenon, <1>2, TodoSteps, Nothing
<1>4. CASE UNCHANGED selectables_
  BY Zenon, <1>3, <1>4
<1>5. ASSUME NEW e, selectables_' = Without(e)
      PROVE  Members(selectables_') \subseteq Members(selectables_)
  BY Zenon, <1>1, <1>5, Erased
<1>6. ASSUME NEW c \in Conn, AddConnection(c)
      PROVE  Members(selectables_') = Members(selectables_) \cup {c}
  <2>1. c \in Entry /\ selectables_' = Append(selectables_, c)
    BY Zenon, <1>6 DEF AddConnection, Entry
  <2>2. Members(Append(selectables_, c)) = Members(selectables_) \cup {c}
    BY <1>1, <2>1, Appended
  <2> QED  BY Zenon, <2>1, <2>2
<1> QED  BY Zenon, <1>3, <1>4, <1>5, <1>6, ListSteps

\* The owners' steps that open, close or add a connection.
LEMMA OthersLife ==
  ASSUME TypeOK, LifeInv, Others
  PROVE  LifeInv'
<1> USE DEF sock, net, control
<1>1. /\ Members(todo') \subseteq Members(todo) \cup Members(selectables_)
      /\ \/ Members(selectables_') \subseteq Members(selectables_)
         \/ \E c \in Conn : /\ AddConnection(c)
                            /\ Members(selectables_') = Members(selectables_) \cup {c}
  BY Zenon, MemberSteps DEF Next
<1>2. /\ life \in [Conn -> Life] /\ socket_ \in [Conn -> Fd \cup {0}]
      /\ is_shutdown_ \in [Conn -> BOOLEAN] /\ hangup \in [Conn -> BOOLEAN]
  BY Zenon DEF TypeOK, SocketsOK, OwnersOK, NetOK
<1>3. ASSUME UNCHANGED <<life, session, hangup, socket_, is_shutdown_, closing, selectables_>>
      PROVE  LifeInv'
  BY Zenon, <1>1, <1>3, LifeKept
<1>4. ASSUME NEW c \in Conn, AddConnection(c) PROVE LifeInv'
  <2>1. /\ life[c] \in {"new", "accepted"} /\ c \in session.conns
        /\ life' = [life EXCEPT ![c] = IF life[c] = "new" THEN "appending" ELSE "adopting"]
        /\ UNCHANGED <<socket_, is_shutdown_, closing, hangup, session, todo>>
    BY Zenon, <1>4 DEF AddConnection, loop
  <2>2. /\ life'[c] = IF life[c] = "new" THEN "appending" ELSE "adopting"
        /\ \A d \in Conn \ {c} : life'[d] = life[d]
    BY Zenon, <1>2, <2>1
  <2>3. Members(selectables_') = Members(selectables_) \cup {c}
    <3>1. selectables_ \in Seq(Entry) /\ c \in Entry /\ selectables_' = Append(selectables_, c)
      BY Zenon, <1>4 DEF AddConnection, Entry, TypeOK, OwnersOK
    <3>2. Members(Append(selectables_, c)) = Members(selectables_) \cup {c}
      BY <3>1, Appended
    <3> QED  BY Zenon, <3>1, <3>2
  <2>4. ASSUME NEW d \in Conn, d # c
        PROVE  /\ d \in Members(selectables_') <=> d \in Members(selectables_)
               /\ life'[d] = life[d]
    BY Zenon, <2>2, <2>3, <2>4
  <2> QED  BY <2>1, <2>2, <2>3, <2>4 DEF LifeInv
<1>5. ASSUME NEW c \in Conn, AddConnectionPosts(c) PROVE LifeInv'
  <2>1. /\ life[c] \in {"appending", "adopting"}
        /\ life' = [life EXCEPT ![c] = IF life[c] = "appending" THEN "added" ELSE "up"]
        /\ UNCHANGED <<selectables_, socket_, is_shutdown_, closing, hangup, session, todo>>
    BY Zenon, <1>5 DEF AddConnectionPosts, loop
  <2>2. /\ life'[c] = IF life[c] = "appending" THEN "added" ELSE "up"
        /\ \A d \in Conn \ {c} : life'[d] = life[d]
    BY Zenon, <1>2, <2>1
  <2> QED  BY <2>1, <2>2 DEF LifeInv
<1>6. ASSUME NEW c \in Conn, Connect(c) \/ Listen(c) PROVE LifeInv'
  <2>1. /\ life[c] = "added"
        /\ life' = [life EXCEPT ![c] = "connecting"] \/ life' = [life EXCEPT ![c] = "up"]
        /\ Opens(c)
        /\ UNCHANGED <<selectables_, is_shutdown_, closing, hangup, session, todo>>
    BY Zenon, <1>6 DEF Connect, Listen, loop
  <2>2. /\ life'[c] \in {"connecting", "up"}
        /\ \A d \in Conn \ {c} : life'[d] = life[d] /\ socket_'[d] = socket_[d]
    BY Zenon, <1>2, <2>1, Opened DEF TypeOK
  <2> QED  BY Zenon, <2>1, <2>2 DEF LifeInv
<1>7. ASSUME NEW c \in Conn, Connected(c) PROVE LifeInv'
  <2>1. /\ life[c] = "connecting" /\ life' = [life EXCEPT ![c] = "up"]
        /\ UNCHANGED <<selectables_, socket_, is_shutdown_, closing, hangup, session, todo>>
    BY Zenon, <1>7 DEF Connected, loop
  <2>2. life'[c] = "up" /\ \A d \in Conn \ {c} : life'[d] = life[d]
    BY Zenon, <1>2, <2>1
  <2> QED  BY Zenon, <2>1, <2>2 DEF LifeInv
<1>8. ASSUME NEW c \in Conn, BeginClose(c), life[c] # "new",
             UNCHANGED <<life, session, hangup, socket_, selectables_>>
      PROVE  LifeInv'
  <2>1. /\ is_shutdown_' = [is_shutdown_ EXCEPT ![c] = TRUE]
        /\ closing' \subseteq closing \cup {c}
    BY Zenon, <1>8 DEF BeginClose
  <2>2. is_shutdown_'[c] /\ \A d \in Conn \ {c} : is_shutdown_'[d] = is_shutdown_[d]
    BY Zenon, <1>2, <2>1
  <2> QED  BY Zenon, <1>1, <1>8, <2>1, <2>2, LifeKept
<1>9. ASSUME NEW c \in Conn, Close(c) \/ FlushAndClose(c) PROVE LifeInv'
  <2>1. CASE BeginClose(c)
    <3>1. life[c] # "new" /\ UNCHANGED <<life, session, hangup, socket_, selectables_>>
      BY Zenon, <1>9 DEF Close, FlushAndClose
    <3> QED  BY Zenon, <1>8, <2>1, <3>1
  <2>2. CASE ~BeginClose(c)
    <3>1. UNCHANGED <<life, session, hangup, socket_, is_shutdown_, closing, selectables_>>
      BY Zenon, <1>9, <2>2 DEF Close, FlushAndClose
    <3> QED  BY Zenon, <1>3, <3>1
  <2> QED  BY Zenon, <2>1, <2>2
<1>10. ASSUME NEW c \in Conn, CloseSocket(c) PROVE LifeInv'
  <2>1. /\ closing' \subseteq closing /\ socket_' = [socket_ EXCEPT ![c] = 0]
        /\ UNCHANGED <<life, session, hangup, is_shutdown_, selectables_>>
    BY Zenon, <1>10 DEF CloseSocket
  <2>2. \A d \in Conn : socket_'[d] = socket_[d] \/ socket_'[d] = 0
    BY Zenon, <1>2, <2>1
  <2> QED  BY Zenon, <1>1, <2>1, <2>2, LifeKept
<1>11. ASSUME NEW c \in Conn, HangUp(c) PROVE LifeInv'
  <2>1. /\ c \in Stream /\ hangup' = [hangup EXCEPT ![c] = TRUE]
        /\ UNCHANGED <<life, session, socket_, is_shutdown_, closing, selectables_, todo>>
    BY Zenon, <1>11 DEF HangUp, loop
  <2>2. \A d \in Conn : hangup'[d] => hangup[d] \/ d \in Stream
    BY Zenon, <1>2, <2>1
  <2> QED  BY Zenon, <2>1, <2>2 DEF LifeInv
<1>12. ASSUME \/ \E c \in Conn : Send(c) \/ Arrive(c)
              \/ \E k \in Task : Post(k) \/ PostDelayed(k) \/ Expire(k)
              \/ \E w \in Waiter : \/ AwaitQuiescence(w) \/ AwaitQuiescenceSignals(w)
                                   \/ AwaitQuiescenceReturns(w)
              \/ Stop
       PROVE  LifeInv'
  <2>1. UNCHANGED <<life, session, hangup, socket_, is_shutdown_, closing, selectables_>>
    BY Zenon, <1>12 DEF Send, Arrive, Post, PostDelayed, Expire, AwaitQuiescence,
       AwaitQuiescenceSignals, AwaitQuiescenceReturns, Stop
  <2> QED  BY Zenon, <1>3, <2>1
<1> QED
  BY Zenon, <1>4, <1>5, <1>6, <1>7, <1>9, <1>10, <1>11, <1>12 DEF Others

\* The select thread closes an entry of the pass, or gives a client to a new connection.
LEMMA ThreadLife ==
  ASSUME TypeOK, LifeInv, ThreadMain
  PROVE  LifeInv'
<1>1. Next
  BY Zenon DEF Next
<1>2. CASE \E c \in Conn : AddConnection(c)
  BY Zenon, <1>2, OthersLife DEF Others
<1>3. CASE ~\E c \in Conn : AddConnection(c)
  <2>1. /\ Members(todo') \subseteq Members(todo) \cup Members(selectables_)
        /\ Members(selectables_') \subseteq Members(selectables_)
    BY Zenon, <1>1, <1>3, MemberSteps
  <2>2. UNCHANGED <<closing, session, hangup>>
    BY Zenon, ThreadSockets
  <2>3. CASE UNCHANGED <<socket_, is_shutdown_, life>>
    BY Zenon, <2>1, <2>2, <2>3, LifeKept
  <2>4. CASE /\ todo # <<>> /\ Head(todo) \in Conn
             /\ CloseInside(Head(todo)) /\ UNCHANGED life
    <3>1. Head(todo) \in Members(todo)
      BY <2>4, Behind DEF TypeOK, LoopOK
    <3>2. life[Head(todo)] # "new"
      BY Zenon, <2>4, <3>1 DEF LifeInv
    <3>3. /\ is_shutdown_'[Head(todo)] /\ socket_'[Head(todo)] = 0
          /\ \A d \in Conn \ {Head(todo)} : /\ is_shutdown_'[d] = is_shutdown_[d]
                                            /\ socket_'[d] = socket_[d]
      BY Zenon, <2>4, ClosedInside DEF TypeOK
    <3>4. \A d \in Conn : /\ socket_'[d] = socket_[d] \/ socket_'[d] = 0
                          /\ is_shutdown_'[d] => is_shutdown_[d] \/ life[d] # "new"
                          /\ is_shutdown_[d] => is_shutdown_'[d]
                          /\ d \in closing' => d \in closing \/ is_shutdown_'[d]
      <4> TAKE d \in Conn
      <4>1. CASE d = Head(todo)
        BY Zenon, <2>2, <3>2, <3>3, <4>1
      <4>2. CASE d # Head(todo)
        <5>1. is_shutdown_'[d] = is_shutdown_[d] /\ socket_'[d] = socket_[d]
          BY Zenon, <3>3, <4>2
        <5> QED  BY Zenon, <2>2, <5>1
      <4> QED  BY Zenon, <4>1, <4>2
    <3> QED  BY Zenon, <2>1, <2>2, <2>4, <3>4, LifeKept
  <2>5. CASE Accept
    <3>1. UNCHANGED is_shutdown_
      BY Zenon, <2>5, AcceptCases
    <3>2. CASE UNCHANGED <<socket_, life>>
      BY Zenon, <2>3, <3>1, <3>2
    <3>3. CASE ~UNCHANGED <<socket_, life>>
      <4>1. PICK s \in Stream \cap session.conns :
              life[s] = "new" /\ Opens(s) /\ life' = [life EXCEPT ![s] = "accepted"]
        BY Zenon, <2>5, <3>3, AcceptCases DEF AcceptTakes, AcceptBlocks
      <4>2. s \in Conn /\ life \in [Conn -> Life]
        BY Zenon DEF Conn, TypeOK, OwnersOK
      <4>3. /\ life'[s] = "accepted"
            /\ \A d \in Conn \ {s} : life'[d] = life[d] /\ socket_'[d] = socket_[d]
        BY Zenon, <4>1, <4>2, Opened DEF TypeOK
      <4>4. s \notin Members(selectables_) /\ ~is_shutdown_[s]
        BY Zenon, <4>1, <4>2 DEF LifeInv
      <4> QED  BY Zenon, <2>1, <2>2, <3>1, <4>1, <4>2, <4>3, <4>4 DEF LifeInv
    <3> QED  BY Zenon, <3>2, <3>3
  <2> QED  BY Zenon, <2>3, <2>4, <2>5, ThreadSockets
<1> QED  BY Zenon, <1>2, <1>3

\* What becomes of the sockets in a step: one is closed with its connection, or one is
\* opened with a descriptor nobody has.
Closes(c) ==
  /\ is_shutdown_'[c] /\ (socket_'[c] = socket_[c] \/ socket_'[c] = 0)
  /\ \A d \in Conn \ {c} : socket_'[d] = socket_[d] /\ is_shutdown_'[d] = is_shutdown_[d]
OpensNew(c) ==
  /\ ~is_shutdown_[c] /\ socket_[c] = 0 /\ \A d \in Conn : socket_[d] # socket_'[c]
  /\ \A d \in Conn \ {c} : socket_'[d] = socket_[d]
  /\ UNCHANGED is_shutdown_
SocketStep ==
  \/ UNCHANGED <<socket_, is_shutdown_>>
  \/ \E c \in Conn : Closes(c)
  \/ \E c \in Conn : OpensNew(c)

LEMMA OthersSockets ==
  ASSUME TypeOK, LifeInv, Others
  PROVE  SocketStep
<1>1. SocketsOK /\ is_shutdown_ \in [Conn -> BOOLEAN] /\ socket_ \in [Conn -> Fd \cup {0}]
  BY Zenon DEF TypeOK, SocketsOK
<1>2. ASSUME NEW c \in Conn, Connect(c) \/ Listen(c) PROVE OpensNew(c)
  <2>1. Opens(c) /\ life[c] = "added" /\ ~is_shutdown_[c] /\ UNCHANGED is_shutdown_
    BY Zenon, <1>2 DEF Connect, Listen
  <2>2. socket_[c] = 0
    BY Zenon, <2>1 DEF LifeInv
  <2> QED  BY Zenon, <1>1, <2>1, <2>2, Opened DEF OpensNew
<1>3. ASSUME NEW c \in Conn, BeginClose(c), UNCHANGED socket_ PROVE Closes(c)
  BY Zenon, <1>1, <1>3 DEF BeginClose, Closes
<1>4. ASSUME NEW c \in Conn, CloseSocket(c) PROVE Closes(c)
  <2>1. is_shutdown_[c] /\ UNCHANGED is_shutdown_ /\ socket_' = [socket_ EXCEPT ![c] = 0]
    BY Zenon, <1>4 DEF CloseSocket, LifeInv
  <2> QED  BY Zenon, <1>1, <2>1 DEF Closes
<1>5. ASSUME NEW c \in Conn, Close(c) \/ FlushAndClose(c) PROVE SocketStep
  <2>1. UNCHANGED socket_ /\ (BeginClose(c) \/ UNCHANGED is_shutdown_)
    BY Zenon, <1>5 DEF Close, FlushAndClose
  <2> QED  BY Zenon, <1>3, <2>1 DEF SocketStep
<1>6. ASSUME NEW c \in Conn,
             AddConnection(c) \/ AddConnectionPosts(c) \/ Connected(c) \/ Send(c)
               \/ Arrive(c) \/ HangUp(c)
      PROVE  SocketStep
  BY Zenon, <1>6 DEF AddConnection, AddConnectionPosts, Connected, Send, Arrive, HangUp, sock,
     SocketStep
<1>7. ASSUME \/ \E k \in Task : Post(k) \/ PostDelayed(k) \/ Expire(k)
             \/ \E w \in Waiter : \/ AwaitQuiescence(w) \/ AwaitQuiescenceSignals(w)
                                  \/ AwaitQuiescenceReturns(w)
             \/ Stop
      PROVE  SocketStep
  BY Zenon, <1>7 DEF Post, PostDelayed, Expire, AwaitQuiescence, AwaitQuiescenceSignals,
     AwaitQuiescenceReturns, Stop, sock, SocketStep
<1> QED  BY Zenon, <1>2, <1>4, <1>5, <1>6, <1>7 DEF Others, SocketStep

LEMMA NextSockets ==
  ASSUME TypeOK, LifeInv, Next
  PROVE  SocketStep
<1>1. ASSUME Accept PROVE SocketStep
  <2>1. UNCHANGED is_shutdown_
    BY Zenon, <1>1, AcceptCases
  <2>2. ASSUME NEW s \in Stream, life[s] = "new", Opens(s) PROVE SocketStep
    <3>1. s \in Conn /\ socket_[s] = 0 /\ ~is_shutdown_[s]
      BY Zenon, <2>2 DEF Conn, LifeInv
    <3> QED  BY Zenon, <2>1, <2>2, <3>1, Opened DEF OpensNew, SocketStep, TypeOK
  <2> QED
    BY Zenon, <1>1, <2>1, <2>2, AcceptCases DEF AcceptTakes, AcceptBlocks, SocketStep
<1>2. ASSUME NEW c \in Conn, CloseInside(c) PROVE Closes(c)
  BY Zenon, <1>2, ClosedInside DEF Closes, TypeOK
<1>3. CASE ThreadMain
  BY Zenon, <1>1, <1>2, <1>3, ThreadSockets DEF SocketStep
<1> QED  BY Zenon, <1>3, OthersSockets DEF Next

\* Open sockets keep different descriptors.
LEMMA SocketsDiffer ==
  ASSUME SocketInv, SocketStep
  PROVE  SocketInv'
<1>1. ASSUME NEW c \in Conn, Closes(c) PROVE SocketInv'
  BY Zenon, <1>1 DEF SocketInv, Closes
<1>2. ASSUME NEW c \in Conn, OpensNew(c) PROVE SocketInv'
  BY Zenon, <1>2 DEF SocketInv, OpensNew
<1> QED  BY Zenon, <1>1, <1>2 DEF SocketStep, SocketInv

LEMMA NextList ==
  ASSUME TypeOK, ListInv, Next
  PROVE  ListInv'
<1>1. LifeInv'
  BY Zenon, OthersLife, ThreadLife DEF Next, ListInv
<1>2. SocketInv'
  BY Zenon, NextSockets, SocketsDiffer DEF ListInv
<1> QED  BY Zenon, <1>1, <1>2, NextOnce DEF ListInv

-----------------------------------------------------------------------------
(* The select thread blocks only on a number that changed hands            *)

\* What the other threads leave alone, and what only grows.
LEMMA OthersFrame ==
  ASSUME TypeOK, Others
  PROVE  /\ UNCHANGED <<at, todo, sets, files, soonest_scheduled, has_fences, fds>>
         /\ UNCHANGED <<consumed, tasks_to_run, ran, running_, session>>
         /\ \A c \in Conn : received'[c] >= received[c] /\ (hangup[c] => hangup'[c])
<1> USE DEF net, tasking, loop, control
<1>1. received \in [Conn -> Nat] /\ hangup \in [Conn -> BOOLEAN]
  BY Zenon DEF TypeOK, NetOK
<1>2. /\ UNCHANGED <<at, todo, sets, files, soonest_scheduled, has_fences, fds>>
      /\ UNCHANGED <<consumed, tasks_to_run, ran, running_, session>>
  BY Zenon DEF Others, AddConnection, AddConnectionPosts, Connect, Connected, Listen, Send,
     Close, CloseSocket, FlushAndClose, Arrive, HangUp, Post, PostDelayed, Expire,
     AwaitQuiescence, AwaitQuiescenceSignals, AwaitQuiescenceReturns, Stop
<1>3. ASSUME NEW c \in Conn, Arrive(c)
      PROVE  \A d \in Conn : received'[d] >= received[d] /\ (hangup[d] => hangup'[d])
  <2>1. received' = [received EXCEPT ![c] = @ + 1] /\ UNCHANGED hangup
    BY Zenon, <1>3 DEF Arrive
  <2> QED  BY <1>1, <2>1
<1>4. ASSUME NEW c \in Conn, HangUp(c)
      PROVE  \A d \in Conn : received'[d] >= received[d] /\ (hangup[d] => hangup'[d])
  <2>1. hangup' = [hangup EXCEPT ![c] = TRUE] /\ UNCHANGED received
    BY Zenon, <1>4 DEF HangUp
  <2> QED  BY <1>1, <2>1
<1>5. ASSUME UNCHANGED <<received, hangup>>
      PROVE  \A d \in Conn : received'[d] >= received[d] /\ (hangup[d] => hangup'[d])
  BY <1>1, <1>5
<1>6. \/ UNCHANGED <<received, hangup>>
      \/ \E c \in Conn : Arrive(c) \/ HangUp(c)
  BY Zenon DEF Others, AddConnection, AddConnectionPosts, Connect, Connected, Listen, Send,
     Close, CloseSocket, FlushAndClose, Post, PostDelayed, Expire,
     AwaitQuiescence, AwaitQuiescenceSignals, AwaitQuiescenceReturns, Stop
<1> QED  BY Zenon, <1>2, <1>3, <1>4, <1>5, <1>6

\* What is closed stays closed, and a number that changed hands has changed hands.
LEMMA ReusedKept ==
  ASSUME SocketStep
  PROVE  /\ \A d \in Conn : Gone(d) => Gone(d)'
         /\ \A c \in Conn : Reused(c) /\ UNCHANGED files /\ socket_'[c] = socket_[c] => Reused(c)'
<1>1. \A d \in Conn : Gone(d) => Gone(d)'
  BY Zenon DEF SocketStep, Closes, OpensNew, Gone
<1> QED  BY Zenon, <1>1 DEF Reused

\* What select reported stays so: a socket changes hands only after a close.
LEMMA ReadKept ==
  ASSUME TypeOK, TypeOK', ReadInv, SocketStep, UNCHANGED <<files, sets>>,
         at' = "blocked" => at = "blocked", at' \in Processing => at \in Processing,
         Members(todo') \subseteq Members(todo),
         \A c \in Conn : c \in Members(todo') =>
           /\ received'[c] >= received[c] /\ consumed'[c] = consumed[c]
           /\ hangup[c] => hangup'[c]
  PROVE  ReadInv'
<1>1. \A d \in Conn : Gone(d) => Gone(d)'
  BY Zenon, ReusedKept
<1>2. ASSUME NEW d \in Conn, NEW fd, socket_[d] = fd, fd # 0
      PROVE  socket_'[d] = fd \/ Gone(d)'
  BY Zenon, <1>2 DEF SocketStep, Closes, OpensNew, Gone
<1>3. ASSUME at' = "blocked" \/ at' \in Processing, NEW f \in files
      PROVE  socket_'[f[2]] = f[1] \/ Gone(f[2])'
  <2>1. f[2] \in Conn /\ f[1] \in Fd /\ f[1] # 0
    BY <1>3 DEF TypeOK, LoopOK, Fd
  <2>2. socket_[f[2]] = f[1] \/ Gone(f[2])
    BY Zenon, <1>3 DEF ReadInv
  <2> QED  BY Zenon, <1>1, <1>2, <2>1, <2>2
<1>4. ASSUME at' \in Processing, NEW fd \in sets.read
      PROVE  \E d \in Conn : <<fd, d>> \in files'
  BY Zenon, <1>4 DEF ReadInv
<1>5. ASSUME at' \in Processing, NEW c \in Conn, c \in Members(todo'), socket_'[c] \in sets.read
      PROVE  received'[c] > consumed'[c] \/ hangup'[c] \/ Reused(c)'
  <2>1. /\ received'[c] >= received[c] /\ consumed'[c] = consumed[c]
        /\ hangup[c] => hangup'[c]
    BY Zenon, <1>5
  <2>2. received[c] \in Nat /\ consumed[c] \in Nat /\ received'[c] \in Nat /\ socket_'[c] # 0
    BY <1>5 DEF TypeOK, NetOK, LoopOK, Fd
  <2>3. received[c] > consumed[c] => received'[c] > consumed'[c]
    BY <2>1, <2>2
  <2>4. CASE socket_'[c] = socket_[c]
    <3>1. received[c] > consumed[c] \/ hangup[c] \/ Reused(c)
      BY Zenon, <1>5, <2>4 DEF ReadInv
    <3> QED  BY Zenon, <2>1, <2>3, <2>4, <3>1, ReusedKept
  <2>5. CASE socket_'[c] # socket_[c]
    <3>1. OpensNew(c)
      BY Zenon, <2>2, <2>5 DEF SocketStep, Closes, OpensNew
    <3>2. PICK d \in Conn : <<socket_'[c], d>> \in files
      BY Zenon, <1>5 DEF ReadInv
    <3>3. PICK f \in files : f[1] = socket_'[c] /\ f[2] = d
      BY Zenon, <3>2
    <3>4. socket_[d] = socket_'[c] \/ Gone(d)
      BY Zenon, <1>5, <3>3 DEF ReadInv
    <3>5. Gone(d) /\ d # c
      BY Zenon, <3>1, <3>4 DEF OpensNew, Gone
    <3> QED  BY Zenon, <1>1, <3>2, <3>5 DEF Reused
  <2> QED  BY Zenon, <2>4, <2>5
<1> QED  BY Zenon, <1>3, <1>4, <1>5 DEF ReadInv

\* What the select reports: each descriptor was the socket of the connection that has
\* something to read, unless somebody closed it.
LEMMA SelectReports ==
  ASSUME TypeOK, SocketInv, ReadInv, SelectReturns
  PROVE  ReadInv'
<1>1. /\ at = "blocked" /\ at' = "process" /\ sets'.read = ReadyToRead
      /\ UNCHANGED <<socket_, is_shutdown_, received, consumed, hangup, files>>
  BY Zenon DEF SelectReturns, Ready, sock, net
<1>2. ASSUME NEW fd \in ReadyToRead
      PROVE  \E d \in Conn : /\ fd # 0 /\ <<fd, d>> \in files
                             /\ socket_[d] = fd \/ Gone(d)
                             /\ received[d] > consumed[d] \/ hangup[d] \/ socket_[d] = 0
  <2>1. PICK f \in files : /\ fd = f[1]
                           /\ \/ received[f[2]] > consumed[f[2]] \/ hangup[f[2]]
                              \/ socket_[f[2]] = 0
    BY Zenon DEF ReadyToRead
  <2>2. f[2] \in Conn /\ f[1] \in Fd /\ f[1] # 0 /\ f = <<f[1], f[2]>>
    BY <2>1 DEF TypeOK, LoopOK, Fd
  <2>3. socket_[f[2]] = f[1] \/ Gone(f[2])
    BY Zenon, <1>1 DEF ReadInv
  <2> QED  BY Zenon, <2>1, <2>2, <2>3
<1>3. ASSUME NEW c \in Conn, socket_[c] \in ReadyToRead
      PROVE  received[c] > consumed[c] \/ hangup[c] \/ Reused(c)
  <2>1. PICK d \in Conn : /\ socket_[c] # 0 /\ <<socket_[c], d>> \in files
                          /\ socket_[d] = socket_[c] \/ Gone(d)
                          /\ received[d] > consumed[d] \/ hangup[d] \/ socket_[d] = 0
    BY Zenon, <1>2, <1>3
  <2>2. CASE d = c
    BY Zenon, <2>1, <2>2
  <2>3. CASE d # c
    BY Zenon, <2>1, <2>3 DEF SocketInv, Reused
  <2> QED  BY Zenon, <2>2, <2>3
<1>4. \A c : (Gone(c)' <=> Gone(c)) /\ (Reused(c) => Reused(c)')
  BY Zenon, <1>1 DEF Gone, Reused
<1>5. \A f \in files' : socket_'[f[2]] = f[1] \/ Gone(f[2])'
  BY Zenon, <1>1, <1>4 DEF ReadInv
<1>6. \A fd \in sets'.read : \E d \in Conn : <<fd, d>> \in files'
  BY Zenon, <1>1, <1>2
<1>7. \A c \in Conn : socket_'[c] \in sets'.read =>
        received'[c] > consumed'[c] \/ hangup'[c] \/ Reused(c)'
  BY Zenon, <1>1, <1>3, <1>4
<1> QED  BY Zenon, <1>5, <1>6, <1>7 DEF ReadInv

\* Process takes what there is to read and leaves the entry.
LEMMA ProcessReads ==
  ASSUME TypeOK, TypeOK', ListInv, ReadInv, SocketStep, DoReceive \/ Accept
  PROVE  ReadInv'
<1>1. /\ at \in {"read", "recv"} /\ todo # <<>> /\ Head(todo) \in Conn
      /\ UNCHANGED <<received, hangup, sets, files>>
  BY Zenon, ReceiveCases, AcceptCases DEF Conn
<1>2. /\ at' \in {"process", "recv"} /\ todo' \in {todo, Tail(todo)}
      /\ UNCHANGED consumed
           \/ (consumed' = [consumed EXCEPT ![Head(todo)] = @ + 1] /\ todo' = Tail(todo))
  BY Zenon, ReceiveCases, AcceptCases
     DEF ReceiveTakes, ReceiveCloses, ReceiveBlocks, AcceptTakes, AcceptBlocks
<1>3. /\ Members(Tail(todo)) \subseteq Members(todo)
      /\ Head(todo) \notin Members(Tail(todo))
  <2>1. todo \in Seq(Entry) /\ Distinct(todo)
    BY Zenon DEF TypeOK, LoopOK, ListInv, OnceInv
  <2> QED  BY Zenon, <1>1, <2>1, Behind
<1>4. received \in [Conn -> Nat] /\ consumed \in [Conn -> Nat]
  BY Zenon DEF TypeOK, NetOK
<1>5. \A c \in Conn : c \in Members(todo') => consumed'[c] = consumed[c]
  BY Zenon, <1>2, <1>3, <1>4
<1>6. \A c \in Conn : received'[c] >= received[c] /\ (hangup[c] => hangup'[c])
  BY <1>1, <1>4
<1>7. at \in Processing /\ at' # "blocked" /\ Members(todo') \subseteq Members(todo)
  BY Zenon, <1>1, <1>2, <1>3 DEF Processing
<1> QED  BY Zenon, <1>1, <1>5, <1>6, <1>7, ReadKept

\* The rest of the second pass.
LEMMA PassReads ==
  ASSUME TypeOK, TypeOK', ReadInv, SocketStep,
         ProcessEntry \/ SwapTasks \/ RunTask \/ TasksDone \/ ProcessBody \/ NothingToRead
  PROVE  ReadInv'
<1>1. /\ UNCHANGED <<received, hangup, consumed, sets, files>>
      /\ at \in Processing /\ at' # "blocked"
  <2>1. CASE SwapTasks \/ RunTask \/ TasksDone \/ NothingToRead
    BY Zenon, <2>1 DEF SwapTasks, RunTask, TasksDone, NothingToRead, Proceed, net, loop, Processing
  <2>2. CASE ProcessEntry
    BY Zenon, <2>2, EntryCases DEF EntryDropped, EntryTaken, ProcessEntry, net, Processing
  <2>3. CASE ProcessBody
    BY Zenon, <2>3, BodyCases DEF BodyLeaves, BodyCloses, BodyGoesOn, ProcessBody, net, Processing
  <2> QED  BY Zenon, <2>1, <2>2, <2>3
<1>2. Members(todo') \subseteq Members(todo)
  <2>1. todo' = todo \/ (todo # <<>> /\ todo' = Tail(todo))
    <3>1. todo # <<>>
      BY Zenon, BodyCases, EntryCases DEF SwapTasks, RunTask, TasksDone, NothingToRead, TypeOK, ShapeOK
    <3>2. todo' \in {todo, Tail(todo)}
      BY Zenon, BodyCases, EntryCases DEF SwapTasks, RunTask, TasksDone, NothingToRead, Proceed,
         EntryDropped, EntryTaken, BodyLeaves, BodyCloses, BodyGoesOn, loop
    <3> QED  BY Zenon, <3>1, <3>2
  <2>2. todo # <<>> => Members(Tail(todo)) \subseteq Members(todo)
    BY Behind DEF TypeOK, LoopOK
  <2> QED  BY Zenon, <2>1, <2>2
<1>3. \A c \in Conn : received'[c] >= received[c] /\ (hangup[c] => hangup'[c])
  BY <1>1 DEF TypeOK, NetOK
<1> QED  BY Zenon, <1>1, <1>2, <1>3, ReadKept

LEMMA NextReads ==
  ASSUME TypeOK, TypeOK', ListInv, ReadInv, Next
  PROVE  ReadInv'
<1>1. SocketStep
  BY Zenon, NextSockets DEF ListInv
<1>2. CASE Others
  BY Zenon, <1>1, <1>2, OthersFrame, ReadKept
<1>3. CASE SelectEntry \/ ReadFences \/ EndOfPass
  <2>1. at' \notin Processing /\ at' # "blocked"
    BY Zenon, <1>3 DEF SelectEntry, ReadFences, EndOfPass, Processing
  <2> QED  BY Zenon, <2>1 DEF ReadInv
<1>4. CASE CallSelect
  <2>1. /\ at' \notin Processing /\ UNCHANGED socket_
        /\ at' = "blocked" =>
             files' = {f \in Fd \X Conn : f[1] \in sets.read /\ socket_[f[2]] = f[1]}
    BY Zenon, <1>4 DEF CallSelect, Processing, sock
  <2> QED  BY Zenon, <2>1 DEF ReadInv
<1> QED
  BY Zenon, <1>1, <1>2, <1>3, <1>4, SelectReports, ProcessReads, PassReads
     DEF Next, ThreadMain, ListInv

\* Nobody closes or opens the socket the select thread reads from.
LEMMA HeldKept ==
  ASSUME TypeOK, LifeInv, Others, at = "recv", socket_[Head(todo)] # 0
  PROVE  Head(todo) \in Conn /\ socket_'[Head(todo)] = socket_[Head(todo)]
<1>1. Head(todo) \in Conn
  BY Zenon DEF TypeOK, ShapeOK
<1>2. ASSUME NEW c \in Conn, c # Head(todo), NEW fd, socket_' = [socket_ EXCEPT ![c] = fd]
      PROVE  socket_'[Head(todo)] = socket_[Head(todo)]
  BY Zenon, <1>1, <1>2 DEF TypeOK, SocketsOK
<1>3. ASSUME NEW c \in Conn, Connect(c) \/ Listen(c)
      PROVE  socket_'[Head(todo)] = socket_[Head(todo)]
  <2>1. c # Head(todo)
    BY Zenon, <1>3 DEF Connect, Listen, LifeInv
  <2> QED  BY Zenon, <1>2, <1>3, <2>1 DEF Connect, Listen, Opens
<1>4. ASSUME NEW c \in Conn, CloseSocket(c)
      PROVE  socket_'[Head(todo)] = socket_[Head(todo)]
  <2>1. c # Head(todo)
    BY Zenon, <1>4 DEF CloseSocket, Held
  <2> QED  BY Zenon, <1>2, <1>4, <2>1 DEF CloseSocket
<1>5. \/ UNCHANGED socket_
      \/ \E c \in Conn : Connect(c) \/ Listen(c) \/ CloseSocket(c)
  BY Zenon DEF Others, AddConnection, AddConnectionPosts, Connected, Send, Close, FlushAndClose,
     Arrive, HangUp, Post, PostDelayed, Expire, AwaitQuiescence, AwaitQuiescenceSignals,
     AwaitQuiescenceReturns, Stop, sock
<1> QED  BY Zenon, <1>1, <1>3, <1>4, <1>5

\* The thread goes to block when select reported a descriptor that has changed hands,
\* and keeps socket_lock_ while it blocks.
LEMMA NextBlocks ==
  ASSUME TypeOK, ListInv, ReadInv, BlocksOnlyOnReused, Next
  PROVE  BlocksOnlyOnReused'
<1>1. \A c \in Conn : Reused(c) /\ UNCHANGED files /\ socket_'[c] = socket_[c] => Reused(c)'
  BY Zenon, NextSockets, ReusedKept DEF ListInv
<1>2. BlocksOnlyOnReused <=> (at = "recv" => Reused(Head(todo)))
  BY Zenon DEF BlocksOnlyOnReused, Reused, Gone
<1>3. BlocksOnlyOnReused' <=> (at' = "recv" => Reused(Head(todo))')
  BY Zenon DEF BlocksOnlyOnReused, Reused, Gone
<1>4. ASSUME ReceiveBlocks(Head(todo)) \/ AcceptBlocks(Head(todo)), todo # <<>>,
             Head(todo) \in Conn, Head(todo) \in Server \/ ~hangup[Head(todo)],
             UNCHANGED <<files, is_shutdown_>>
      PROVE  BlocksOnlyOnReused'
  <2>1. /\ at = "read" /\ consumed[Head(todo)] = received[Head(todo)]
        /\ UNCHANGED <<todo, socket_>> /\ socket_[Head(todo)] \in sets.read
    BY Zenon, <1>4 DEF ReceiveBlocks, AcceptBlocks, Readable
  <2>2. at \in Processing /\ Head(todo) \in Members(todo)
    BY <1>4, <2>1, Behind DEF Processing, TypeOK, LoopOK
  <2>3. ~hangup[Head(todo)]
    BY Zenon, <1>4, SelectAssumption DEF ListInv, LifeInv, Conn
  <2>4. ~(received[Head(todo)] > consumed[Head(todo)])
    BY <1>4, <2>1 DEF TypeOK, NetOK
  <2>5. Reused(Head(todo))
    BY Zenon, <1>4, <2>1, <2>2, <2>3, <2>4 DEF ReadInv
  <2> QED  BY Zenon, <1>4, <2>1, <2>5 DEF BlocksOnlyOnReused, Reused, Gone
<1>5. CASE Others
  <2>1. UNCHANGED <<at, todo, files>>
    BY Zenon, <1>5, OthersFrame
  <2>2. at = "recv" => socket_[Head(todo)] # 0
    <3>1. \A f \in files : f[1] # 0
      BY DEF TypeOK, LoopOK, Fd
    <3> QED  BY Zenon, <1>2, <3>1 DEF Reused
  <2>3. at = "recv" => Head(todo) \in Conn /\ socket_'[Head(todo)] = socket_[Head(todo)]
    BY Zenon, <1>5, <2>2, HeldKept DEF ListInv
  <2> QED  BY Zenon, <1>1, <1>2, <1>3, <2>1, <2>3
<1>6. CASE DoReceive
  <2>1. at' = "process" \/ ReceiveBlocks(Head(todo))
    BY Zenon, <1>6, ReceiveCases DEF ReceiveTakes, ReceiveCloses
  <2>2. CASE at' = "process"
    BY Zenon, <2>2 DEF BlocksOnlyOnReused
  <2>3. CASE ReceiveBlocks(Head(todo))
    BY Zenon, <1>4, <1>6, <2>3, ReceiveCases DEF ReceiveBlocks, Conn
  <2> QED  BY Zenon, <2>1, <2>2, <2>3
<1>7. CASE Accept
  <2>1. at' = "process" \/ AcceptBlocks(Head(todo))
    BY Zenon, <1>7, AcceptCases DEF AcceptTakes
  <2>2. CASE at' = "process"
    BY Zenon, <2>2 DEF BlocksOnlyOnReused
  <2>3. CASE AcceptBlocks(Head(todo))
    BY Zenon, <1>4, <1>7, <2>3, AcceptCases DEF Conn
  <2> QED  BY Zenon, <2>1, <2>2, <2>3
<1>8. CASE \/ SelectEntry \/ ReadFences \/ CallSelect \/ SelectReturns
           \/ SwapTasks \/ RunTask \/ TasksDone \/ NothingToRead \/ EndOfPass
  <2>1. at' # "recv"
    BY Zenon, <1>8 DEF SelectEntry, ReadFences, CallSelect, SelectReturns, SwapTasks, RunTask,
       TasksDone, NothingToRead, EndOfPass, Proceed, loop
  <2> QED  BY Zenon, <2>1 DEF BlocksOnlyOnReused
<1>9. CASE ProcessEntry \/ ProcessBody
  <2>1. at' # "recv"
    BY Zenon, <1>9, EntryCases, BodyCases DEF EntryDropped, EntryTaken, BodyLeaves, BodyCloses,
       BodyGoesOn
  <2> QED  BY Zenon, <2>1 DEF BlocksOnlyOnReused
<1> QED  BY Zenon, <1>5, <1>6, <1>7, <1>8, <1>9 DEF Next, ThreadMain

LEMMA InitBlock ==
  ASSUME Init
  PROVE  NoBlockInv
<1>1. TypeOK
  BY Zenon, InitType
<1>2. /\ selectables_ = <<Signaller>> /\ todo = <<Signaller>> /\ at = "pass"
      /\ socket_ = [c \in Conn |-> 0] /\ is_shutdown_ = [c \in Conn |-> FALSE]
      /\ hangup = [c \in Conn |-> FALSE] /\ life = [c \in Conn |-> "new"] /\ closing = {}
  BY Zenon DEF Init
<1>3. OnceInv
  BY <1>2 DEF OnceInv, Distinct
<1>4. Members(<<Signaller>>) = {Signaller}
  BY DEF Members
<1>5. LifeInv
  BY Zenon, <1>2, <1>4, SelectAssumption DEF LifeInv
<1>6. SocketInv
  BY Zenon, <1>2 DEF SocketInv
<1>7. ReadInv /\ BlocksOnlyOnReused
  BY Zenon, <1>2 DEF ReadInv, Processing, BlocksOnlyOnReused
<1> QED  BY Zenon, <1>1, <1>3, <1>5, <1>6, <1>7 DEF NoBlockInv, ListInv

\* NoBlockInv relates the two lists, the sockets, what select reported and what was closed,
\* for any number of connections and servers, through every interleaving of the select
\* thread with those who add, open, write to and close connections.
THEOREM BlockInductive == Spec => []NoBlockInv
<1>1. ASSUME NoBlockInv, Next PROVE NoBlockInv'
  <2>1. TypeOK'
    BY Zenon, <1>1, NextType DEF NoBlockInv
  <2> QED  BY Zenon, <1>1, <2>1, NextList, NextReads, NextBlocks DEF NoBlockInv
<1>2. ASSUME NoBlockInv, UNCHANGED vars PROVE NoBlockInv'
  <2>1. TypeOK'
    BY Zenon, <1>2, NextType DEF NoBlockInv
  <2>2. ListInv' /\ ReadInv' /\ BlocksOnlyOnReused'
    BY Zenon, <1>2 DEF NoBlockInv, vars, sock, net, loop, control, ListInv, OnceInv, LifeInv,
       SocketInv, ReadInv, Gone, Reused, BlocksOnlyOnReused
  <2> QED  BY Zenon, <2>1, <2>2 DEF NoBlockInv
<1> QED  BY <1>1, <1>2, InitBlock, PTL DEF Spec

\* SelectableBase::Process "processes pending data as indicated in the given fd_sets": for
\* any connections and servers, closed and opened at any moment, the select thread blocks in
\* recv or accept only when select found another connection, since closed, under the number.
THEOREM BlocksOnReused == Spec => []BlocksOnlyOnReused
<1>1. NoBlockInv => BlocksOnlyOnReused
  BY Zenon DEF NoBlockInv
<1> QED  BY <1>1, BlockInductive, PTL

-----------------------------------------------------------------------------
(* An empty select settles the fences                                      *)

\* What becomes of the pipes in a step: nothing, a signal, a close, or the byte is read.
PipeCloses(c) ==
  /\ pipe' = [pipe EXCEPT ![c] = "closed"]
  /\ is_shutdown_' = [is_shutdown_ EXCEPT ![c] = TRUE]
PipeStep ==
  \/ UNCHANGED <<pipe, is_shutdown_>>
  \/ \E e \in Entry : pipe' = Signalled(pipe, e) /\ UNCHANGED is_shutdown_
  \/ \E c \in Conn : PipeCloses(c)
  \/ /\ at = "process" /\ todo # <<>> /\ pipe' = Drained(Head(todo))
     /\ at' = IF Head(todo) = Signaller THEN "swap" ELSE "body"
     /\ UNCHANGED is_shutdown_

LEMMA NextPipes ==
  ASSUME TypeOK, Next
  PROVE  PipeStep
<1>1. Signaller \in Entry /\ \A c \in Conn : c \in Entry
  BY Zenon DEF Entry
<1>2. ASSUME NEW c \in Conn,
             AddConnection(c) \/ Connect(c) \/ Listen(c) \/ CloseSocket(c) \/ Arrive(c)
               \/ HangUp(c)
      PROVE  PipeStep
  BY Zenon, <1>2 DEF AddConnection, Connect, Listen, CloseSocket, Arrive, HangUp, sock, PipeStep
<1>3. ASSUME NEW c \in Conn, AddConnectionPosts(c) \/ Connected(c) \/ Send(c)
      PROVE  PipeStep
  BY Zenon, <1>1, <1>3 DEF AddConnectionPosts, Connected, Send, Enqueue, PipeStep
<1>4. ASSUME NEW c \in Conn, Close(c) \/ FlushAndClose(c) PROVE PipeStep
  <2>1. BeginClose(c) \/ UNCHANGED <<pipe, is_shutdown_>>
    BY Zenon, <1>4 DEF Close, FlushAndClose
  <2> QED  BY Zenon, <2>1 DEF BeginClose, PipeCloses, PipeStep
<1>5. ASSUME \/ \E k \in Task : Post(k) \/ PostDelayed(k) \/ Expire(k)
             \/ \E w \in Waiter : \/ AwaitQuiescence(w) \/ AwaitQuiescenceSignals(w)
                                  \/ AwaitQuiescenceReturns(w)
             \/ Stop
      PROVE  PipeStep
  BY Zenon, <1>1, <1>5 DEF Post, PostDelayed, Expire, AwaitQuiescence, AwaitQuiescenceSignals,
     AwaitQuiescenceReturns, Stop, Enqueue, sock, PipeStep
<1>6. ASSUME SelectEntry \/ ReadFences \/ CallSelect \/ SelectReturns \/ SwapTasks \/ RunTask
               \/ TasksDone \/ NothingToRead \/ EndOfPass \/ Accept
      PROVE  PipeStep
  BY Zenon, <1>6 DEF SelectEntry, ReadFences, CallSelect, SelectReturns, SwapTasks, RunTask,
     TasksDone, NothingToRead, EndOfPass, Accept, sock, PipeStep
<1>7. ASSUME ProcessEntry PROVE PipeStep
  BY Zenon, <1>7 DEF ProcessEntry, PipeStep
<1>8. ASSUME NEW c \in Conn, CloseInside(c) PROVE PipeStep
  BY Zenon, <1>8 DEF CloseInside, PipeCloses, PipeStep
<1>9. ASSUME ProcessBody PROVE PipeStep
  BY Zenon, <1>8, <1>9, BodyCases
     DEF BodyLeaves, BodyCloses, BodyGoesOn, sock, PipeStep
<1>10. ASSUME DoReceive PROVE PipeStep
  BY Zenon, <1>8, <1>10, ReceiveCases
     DEF ReceiveTakes, ReceiveCloses, ReceiveBlocks, Conn, PipeStep
<1> QED
  BY Zenon, <1>2, <1>3, <1>4, <1>5, <1>6, <1>7, <1>9, <1>10 DEF Next, ThreadMain, Others

\* A pipe stays open with its connection, and only its own Process takes the byte.
LEMMA PipesAfter ==
  ASSUME TypeOK, PipeInv, PipeStep
  PROVE  /\ PipeInv'
         /\ \A c \in Conn : is_shutdown_[c] => is_shutdown_'[c]
         /\ \A e \in Entry : pipe[e] = "closed" => pipe'[e] = "closed"
         /\ \A e \in Entry : pipe[e] = "signalled" =>
              \/ pipe'[e] # "quiet"
              \/ at = "process" /\ at' = IF e = Signaller THEN "swap" ELSE "body"
<1>1. /\ pipe \in [Entry -> {"quiet", "signalled", "closed"}]
      /\ is_shutdown_ \in [Conn -> BOOLEAN]
  BY Zenon DEF TypeOK, SocketsOK
<1>2. Signaller \in Entry /\ Signaller \notin Conn /\ \A c \in Conn : c \in Entry
  BY Zenon, SelectAssumption DEF Entry
<1>3. CASE UNCHANGED <<pipe, is_shutdown_>>
  BY Zenon, <1>2, <1>3 DEF PipeInv
<1>4. ASSUME NEW d \in Entry, pipe' = Signalled(pipe, d), UNCHANGED is_shutdown_
      PROVE  \A e \in Entry : /\ pipe'[e] = "closed" <=> pipe[e] = "closed"
                              /\ pipe[e] = "signalled" => pipe'[e] # "quiet"
  BY Zenon, <1>1, <1>4, SignalledPipe
<1>5. ASSUME NEW d \in Entry, pipe' = Drained(d), UNCHANGED is_shutdown_
      PROVE  \A e \in Entry : /\ pipe'[e] = "closed" <=> pipe[e] = "closed"
                              /\ e # d => pipe'[e] = pipe[e]
  BY Zenon, <1>1, <1>5 DEF Drained
<1>6. ASSUME NEW c \in Conn, PipeCloses(c)
      PROVE  /\ pipe'[c] = "closed" /\ is_shutdown_'[c]
             /\ \A e \in Entry \ {c} : pipe'[e] = pipe[e]
             /\ \A d \in Conn \ {c} : is_shutdown_'[d] = is_shutdown_[d]
  BY Zenon, <1>1, <1>2, <1>6 DEF PipeCloses
<1>7. ASSUME NEW d \in Entry, pipe' = Signalled(pipe, d), UNCHANGED is_shutdown_ PROVE PipeInv'
  BY Zenon, <1>2, <1>4, <1>7 DEF PipeInv
<1>8. ASSUME NEW d \in Entry, pipe' = Drained(d), UNCHANGED is_shutdown_ PROVE PipeInv'
  BY Zenon, <1>2, <1>5, <1>8 DEF PipeInv
<1>9. ASSUME NEW c \in Conn, PipeCloses(c) PROVE PipeInv'
  BY Zenon, <1>2, <1>6, <1>9 DEF PipeInv
<1>10. todo # <<>> => Head(todo) \in Entry
  <2>1. todo \in Seq(Entry)
    BY Zenon DEF TypeOK, LoopOK
  <2> QED  BY Zenon, <2>1, Behind
<1>11. PipeInv'
  BY Zenon, <1>3, <1>7, <1>8, <1>9, <1>10 DEF PipeStep, PipeInv
<1>12. \A c \in Conn : is_shutdown_[c] => is_shutdown_'[c]
  BY Zenon, <1>6 DEF PipeStep
<1>13. \A e \in Entry : pipe[e] = "closed" => pipe'[e] = "closed"
  BY Zenon, <1>4, <1>5, <1>6, <1>10 DEF PipeStep
<1>14. ASSUME NEW e \in Entry, pipe[e] = "signalled"
       PROVE  \/ pipe'[e] # "quiet"
              \/ at = "process" /\ at' = IF e = Signaller THEN "swap" ELSE "body"
  <2>1. pipe[e] # "quiet"
    BY Zenon, <1>14
  <2>2. CASE UNCHANGED <<pipe, is_shutdown_>>
    BY Zenon, <2>1, <2>2
  <2>3. CASE \E d \in Entry : pipe' = Signalled(pipe, d) /\ UNCHANGED is_shutdown_
    BY Zenon, <1>4, <1>14, <2>3
  <2>4. CASE \E c \in Conn : PipeCloses(c)
    BY Zenon, <1>6, <2>1, <2>4
  <2>5. CASE at = "process" /\ todo # <<>> /\ pipe' = Drained(Head(todo))
               /\ at' = (IF Head(todo) = Signaller THEN "swap" ELSE "body")
               /\ UNCHANGED is_shutdown_
    <3>1. CASE e # Head(todo)
      BY Zenon, <1>5, <1>10, <2>1, <2>5, <3>1
    <3> QED  BY Zenon, <2>5, <3>1
  <2> QED  BY Zenon, <2>2, <2>3, <2>4, <2>5 DEF PipeStep
<1> QED  BY Zenon, <1>11, <1>12, <1>13, <1>14

\* How far an owner gets with a connection in a step.
LifeStep(c) ==
  \/ life'[c] = life[c]
  \/ AddConnection(c) /\ life[c] \in {"new", "accepted"} /\ life'[c] \in {"appending", "adopting"}
  \/ AddConnectionPosts(c) /\ life'[c] \in {"added", "up"}
  \/ Connect(c) /\ life[c] = "added" /\ life'[c] = "connecting"
  \/ Connected(c) /\ life[c] = "connecting" /\ life'[c] = "up"
  \/ Listen(c) /\ life[c] = "added" /\ life'[c] = "up"
  \/ life[c] = "new" /\ life'[c] = "accepted"

LEMMA NextLife ==
  ASSUME TypeOK, Next
  PROVE  \A c \in Conn : LifeStep(c)
<1> SUFFICES ASSUME NEW c \in Conn PROVE LifeStep(c)
  BY Zenon
<1>1. life \in [Conn -> Life]
  BY Zenon DEF TypeOK, OwnersOK
<1>2. ASSUME NEW d \in Conn, NEW v, life' = [life EXCEPT ![d] = v]
      PROVE  life'[d] = v /\ (c # d => life'[c] = life[c])
  BY Zenon, <1>1, <1>2
<1>3. ASSUME NEW d \in Conn, AddConnection(d) PROVE LifeStep(c)
  <2>1. PICK v \in {"appending", "adopting"} : life' = [life EXCEPT ![d] = v]
    BY Zenon, <1>3 DEF AddConnection
  <2> QED  BY Zenon, <1>2, <1>3, <2>1 DEF AddConnection, LifeStep
<1>4. ASSUME NEW d \in Conn, AddConnectionPosts(d) PROVE LifeStep(c)
  <2>1. PICK v \in {"added", "up"} : life' = [life EXCEPT ![d] = v]
    BY Zenon, <1>4 DEF AddConnectionPosts
  <2> QED  BY Zenon, <1>2, <1>4, <2>1 DEF LifeStep
<1>5. ASSUME NEW d \in Conn, Connect(d) \/ Connected(d) \/ Listen(d) PROVE LifeStep(c)
  BY Zenon, <1>2, <1>5 DEF Connect, Connected, Listen, LifeStep
<1>6. CASE Accept
  <2>1. UNCHANGED life \/ \E d \in Conn : life[d] = "new" /\ life' = [life EXCEPT ![d] = "accepted"]
    BY Zenon, <1>6, AcceptCases DEF AcceptTakes, AcceptBlocks, Conn
  <2> QED  BY Zenon, <1>2, <2>1 DEF LifeStep
<1>7. CASE UNCHANGED life
  BY Zenon, <1>7 DEF LifeStep
<1>8. CASE ThreadMain
  BY Zenon, <1>6, <1>7, <1>8, ThreadSockets
<1>9. CASE Others
  <2>1. \/ UNCHANGED life
        \/ \E d \in Conn : \/ AddConnection(d) \/ AddConnectionPosts(d) \/ Connect(d)
                           \/ Connected(d) \/ Listen(d)
    BY Zenon, <1>9 DEF Others, Send, Close, CloseSocket, FlushAndClose, Arrive, HangUp, Post,
       PostDelayed, Expire, AwaitQuiescence, AwaitQuiescenceSignals, AwaitQuiescenceReturns, Stop
  <2> QED  BY Zenon, <1>3, <1>4, <1>5, <1>7, <2>1
<1> QED  BY Zenon, <1>8, <1>9 DEF Next

\* The list keeps the signaller and the open connections that were added.
LEMMA NextKept ==
  ASSUME TypeOK, PipeInv, KeptInv, Next
  PROVE  KeptInv'
<1>1. selectables_ \in Seq(Entry)
  BY Zenon DEF TypeOK, OwnersOK
<1>2. Signaller \notin Conn /\ PipeStep
  BY Zenon, SelectAssumption, NextPipes
<1>3. PipeInv' /\ \A c \in Conn : is_shutdown_[c] => is_shutdown_'[c]
  BY Zenon, <1>2, PipesAfter
<1>4. ASSUME NEW x \in Members(selectables_), x = Signaller \/ (x \in Conn /\ ~is_shutdown_'[x])
      PROVE  x \in Members(selectables_')
  <2>1. pipe[x] # "closed" /\ ~(x \in Conn /\ is_shutdown_'[x])
    BY Zenon, <1>2, <1>3, <1>4 DEF PipeInv
  <2>2. ASSUME NEW e, selectables_' = Without(e), x # e
        PROVE  x \in Members(selectables_')
    BY Zenon, <1>1, <2>2, Erased
  <2>3. ASSUME NEW c \in Conn, AddConnection(c)
        PROVE  x \in Members(selectables_')
    <3>1. c \in Entry /\ selectables_' = Append(selectables_, c)
      BY Zenon, <2>3 DEF AddConnection, Entry
    <3>2. Members(Append(selectables_, c)) = Members(selectables_) \cup {c}
      BY <1>1, <3>1, Appended
    <3> QED  BY Zenon, <3>1, <3>2
  <2> QED  BY Zenon, <2>1, <2>2, <2>3, ListSteps
<1>5. Signaller \in Members(selectables_')
  BY Zenon, <1>4 DEF KeptInv
<1>6. ASSUME NEW c \in Conn, life'[c] \notin {"new", "accepted"}, ~is_shutdown_'[c]
      PROVE  c \in Members(selectables_')
  <2>1. CASE AddConnection(c)
    <3>1. c \in Entry /\ selectables_' = Append(selectables_, c)
      BY Zenon, <2>1 DEF AddConnection, Entry
    <3>2. Members(Append(selectables_, c)) = Members(selectables_) \cup {c}
      BY <1>1, <3>1, Appended
    <3> QED  BY Zenon, <3>1, <3>2
  <2>2. CASE ~AddConnection(c)
    <3>1. LifeStep(c)
      BY Zenon, NextLife
    <3>2. life[c] \notin {"new", "accepted"}
      BY Zenon, <1>6, <2>2, <3>1 DEF LifeStep, AddConnectionPosts
    <3> QED  BY Zenon, <1>3, <1>4, <1>6, <3>2 DEF KeptInv
  <2> QED  BY Zenon, <2>1, <2>2
<1> QED  BY Zenon, <1>5, <1>6 DEF KeptInv

\* A queued task has signalled: only the swap, which follows the read of the byte,
\* empties the queue.
LEMMA NextTasks ==
  ASSUME TypeOK, PipeInv, TaskInv, Next
  PROVE  TaskInv'
<1>1. Signaller \in Entry /\ pipe \in [Entry -> {"quiet", "signalled", "closed"}]
  BY Zenon DEF Entry, TypeOK, SocketsOK
<1>2. PipeStep
  BY Zenon, NextPipes
<1>3. /\ pipe'[Signaller] # "closed"
      /\ pipe[Signaller] = "signalled" =>
           pipe'[Signaller] # "quiet" \/ (at = "process" /\ at' = "swap")
  BY Zenon, <1>1, <1>2, PipesAfter DEF PipeInv
<1>4. pipe'[Signaller] \in {"quiet", "signalled", "closed"}
  BY Zenon, <1>1, NextType DEF TypeOK, SocketsOK
<1>5. pipe[Signaller] = "signalled" => pipe'[Signaller] = "signalled" \/ at' = "swap"
  BY Zenon, <1>3, <1>4
<1>6. ASSUME pipe' = Signalled(pipe, Signaller)
      PROVE  pipe'[Signaller] = "signalled"
  BY Zenon, <1>1, <1>6, SignalledPipe DEF PipeInv
<1>7. ASSUME UNCHANGED task_queue_, at = "swap" => at' = "swap"
      PROVE  task_queue_' # <<>> => pipe'[Signaller] = "signalled" \/ at' = "swap"
  BY Zenon, <1>5, <1>7 DEF TaskInv
<1>8. CASE Others
  <2>1. UNCHANGED <<at, tasks_to_run>>
    BY Zenon, <1>8, OthersFrame
  <2>2. UNCHANGED task_queue_ \/ pipe' = Signalled(pipe, Signaller)
    BY Zenon, <1>8 DEF Others, AddConnection, AddConnectionPosts, Connect, Connected, Listen,
       Send, Close, CloseSocket, FlushAndClose, Arrive, HangUp, Post, PostDelayed, Expire,
       AwaitQuiescence, AwaitQuiescenceSignals, AwaitQuiescenceReturns, Stop, Enqueue, tasking
  <2> QED  BY Zenon, <1>6, <1>7, <2>1, <2>2 DEF TaskInv
<1>9. CASE SwapTasks
  BY Zenon, <1>9 DEF SwapTasks, TaskInv
<1>10. CASE RunTask
  <2>1. at = "tasks" /\ at' = "tasks" /\ UNCHANGED task_queue_
    BY Zenon, <1>10 DEF RunTask, loop
  <2>2. at # "swap"
    BY Zenon, <2>1
  <2> QED  BY Zenon, <1>7, <2>1, <2>2 DEF TaskInv
<1>11. CASE TasksDone
  <2>1. at # "swap" /\ tasks_to_run' = <<>> /\ UNCHANGED task_queue_
    BY Zenon, <1>11 DEF TasksDone, tasking
  <2> QED  BY Zenon, <1>7, <2>1 DEF TaskInv
<1>12. ASSUME ThreadMain, ~(SwapTasks \/ RunTask \/ TasksDone)
       PROVE  at \notin {"swap", "tasks"} /\ UNCHANGED <<task_queue_, tasks_to_run>>
  <2>1. CASE SelectEntry \/ ReadFences \/ CallSelect \/ SelectReturns \/ EndOfPass \/ NothingToRead
    BY Zenon, <2>1 DEF SelectEntry, ReadFences, CallSelect, SelectReturns, EndOfPass, NothingToRead,
       tasking
  <2>2. CASE ProcessEntry
    BY Zenon, <2>2, EntryCases DEF tasking
  <2>3. CASE ProcessBody
    BY Zenon, <2>3, BodyCases DEF tasking
  <2>4. CASE DoReceive \/ Accept
    BY Zenon, <2>4 DEF DoReceive, Accept, tasking
  <2> QED  BY Zenon, <1>12, <2>1, <2>2, <2>3, <2>4 DEF ThreadMain
<1>13. ASSUME ThreadMain, ~(SwapTasks \/ RunTask \/ TasksDone) PROVE TaskInv'
  BY Zenon, <1>7, <1>12, <1>13 DEF TaskInv
<1> QED  BY Zenon, <1>8, <1>9, <1>10, <1>11, <1>13 DEF Next

\* Among the other threads only Connect and Listen give a connection a socket, and only
\* Close takes one.
LEMMA OthersSocketOf ==
  ASSUME TypeOK, LifeInv, Others, NEW c \in Conn
  PROVE  socket_'[c] = socket_[c] \/ is_shutdown_[c] \/ Connect(c) \/ Listen(c)
<1>1. socket_ \in [Conn -> Fd \cup {0}]
  BY Zenon DEF TypeOK, SocketsOK
<1>2. ASSUME NEW d \in Conn, CloseSocket(d)
      PROVE  is_shutdown_[d] /\ (c # d => socket_'[c] = socket_[c])
  BY Zenon, <1>1, <1>2 DEF CloseSocket, LifeInv
<1>3. ASSUME NEW d \in Conn, Connect(d) \/ Listen(d)
      PROVE  c # d => socket_'[c] = socket_[c]
  BY Zenon, <1>3, Opened DEF Connect, Listen, TypeOK
<1>4. \/ UNCHANGED socket_
      \/ \E d \in Conn : CloseSocket(d) \/ Connect(d) \/ Listen(d)
  BY Zenon DEF Others, AddConnection, AddConnectionPosts, Connected, Send, Close, FlushAndClose,
     Arrive, HangUp, Post, PostDelayed, Expire, AwaitQuiescence, AwaitQuiescenceSignals,
     AwaitQuiescenceReturns, Stop, sock
<1> QED  BY Zenon, <1>2, <1>3, <1>4

\* What the pass or the select watches stays watched while the other threads go on: who
\* adds a connection signals the thread, and who connects a socket signals its entry.
LEMMA OthersWatched ==
  ASSUME TypeOK, LifeInv, PipeInv, WatchInv, Others
  PROVE  WatchInv'
<1> SUFFICES ASSUME at' \in Watching PROVE WatchInv'
  BY Zenon DEF WatchInv
<1>1. UNCHANGED <<at, todo, sets, files>> /\ at \in Watching /\ at # "process"
  <2>1. UNCHANGED <<at, todo, sets, files>>
    BY Zenon, OthersFrame
  <2> QED  BY Zenon, <2>1 DEF Watching
<1>2. PipeStep /\ TypeOK' /\ Next
  BY Zenon, NextPipes, NextType DEF Next
<1>3. Signaller \in Entry /\ \A c \in Conn : c \in Entry
  BY Zenon DEF Entry
<1>4. /\ PipeInv' /\ \A c \in Conn : is_shutdown_[c] => is_shutdown_'[c]
      /\ \A e \in Entry : pipe[e] = "signalled" => pipe'[e] # "quiet"
  BY Zenon, <1>1, <1>2, PipesAfter
<1>5. \A e \in Entry : pipe'[e] \in {"quiet", "signalled", "closed"}
  BY Zenon, <1>2 DEF TypeOK, SocketsOK
<1>6. pipe[Signaller] = "signalled" => pipe'[Signaller] = "signalled"
  BY Zenon, <1>3, <1>4, <1>5 DEF PipeInv
<1>7. ASSUME NEW c \in Conn, ~is_shutdown_'[c], pipe[c] = "signalled"
      PROVE  pipe'[c] = "signalled"
  BY Zenon, <1>3, <1>4, <1>5, <1>7 DEF PipeInv
<1>8. pipe \in [Entry -> {"quiet", "signalled", "closed"}]
  BY Zenon DEF TypeOK, SocketsOK
<1>9. ASSUME NEW c \in Conn, AddConnectionPosts(c) PROVE pipe'[Signaller] = "signalled"
  BY Zenon, <1>3, <1>8, <1>9, SignalledPipe DEF AddConnectionPosts, Enqueue, PipeInv
<1>10. ASSUME NEW c \in Conn, life'[c] \in {"added", "connecting", "up"}, ~is_shutdown_'[c]
       PROVE  c \in Members(todo) \cup sets.pipes \/ pipe'[Signaller] = "signalled"
  <2>1. LifeStep(c) /\ ~is_shutdown_[c]
    BY Zenon, <1>2, <1>4, <1>10, NextLife
  <2>2. CASE AddConnectionPosts(c)
    BY Zenon, <1>9, <2>2
  <2>3. CASE ~AddConnectionPosts(c)
    <3>1. life[c] \in {"added", "connecting", "up"}
      BY Zenon, <1>10, <2>1, <2>3 DEF LifeStep
    <3> QED  BY Zenon, <1>1, <1>6, <2>1, <3>1 DEF WatchInv
  <2> QED  BY Zenon, <2>2, <2>3
<1>11. ASSUME NEW c \in Stream, Known(c)'
       PROVE  \/ c \in Members(todo)
              \/ at \in {"pass", "select"} /\ socket_'[c] \in sets.read
              \/ at = "blocked" /\ <<socket_'[c], c>> \in files
              \/ c \in sets.pipes /\ pipe'[c] = "signalled"
              \/ pipe'[Signaller] = "signalled"
  <2>1. c \in Conn /\ c \notin Server
    BY Zenon, SelectAssumption DEF Conn
  <2>2. /\ LifeStep(c) /\ life'[c] = "up" /\ ~is_shutdown_'[c] /\ ~is_shutdown_[c]
        /\ socket_'[c] # 0
    BY Zenon, <1>2, <1>4, <1>11, <2>1, NextLife DEF Known
  <2>3. CASE AddConnectionPosts(c)
    BY Zenon, <1>9, <2>1, <2>3
  <2>4. CASE Connected(c)
    <3>1. life[c] = "connecting" /\ pipe' = Signalled(pipe, c) /\ pipe[c] # "closed"
      BY Zenon, <2>1, <2>2, <2>4 DEF Connected, PipeInv
    <3>2. pipe'[c] = "signalled"
      BY Zenon, <1>3, <1>8, <2>1, <3>1, SignalledPipe
    <3>3. c \in Members(todo) \cup sets.pipes \/ pipe[Signaller] = "signalled"
      BY Zenon, <1>1, <2>1, <2>2, <3>1 DEF WatchInv
    <3> QED  BY Zenon, <1>6, <3>2, <3>3
  <2>5. CASE life[c] = "up"
    <3>1. ~Connect(c) /\ ~Listen(c)
      BY Zenon, <2>5 DEF Connect, Listen
    <3>2. socket_'[c] = socket_[c]
      BY Zenon, <2>1, <2>2, <3>1, OthersSocketOf
    <3>3. Known(c)
      BY Zenon, <2>2, <2>5, <3>2 DEF Known
    <3>4. \/ c \in Members(todo)
          \/ at \in {"pass", "select"} /\ socket_[c] \in sets.read
          \/ at = "blocked" /\ <<socket_[c], c>> \in files
          \/ c \in sets.pipes /\ pipe[c] = "signalled"
          \/ pipe[Signaller] = "signalled"
      BY Zenon, <1>1, <3>3 DEF WatchInv
    <3> QED  BY Zenon, <1>6, <1>7, <2>1, <2>2, <3>2, <3>4
  <2>6. life[c] = "up" \/ AddConnectionPosts(c) \/ Connected(c)
    <3>1. ~Listen(c)
      BY Zenon, <2>1 DEF Listen
    <3> QED  BY Zenon, <2>2, <3>1 DEF LifeStep
  <2> QED  BY Zenon, <2>3, <2>4, <2>5, <2>6
<1> QED  BY Zenon, <1>1, <1>10, <1>11 DEF WatchInv

\* The first pass and the select: an entry's Select puts its pipe and its socket in the
\* sets, and the loop starts again with the whole list.
LEMMA ThreadWatched ==
  ASSUME TypeOK, PipeInv, KeptInv, WatchInv, ThreadMain
  PROVE  WatchInv'
<1>1. CASE SelectEntry
  <2>1. /\ at = "pass" /\ todo # <<>> /\ todo' = Tail(todo) /\ UNCHANGED <<at, life, files>>
        /\ UNCHANGED <<socket_, pipe, is_shutdown_>>
    BY Zenon, <1>1 DEF SelectEntry, sock
  <2>2. Members(todo) = Members(Tail(todo)) \cup {Head(todo)} /\ Head(todo) \in Entry
    <3>1. todo \in Seq(Entry)
      BY Zenon DEF TypeOK, LoopOK
    <3> QED  BY Zenon, <2>1, <3>1, Behind
  <2>3. PICK e : e = Head(todo)
    BY Zenon
  <2>4. /\ sets'.pipes = sets.pipes \cup (IF pipe[e] = "closed" THEN {} ELSE {e})
        /\ sets'.read = sets.read \cup
             (IF e # Signaller /\ socket_[e] # 0 THEN {socket_[e]} ELSE {})
    BY Zenon, <1>1, <2>3 DEF SelectEntry
  <2>5. Signaller \in Members(todo') \cup sets'.pipes
    BY Zenon, <2>1, <2>2, <2>3, <2>4 DEF WatchInv, Watching, PipeInv
  <2>6. ASSUME NEW c \in Conn, life[c] \in {"added", "connecting", "up"}, ~is_shutdown_[c]
        PROVE  c \in Members(todo') \cup sets'.pipes \/ pipe[Signaller] = "signalled"
    <3>1. c \in Members(todo) \cup sets.pipes \/ pipe[Signaller] = "signalled"
      BY Zenon, <2>1, <2>6 DEF WatchInv, Watching
    <3>2. pipe[c] # "closed"
      BY Zenon, <2>6 DEF PipeInv
    <3> QED  BY Zenon, <2>1, <2>2, <2>3, <2>4, <3>1, <3>2
  <2>7. ASSUME NEW c \in Stream, Known(c)
        PROVE  \/ c \in Members(todo')
               \/ socket_[c] \in sets'.read
               \/ c \in sets'.pipes /\ pipe[c] = "signalled"
               \/ pipe[Signaller] = "signalled"
    <3>1. \/ c \in Members(todo)
          \/ socket_[c] \in sets.read
          \/ c \in sets.pipes /\ pipe[c] = "signalled"
          \/ pipe[Signaller] = "signalled"
      <4>1. at \in Watching /\ at # "blocked"
        BY Zenon, <2>1 DEF Watching
      <4> QED  BY Zenon, <2>7, <4>1 DEF WatchInv
    <3>2. c # Signaller /\ socket_[c] # 0
      BY Zenon, <2>7, SelectAssumption DEF Known, Conn
    <3> QED  BY Zenon, <2>1, <2>2, <2>3, <2>4, <3>1, <3>2
  <2>8. \A c \in Conn : Known(c)' <=> Known(c)
    BY Zenon, <2>1 DEF Known
  <2>9. \A c \in Stream : c \in Conn
    BY Zenon DEF Conn
  <2> QED  BY Zenon, <2>1, <2>5, <2>6, <2>7, <2>8, <2>9 DEF WatchInv
<1>2. ASSUME at' = "pass", todo' = selectables_,
             UNCHANGED <<life, socket_, pipe, is_shutdown_>>
      PROVE  WatchInv'
  <2>1. ASSUME NEW c \in Conn, life[c] \in {"added", "connecting", "up"}, ~is_shutdown_[c]
        PROVE  c \in Members(todo')
    <3>1. life[c] \notin {"new", "accepted"}
      BY Zenon, <2>1
    <3> QED  BY Zenon, <1>2, <2>1, <3>1 DEF KeptInv
  <2>2. \A c \in Stream : Known(c)' => c \in Members(todo')
    BY Zenon, <1>2, <2>1 DEF Known, Conn
  <2> QED  BY Zenon, <1>2, <2>1, <2>2 DEF WatchInv, KeptInv
<1>3. CASE ReadFences
  <2>1. /\ at = "pass" /\ at' = "select"
        /\ UNCHANGED <<todo, sets, files, life, socket_, pipe, is_shutdown_>>
    BY Zenon, <1>3 DEF ReadFences, sock
  <2>2. at \in Watching /\ at # "blocked"
    BY Zenon, <2>1 DEF Watching
  <2> QED  BY Zenon, <2>1, <2>2 DEF WatchInv, Known
<1>4. CASE CallSelect
  <2>1. at = "select" /\ UNCHANGED <<selectables_, life, socket_, pipe, is_shutdown_>>
    BY Zenon, <1>4 DEF CallSelect, sock
  <2>2. \/ at' = "pass" /\ todo' = selectables_
        \/ /\ at' = "blocked" /\ UNCHANGED <<todo, sets>>
           /\ files' = {f \in Fd \X Conn : f[1] \in sets.read /\ socket_[f[2]] = f[1]}
    BY Zenon, <1>4 DEF CallSelect
  <2>3. CASE at' = "blocked" /\ UNCHANGED <<todo, sets>>
             /\ files' = {f \in Fd \X Conn : f[1] \in sets.read /\ socket_[f[2]] = f[1]}
    <3>1. at \in Watching /\ at # "blocked"
      BY Zenon, <2>1 DEF Watching
    <3>2. ASSUME NEW c \in Stream, socket_[c] \in sets.read PROVE <<socket_[c], c>> \in files'
      <4>1. c \in Conn /\ socket_[c] \in Fd
        BY Zenon, <3>2 DEF Conn, TypeOK, LoopOK
      <4> QED  BY Zenon, <2>3, <3>2, <4>1
    <3>3. ASSUME NEW c \in Stream, Known(c)
          PROVE  \/ c \in Members(todo)
                 \/ <<socket_[c], c>> \in files'
                 \/ c \in sets.pipes /\ pipe[c] = "signalled"
                 \/ pipe[Signaller] = "signalled"
      BY Zenon, <3>1, <3>2, <3>3 DEF WatchInv
    <3>4. \A c \in Stream : Known(c)' <=> Known(c)
      BY Zenon, <2>1 DEF Known
    <3>5. /\ Signaller \in Members(todo) \cup sets.pipes
          /\ \A c \in Conn : life[c] \in {"added", "connecting", "up"} /\ ~is_shutdown_[c] =>
               c \in Members(todo) \cup sets.pipes \/ pipe[Signaller] = "signalled"
      BY Zenon, <3>1 DEF WatchInv
    <3> QED  BY Zenon, <2>1, <2>3, <3>3, <3>4, <3>5 DEF WatchInv
  <2> QED  BY Zenon, <1>2, <2>1, <2>2, <2>3
<1>5. CASE EndOfPass
  <2>1. /\ UNCHANGED <<life, socket_, pipe, is_shutdown_>>
        /\ (at' = "pass" /\ todo' = selectables_) \/ at' = "done"
    BY Zenon, <1>5 DEF EndOfPass, sock
  <2>2. at' = "done" => at' \notin Watching
    BY Zenon DEF Watching
  <2> QED  BY Zenon, <1>2, <2>1, <2>2 DEF WatchInv
<1>6. ASSUME at' \in Processing PROVE WatchInv'
  <2>1. at' \notin Watching
    BY Zenon, <1>6 DEF Watching, Processing
  <2> QED  BY Zenon, <2>1 DEF WatchInv
<1>7. CASE SelectReturns \/ SwapTasks \/ RunTask \/ TasksDone \/ NothingToRead
  <2>1. at' \in Processing
    BY Zenon, <1>7 DEF SelectReturns, SwapTasks, RunTask, TasksDone, NothingToRead, Proceed, loop,
       Processing
  <2> QED  BY Zenon, <1>6, <2>1
<1>8. CASE ProcessEntry
  <2>1. at' \in Processing
    BY Zenon, <1>8, EntryCases DEF EntryDropped, EntryTaken, Processing
  <2> QED  BY Zenon, <1>6, <2>1
<1>9. CASE ProcessBody
  <2>1. at' \in Processing
    BY Zenon, <1>9, BodyCases DEF BodyLeaves, BodyCloses, BodyGoesOn, Processing
  <2> QED  BY Zenon, <1>6, <2>1
<1>10. CASE DoReceive \/ Accept
  <2>1. at' \in Processing
    BY Zenon, <1>10, ReceiveCases, AcceptCases
       DEF ReceiveTakes, ReceiveCloses, ReceiveBlocks, AcceptTakes, AcceptBlocks, Processing
  <2> QED  BY Zenon, <1>6, <2>1
<1> QED
  BY Zenon, <1>1, <1>3, <1>4, <1>5, <1>7, <1>8, <1>9, <1>10 DEF ThreadMain

\* A task that was queued stays queued, or is taken to be run, or was run.
LEMMA NextWork ==
  ASSUME TypeOK, TaskInv, Next,
         NEW k \in Task, k \in ran \cup Members(task_queue_) \cup Members(tasks_to_run)
  PROVE  k \in ran' \cup Members(task_queue_') \cup Members(tasks_to_run')
<1>1. task_queue_ \in Seq(Work) /\ tasks_to_run \in Seq(Work)
  BY Zenon DEF TypeOK, TasksOK
<1>2. CASE UNCHANGED <<ran, task_queue_, tasks_to_run>>
  BY Zenon, <1>2
<1>3. ASSUME NEW task \in Work, task_queue_' = Append(task_queue_, task),
             UNCHANGED <<ran, tasks_to_run>>
      PROVE  k \in ran' \cup Members(task_queue_') \cup Members(tasks_to_run')
  <2>1. Members(Append(task_queue_, task)) = Members(task_queue_) \cup {task}
    BY <1>1, Appended
  <2> QED  BY Zenon, <1>3, <2>1
<1>4. CASE Others
  <2>1. UNCHANGED <<ran, tasks_to_run>>
    BY Zenon, <1>4, OthersFrame
  <2>2. UNCHANGED task_queue_ \/ \E task \in Work : task_queue_' = Append(task_queue_, task)
    BY Zenon, <1>4 DEF Others, AddConnection, AddConnectionPosts, Connect, Connected, Listen,
       Send, Close, CloseSocket, FlushAndClose, Arrive, HangUp, Post, PostDelayed, Expire,
       AwaitQuiescence, AwaitQuiescenceSignals, AwaitQuiescenceReturns, Stop, Enqueue, tasking,
       Work
  <2> QED  BY Zenon, <1>2, <1>3, <2>1, <2>2
<1>5. CASE SwapTasks
  <2>1. UNCHANGED ran /\ at = "swap"
    BY Zenon, <1>5 DEF SwapTasks
  <2>2. tasks_to_run = <<>>
    BY Zenon, <2>1 DEF TaskInv
  <2>3. Members(task_queue_) \subseteq Members(tasks_to_run')
    BY Zenon, <1>5, SwappedTasks DEF TypeOK
  <2> QED  BY Zenon, <2>1, <2>2, <2>3, Nothing
<1>6. CASE RunTask
  <2>1. /\ tasks_to_run # <<>> /\ ran' = ran \cup ({Head(tasks_to_run)} \cap Task)
        /\ tasks_to_run' = Tail(tasks_to_run) /\ UNCHANGED task_queue_
    BY Zenon, <1>6 DEF RunTask
  <2>2. Members(tasks_to_run) = Members(Tail(tasks_to_run)) \cup {Head(tasks_to_run)}
    BY Zenon, <1>1, <2>1, Behind
  <2> QED  BY Zenon, <2>1, <2>2
<1>7. CASE SelectEntry \/ ReadFences \/ CallSelect \/ SelectReturns \/ ProcessEntry
             \/ TasksDone \/ ProcessBody \/ NothingToRead \/ DoReceive \/ Accept \/ EndOfPass
  BY Zenon, <1>2, <1>7 DEF SelectEntry, ReadFences, CallSelect, SelectReturns, ProcessEntry,
     TasksDone, ProcessBody, NothingToRead, DoReceive, Accept, EndOfPass, tasking
<1> QED  BY Zenon, <1>4, <1>5, <1>6, <1>7 DEF Next, ThreadMain

\* What has arrived stays, and a stream the thread was told of is known until it is closed.
LEMMA NextKnown ==
  ASSUME TypeOK, LifeInv, PipeInv, Next, NEW c \in Conn
  PROVE  /\ received'[c] >= received[c] /\ UNCHANGED session
         /\ Known(c) \/ is_shutdown_[c] => Known(c)' \/ is_shutdown_'[c]
<1>1. received'[c] >= received[c] /\ UNCHANGED session
  <2>1. CASE Others
    BY Zenon, <2>1, OthersFrame
  <2>2. CASE ThreadMain
    <3>1. UNCHANGED <<received, session>> /\ received[c] \in Nat
      BY Zenon, <2>2, ThreadSockets DEF TypeOK, NetOK
    <3>2. received[c] >= received[c]
      BY <3>1
    <3> QED  BY Zenon, <3>1, <3>2
  <2> QED  BY Zenon, <2>1, <2>2 DEF Next
<1>2. is_shutdown_[c] => is_shutdown_'[c]
  BY Zenon, NextPipes, PipesAfter
<1>3. ASSUME Known(c), ~is_shutdown_'[c] PROVE Known(c)'
  <2>1. life'[c] = "up"
    <3>1. LifeStep(c) /\ life[c] = "up"
      BY Zenon, <1>3, NextLife DEF Known
    <3> QED  BY Zenon, <3>1 DEF LifeStep, AddConnectionPosts
  <2>2. socket_'[c] = socket_[c] /\ socket_[c] # 0
    BY Zenon, <1>3, NextSockets DEF SocketStep, Closes, OpensNew, Known
  <2> QED  BY Zenon, <1>3, <2>1, <2>2 DEF Known
<1> QED  BY Zenon, <1>1, <1>2, <1>3

\* What becomes of the fences in a step.
LEMMA NextFences ==
  ASSUME TypeOK, Next, NEW w \in Waiter
  PROVE  \/ AwaitQuiescence(w) /\ wait'[w] = "pushed" /\ owed'[w] = Pending
         \/ /\ owed'[w] = owed[w] /\ (wait'[w] = "none" <=> wait[w] = "none")
            /\ w \in pending_fences_' <=> w \in pending_fences_
         \/ EndOfPass /\ UNCHANGED <<owed, wait>>
<1>1. /\ wait \in [Waiter -> {"none", "pushed", "waiting", "returned"}]
      /\ owed \in [Waiter -> [tasks : SUBSET Task, chunks : [Conn -> Nat]]]
  BY Zenon DEF TypeOK, FencesOK
<1>2. ASSUME NEW v \in Waiter, AwaitQuiescence(v)
      PROVE  \/ v = w /\ wait'[w] = "pushed" /\ owed'[w] = Pending
             \/ /\ v # w /\ owed'[w] = owed[w] /\ wait'[w] = wait[w]
                /\ w \in pending_fences_' <=> w \in pending_fences_
  BY Zenon, <1>1, <1>2 DEF AwaitQuiescence
<1>3. ASSUME NEW v \in Waiter, AwaitQuiescenceSignals(v) \/ AwaitQuiescenceReturns(v)
      PROVE  /\ UNCHANGED <<owed, pending_fences_>>
             /\ wait'[w] = "none" <=> wait[w] = "none"
  <2>1. UNCHANGED <<owed, pending_fences_>> /\ wait[v] \in {"pushed", "waiting"}
    BY Zenon, <1>3 DEF AwaitQuiescenceSignals, AwaitQuiescenceReturns
  <2>2. PICK to \in {"waiting", "returned"} : wait' = [wait EXCEPT ![v] = to]
    BY Zenon, <1>3 DEF AwaitQuiescenceSignals, AwaitQuiescenceReturns
  <2>3. to # "none" /\ wait[v] # "none"
    BY Zenon, <2>1, <2>2
  <2> QED  BY Zenon, <1>1, <2>1, <2>2, <2>3
<1>4. CASE Others
  <2>1. \/ UNCHANGED fences
        \/ \E v \in Waiter : \/ AwaitQuiescence(v) \/ AwaitQuiescenceSignals(v)
                             \/ AwaitQuiescenceReturns(v)
    BY Zenon, <1>4 DEF Others, AddConnection, AddConnectionPosts, Connect, Connected, Listen,
       Send, Close, CloseSocket, FlushAndClose, Arrive, HangUp, Post, PostDelayed, Expire, Stop
  <2> QED  BY Zenon, <1>2, <1>3, <2>1 DEF fences
<1>5. CASE ThreadMain
  <2>1. UNCHANGED fences \/ (EndOfPass /\ UNCHANGED <<owed, wait>>)
    BY Zenon, <1>5 DEF ThreadMain, SelectEntry, ReadFences, CallSelect, SelectReturns,
       ProcessEntry, SwapTasks, RunTask, TasksDone, ProcessBody, NothingToRead, DoReceive,
       Accept, EndOfPass
  <2> QED  BY Zenon, <2>1 DEF fences
<1> QED  BY Zenon, <1>4, <1>5 DEF Next

\* What a fence waits for stays accounted for.
LEMMA NextOwed ==
  ASSUME TypeOK, ListInv, PipeInv, TaskInv, OwedInv, Next
  PROVE  OwedInv'
<1> SUFFICES ASSUME NEW w \in Waiter, wait'[w] # "none"
             PROVE  /\ owed'[w].tasks \subseteq
                         ran' \cup Members(task_queue_') \cup Members(tasks_to_run')
                    /\ \A c \in Conn :
                         /\ received'[c] >= owed'[w].chunks[c]
                         /\ owed'[w].chunks[c] > 0 => Known(c)' \/ is_shutdown_'[c]
                         /\ owed'[w].chunks[c] > 0 => c \in session'.conns
  BY Zenon DEF OwedInv
<1>1. CASE AwaitQuiescence(w) /\ owed'[w] = Pending
  <2>1. UNCHANGED <<task_queue_, received, session, is_shutdown_, life, socket_>>
    BY Zenon, <1>1 DEF AwaitQuiescence, tasking, net, control, sock
  <2>2. /\ owed'[w].tasks \subseteq Members(task_queue_)
        /\ \A c \in Conn : owed'[w].chunks[c] = IF Served(c) THEN received[c] ELSE 0
    BY <1>1 DEF Pending
  <2>3. ASSUME NEW c \in Conn, owed'[w].chunks[c] > 0
        PROVE  Known(c)' /\ c \in session'.conns
    <3>1. Served(c)
      BY <2>2, <2>3
    <3>2. life[c] # "new"
      BY Zenon, <3>1 DEF Served
    <3> QED  BY Zenon, <2>1, <3>1, <3>2 DEF Served, Known, ListInv, LifeInv
  <2>4. ASSUME NEW c \in Conn PROVE received'[c] >= owed'[w].chunks[c]
    <3>1. received[c] \in Nat
      BY Zenon DEF TypeOK, NetOK
    <3> QED  BY <2>1, <2>2, <3>1
  <2> QED  BY Zenon, <2>1, <2>2, <2>3, <2>4
<1>2. CASE owed'[w] = owed[w] /\ wait[w] # "none"
  <2>1. /\ owed[w].tasks \subseteq ran \cup Members(task_queue_) \cup Members(tasks_to_run)
        /\ owed[w].tasks \subseteq Task
    BY Zenon, <1>2 DEF OwedInv, TypeOK, FencesOK
  <2>2. owed'[w].tasks \subseteq ran' \cup Members(task_queue_') \cup Members(tasks_to_run')
    BY Zenon, <1>2, <2>1, NextWork
  <2>3. ASSUME NEW c \in Conn
        PROVE  /\ received'[c] >= owed'[w].chunks[c]
               /\ owed'[w].chunks[c] > 0 => Known(c)' \/ is_shutdown_'[c]
               /\ owed'[w].chunks[c] > 0 => c \in session'.conns
    <3>1. /\ received[c] >= owed[w].chunks[c]
          /\ owed[w].chunks[c] > 0 => Known(c) \/ is_shutdown_[c]
          /\ owed[w].chunks[c] > 0 => c \in session.conns
      BY Zenon, <1>2 DEF OwedInv
    <3>2. /\ received'[c] >= received[c] /\ UNCHANGED session
          /\ Known(c) \/ is_shutdown_[c] => Known(c)' \/ is_shutdown_'[c]
      BY Zenon, NextKnown DEF ListInv
    <3>3. received[c] \in Nat /\ received'[c] \in Nat /\ owed[w].chunks[c] \in Nat
      <4>1. received[c] \in Nat /\ owed[w].chunks[c] \in Nat
        BY Zenon DEF TypeOK, NetOK, FencesOK
      <4>2. received'[c] \in Nat
        BY Zenon, NextType DEF TypeOK, NetOK
      <4> QED  BY Zenon, <4>1, <4>2
    <3>4. received'[c] >= owed[w].chunks[c]
      BY <3>1, <3>2, <3>3
    <3> QED  BY Zenon, <1>2, <3>1, <3>2, <3>4
  <2> QED  BY Zenon, <2>2, <2>3
<1> QED  BY Zenon, <1>1, <1>2, NextFences

LEMMA NextFence ==
  ASSUME NoBlockInv, FenceInv, Next
  PROVE  FenceInv'
<1>1. TypeOK /\ ListInv /\ PipeInv /\ KeptInv /\ TaskInv /\ WatchInv /\ OwedInv
  BY Zenon DEF NoBlockInv, FenceInv
<1>2. PipeInv'
  BY Zenon, <1>1, NextPipes, PipesAfter
<1>3. WatchInv'
  BY Zenon, <1>1, OthersWatched, ThreadWatched DEF Next, ListInv
<1> QED  BY Zenon, <1>1, <1>2, <1>3, NextKept, NextTasks, NextOwed DEF FenceInv

LEMMA StutterFence ==
  ASSUME FenceInv, UNCHANGED vars
  PROVE  FenceInv'
<1>1. /\ UNCHANGED <<selectables_, socket_, pipe, is_shutdown_, life, received, session>>
      /\ UNCHANGED <<task_queue_, tasks_to_run, ran, wait, owed, at, todo, sets, files>>
  BY Zenon DEF vars, sock, net, tasking, fences, loop, control
<1>2. PipeInv' /\ KeptInv' /\ TaskInv'
  BY Zenon, <1>1 DEF FenceInv, PipeInv, KeptInv, TaskInv
<1>3. \A c : Known(c)' <=> Known(c)
  BY Zenon, <1>1 DEF Known
<1>4. WatchInv'
  BY Zenon, <1>1, <1>3 DEF FenceInv, WatchInv
<1>5. OwedInv'
  BY Zenon, <1>1, <1>3 DEF FenceInv, OwedInv
<1> QED  BY Zenon, <1>2, <1>4, <1>5 DEF FenceInv

LEMMA InitFence ==
  ASSUME Init
  PROVE  FenceInv
<1>1. /\ selectables_ = <<Signaller>> /\ todo = selectables_ /\ at = "pass"
      /\ task_queue_ = <<>> /\ tasks_to_run = <<>>
      /\ pipe = [e \in Entry |-> "quiet"] /\ is_shutdown_ = [c \in Conn |-> FALSE]
      /\ life = [c \in Conn |-> "new"] /\ wait = [w \in Waiter |-> "none"]
  BY Zenon DEF Init
<1>2. Signaller \in Members(selectables_)
  BY <1>1 DEF Members
<1>3. /\ \A e \in Entry : pipe[e] = "quiet"
      /\ \A c \in Conn : ~is_shutdown_[c] /\ life[c] = "new" /\ c \in Entry
      /\ \A w \in Waiter : wait[w] = "none"
      /\ Signaller \in Entry
  BY Zenon, <1>1 DEF Entry
<1>4. PipeInv
  BY Zenon, <1>3 DEF PipeInv
<1>5. KeptInv
  BY Zenon, <1>2, <1>3 DEF KeptInv
<1>6. TaskInv
  BY Zenon, <1>1 DEF TaskInv
<1>7. WatchInv
  <2>1. \A c \in Conn : life[c] \notin {"added", "connecting", "up"} /\ ~Known(c)
    BY Zenon, <1>3 DEF Known
  <2> QED  BY Zenon, <1>1, <1>2, <2>1 DEF WatchInv, Conn
<1>8. OwedInv
  BY Zenon, <1>3 DEF OwedInv
<1> QED  BY Zenon, <1>4, <1>5, <1>6, <1>7, <1>8 DEF FenceInv

\* The invariant the fences rest on: a pipe is closed with its connection, the list has
\* every open connection, a queued task has signalled, the pass or the select watches every
\* stream the thread was told of, and what a fence waits for is accounted for.
THEOREM FenceInductive == Spec => []FenceInv
<1>1. Init => FenceInv
  BY Zenon, InitFence
<1>2. NoBlockInv /\ FenceInv /\ [Next]_vars => FenceInv'
  BY Zenon, NextFence, StutterFence
<1> QED  BY <1>1, <1>2, BlockInductive, PTL DEF Spec

\* An empty select means that nothing a fence waits for is left.
LEMMA EmptySettles ==
  ASSUME TypeOK, FenceInv, SelectReturns, fds' = 0, NEW w \in Waiter, wait[w] # "none"
  PROVE  Settled(w)
<1>1. at = "blocked" /\ Ready = NoFds
  BY DEF SelectReturns
<1>2. ReadyPipes = {} /\ ReadyToRead = {}
  BY Zenon, <1>1 DEF Ready, NoFds
<1>3. todo = <<>> /\ Members(todo) = {} /\ at \in Watching /\ at \notin {"pass", "select"}
  <2>1. todo = <<>> /\ at \in Watching /\ at \notin {"pass", "select"}
    BY Zenon, <1>1 DEF TypeOK, ShapeOK, Watching
  <2> QED  BY Zenon, <2>1, Nothing
<1>4. ASSUME NEW e \in sets.pipes PROVE pipe[e] = "quiet"
  BY Zenon, <1>2 DEF ReadyPipes
<1>5. pipe[Signaller] # "signalled"
  <2>1. pipe[Signaller] = "quiet"
    BY Zenon, <1>3, <1>4 DEF FenceInv, WatchInv
  <2> QED  BY Zenon, <2>1
<1>6. owed[w].tasks \subseteq ran
  <2>1. task_queue_ = <<>> /\ tasks_to_run = <<>>
    BY Zenon, <1>1, <1>5 DEF FenceInv, TaskInv
  <2> QED  BY Zenon, <2>1, Nothing DEF FenceInv, OwedInv
<1>7. ASSUME NEW c \in Stream PROVE consumed[c] >= owed[w].chunks[c] \/ is_shutdown_[c]
  <2>1. /\ received[c] \in Nat /\ consumed[c] \in Nat /\ owed[w].chunks[c] \in Nat
        /\ c \in Conn
    BY Zenon DEF TypeOK, NetOK, FencesOK, Conn
  <2>2. /\ received[c] >= owed[w].chunks[c]
        /\ owed[w].chunks[c] > 0 => Known(c) \/ is_shutdown_[c]
    BY Zenon, <2>1 DEF FenceInv, OwedInv
  <2>3. ASSUME Known(c) PROVE ~(received[c] > consumed[c])
    <3>1. pipe[c] = "quiet" => pipe[c] # "signalled"
      BY Zenon
    <3>2. <<socket_[c], c>> \in files
      BY Zenon, <1>3, <1>4, <1>5, <2>3, <3>1 DEF FenceInv, WatchInv
    <3>3. PICK g \in files : g[1] = socket_[c] /\ g[2] = c
      BY Zenon, <3>2
    <3> QED  BY Zenon, <1>2, <3>3 DEF ReadyToRead
  <2>4. CASE owed[w].chunks[c] = 0
    BY <2>1, <2>4
  <2>5. CASE owed[w].chunks[c] # 0
    <3>1. owed[w].chunks[c] > 0
      BY <2>1, <2>5
    <3>2. CASE Known(c)
      <4>1. ~(received[c] > consumed[c])
        BY Zenon, <2>3, <3>2
      <4> QED  BY <2>1, <2>2, <4>1
    <3> QED  BY Zenon, <2>2, <3>1, <3>2
  <2> QED  BY Zenon, <2>4, <2>5
<1> QED  BY Zenon, <1>6, <1>7 DEF Settled

\* Only the return of select leaves "blocked".
LEMMA LeavesSelect ==
  ASSUME TypeOK, Next, at = "blocked", at' = "process"
  PROVE  SelectReturns
<1>1. ~Others
  <2>1. at' # at
    BY Zenon
  <2> QED  BY Zenon, <2>1, OthersFrame
<1>2. at \notin {"pass", "select", "process", "swap", "tasks", "body", "read", "recv"}
  BY Zenon
<1>3. ~(SelectEntry \/ ReadFences \/ CallSelect \/ ProcessEntry \/ SwapTasks \/ RunTask
          \/ TasksDone \/ ProcessBody \/ NothingToRead \/ DoReceive \/ Accept \/ EndOfPass)
  BY Zenon, <1>2 DEF SelectEntry, ReadFences, CallSelect, ProcessEntry, SwapTasks, RunTask,
     TasksDone, ProcessBody, NothingToRead, DoReceive, Accept, EndOfPass
<1> QED  BY Zenon, <1>1, <1>3 DEF Next, ThreadMain

\* For any connections, waiters and orders of their steps: when select comes back empty,
\* every task that was queued and every chunk that had reached a stream the thread knew
\* when a fence was pushed has been processed, for every fence that is pending.
THEOREM EmptySelect == Spec => [][EmptySelectSettles]_vars
<1>1. TypeOK /\ FenceInv /\ [Next]_vars => [EmptySelectSettles]_vars
  <2> SUFFICES ASSUME TypeOK, FenceInv, Next PROVE EmptySelectSettles
    BY Zenon
  <2> QED  BY Zenon, EmptySettles, LeavesSelect DEF EmptySelectSettles
<1>2. NoBlockInv => TypeOK
  BY Zenon DEF NoBlockInv
<1> QED  BY <1>1, <1>2, BlockInductive, FenceInductive, PTL DEF Spec

-----------------------------------------------------------------------------
(* A fence of the only waiter                                              *)

\* What is settled stays settled.
LEMMA NextSettled ==
  ASSUME TypeOK, PipeInv, Next, NEW w \in Waiter, Settled(w), owed'[w] = owed[w]
  PROVE  Settled(w)'
<1>1. ran \subseteq ran'
  <2>1. CASE Others
    BY Zenon, <2>1, OthersFrame
  <2>2. CASE ThreadMain
    BY Zenon, <2>2 DEF ThreadMain, SelectEntry, ReadFences, CallSelect, SelectReturns,
       ProcessEntry, SwapTasks, RunTask, TasksDone, ProcessBody, NothingToRead, DoReceive,
       Accept, EndOfPass, tasking
  <2> QED  BY Zenon, <2>1, <2>2 DEF Next
<1>2. \A c \in Conn : is_shutdown_[c] => is_shutdown_'[c]
  BY Zenon, NextPipes, PipesAfter
<1>3. \A c \in Stream : consumed[c] \in Nat /\ owed[w].chunks[c] \in Nat /\ c \in Conn
  BY Zenon DEF TypeOK, NetOK, FencesOK, Conn
<1>4. \/ UNCHANGED consumed
      \/ \E d \in Conn : consumed' = [consumed EXCEPT ![d] = @ + 1]
  <2>1. CASE Others
    BY Zenon, <2>1, OthersFrame
  <2>2. CASE DoReceive
    BY Zenon, <2>2, ReceiveCases DEF ReceiveTakes, ReceiveCloses, ReceiveBlocks, Conn
  <2>3. CASE Accept
    BY Zenon, <2>3, AcceptCases DEF AcceptTakes, AcceptBlocks, Conn
  <2>4. CASE SelectEntry \/ ReadFences \/ CallSelect \/ SelectReturns \/ ProcessEntry
               \/ SwapTasks \/ RunTask \/ TasksDone \/ ProcessBody \/ NothingToRead
               \/ EndOfPass
    BY Zenon, <2>4 DEF SelectEntry, ReadFences, CallSelect, SelectReturns, ProcessEntry,
       SwapTasks, RunTask, TasksDone, ProcessBody, NothingToRead, EndOfPass, net
  <2> QED  BY Zenon, <2>1, <2>2, <2>3, <2>4 DEF Next, ThreadMain
<1>5. \A c \in Stream : consumed'[c] >= consumed[c] /\ consumed'[c] \in Nat
  <2>1. consumed \in [Conn -> Nat]
    BY Zenon DEF TypeOK, NetOK
  <2> QED  BY <1>3, <1>4, <2>1
<1>6. ASSUME NEW c \in Stream PROVE consumed'[c] >= owed[w].chunks[c] \/ is_shutdown_'[c]
  <2>1. consumed[c] >= owed[w].chunks[c] \/ is_shutdown_[c]
    BY Zenon DEF Settled
  <2>2. consumed[c] >= owed[w].chunks[c] => consumed'[c] >= owed[w].chunks[c]
    BY <1>3, <1>5
  <2> QED  BY Zenon, <1>2, <1>3, <2>1, <2>2
<1> QED  BY Zenon, <1>1, <1>6 DEF Settled

\* What the thread remembers of the fences through a pass.
LEMMA NextPass ==
  ASSUME TypeOK, Next
  PROVE  \/ UNCHANGED <<has_fences, fds>> /\ (at' \in Processing => at \in Processing)
         \/ ReadFences /\ at' \notin Processing
         \/ has_fences' = FALSE
         \/ SelectReturns /\ UNCHANGED has_fences
<1>1. CASE Others
  BY Zenon, <1>1, OthersFrame
<1>2. CASE SelectEntry
  BY Zenon, <1>2 DEF SelectEntry
<1>3. CASE ReadFences
  <2>1. at' = "select"
    BY Zenon, <1>3 DEF ReadFences
  <2> QED  BY Zenon, <1>3, <2>1 DEF Processing
<1>4. CASE CallSelect
  <2>1. has_fences' = FALSE \/ (at' = "blocked" /\ UNCHANGED <<has_fences, fds>>)
    BY Zenon, <1>4 DEF CallSelect
  <2> QED  BY Zenon, <2>1 DEF Processing
<1>5. CASE SelectReturns \/ EndOfPass
  BY Zenon, <1>5 DEF SelectReturns, EndOfPass
<1>6. CASE SwapTasks \/ RunTask \/ TasksDone \/ NothingToRead \/ DoReceive \/ Accept
             \/ ProcessEntry \/ ProcessBody
  <2>1. at \in Processing
    BY Zenon, <1>6 DEF SwapTasks, RunTask, TasksDone, NothingToRead, DoReceive, Accept, ProcessEntry,
       ProcessBody, Processing
  <2>2. UNCHANGED <<has_fences, fds>>
    BY Zenon, <1>6 DEF SwapTasks, RunTask, TasksDone, NothingToRead, DoReceive, Accept,
       ProcessEntry, ProcessBody, loop
  <2> QED  BY Zenon, <2>1, <2>2
<1> QED  BY Zenon, <1>1, <1>2, <1>3, <1>4, <1>5, <1>6 DEF Next, ThreadMain

LEMMA NextOne ==
  ASSUME OneWaiter, TypeOK, FenceInv, OneInv, Next
  PROVE  OneInv'
<1>1. UNCHANGED session /\ session \in Session
  BY Zenon, OthersFrame, ThreadSockets DEF Next, TypeOK, OwnersOK
<1>2. \A w \in Waiter : w \in pending_fences_ => wait[w] # "none"
  BY Zenon DEF OneInv
<1>3. ASSUME NEW w \in Waiter, AwaitQuiescence(w)
      PROVE  /\ w \in session.waiters /\ wait[w] = "none" /\ w \in pending_fences_'
             /\ UNCHANGED <<at, has_fences, fds>> /\ ~has_fences
  <2>1. w \in session.waiters /\ wait[w] = "none" /\ UNCHANGED <<at, has_fences, fds>>
    BY Zenon, <1>3 DEF AwaitQuiescence, loop
  <2>2. ~has_fences
    BY Zenon, <1>1, <2>1 DEF OneInv, OneWaiter
  <2> QED  BY Zenon, <1>3, <2>1, <2>2 DEF AwaitQuiescence
<1>4. ASSUME NEW w \in Waiter
      PROVE  \/ AwaitQuiescence(w)
             \/ owed'[w] = owed[w] /\ (wait'[w] = "none" <=> wait[w] = "none")
  BY Zenon, NextFences
<1>5. ASSUME NEW w \in Waiter, wait[w] # "none" PROVE wait'[w] # "none" /\ owed'[w] = owed[w]
  BY Zenon, <1>3, <1>4, <1>5
<1>6. \A w \in Waiter : wait'[w] # "none" => w \in session'.waiters
  BY Zenon, <1>1, <1>3, <1>4 DEF OneInv
<1>7. \A w \in pending_fences_' : wait'[w] # "none"
  <2> SUFFICES ASSUME NEW w \in pending_fences_' PROVE wait'[w] # "none"
    BY Zenon
  <2>1. w \in Waiter
    BY Zenon, NextType DEF TypeOK, FencesOK
  <2>2. CASE EndOfPass
    BY Zenon, <1>2, <1>5, <2>1, <2>2 DEF EndOfPass
  <2>3. "pushed" # "none"
    BY Zenon
  <2> QED  BY Zenon, <1>2, <2>1, <2>2, <2>3, NextFences
<1>8. has_fences' => \E w \in Waiter : wait'[w] # "none"
  <2>1. CASE UNCHANGED has_fences
    BY Zenon, <1>5, <2>1 DEF OneInv
  <2>2. CASE ReadFences
    <3>1. has_fences' => \E w \in pending_fences_ : w \in Waiter
      BY Zenon, <2>2 DEF ReadFences, TypeOK, FencesOK
    <3> QED  BY Zenon, <1>2, <1>5, <3>1
  <2> QED  BY Zenon, <2>1, <2>2, NextPass
<1>9. PipeInv
  BY Zenon DEF FenceInv
<1>10. ASSUME NEW w \in Waiter, at' \in Processing, has_fences', fds' = 0, wait'[w] # "none"
       PROVE  Settled(w)'
  <2>1. CASE SelectReturns
    <3>1. UNCHANGED <<wait, owed>>
      BY Zenon, <2>1 DEF SelectReturns, fences
    <3>2. Settled(w)
      BY Zenon, <1>10, <2>1, <3>1, EmptySettles
    <3> QED  BY Zenon, <1>9, <3>1, <3>2, NextSettled
  <2>2. CASE UNCHANGED <<has_fences, fds>> /\ at \in Processing
    <3>1. ~AwaitQuiescence(w)
      BY Zenon, <1>3, <1>10, <2>2
    <3>2. wait[w] # "none" /\ owed'[w] = owed[w]
      BY Zenon, <1>4, <1>10, <3>1
    <3>3. Settled(w)
      BY Zenon, <1>10, <2>2, <3>2 DEF OneInv
    <3> QED  BY Zenon, <1>9, <3>2, <3>3, NextSettled
  <2> QED  BY Zenon, <1>10, <2>1, <2>2, NextPass
<1>11. ASSUME NEW w \in Waiter, wait'[w] # "none", w \notin pending_fences_'
       PROVE  Settled(w)'
  <2>1. ~AwaitQuiescence(w)
    BY Zenon, <1>3, <1>11
  <2>2. wait[w] # "none" /\ owed'[w] = owed[w]
    BY Zenon, <1>4, <1>11, <2>1
  <2>3. CASE w \notin pending_fences_
    BY Zenon, <1>9, <2>2, <2>3, NextSettled DEF OneInv
  <2>4. CASE w \in pending_fences_
    <3>1. EndOfPass
      BY Zenon, <1>11, <2>1, <2>4, NextFences
    <3>2. at = "process" /\ has_fences /\ fds = 0
      BY Zenon, <1>11, <2>4, <3>1 DEF EndOfPass
    <3>3. at \in Processing
      BY Zenon, <3>2 DEF Processing
    <3> QED  BY Zenon, <1>9, <2>2, <3>2, <3>3, NextSettled DEF OneInv
  <2> QED  BY Zenon, <2>3, <2>4
<1> QED  BY Zenon, <1>6, <1>7, <1>8, <1>10, <1>11 DEF OneInv

LEMMA InitOne ==
  ASSUME Init
  PROVE  OneInv
<1>1. \A w \in Waiter : wait[w] = "none"
  BY Zenon DEF Init
<1>2. pending_fences_ = {} /\ has_fences = FALSE
  BY Zenon DEF Init
<1> QED  BY Zenon, <1>1, <1>2 DEF OneInv

\* AwaitQuiescence "Blocks the calling thread until the SelectThread has processed all
\* currently pending events": so it does for any number of streams, tasks and descriptors,
\* whatever is posted, sent or closed meanwhile. Two things it does not survive: a second
\* waiter, whose fence the empty select the first one asked for fulfils as well, and a
\* listening socket, which Listen opens without a signal.
THEOREM Fence ==
  ASSUME OneWaiter, \A s \in Session : s.conns \subseteq Stream
  PROVE  Spec => []FenceIsQuiescent
<1>1. Init => OneInv
  BY Zenon, InitOne
<1>2. NoBlockInv /\ FenceInv /\ OneInv /\ [Next]_vars => OneInv'
  <2> SUFFICES ASSUME NoBlockInv, FenceInv, OneInv, [Next]_vars PROVE OneInv'
    BY Zenon
  <2>1. CASE Next
    BY Zenon, <2>1, NextOne DEF NoBlockInv
  <2>2. CASE UNCHANGED vars
    <3>1. /\ UNCHANGED <<wait, owed, pending_fences_, has_fences, fds, at, session>>
          /\ UNCHANGED <<ran, consumed, is_shutdown_>>
      BY Zenon, <2>2 DEF vars, sock, net, tasking, fences, loop, control
    <3>2. \A w : Settled(w)' <=> Settled(w)
      BY Zenon, <3>1 DEF Settled
    <3> QED  BY Zenon, <3>1, <3>2 DEF OneInv
  <2> QED  BY Zenon, <2>1, <2>2
<1>3. NoBlockInv /\ FenceInv /\ OneInv => FenceIsQuiescent
  <2> SUFFICES ASSUME TypeOK, FenceInv, OneInv, NEW w \in Waiter, wait[w] # "none",
                      w \notin pending_fences_
               PROVE  /\ owed[w].tasks \subseteq ran
                      /\ \A c \in Conn : \/ consumed[c] >= owed[w].chunks[c]
                                         \/ is_shutdown_[c]
    BY Zenon DEF NoBlockInv, FenceIsQuiescent
  <2>1. Settled(w)
    BY Zenon DEF OneInv
  <2>2. session.conns \subseteq Stream
    BY Zenon DEF TypeOK, OwnersOK
  <2>3. ASSUME NEW c \in Conn PROVE consumed[c] >= owed[w].chunks[c] \/ is_shutdown_[c]
    <3>1. consumed[c] \in Nat /\ owed[w].chunks[c] \in Nat
      BY Zenon DEF TypeOK, NetOK, FencesOK
    <3>2. CASE owed[w].chunks[c] > 0
      <4>1. c \in Stream
        BY Zenon, <2>2, <3>2 DEF FenceInv, OwedInv
      <4> QED  BY Zenon, <2>1, <4>1 DEF Settled
    <3>3. CASE ~(owed[w].chunks[c] > 0)
      BY <3>1, <3>3
    <3> QED  BY Zenon, <3>2, <3>3
  <2> QED  BY Zenon, <2>1, <2>3 DEF Settled
<1> QED  BY <1>1, <1>2, <1>3, BlockInductive, FenceInductive, PTL DEF Spec

=============================================================================
