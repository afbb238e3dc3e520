--------------------------- MODULE MCSelectThread ---------------------------
(* Instances of SelectThread for TLC.                                      *)
EXTENDS SelectThread, TLC

\* One connection and a waiter, with a task and Stop or with something to send; two
\* connections, of which the second may be given the descriptor of the first; a
\* connection and a server, likewise. Something arrives and is closed in each.
Race(conns, tasks, waiters, sends, stops) ==
  [conns |-> conns, tasks |-> tasks, waiters |-> waiters, arrivals |-> 1,
   sends |-> sends, closes |-> TRUE, stops |-> stops]
Races ==
  {Race(Stream, {}, {}, 0, FALSE)}
    \cup UNION {{Race({c}, Task, Waiter, 0, TRUE), Race({c}, {}, Waiter, 1, FALSE),
                 Race({c} \cup Server, {}, {}, 0, FALSE)} : c \in Stream}

StreamSymmetry == Permutations(Stream)

\* One connection whose peer is silent, with a task or with something to send; or
\* a server and a connection that is opened by the program or accepted.
Progress ==
  {[conns |-> Stream, tasks |-> Task, waiters |-> Waiter, arrivals |-> 0,
    sends |-> 0, closes |-> TRUE, stops |-> FALSE],
   [conns |-> Stream, tasks |-> {}, waiters |-> Waiter, arrivals |-> 0,
    sends |-> 1, closes |-> TRUE, stops |-> FALSE],
   [conns |-> Conn, tasks |-> {}, waiters |-> {}, arrivals |-> 1, sends |-> 0,
    closes |-> FALSE, stops |-> FALSE]}
=============================================================================
