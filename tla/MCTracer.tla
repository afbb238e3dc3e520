------------------------------ MODULE MCTracer ------------------------------
(* Instances of Tracer for TLC.                                            *)
EXTENDS Tracer

Lines(lines) ==
  [input |-> lines, failures |-> 0, fatal |-> 0, reboots |-> 0, moves |-> FALSE, same |-> FALSE,
   imports |-> 1, tls |-> FALSE, loaded |-> FALSE, running |-> TRUE]

\* Two packets of methods, the first with parameters; one of graphics data.
TwoAndOne == [pgraph |-> <<1, 0>>, aux |-> <<1>>]

Sessions ==
  { \* the loader: failures, a stopped target, tables that are split, memory at ImageBase
   [Lines(<<"load_bootstrap", "load_bootstrap">>) EXCEPT !.failures = 2],
   [Lines(<<"load">>) EXCEPT !.imports = 38, !.running = FALSE],
   [Lines(<<"hello", "load">>) EXCEPT !.failures = 1, !.imports = 74],
   [Lines(<<"load">>) EXCEPT !.same = TRUE],
   [Lines(<<"load", "load", "/continueallgo">>) EXCEPT !.tls = TRUE],
   \* the target reboots, with modules where they were or elsewhere
   [Lines(<<"load_bootstrap", "load">>) EXCEPT !.reboots = 1],
   [Lines(<<"load_bootstrap", "load_bootstrap", "load">>) EXCEPT !.reboots = 1, !.failures = 1, !.moves = TRUE],
   \* the tracer: frames, with a failure or a fatal state
   Lines(<<"$trace", "$init", "$trace frames 2">>),
   [Lines(<<"$init", "/continueallgo", "$stepflip", "$trace nodiscard">>) EXCEPT !.failures = 1, !.fatal = 2],
   [Lines(<<"$init", "/continueallgo", "$trace nodiscard", "$trace nodiscard">>) EXCEPT !.failures = 1],
   [Lines(<<"$init", "/continueallgo", "$trace nodiscard", "$trace nodiscard">>) EXCEPT !.fatal = 2],
   [Lines(<<"$init", "$stepflip">>) EXCEPT !.loaded = TRUE],
   \* it is detached and attached again
   [Lines(<<"$init", "$detach", "$init", "$stepflip">>) EXCEPT !.failures = 1],
   Lines(<<"$init", "$trace", "$detach", "$init", "$trace">>),
   \* the target reboots while it traces
   [Lines(<<"$init", "/continueallgo", "$trace nodiscard">>) EXCEPT !.reboots = 1]}
=============================================================================
