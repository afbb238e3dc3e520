----------------------------- MODULE MCDebugger -----------------------------
(* Instances of Debugger for TLC: sessions that use every command, those with  *)
(* few interleavings with the most that can happen beside them.                *)
EXTENDS Debugger

Alone(shell, e, f) ==
  [shell |-> shell, gdb |-> FALSE, launches |-> FALSE, events |-> e, failures |-> f, attempts |-> 1]
WithGDB(shell, launches, f, attempts) ==
  [shell |-> shell, gdb |-> TRUE, launches |-> launches, events |-> 0, failures |-> f,
   attempts |-> attempts]

ShellCommands == {"attach", "restart", "detach", "threads", "modules", "sections", "haltall",
                  "continueall", "stepfunction", "suspend", "resume", "continue", "halt thread"}

Sessions == {Alone(<<"run">>, 1, 0), Alone(<<"launch">>, 0, 1), Alone(<<"launchentry">>, 0, 1)}
              \cup {Alone(<<"attach", c>>, 1, 1) : c \in ShellCommands}
              \cup {WithGDB(<<"attach">>, FALSE, 0, 2), WithGDB(<<"detach">>, FALSE, 1, 2), WithGDB(<<"go">>, FALSE, 1, 2),
                    WithGDB(<<"restart">>, FALSE, 0, 1), WithGDB(<<>>, TRUE, 0, 1)}
=============================================================================
