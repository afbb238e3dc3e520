--------------------------- MODULE MCBreakpoints ---------------------------
(* Instances of Breakpoints for TLC.                                        *)
EXTENDS Breakpoints

Everything == [e \in {"gdb", "shell"} |->
  IF e = "gdb" THEN {"read", "add", "remove", "step", "go"} ELSE {"read", "break"}]
=============================================================================
