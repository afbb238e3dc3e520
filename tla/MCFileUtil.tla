----------------------------- MODULE MCFileUtil -----------------------------
(* FileUtil over trees of a file, a directory with a file and a directory    *)
(* in it, here and on the target, in sync, stale or missing.                 *)
EXTENDS FileUtil

Src == <<"src">>
Drive == <<"E:">>
Root == <<"E:", "r">>

\* The tree with these files and the directories above them
Tree(base, files) ==
  LET dirs == UNION {{SubSeq(n, 1, i) : i \in 1 .. Len(n) - 1} : n \in DOMAIN files}
  IN  files @@ [d \in dirs \cup base |-> Dir]

Locals == {Tree({Src}, [n \in {Src \o f : f \in fs} |-> File("v1", 0)]) :
             fs \in {{<<"f">>, <<"p", "f">>}, {<<"p", "q", "f">>}, {<<"f">>, <<".DS_Store">>}}}

Synced == File("v1", SafeXFATTimestamp(0))
Stale == File("old", 0)
Outside == <<"E:", "x">> :> Stale

\* No directory; one with other files, stale or in sync; a deep one in sync; a
\* file or a directory in the place of the other
Remotes ==
  {Tree({Drive}, Outside),
   Tree({Root}, Root \o <<"f">> :> Stale @@ Root \o <<"g">> :> Stale @@ Outside),
   Tree({Root}, Root \o <<"f">> :> Synced @@ Root \o <<"p", "f">> :> Stale @@ Root \o <<"d", "g">> :> Stale @@ Outside),
   Tree({Root}, Root \o <<"p", "q", "f">> :> Synced @@ Outside),
   Tree({Drive}, Root :> Stale @@ Outside),
   Tree({Root, Root \o <<"f">>}, Outside)}

R == Join(Root, "/")
SyncDirectories ==
  [op : {"SyncDirectory"}, local : {Src}, remote : {R}, missing_action : {"DELETE", "LEAVE"}]
SyncFiles == [op : {"MacroCommandSyncFile"}, local : {Src \o <<"f">>}, remote : {R}]
Transfers ==
  [op : {"CommandPutFile"}, local : {Src}, remote : {R}, overwrite_action : {"OVERWRITE", "SKIP"}]
  \cup [op : {"CommandPutFile"}, local : {Src \o <<"f">>}, remote : {R, Append(R, "\\")},
        overwrite_action : {"OVERWRITE", "ABORT"}]
  \cup [op : {"CommandGetFile"}, local : {<<"src", "p">>}, remote : {R}]
  \cup [op : {"CommandDelete"}, local : {Src}, remote : {R}, recursive : BOOLEAN]

\* Anything, then a synchronisation, as after one that failed
CommandList == <<SyncDirectories \cup SyncFiles \cup Transfers, SyncDirectories \cup SyncFiles>>

\* Every timestamp is one the target accepts, and write times of the same
\* period (seven seconds here, four years in the code) are told apart.
ASSUME StampsAreUsable ==
  \A s \in -2040 .. -1010 :
    /\ SafeXFATTimestamp(s) \in kMinTimestamp .. kMaxTimestamp
    /\ \A d \in 1 .. 7 : SafeXFATTimestamp(s) # SafeXFATTimestamp(s + d)
=============================================================================
