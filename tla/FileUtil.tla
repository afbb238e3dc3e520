------------------------------ MODULE FileUtil ------------------------------
(* Transfers between a local directory tree and the target's drive: the     *)
(* shell's putfile, getfile, delete, %syncfile and %syncdir. Each is a       *)
(* sequence of requests any of which may fail, and the user goes on editing  *)
(* local files meanwhile. A path is a sequence of names and separators; a    *)
(* call whose callees all propagate failure is a list of things to do, which *)
(* the first failure drops.                                                  *)
EXTENDS Integers, Sequences, FiniteSets, FiniteSetsExt, SequencesExt, TLC

CONSTANTS
  LocalTrees, RemoteTrees,  \* what is there at the start
  Commands,                 \* what the user may ask for first, second, ...
  MaxFailures, MaxEdits,    \* bounds on requests that fail and on edits
  None

Separator == {"\\", "/"}

VARIABLES
  local, remote,  \* trees: functions from sequences of names to nodes
  clock,          \* the local clock, in seconds
  todo,           \* what is left of the command under way
  command,        \* the command under way, or the last one
  result,         \* what it returned; None while it is under way
  sync,           \* locals of SyncDirectory
  commands, failures, edits,
  \* history: the trees when the command began; local files edited since then;
  \* local files that the write time of the remote one may hide to be stale
  before, edited, hidden

bounds == <<commands, failures, edits>>
history == <<before, edited, hidden>>
vars == <<local, remote, clock, todo, command, result, sync, bounds, history>>

Dir == [type |-> "dir", data |-> None, time |-> 0]
File(data, time) == [type |-> "file", data |-> data, time |-> time]
NoSync == [local_files |-> {}, local_populated_dirs |-> {}]
IsDir(tree, n) == n \in DOMAIN tree /\ tree[n].type = "dir"
IsFile(tree, n) == n \in DOMAIN tree /\ tree[n].type = "file"
Files(tree) == {n \in DOMAIN tree : tree[n].type = "file"}
Below(tree, n) == {m \in DOMAIN tree : IsPrefix(n, m) /\ m # n}
Children(tree, n) == {m \in Below(tree, n) : Len(m) = Len(n) + 1}

\* The size of a file: only a transfer cut short changes it.
file_size(data) == IF data = "cut" THEN 1 ELSE 2

-----------------------------------------------------------------------------
(* Paths.                                                                   *)

Names(path) == SelectSeq(path, LAMBDA t : t \notin Separator)
Join(names, separator) ==
  [i \in 1 .. 2 * Len(names) - 1 |-> IF i % 2 = 1 THEN names[(i + 1) \div 2] ELSE separator]
filename(path) == Last(path)
parent_path(path) == IF Len(path) = 1 THEN <<>> ELSE SubSeq(path, 1, Len(path) - 2)

EnsureTrailingBackslash(path) == IF Last(path) # "\\" THEN Append(path, "\\") ELSE path
EnsureXFATStylePath(path) == [i \in DOMAIN path |-> IF path[i] = "/" THEN "\\" ELSE path[i]]
XFATPathToLocalPath(path) == [i \in DOMAIN path |-> IF path[i] = "\\" THEN "/" ELSE path[i]]

-----------------------------------------------------------------------------
(* Timestamps. The widths are scaled down together: 64 bits to 22, the       *)
(* shift by 28 to one by 10, the valid range of 2^55 - 1 to 2^13 - 1, so     *)
(* that, as in the code, the loop subtracts the range up to 512 times and    *)
(* each time shifts the low bits by one.                                     *)

Width == 2 ^ 22
Unit == 2 ^ 10
kMinTimestamp == 7 * 2 ^ 12
kMaxTimestamp == 9 * 2 ^ 12 - 1
kTimeRange == kMaxTimestamp - kMinTimestamp
\* How far above the requested value the target sets a timestamp
Jitter == {0, 65}

\* & kUsableTimestampRange
Usable(stamp) == stamp - (stamp % Unit)

\* SafeXFATTimestampForFile. The epoch of the file clock is in the future, so
\* that the count is negative and wraps.
SafeXFATTimestamp(seconds) ==
  LET shifted == (seconds * Unit) % Width
      raised == IF shifted < kMinTimestamp THEN (shifted + kMinTimestamp) % Width ELSE shifted
      rounds == IF raised <= kMaxTimestamp THEN 0
                ELSE (raised - kMaxTimestamp + kTimeRange - 1) \div kTimeRange
  IN  Usable(raised - rounds * kTimeRange)

last_write_time(names) == local[names].time

\* A seeded fault: only the sizes are compared.
UpToDateBySize(node, local_names) == file_size(node.data) = file_size(local[local_names].data)

\* The test by which SyncFile and SyncDirectory skip a file
UpToDate(node, local_names) ==
  /\ SafeXFATTimestamp(last_write_time(local_names)) = Usable(node.time)
  /\ file_size(node.data) = file_size(local[local_names].data)

-----------------------------------------------------------------------------
(* The target. An answer is a status and the tree after the request.        *)

Resolves(path) == \A i \in DOMAIN path : path[i] # "/"
Answer(status, tree) == [status |-> status, remote |-> tree]
Refused(status) == Answer(status, remote)

Mkdir(path) ==
  LET n == Names(path) IN
  IF ~Resolves(path) \/ ~IsDir(remote, Front(n)) THEN Refused("ERR_PATH")
  ELSE IF n \in DOMAIN remote THEN Refused("ERR_EXISTS")
  ELSE Answer("OK", n :> Dir @@ remote)

Delete(path, is_directory) ==
  LET n == Names(path) IN
  IF ~Resolves(path) \/ n \notin DOMAIN remote THEN Refused("ERR_FILE_NOT_FOUND")
  ELSE IF IsDir(remote, n) # is_directory \/ Children(remote, n) # {} THEN Refused("ERR_ACCESS")
  ELSE Answer("OK", [m \in DOMAIN remote \ {n} |-> remote[m]])

\* The target stamps a new file with its own clock, here 0
SendFile(path, data) ==
  LET n == Names(path) IN
  IF ~Resolves(path) \/ ~IsDir(remote, Front(n)) \/ IsDir(remote, n) THEN Refused("ERR_PATH")
  ELSE Answer("OK", n :> File(data, 0) @@ remote)

SetFileAttributes(path, stamp) ==
  LET n == Names(path) IN
  IF ~Resolves(path) \/ ~IsFile(remote, n) THEN Refused("ERR_FILE_NOT_FOUND")
  ELSE Answer("OK", [remote EXCEPT ![n].time = stamp])

\* GetFileAttributes accepts FILE_NOT_FOUND as "does not exist"
GetFileAttributes(path) ==
  LET n == Names(path) IN
  [exists |-> Resolves(path) /\ n \in DOMAIN remote,
   is_dir |-> Resolves(path) /\ IsDir(remote, n)]

DirList(path) ==
  IF Resolves(path) /\ IsDir(remote, Names(path)) THEN Refused("OK") ELSE Refused("ERR_PATH")

GetFile(path) ==
  IF Resolves(path) /\ IsFile(remote, Names(path)) THEN Refused("OK") ELSE Refused("ERR_FILE_NOT_FOUND")

-----------------------------------------------------------------------------
(* The list of things to do.                                                *)

\* The first thing to do
Doing(op) == todo # <<>> /\ Head(todo).op = op
This == Head(todo)

\* A call that returns false: so do all the calls it was made from.
ReturnFalse == todo' = <<>> /\ result' = "false"

\* Go on with steps, then with the rest; the command returns true at the end.
GoOn(steps) ==
  /\ todo' = steps \o Tail(todo)
  /\ result' = IF todo' = <<>> THEN "true" ELSE result

\* interface.SendCommandSync and the test of the status. A request fails before
\* or after it takes effect, or, for a file, half way.
SendCommandSync(answer, accepted, steps, cut) ==
  \/ /\ remote' = answer.remote
     /\ IF answer.status \in accepted THEN GoOn(steps) ELSE ReturnFalse
     /\ UNCHANGED failures
  \/ /\ failures < MaxFailures /\ failures' = failures + 1
     /\ remote' \in {remote, answer.remote} \cup cut
     /\ ReturnFalse

\* What CheckRemotePath can return and store in exists and is_dir
CheckRemotePath(path) ==
  {[ok |-> TRUE, exists |-> a.exists, is_dir |-> a.is_dir] : a \in {GetFileAttributes(path)}}
  \cup {[ok |-> FALSE] : i \in failures + 1 .. MaxFailures}

\* if (!CheckRemotePath(path, exists, is_dir)) return false; and the rest
Checked(path, Then(_, _)) ==
  \E r \in CheckRemotePath(path) :
    \/ r.ok /\ Then(r.exists, r.is_dir) /\ UNCHANGED <<remote, failures>>
    \/ ~r.ok /\ ReturnFalse /\ failures' = failures + 1 /\ UNCHANGED <<remote, sync>>

-----------------------------------------------------------------------------
(* Deleting and saving.                                                     *)

DeleteStep(path, is_directory) == [op |-> "Delete", path |-> path, is_directory |-> is_directory]
RecursiveStep(path) == [op |-> "DeleteRecursively", path |-> path]

\* A name in a remote directory
In(dir, n) == EnsureTrailingBackslash(dir) \o <<Last(n)>>

DoDelete ==
  /\ Doing("Delete")
  /\ SendCommandSync(Delete(This.path, This.is_directory), {"OK"}, <<>>, {})
  /\ UNCHANGED <<local, clock, command, sync, commands, edits, history>>

\* FetchDirectoryEntries: the directories and the files of a listing
Listed(path, type) == SetToSeq({n \in Children(remote, Names(path)) : remote[n].type = type})

DeleteRecursively ==
  /\ Doing("DeleteRecursively")
  /\ LET path == This.path
         files == Listed(path, "file")
         directories == Listed(path, "dir")
     IN  SendCommandSync(DirList(EnsureXFATStylePath(path)), {"OK"},
           [i \in DOMAIN files |-> DeleteStep(In(path, files[i]), FALSE)]
             \o [i \in DOMAIN directories |-> RecursiveStep(In(path, directories[i]))]
             \o <<DeleteStep(path, TRUE)>>, {})
  /\ UNCHANGED <<local, clock, command, sync, commands, edits, history>>

\* CommandDelete with -r when the path cannot be checked: deletes it all the same
DeleteUnchecked ==
  /\ Doing("CommandDelete") /\ command.recursive
  /\ failures < MaxFailures /\ failures' = failures + 1
  /\ GoOn(<<DeleteStep(EnsureXFATStylePath(command.remote), TRUE)>>)
  /\ UNCHANGED <<local, remote, clock, command, sync, commands, edits, history>>

CommandDelete ==
  /\ Doing("CommandDelete")
  /\ LET path == EnsureXFATStylePath(command.remote)
         recursive == command.recursive
     IN  GoOn(<<IF recursive /\ GetFileAttributes(path).is_dir THEN RecursiveStep(path)
                ELSE DeleteStep(path, recursive)>>)
  /\ UNCHANGED <<local, remote, clock, command, sync, bounds, history>>

SaveFileStep(path, n) == [op |-> "SaveFile", path |-> path, local |-> n]
SaveDirectoryStep(path, n) == [op |-> "SaveDirectory", path |-> path, local |-> n]

\* GetFile, then the local file is written: its directory must be there
SaveFile ==
  /\ Doing("SaveFile")
  /\ LET n == This.local
         writable == IsDir(local, Front(n)) /\ ~IsDir(local, n)
     IN  /\ SendCommandSync(GetFile(This.path), IF writable THEN {"OK"} ELSE {}, <<>>, {})
         /\ local' = IF todo' # <<>> \/ result' = "true"
                     THEN n :> File(remote[Names(This.path)].data, clock) @@ local ELSE local
  /\ UNCHANGED <<clock, command, sync, commands, edits, history>>

\* create_directories: what it cannot create it leaves, and its error is ignored
create_directories(tree, n) ==
  LET dirs == {SubSeq(n, 1, i) : i \in 1 .. Len(n)} IN
  IF \E d \in dirs : IsFile(tree, d) THEN tree
  ELSE [d \in dirs |-> Dir] @@ tree

\* The directories first, each created before it is entered
SaveDirectory ==
  /\ Doing("SaveDirectory")
  /\ LET directories == Listed(This.path, "dir")
         files == Listed(This.path, "file")
         Under(n) == Append(This.local, Last(n))
     IN  SendCommandSync(DirList(EnsureXFATStylePath(This.path)), {"OK"},
           [i \in DOMAIN directories |->
              SaveDirectoryStep(In(This.path, directories[i]), Under(directories[i]))]
             \o [i \in DOMAIN files |-> SaveFileStep(In(This.path, files[i]), Under(files[i]))], {})
  /\ local' = create_directories(local, This.local)
  /\ UNCHANGED <<clock, command, sync, commands, edits, history>>

CommandGetFile ==
  /\ Doing("CommandGetFile")
  /\ LET path == EnsureXFATStylePath(command.remote) IN
     Checked(path, LAMBDA exists, is_dir :
       /\ IF ~exists THEN ReturnFalse
          ELSE GoOn(<<IF is_dir THEN SaveDirectoryStep(path, command.local)
                      ELSE SaveFileStep(path, command.local)>>)
       /\ UNCHANGED sync)
  /\ local' = IF result' = "false" THEN local ELSE create_directories(local, Front(command.local))
  /\ UNCHANGED <<clock, command, commands, edits, history>>

-----------------------------------------------------------------------------
(* Uploading.                                                               *)

MkdirStep(path, tolerated) == [op |-> "Mkdir", path |-> path, tolerated |-> tolerated]
UploadStep(n, path) == [op |-> "Upload", local |-> n, path |-> path]

\* A directory that is already there is an error, or not: CreateRemoteDirectoryHierarchy
DoMkdir ==
  /\ Doing("Mkdir")
  /\ SendCommandSync(Mkdir(This.path), {"OK"} \cup This.tolerated, <<>>, {})
  /\ UNCHANGED <<local, clock, command, sync, commands, edits, history>>

\* UploadFileWithoutChecking reads the whole file and sends it ...
UploadFileWithoutChecking ==
  /\ Doing("Upload")
  /\ LET path == EnsureXFATStylePath(This.path)
         n == This.local
         data == local[n].data
     IN  SendCommandSync(SendFile(path, data), {"OK"},
              <<[op |-> "Stamp", local |-> n, path |-> path, data |-> data]>>,
              {SendFile(path, "cut").remote})
  /\ UNCHANGED <<local, clock, command, sync, commands, edits, history>>

\* ... and takes its write time when the target has the file.
UpdateTimestamp ==
  /\ Doing("Stamp")
  /\ \E jitter \in Jitter :
       SendCommandSync(SetFileAttributes(This.path,
                         SafeXFATTimestamp(last_write_time(This.local)) + jitter), {"OK"}, <<>>, {})
  /\ hidden' = (hidden \ {This.local}) \cup
       {n \in Files(local) : /\ Last(n) = Last(This.local) /\ local[n].data # This.data
                             /\ last_write_time(n) = last_write_time(This.local)}
  /\ UNCHANGED <<local, clock, command, sync, commands, edits, before, edited>>

\* The end of UploadFile: what overwrite_action says of an existing file
UploadUnlessExists(n, path, exists, is_dir) ==
  CASE exists /\ ~is_dir /\ command.overwrite_action = "SKIP" -> GoOn(<<>>)
    [] exists /\ ~is_dir /\ command.overwrite_action = "ABORT" -> ReturnFalse
    [] OTHER -> GoOn(<<UploadStep(n, path)>>)

\* UploadFile, once the remote path is a directory: the file in it
UploadFileWithin(n, path) ==
  LET full_remote_path == path \o <<filename(n)>> IN
  Checked(full_remote_path, LAMBDA exists, is_dir :
    /\ UploadUnlessExists(n, full_remote_path, exists, is_dir)
    /\ UNCHANGED sync)

UploadFile ==
  /\ \/ /\ Doing("UploadFile")
        /\ LET path == EnsureXFATStylePath(This.path)
               within == [op |-> "UploadWithin", local |-> This.local, path |-> EnsureTrailingBackslash(path)]
           IN Checked(path, LAMBDA exists, is_dir :
                /\ CASE is_dir -> GoOn(<<within>>)
                     [] ~exists /\ Last(path) = "\\" -> GoOn(<<MkdirStep(path, {}), within>>)
                     [] OTHER -> UploadUnlessExists(This.local, path, exists, is_dir)
                /\ UNCHANGED sync)
     \/ /\ Doing("UploadWithin")
        /\ UploadFileWithin(This.local, This.path)
  /\ UNCHANGED <<local, clock, command, commands, edits, history>>

\* A seeded fault: subdirectories are not entered.
WalkDirectoryOnly(dir) == {n \in Children(local, dir) : local[n].type = "file"}

\* WalkDirectory: the local files, those of a directory before those below it
WalkDirectory(dir) == {n \in Below(local, dir) : local[n].type = "file"}

\* UploadDirectory with contents_only: every file goes to the one remote directory
UploadDirectory ==
  /\ Doing("UploadDirectory")
  /\ LET path == EnsureXFATStylePath(This.path)
         put == [op |-> "PutFiles", path |-> EnsureTrailingBackslash(path), files |-> WalkDirectory(This.local)]
     IN Checked(path, LAMBDA exists, is_dir :
          /\ CASE exists /\ ~is_dir -> ReturnFalse
               [] ~exists -> GoOn(<<MkdirStep(path, {}), put>>)
               [] OTHER -> GoOn(<<put>>)
          /\ UNCHANGED sync)
  /\ UNCHANGED <<local, clock, command, commands, edits, history>>

\* The callback of UploadDirectory on each file
PutFiles ==
  /\ Doing("PutFiles")
  /\ \/ This.files = {} /\ GoOn(<<>>)
     \/ \E n \in This.files :
          /\ \A m \in This.files : Len(n) <= Len(m)
          /\ GoOn(<<[op |-> "UploadFile", local |-> n, path |-> This.path],
                    [This EXCEPT !.files = @ \ {n}]>>)
  /\ UNCHANGED <<local, remote, clock, command, sync, bounds, history>>

CommandPutFile ==
  /\ Doing("CommandPutFile")
  /\ GoOn(<<[op |-> IF IsDir(local, command.local) THEN "UploadDirectory" ELSE "UploadFile",
             local |-> command.local, path |-> EnsureXFATStylePath(command.remote)]>>)
  /\ UNCHANGED <<local, remote, clock, command, sync, bounds, history>>

-----------------------------------------------------------------------------
(* Synchronising.                                                           *)

SyncStep(op, path) == [op |-> op, path |-> path]

\* MacroCommandSyncFile looks at the remote path once or twice, SyncFile again
MacroCommandSyncFile ==
  /\ \/ /\ Doing("MacroCommandSyncFile")
        /\ LET path == EnsureXFATStylePath(command.remote) IN
           Checked(path, LAMBDA exists, is_dir :
             /\ GoOn(IF is_dir THEN <<SyncStep("Check", In(path, command.local)),
                                      SyncStep("SyncFile", In(path, command.local))>>
                     ELSE <<SyncStep("SyncFile", path)>>)
             /\ UNCHANGED sync)
     \/ /\ Doing("Check")
        /\ Checked(This.path, LAMBDA exists, is_dir : GoOn(<<>>) /\ UNCHANGED sync)
  /\ UNCHANGED <<local, clock, command, commands, edits, history>>

SyncFile ==
  /\ Doing("SyncFile") \/ Doing("SyncFileWithin")
  /\ Checked(This.path, LAMBDA exists, is_dir :
       /\ CASE is_dir /\ This.op = "SyncFile" ->
                 GoOn(<<SyncStep("SyncFileWithin", In(This.path, command.local))>>)
            [] exists /\ UpToDate(remote[Names(This.path)], command.local) -> GoOn(<<>>)
            [] OTHER -> GoOn(<<UploadStep(command.local, This.path)>>)
       /\ UNCHANGED sync)
  /\ UNCHANGED <<local, clock, command, commands, edits, history>>

\* The local files by their path relative to local_directory, and the
\* directories that directly hold one
RelativeLocalFiles ==
  {Join(SubSeq(n, Len(command.local) + 1, Len(n)), "/") :
     n \in {m \in WalkDirectory(command.local) : Last(m) # ".DS_Store"}}

SyncDirectory ==
  /\ Doing("SyncDirectory")
  /\ Checked(EnsureXFATStylePath(command.remote), LAMBDA exists, is_dir :
       IF exists /\ ~is_dir THEN ReturnFalse /\ UNCHANGED sync
       ELSE /\ sync' = [local_files |-> RelativeLocalFiles,
                        local_populated_dirs |-> {parent_path(f) : f \in RelativeLocalFiles}]
            /\ GoOn(<<SyncStep("WalkRemoteDir", command.remote), SyncStep("MakeDirs", command.remote),
                      SyncStep("Hierarchy", command.remote), SyncStep("UploadNew", command.remote)>>))
  /\ UNCHANGED <<local, clock, command, commands, edits, history>>

remote_root == EnsureTrailingBackslash(EnsureXFATStylePath(command.remote))
LocalNames(relative) == command.local \o Names(relative)
WalkStep(dirs) == IF dirs = <<>> THEN <<>> ELSE <<[op |-> "Walk", directories |-> dirs]>>

WalkRemoteDir ==
  /\ Doing("WalkRemoteDir")
  /\ Checked(remote_root, LAMBDA exists, is_dir :
       /\ CASE ~exists -> GoOn(<<>>)
            [] ~is_dir -> ReturnFalse
            [] OTHER -> GoOn(WalkStep(<<remote_root>>))
       /\ UNCHANGED sync)
  /\ UNCHANGED <<local, clock, command, commands, edits, history>>

\* A seeded fault: missing_action is not asked.
process_remote_dir_deleting(dir) ==
  LET subdir == XFATPathToLocalPath(SubSeq(dir, Len(remote_root) + 1, Len(dir)))
      skip == subdir # <<>> /\ subdir \notin sync.local_populated_dirs
  IN  [should_skip |-> skip,
       steps |-> IF skip THEN <<RecursiveStep(EnsureTrailingBackslash(dir))>> ELSE <<>>]

\* process_remote_dir: whether to skip the directory, and what to do of it first
process_remote_dir(dir) ==
  LET subdir == XFATPathToLocalPath(SubSeq(dir, Len(remote_root) + 1, Len(dir)))
      skip == subdir # <<>> /\ subdir \notin sync.local_populated_dirs
  IN  [should_skip |-> skip,
       steps |-> IF skip /\ command.missing_action = "DELETE"
                 THEN <<RecursiveStep(EnsureTrailingBackslash(dir))>> ELSE <<>>]

\* One turn of the loop of WalkRemoteDir
WalkOneDirectory ==
  /\ Doing("Walk")
  /\ LET dir == Head(This.directories)
         others == Tail(This.directories)
         subdirectories == Listed(dir, "dir")
         files == Listed(dir, "file")
         relative_path == SubSeq(dir, Len(remote_root) + 1, Len(dir))
         p == process_remote_dir(dir)
     IN  SendCommandSync(DirList(dir), {"OK"},
           IF p.should_skip THEN p.steps \o WalkStep(others)
           ELSE [i \in DOMAIN files |-> [op |-> "RemoteFile", subdir |-> relative_path,
                                         name |-> Last(files[i]), entry |-> remote[files[i]]]]
                \o WalkStep(others \o [i \in DOMAIN subdirectories |-> In(dir, subdirectories[i])]), {})
  /\ UNCHANGED <<local, clock, command, sync, commands, edits, history>>

\* process_remote_file: updates, deletes or leaves a file of the target
process_remote_file ==
  /\ Doing("RemoteFile")
  /\ LET relative == XFATPathToLocalPath(IF This.subdir = <<>> THEN <<This.name>>
                                         ELSE This.subdir \o <<"\\", This.name>>)
         full_remote_path == EnsureXFATStylePath(remote_root \o relative)
     IN  IF relative \in sync.local_files
         THEN /\ sync' = [sync EXCEPT !.local_files = @ \ {relative}]
              /\ GoOn(IF UpToDate(This.entry, LocalNames(relative)) THEN <<>>
                      ELSE <<UploadStep(LocalNames(relative), full_remote_path)>>)
         ELSE /\ GoOn(IF command.missing_action = "DELETE" THEN <<DeleteStep(full_remote_path, FALSE)>>
                      ELSE <<>>)
              /\ UNCHANGED sync
  /\ UNCHANGED <<local, remote, clock, command, bounds, history>>

\* The remote directory itself, with the directories above it
MakeDirs ==
  /\ Doing("MakeDirs")
  /\ LET separators == SelectSeq([i \in 1 .. Len(remote_root) |-> i],
                                 LAMBDA i : remote_root[i] = "\\" /\ i > 2)
     IN Checked(remote_root, LAMBDA exists, is_dir :
          /\ CASE exists /\ ~is_dir -> ReturnFalse
               [] exists -> GoOn(<<>>)
               [] OTHER -> GoOn([j \in DOMAIN separators |->
                             MkdirStep(SubSeq(remote_root, 1, separators[j] - 1), {"ERR_EXISTS"})])
          /\ UNCHANGED sync)
  /\ UNCHANGED <<local, clock, command, commands, edits, history>>

\* A set of strings is in order: a path comes before those below it.
InOrder(paths) == SetToSortSeq(paths, LAMBDA p, q : Len(p) < Len(q))

CreateRemoteDirectoryHierarchy ==
  /\ Doing("Hierarchy")
  /\ LET dirs == InOrder(sync.local_populated_dirs \ {<<>>}) IN
     GoOn([i \in DOMAIN dirs |->
             MkdirStep(EnsureXFATStylePath(remote_root \o dirs[i]), {"ERR_EXISTS"})])
  /\ UNCHANGED <<local, remote, clock, command, sync, bounds, history>>

\* What only exists locally
UploadNew ==
  /\ Doing("UploadNew")
  /\ LET files == InOrder(sync.local_files) IN
     GoOn([i \in DOMAIN files |-> UploadStep(LocalNames(files[i]), remote_root \o files[i])])
  /\ UNCHANGED <<local, remote, clock, command, sync, bounds, history>>

-----------------------------------------------------------------------------
Init ==
  /\ local \in LocalTrees /\ remote \in RemoteTrees /\ clock = 0
  /\ todo = <<>> /\ command = [op |-> None] /\ result = None /\ sync = NoSync
  /\ commands = 0 /\ failures = 0 /\ edits = 0
  /\ before = [local |-> local, remote |-> remote] /\ edited = {} /\ hidden = {}

\* The user types a command
Start ==
  /\ todo = <<>> /\ commands < Len(Commands) /\ commands' = commands + 1
  /\ \E c \in Commands[commands'] :
       /\ c.local \in DOMAIN local \/ c.op = "CommandGetFile"
       /\ command' = c /\ todo' = <<[op |-> c.op]>>
  /\ result' = None /\ sync' = NoSync /\ edited' = {}
  /\ before' = [local |-> local, remote |-> remote]
  /\ UNCHANGED <<local, remote, clock, failures, edits, hidden>>

\* What the user saves, one after the other
Versions == <<"v2", "v3">>

\* The user saves a local file: in the same second as its last write, or later
Edit ==
  /\ edits < MaxEdits /\ edits' = edits + 1
  /\ \E n \in Files(local), time \in {clock, clock + 1} :
       /\ local' = [local EXCEPT ![n] = File(Versions[edits + 1], time)]
       /\ clock' = time /\ edited' = edited \cup {n}
       /\ hidden' = IF time = local[n].time THEN hidden \cup {n} ELSE hidden
  /\ UNCHANGED <<remote, todo, command, result, sync, commands, failures, before>>

Step ==
  \/ DoDelete \/ DeleteRecursively \/ DeleteUnchecked \/ CommandDelete
  \/ SaveFile \/ SaveDirectory \/ CommandGetFile
  \/ DoMkdir \/ UploadFileWithoutChecking \/ UpdateTimestamp
  \/ UploadFile \/ UploadDirectory \/ PutFiles \/ CommandPutFile
  \/ MacroCommandSyncFile \/ SyncFile \/ SyncDirectory
  \/ WalkRemoteDir \/ WalkOneDirectory \/ process_remote_file
  \/ MakeDirs \/ CreateRemoteDirectoryHierarchy \/ UploadNew

Next == Start \/ Edit \/ Step

Spec == Init /\ [][Next]_vars

-----------------------------------------------------------------------------
(* Properties.                                                              *)

RemoteNames(relative) == Names(command.remote) \o Names(relative)
Syncing == command.op = "SyncDirectory"

\* When SyncDirectory (or SyncFile) returns true, the target has every local
\* file as it is, except one edited since the command began or one whose write
\* time hides that it is stale: it was saved in the same second as the version
\* before, or between being read for the upload and having its write time
\* taken, or putfile put another of the same name and time in its place. With
\* DELETE, nothing else is left below the remote directory. Failed and
\* half-done commands before make no difference.
SyncedUnlessEdited ==
  result = "true" =>
    /\ Syncing =>
         /\ \A f \in RelativeLocalFiles :
              \/ LocalNames(f) \in edited \cup hidden
              \/ /\ IsFile(remote, RemoteNames(f))
                 /\ remote[RemoteNames(f)].data = local[LocalNames(f)].data
         /\ command.missing_action = "DELETE" =>
              \A n \in Below(remote, Names(command.remote)) :
                \E f \in RelativeLocalFiles : IsPrefix(n, RemoteNames(f))
    /\ command.op = "MacroCommandSyncFile" =>
         \/ command.local \in edited \cup hidden
         \/ \E n \in Files(remote) : /\ n = Names(command.remote) \/ Last(n) = Last(command.local)
                                     /\ remote[n].data = local[command.local].data

Untouched(n) ==
  /\ n \in DOMAIN before.remote /\ n \in DOMAIN remote /\ remote[n] = before.remote[n]

\* What no command does, whatever fails. It changes nothing outside the path it
\* was given, except that MakeDirs creates the directories above it. putfile
\* without -f leaves every file as it was, also when the files of several local
\* directories land in one. SyncDirectory with LEAVE never touches a remote file
\* that has no local counterpart, and with DELETE only removes a file that has
\* one when a directory above it holds no file directly: process_remote_dir takes
\* such a directory for one that does not exist locally.
LeavesTheRestAlone ==
  /\ command.op # None =>
       \A n \in DOMAIN before.remote \cup DOMAIN remote :
         \/ Untouched(n) \/ IsPrefix(Names(command.remote), n)
         \/ n \notin DOMAIN before.remote /\ remote[n] = Dir /\ IsPrefix(n, Names(command.remote))
  /\ command.op = "CommandPutFile" /\ command.overwrite_action # "OVERWRITE" =>
       \A n \in Files(before.remote) : Untouched(n)
  /\ Syncing =>
       /\ command.missing_action = "LEAVE" =>
            \A n \in Files(before.remote) :
              (\A f \in RelativeLocalFiles : RemoteNames(f) # n) => Untouched(n)
       /\ \A f \in RelativeLocalFiles :
            IsFile(before.remote, RemoteNames(f)) =>
              \/ IsFile(remote, RemoteNames(f))
              \/ \E i \in 1 .. Len(f) - 1 :
                   /\ f[i + 1] = "/"
                   /\ SubSeq(f, 1, i) \notin {parent_path(g) : g \in RelativeLocalFiles}

\* What a transfer that returns true has transferred: getfile, all the files
\* below the remote path; putfile, a file of that name for every local file,
\* with the contents of one of the local files of that name unless one was
\* there already; delete -r, everything.
TransfersAreComplete ==
  result = "true" =>
    /\ command.op = "CommandGetFile" =>
         \A n \in Files(remote) : IsPrefix(Names(command.remote), n) =>
           LET m == command.local \o SubSeq(n, Len(Names(command.remote)) + 1, Len(n)) IN
           m \in edited \/ (IsFile(local, m) /\ local[m].data = remote[n].data)
    /\ command.op = "CommandPutFile" /\ IsDir(local, command.local) =>
         \A n \in {k \in Files(local) : IsPrefix(command.local, k)} :
           LET m == Names(command.remote) \o <<Last(n)>>
               same == {k \in Files(local) : IsPrefix(command.local, k) /\ Last(k) = Last(n)}
           IN  IsFile(remote, m) /\
               (\/ same \cap edited # {}
                \/ \E k \in same : remote[m].data = local[k].data
                \/ command.overwrite_action = "SKIP" /\ IsFile(before.remote, m))
    /\ command.op = "CommandDelete" => Names(command.remote) \notin DOMAIN remote

=============================================================================
