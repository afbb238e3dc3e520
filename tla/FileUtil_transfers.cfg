SPECIFICATION Spec
CHECK_DEADLOCK FALSE
CONSTANTS
  LocalTrees <- Locals
  RemoteTrees <- Remotes
  Commands <- CommandList
  MaxFailures = 1
  MaxEdits = 1
  None = None
INVARIANTS SyncedUnlessEdited LeavesTheRestAlone TransfersAreComplete
