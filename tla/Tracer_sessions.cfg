CONSTANTS
  Session <- Sessions
  Slices = 2
  Extra <- TwoAndOne
SPECIFICATION Spec
INVARIANTS TargetIsSound FrameIsWhole
PROPERTIES CommandsEnd
CHECK_DEADLOCK FALSE
