SPECIFICATION Spec
CONSTANTS
  Script <- MCScript
  OtherRequests <- MCOther
  IntOf <- MCIntOf
  XFATOf <- MCXFATOf
  DriveRoot <- MCDriveRoot
  DXTCommands = {"p!c"}
CHECK_DEADLOCK FALSE
INVARIANTS InStep AnswerMatches
PROPERTIES CommandsEnd
