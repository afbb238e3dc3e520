CONSTANTS
  c1 = c1
  c2 = c2
  Client = {c1, c2}
  Thread = {1, 2, 3}
  Initial <- TwoThreads
  Session <- Sessions
  TargetXML = 3
  MaxPackets = 3
  MaxFailures = 1
  MaxStops = 1
  Nobody = Nobody
SPECIFICATION Spec
INVARIANTS RepliesGoToTheirClient RegisterRepliesAreTrue PartsReassemble
PROPERTIES WritesAreLocalUnlessRaced
CHECK_DEADLOCK FALSE
