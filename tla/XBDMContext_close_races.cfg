CONSTANTS
  Request = {r1}
  BinaryRequest = {r1}
  Handler = {h}
  MaxTransports = 3
  MaxNotifyConnects = 0
  MaxAppCalls = 1
  SpuriousWakeups = TRUE
  None = None
SPECIFICATION FairSpec
INVARIANTS FrontIsStable NoCallerLeftBehind
PROPERTIES CommandsSettleUnlessStranded
CHECK_DEADLOCK FALSE
