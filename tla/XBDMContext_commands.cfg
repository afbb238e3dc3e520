CONSTANTS
  Request = {r1, r2}
  BinaryRequest = {r2}
  Handler = {}
  MaxTransports = 2
  MaxNotifyConnects = 1
  MaxAppCalls = 0
  SpuriousWakeups = FALSE
  None = None
SPECIFICATION Spec
INVARIANTS RequestsAreSequenced ResponseMatches
PROPERTIES ImplementsService
CHECK_DEADLOCK FALSE
