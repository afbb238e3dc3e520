CONSTANTS
  t1 = t1
  t2 = t2
  Thread = {t1, t2}
  Session <- Sessions
  None = None
SPECIFICATION FairSpec
INVARIANTS OneReplyPerResume ReportsAreTrueUnlessRaced
PROPERTIES NoSilentStopUnlessRaced InterruptIsAnswered
CHECK_DEADLOCK FALSE
