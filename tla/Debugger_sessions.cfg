CONSTANTS
  Session <- Sessions
  Nobody = Nobody
SPECIFICATION FairSpec
INVARIANTS LaunchStopsWhereAsked ListsAreCurrent NewThreadsAreResumed AttachedHears
PROPERTY CallsEnd
CHECK_DEADLOCK FALSE
