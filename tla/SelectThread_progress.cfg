CONSTANTS
  Stream = {s1}
  Server = {v}
  Task = {k1}
  Waiter = {w1}
  MaxFd = 2
  Session <- Progress
  Signaller = Signaller
SPECIFICATION FairSpec
PROPERTIES WorkIsServed ClosedAreErased FencesReturn
CHECK_DEADLOCK FALSE
