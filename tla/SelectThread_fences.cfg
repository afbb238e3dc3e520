CONSTANTS
  Stream = {s1, s2}
  Server = {v}
  Task = {k1}
  Waiter = {w1}
  MaxFd = 2
  Session <- Races
  Signaller = Signaller
SPECIFICATION Spec
SYMMETRY StreamSymmetry
INVARIANTS FenceIsQuiescent BlocksOnlyOnReused
CHECK_DEADLOCK FALSE
