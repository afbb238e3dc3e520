CONSTANTS
  Addr = {2, 3}
  AddressSpace = 4
  Lengths = {1, 2}
  Condition = {"false"}
  Jobs <- Everything
  MaxJobs = 2
  MaxEvents = 1
  MaxFailures = 1
  None = None
SPECIFICATION Spec
INVARIANTS ReadsAreTransparentUnlessDisturbed RecordedAreInstalled NoOrphansUnlessRaced
PROPERTY StepsOverUnlessDisturbed
CHECK_DEADLOCK FALSE
