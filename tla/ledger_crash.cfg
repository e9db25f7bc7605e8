SPECIFICATION Spec
CONSTANTS
  N = 2
  MaxAttempts = 2
  MaxStalled = 1
  Submitters = {s1}
  SubmitChecksPause = FALSE
  AlreadyMarksPosted = FALSE
  MaxHeaders = 3
  MaxSubmits = 1
  MaxPauses = 0
  MaxDeletes = 0
  MaxFaults = 1
  MaxCrashes = 1
INVARIANTS
  OrphansAreEmptyAndCounted
  JournalsNotMixed
\* The environment may stop asking: quiescent states have no successor.
CHECK_DEADLOCK FALSE
