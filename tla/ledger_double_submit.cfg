SPECIFICATION Spec
CONSTANTS
  N = 2
  MaxAttempts = 1
  MaxStalled = 1
  Submitters = {s1, s2}
  SubmitChecksPause = FALSE
  AlreadyMarksPosted = TRUE
  MaxHeaders = 4
  MaxSubmits = 2
  MaxPauses = 1
  MaxDeletes = 1
  MaxFaults = 0
  MaxCrashes = 0
INVARIANT
  NoUnknownJournal
\* The environment may stop asking: quiescent states have no successor.
CHECK_DEADLOCK FALSE
