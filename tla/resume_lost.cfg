SPECIFICATION Spec
CONSTANTS
  N = 2
  MaxAttempts = 1
  MaxStalled = 1
  Submitters = {s1}
  SubmitChecksPause = FALSE
  AlreadyMarksPosted = FALSE
  MaxHeaders = 2
  MaxSubmits = 1
  MaxPauses = 1
  MaxDeletes = 0
  MaxFaults = 0
  MaxCrashes = 0
INVARIANT
  ResumeRequeuesTheJob
\* The environment may stop asking: quiescent states have no successor.
CHECK_DEADLOCK FALSE
