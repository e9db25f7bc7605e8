SPECIFICATION Spec
CONSTANTS
  N = 2
  MaxAttempts = 2
  MaxStalled = 1
  Submitters = {s1}
  SubmitChecksPause = FALSE
  AlreadyMarksPosted = FALSE
  MaxHeaders = 4
  MaxSubmits = 2
  MaxPauses = 0
  MaxDeletes = 0
  MaxFaults = 0
  MaxCrashes = 0
INVARIANTS
  TypeOK
  CanceledIsRolledBack
PROPERTY
  AllOrNothing
\* The environment may stop asking: quiescent states have no successor.
CHECK_DEADLOCK FALSE
