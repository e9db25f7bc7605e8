SPECIFICATION VendorSpec
CONSTANTS
  N = 2
  MaxAttempts = 2
  MaxStalled = 1
  Submitters = {s1}
  SubmitChecksPause = FALSE
  AlreadyMarksPosted = TRUE
  MaxHeaders = 3
  MaxSubmits = 1
  MaxPauses = 1
  MaxDeletes = 1
  MaxFaults = 1
  MaxCrashes = 0
  LedgerGroups = {}
  HasHeaderExists = TRUE
  MaxCleanups = 1
  MaxLost = 1
INVARIANTS
  PostedIsComplete
  LinesOnce
  JournalsAreKnown
\* The environment may stop asking: quiescent states have no successor.
CHECK_DEADLOCK FALSE
