SPECIFICATION CashSpec
CONSTANTS
  N = 2
  MaxAttempts = 2
  MaxStalled = 1
  Submitters = {s1}
  SubmitChecksPause = TRUE
  AlreadyMarksPosted = FALSE
  MaxHeaders = 3
  MaxSubmits = 2
  MaxPauses = 0
  MaxDeletes = 0
  MaxFaults = 0
  MaxCrashes = 1
  LedgerGroups = {2}
  MaxCleanups = 2
  MaxLost = 0
  Prefixes = {}
INVARIANTS
  PostedJournalsListed
  LinesOnce
  CountedIsComplete
  ForeignUntouched
  OneJournal
\* The environment may stop asking: quiescent states have no successor.
CHECK_DEADLOCK FALSE
