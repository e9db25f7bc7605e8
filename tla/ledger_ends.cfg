SPECIFICATION HSpec
CONSTANTS
  N = 2
  MaxAttempts = 2
  MaxStalled = 1
  Submitters = {s1}
  SubmitChecksPause = FALSE
  AlreadyMarksPosted = FALSE
  MaxHeaders = 3
  MaxSubmits = 1
  MaxPauses = 1
  MaxDeletes = 1
  MaxFaults = 0
  MaxCrashes = 0
INVARIANTS
  StopsAfterTheCurrentJournal
  PostedMeansPosted
  NoUnknownJournal
  ProgressMatchesGroups
PROPERTY
  PostingEnds
\* The environment may stop asking: quiescent states have no successor.
CHECK_DEADLOCK FALSE
