SPECIFICATION FairSpec
CONSTANTS
  Uploaders = {u1, u2}
  Requesters = {r1, r2}
  Submitters = {s1}
  EarlyUse = FALSE
  MaxRuns = 3
  MaxTrouble = 1
  MaxDeletes = 1
INVARIANTS
  ActiveRunComplete
  StaleRunsCounted
PROPERTY
  RevalidationEnds
\* The environment may stop asking: quiescent states have no successor.
CHECK_DEADLOCK FALSE
