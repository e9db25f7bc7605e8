SPECIFICATION FairSpec
CONSTANTS
  Creators = {c1, c2}
  Documents = {d1, d2}
  MaxTrouble = 3
INVARIANTS
  ClaimedOnce
  CreatedIsInFinance
  CustomerKnown
  VatNotLeftBehind
PROPERTY
  CreatingEnds
\* The environment may stop asking: quiescent states have no successor.
CHECK_DEADLOCK FALSE
