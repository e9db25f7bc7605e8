SPECIFICATION ReconSpec
CONSTANTS
  Last = 3
  Banks = {b1, b2, b3}
  NoBank = NoBank
SYMMETRY BankSymmetry
INVARIANTS
  BankGivenOnce
  UnmatchedSheetIsExact
PROPERTY
  ConfirmedIsFinal
\* The report is written once.
CHECK_DEADLOCK FALSE
