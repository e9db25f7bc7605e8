SPECIFICATION CashSpec
CONSTANTS
  i1 = i1
  i2 = i2
  i3 = i3
  NoInvoice = NoInvoice
  Lines <- MCLines
  GroupOf <- MCGroupOf
  VendorLines <- MCVendorLines
  Invoice <- MCInvoice
  HeldLines <- MCHeldLines
  LateCounts = FALSE
  BatchSize = 2
  MaxRuns = 4
  MaxTrouble = 2
INVARIANTS
  LinesOnce
  GroupsWhole
  ReturnedIsComplete
  ReturnedHasSettled
  SelfCiteIsCommitted
\* The calls are bounded by MaxRuns; the last one may have returned.
CHECK_DEADLOCK FALSE
