SPECIFICATION Spec
CONSTANTS
  MaxRows = 5
  MaxLines = 4
  TradeVendors = {"V1", "V2"}
  CustodyVendors = {"CV"}
  PaymentAccounts = {"bank"}
  Ledgers = {"exp"}
  Withholding = {"223304"}
  OtherWithholding = {"223301"}
  Uploads <- MCUploads
  CompanyOf <- MCCompanyOf
  Invoiced <- MCInvoiced
  Workbooks <- MCWorkbooks
INVARIANTS
  EntryMoneyKept
  WithholdingOnce
  AcceptedBalances
  SettlesInItsCompany
  JournalsHomogeneous
\* Every request has been answered.
CHECK_DEADLOCK FALSE
