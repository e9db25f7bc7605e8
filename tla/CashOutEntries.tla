--------------------------- MODULE CashOutEntries ---------------------------
(* A cash-out workbook: BaseCashEntryProcessor formats and validates its   *)
(* rows, PostCashBatchToDFOHandler groups the lines it stored into         *)
(* journals.  The processor is one object for every upload and reprocess;  *)
(* it keeps the company and the unbalanced ids of the file it works on in  *)
(* fields and waits for D365FO and MongoDB in between.                     *)
(*                                                                         *)
(* Rows have one currency, one operation number and no document, no offset *)
(* account of their own, and stand in LINENUMBER order.  Vendor groups are *)
(* known, custody settlement targets are found, and dimensions are valid.  *)
EXTENDS Integers, FiniteSets, SequencesExt

CONSTANTS
  Uploads,           \* requests that format a file: uploads and reprocesses
  CompanyOf,         \* the company of each request
  Workbooks,         \* the files considered, each a function of Uploads
  MaxLines,          \* MAX_LINES_PER_BATCH
  TradeVendors, CustodyVendors,
  PaymentAccounts,   \* Bank, Petty cash, RCash
  Ledgers,           \* ledger accounts that are not withholding accounts
  Withholding,       \* ledger accounts 223304
  OtherWithholding,  \* the other ledger accounts 2233xx
  Invoiced           \* <<company, invoice, vendor>>: posted in D365FO

Vendors == TradeVendors \cup CustodyVendors
AllLedgers == Ledgers \cup Withholding \cup OtherWithholding
Accounts == Vendors \cup PaymentAccounts \cup AllLedgers
NoInvoice == ""
NoAccount == ""

(* A row of a workbook.  Vendors, payment accounts and ledgers are told    *)
(* apart by the account type of the row.                                   *)
Row == [line : Nat, uid : Nat, voucher : STRING, safe : STRING, type : STRING, month : Nat,
        acct : Accounts, inv : STRING,
        d : Nat, c : Nat]
Workbook == {rows \in Seq(Row) : \A i \in DOMAIN rows : rows[i].line = i}

ASSUME CashOutAssumption ==
  /\ MaxLines \in Nat \ {0}
  /\ DOMAIN CompanyOf = Uploads
  /\ Workbooks \subseteq [Uploads -> Workbook]
  /\ Vendors \cap (PaymentAccounts \cup AllLedgers) = {}
  /\ PaymentAccounts \cap AllLedgers = {}
  /\ NoAccount \notin Accounts

VARIABLES
  file,        \* the rows of each request
  pc,          \* where each request stands
  company,     \* this.company
  unbalanced,  \* this.unbalancedUniqueIds
  asked,       \* the company each request last named to D365FO
  lines,       \* the formatted lines of each request, then its batch
  journals,    \* the journals of each batch handed to the queue
  shared       \* requests that were in the processor together with another

vars == <<file, pc, company, unbalanced, asked, lines, journals, shared>>

Settling == {"Vendor Payment", "Custody Settlement"}  \* safe types with marks

-----------------------------------------------------------------------------
(* SetToSortSeq and SelectSeq in a form that can be reasoned about: the    *)
(* n-th element is the one that n - 1 others come before.                  *)
InOrder(S, Before(_, _)) ==
  [n \in 1..Cardinality(S) |->
     CHOOSE x \in S : Cardinality({y \in S : Before(y, x)}) = n - 1]
Picked(s, at) ==
  LET order == InOrder(at, LAMBDA a, b : a < b)
  IN [n \in DOMAIN order |-> s[order[n]]]
Where(s, Test(_)) == Picked(s, {i \in DOMAIN s : Test(s[i])})

-----------------------------------------------------------------------------
(* Rows                                                                    *)

IsVendor(r) == r.acct \in Vendors
IsWithholdingLedgerLine(r) == r.acct \in Withholding
IsVendorDebit(r) == IsVendor(r) /\ r.d > 0
IsPaymentOffset(r) == r.c > 0 /\ ~IsVendor(r) /\ ~IsWithholdingLedgerLine(r)
IsCashOutSettlementOffsetSource(r) == r.c > 0 /\ r.acct \in PaymentAccounts
IsStandardVendorInvoiceSettlementLine(r) ==
  r.acct \in TradeVendors /\ r.inv # NoInvoice
IsMainAccountOnlyLedgerGroup(rows) ==
  \A i \in DOMAIN rows : rows[i].acct \in AllLedgers

Debits(rows) == SumFunction([i \in DOMAIN rows |-> rows[i].d])
Credits(rows) == SumFunction([i \in DOMAIN rows |-> rows[i].c])

(* Rows without a UniqueId get the number of their voucher, or of the row, *)
(* in the order in which these are met.                                    *)
OpensVoucher(rows, i) ==
  /\ rows[i].uid = 0
  /\ \/ rows[i].voucher = ""
     \/ \A k \in 1..(i - 1) : rows[k].uid # 0 \/ rows[k].voucher # rows[i].voucher
VoucherNumber(rows, i) ==
  LET opener == IF OpensVoucher(rows, i) THEN i
                ELSE CHOOSE k \in 1..i : /\ OpensVoucher(rows, k)
                                         /\ rows[k].voucher = rows[i].voucher
  IN Cardinality({k \in 1..opener : OpensVoucher(rows, k)})
AssignMissingUniqueIds(rows) ==
  [i \in DOMAIN rows |->
     IF rows[i].uid # 0 THEN rows[i]
     ELSE [rows[i] EXCEPT !.uid = VoucherNumber(rows, i)]]

(* The rows, or lines, of each UniqueId, in the order of the first of them.*)
BuildUniqueIdMap(rows) ==
  LET first == Picked(rows, {i \in DOMAIN rows :
                               \A k \in 1..(i - 1) : rows[k].uid # rows[i].uid})
  IN [n \in DOMAIN first |-> Where(rows, LAMBDA r : r.uid = first[n].uid)]

-----------------------------------------------------------------------------
(* Validation of the source rows: any error refuses the whole file.        *)

VendorPaymentShape(rows) ==
  \/ IsMainAccountOnlyLedgerGroup(rows)
  \/ LET Offset(r) == r.c > 0 /\ ~IsWithholdingLedgerLine(r)
         Invalid(r) == r.d > 0 /\ ~IsVendor(r)
     IN /\ Where(rows, IsVendorDebit) # <<>>
        /\ Len(Where(rows, Offset)) <= 1
        /\ Where(rows, Invalid) = <<>>

(* A trade vendor row of a Vendor Payment names an invoice of the vendor   *)
(* that is posted in company co.                                           *)
SettlementTargetKnown(co, r) ==
  r.safe = "Vendor Payment" /\ r.acct \in TradeVendors
    => r.inv # NoInvoice /\ <<co, r.inv, r.acct>> \in Invoiced

ValidateCashOutSource(co, rows) ==
  LET entries == BuildUniqueIdMap(rows)
  IN /\ \A i \in DOMAIN rows :
          /\ IsWithholdingLedgerLine(rows[i])
               => rows[i].safe \in Settling
          /\ SettlementTargetKnown(co, rows[i])
     /\ \A n \in DOMAIN entries :
          /\ \A i \in DOMAIN entries[n] : entries[n][i].safe = entries[n][1].safe
          /\ entries[n][1].safe = "Vendor Payment" => VendorPaymentShape(entries[n])

-----------------------------------------------------------------------------
(* Lines                                                                   *)

(* The journal name stands for the route: kind, name and header API.       *)
JournalNameOf(safe) ==
  CASE safe \in {"Vendor Payment", "Custody Issue"} -> "P-Freight"
    [] safe \in {"Custody Settlement", "Direct", "Other"} -> "CashOut"
    [] OTHER -> "Cust-Pay"

(* A line has one account, or an account and an offset.  inv is the        *)
(* invoice it is about, mark the one it settles; error is set when it      *)
(* cannot be posted.                                                       *)
ErrorLine(r) ==
  [uid |-> r.uid, safe |-> "Vendor Payment", type |-> "", month |-> 0, route |-> "",
   co |-> "", acct |-> NoAccount, off |-> NoAccount, d |-> 0, c |-> 0,
   inv |-> NoInvoice, mark |-> NoInvoice, error |-> TRUE, journal |-> 0]

InvoiceMark(v, inv) == IF v.acct \in CustodyVendors THEN NoInvoice ELSE inv

(* A row kept as it is; inv is the invoice its mark would name.            *)
BuildSourceLineOutbound(co, r, inv) ==
  [uid |-> r.uid, safe |-> r.safe, type |-> r.type, month |-> r.month,
   route |-> JournalNameOf(r.safe), co |-> co, acct |-> r.acct, off |-> NoAccount,
   d |-> r.d, c |-> r.c, inv |-> r.inv,
   mark |-> IF IsVendor(r) /\ r.safe \in Settling
            THEN InvoiceMark(r, inv) ELSE NoInvoice,
   error |-> FALSE, journal |-> 0]

(* Vendor row v against row o, for the given amount.  The invoice of a     *)
(* withholding row stands in for a missing one.                            *)
BuildLineOutbound(co, v, o, amount) ==
  [uid |-> v.uid, safe |-> v.safe, type |-> v.type, month |-> v.month,
   route |-> JournalNameOf(v.safe), co |-> co, acct |-> v.acct, off |-> o.acct,
   d |-> amount, c |-> 0, inv |-> IF v.inv = NoInvoice THEN o.inv ELSE v.inv,
   mark |-> InvoiceMark(v, IF v.inv = NoInvoice /\ IsWithholdingLedgerLine(o)
                           THEN o.inv ELSE v.inv),
   error |-> FALSE, journal |-> 0]

WithholdingCompanion(co, v, w) == BuildLineOutbound(co, v, w, w.c)
SourceLines(co, rows) ==
  [i \in DOMAIN rows |-> BuildSourceLineOutbound(co, rows[i], rows[i].inv)]

(* Mutant: whatever the invoice.                                         *)
CanHoldAny(v, w, left) == left >= w.c
CanHold(v, w, left) == v.inv = w.inv /\ left >= w.c

(* Every withholding row goes to the first vendor row of its invoice that  *)
(* has as much left; to[i] is the vendor line of the i-th row.  The shape  *)
(* scores of the code choose among rows that are alike here.               *)
Allocate(vendors, acc, w) ==
  LET able == Where(vendors, LAMBDA v : CanHold(v, w, acc.left[v.line]))
  IN IF ~acc.ok \/ w.inv = NoInvoice \/ able = <<>>
     THEN [acc EXCEPT !.ok = FALSE]
     ELSE [acc EXCEPT !.left[able[1].line] = @ - w.c,
                      !.to = Append(@, able[1].line)]
AllocateWhtLinesToVendors(vendors, wht) ==
  LET give(acc, w) == Allocate(vendors, acc, w)
      debit == [l \in {vendors[i].line : i \in DOMAIN vendors} |->
                  Debits(Where(vendors, LAMBDA v : v.line = l))]
  IN FoldLeft(give, [ok |-> TRUE, left |-> debit, to |-> <<>>], wht)

(* No payment offset: vendor debits and withholding credits only.          *)
BuildWithholdingOnlyVendorPaymentLines(co, vendors, wht) ==
  LET alloc == AllocateWhtLinesToVendors(vendors, wht)
      perVendor(v) ==
        LET mine == Picked(wht, {i \in DOMAIN wht : alloc.to[i] = v.line})
        IN [n \in DOMAIN mine |-> WithholdingCompanion(co, v, mine[n])]
  IN IF Debits(vendors) # Credits(wht) \/ ~alloc.ok
     THEN <<ErrorLine(vendors[1])>>
     ELSE FlattenSeq([i \in DOMAIN vendors |-> perVendor(vendors[i])])

ValidateVendorPaymentWithholdingBalance(vendors, payment, wht) ==
  Debits(vendors) = payment.c + Credits(wht)

ValidateGeneratedVendorPaymentAmounts(vendors, payment, wht, built) ==
  \/ wht = <<>>
  \/ LET Companion(l) == l.off \in Withholding
         Payment(l) == ~Companion(l)
     IN /\ Debits(Where(built, Payment)) = payment.c
        /\ Debits(Where(built, Companion)) = Credits(wht)
        /\ Debits(built) = Debits(vendors)

(* One line per vendor row against the shared payment, less its            *)
(* withholding, and one per withholding row.                               *)
MergeVendorPaymentLinesWithOffset(co, vendors, payment, wht) ==
  LET alloc == AllocateWhtLinesToVendors(vendors, wht)
      perVendor(v) ==
        LET mine == Picked(wht, {i \in DOMAIN wht : alloc.to[i] = v.line})
            held == Credits(mine)
            main == IF v.d > held \/ mine = <<>>
                    THEN <<BuildLineOutbound(co, v, payment, v.d - held)>> ELSE <<>>
        IN main \o [n \in DOMAIN mine |-> WithholdingCompanion(co, v, mine[n])]
      built == FlattenSeq([i \in DOMAIN vendors |-> perVendor(vendors[i])])
  IN IF /\ ValidateVendorPaymentWithholdingBalance(vendors, payment, wht)
        /\ alloc.ok
        /\ ValidateGeneratedVendorPaymentAmounts(vendors, payment, wht, built)
     THEN built ELSE <<ErrorLine(vendors[1])>>

BuildVendorPaymentLines(co, rows) ==
  LET wht == Where(rows, IsWithholdingLedgerLine)
      vendors == Where(rows, IsVendorDebit)
      offsets == Where(rows, IsPaymentOffset)
  IN IF IsMainAccountOnlyLedgerGroup(rows) THEN SourceLines(co, rows)
     ELSE IF vendors = <<>> \/ Len(offsets) > 1 THEN <<ErrorLine(rows[1])>>
     ELSE IF offsets # <<>>
       THEN MergeVendorPaymentLinesWithOffset(co, vendors, offsets[1], wht)
     ELSE IF wht # <<>> THEN BuildWithholdingOnlyVendorPaymentLines(co, vendors, wht)
     ELSE SourceLines(co, vendors)

(* The withholding row a vendor row is paired with: one of its invoice, or *)
(* else the first that has an invoice, or else the first.                  *)
FindWithholdingLine(v, wht) ==
  LET same == Where(wht, LAMBDA w : v.inv # NoInvoice /\ w.inv = v.inv)
      some == Where(wht, LAMBDA w : w.inv # NoInvoice)
  IN IF same # <<>> THEN Head(same) ELSE IF some # <<>> THEN Head(some) ELSE Head(wht)

(* A vendor line against every withholding row of an entry whose other     *)
(* rows are kept as they are; a row without a vendor is left out.          *)
AddCompanion(co, vendors, wht, acc, w) ==
  LET rest == Where(wht, LAMBDA x : x.line \notin acc.claimed)
      found == Where(vendors, LAMBDA v : FindWithholdingLine(v, rest) = w)
      same == Where(vendors, LAMBDA v : w.inv # NoInvoice /\ v.inv = w.inv)
      chosen == IF found # <<>> THEN found ELSE IF same # <<>> THEN same
                ELSE IF Len(vendors) = 1 THEN vendors ELSE <<>>
  IN IF chosen = <<>> THEN acc
     ELSE [claimed |-> acc.claimed \cup {w.line},
           built |-> Append(acc.built, WithholdingCompanion(co, chosen[1], w))]
BuildCashOutWithholdingCompanions(co, rows, wht) ==
  LET trade == Where(rows, LAMBDA r : r.acct \in TradeVendors)
      vendors == IF trade # <<>> THEN trade ELSE Where(rows, IsVendor)
      add(acc, w) == AddCompanion(co, vendors, wht, acc, w)
  IN FoldLeft(add, [claimed |-> {}, built |-> <<>>], wht).built

(* The rows of an entry but the withholding ones; a vendor row without an  *)
(* invoice is marked with that of the withholding row it is paired with.   *)
PreservedLines(co, rows, wht) ==
  LET Kept(r) == ~IsWithholdingLedgerLine(r)
      kept == Where(rows, Kept)
      inv(r) == IF r.inv = NoInvoice /\ IsVendor(r) /\ wht # <<>>
                THEN FindWithholdingLine(r, wht).inv ELSE r.inv
  IN [i \in DOMAIN kept |-> BuildSourceLineOutbound(co, kept[i], inv(kept[i]))]

(* The part of a Custody Settlement that is a vendor payment of its own:   *)
(* its trade invoices, its one payment row and the withholding.  Every     *)
(* withholding row is linked to any vendor row by FindWithholdingLine.     *)
(* Mutant: credits as well.                                              *)
InvoiceVendorsAll(rows) ==
  Where(rows, IsStandardVendorInvoiceSettlementLine)
InvoiceVendors(rows) ==
  Where(rows, LAMBDA r : IsStandardVendorInvoiceSettlementLine(r) /\ r.d > 0)
SplitsCustodySettlement(rows) ==
  LET payments == Where(rows, IsCashOutSettlementOffsetSource)
  IN /\ rows[1].safe = "Custody Settlement"
     /\ Len(payments) = 1
     /\ InvoiceVendors(rows) # <<>>
     /\ ValidateVendorPaymentWithholdingBalance(
          InvoiceVendors(rows), payments[1], Where(rows, IsWithholdingLedgerLine))
InSplit(rows, r) ==
  \/ Contains(InvoiceVendors(rows), r)
  \/ IsCashOutSettlementOffsetSource(r)
  \/ IsWithholdingLedgerLine(r)
BuildCustodySettlementCashOutLines(co, rows) ==
  LET Consumed(r) == InSplit(rows, r)
      Kept(r) == ~InSplit(rows, r)
  IN SourceLines(co, Where(rows, Kept))
       \o BuildVendorPaymentLines(co, Where(rows, Consumed))

BuildLines(co, rows) ==
  LET wht == Where(rows, IsWithholdingLedgerLine)
  IN IF rows[1].safe = "Vendor Payment" THEN BuildVendorPaymentLines(co, rows)
     ELSE IF SplitsCustodySettlement(rows)
       THEN BuildCustodySettlementCashOutLines(co, rows)
     ELSE PreservedLines(co, rows, wht)
            \o BuildCashOutWithholdingCompanions(co, rows, wht)

BuildInvoiceLines(co, rows) ==
  LET entries == BuildUniqueIdMap(rows)
  IN FlattenSeq([n \in DOMAIN entries |-> BuildLines(co, entries[n])])

(* Mutant: only one side is looked at.                                   *)
CheckInvoiceUnderpaid(rows) ==
  LET entries == BuildUniqueIdMap(rows)
  IN {entries[n][1].uid : n \in {m \in DOMAIN entries :
                                   Debits(entries[m]) > Credits(entries[m])}}

(* The ids whose rows do not balance.                                      *)
CheckInvoiceBalancedAfterFx(rows) ==
  LET entries == BuildUniqueIdMap(rows)
  IN {entries[n][1].uid : n \in {m \in DOMAIN entries :
                                   Debits(entries[m]) # Credits(entries[m])}}

-----------------------------------------------------------------------------
(* Provisional journals                                                    *)

CashVoucherTypeBucket(type) == CASE type = "cash" -> 0 [] type = "cheque" -> 1 [] OTHER -> 2

(* The entries of the lines, ordered by bucket, by the order in which      *)
(* their routes were first met, by month, and otherwise as they are.       *)
RouteOrder(entries, rt) ==
  CHOOSE n \in DOMAIN entries : /\ entries[n][1].route = rt
                                /\ \A m \in 1..(n - 1) : entries[m][1].route # rt
SortKey(entries, n) ==
  <<CashVoucherTypeBucket(entries[n][1].type), RouteOrder(entries, entries[n][1].route),
    entries[n][1].month, n>>
LowerKey(k, l) == \E i \in 1..4 : k[i] < l[i] /\ \A j \in 1..(i - 1) : k[j] = l[j]
SortedEntries(ls) ==
  LET entries == BuildUniqueIdMap(ls)
      before(a, b) == LowerKey(SortKey(entries, a), SortKey(entries, b))
      order == InOrder(DOMAIN entries, before)
  IN [n \in DOMAIN order |-> entries[order[n]]]

(* An entry opens a journal when it differs from the entry before it or    *)
(* the journal would get too long.                                         *)
(* Mutant: counts what is there, not what comes.                         *)
OpensJournalWhenFull(acc, e) ==
  \/ acc.month # e[1].month
  \/ acc.count >= MaxLines
  \/ acc.bucket # CashVoucherTypeBucket(e[1].type)
  \/ acc.route # e[1].route
OpensJournal(acc, e) ==
  \/ acc.month # e[1].month
  \/ acc.count + Len(e) > MaxLines
  \/ acc.bucket # CashVoucherTypeBucket(e[1].type)
  \/ acc.route # e[1].route

NumberEntry(acc, e) ==
  LET opens == OpensJournal(acc, e)
      n == IF opens THEN acc.n + 1 ELSE acc.n
  IN [n |-> n, month |-> e[1].month, route |-> e[1].route,
      bucket |-> CashVoucherTypeBucket(e[1].type),
      count |-> Len(e) + IF opens THEN 0 ELSE acc.count,
      out |-> acc.out \o [i \in DOMAIN e |-> [e[i] EXCEPT !.journal = n]]]
UpdateCashBatchAndVoucher(ls) ==
  FoldLeft(NumberEntry, [n |-> 0, month |-> -1, route |-> "", bucket |-> -1,
                         count |-> 0, out |-> <<>>], SortedEntries(ls)).out

-----------------------------------------------------------------------------
(* Posting                                                                 *)

IsCashOutLedgerWithholdingMainAccount(l) ==
  l.acct \in Withholding \cup OtherWithholding

(* What the line made from a withholding row settles: what its vendor line *)
(* settles, or is about; or what any vendor line of the entry is about, if *)
(* the entry settles nothing.                                              *)
RewrittenMark(ls, v) ==
  LET about == Where(ls, LAMBDA x : /\ x.uid = v.uid /\ x.inv # NoInvoice
                                        /\ x.acct \notin CustodyVendors
                                        /\ ~IsCashOutLedgerWithholdingMainAccount(x))
  IN IF v.mark # NoInvoice THEN v.mark
     ELSE IF v.inv # NoInvoice THEN InvoiceMark(v, v.inv)
     ELSE IF v.safe \in Settling \/ about = <<>> THEN NoInvoice
     ELSE InvoiceMark(v, Last(about).inv)

(* A stored ledger line of a withholding account becomes a vendor line     *)
(* against it, or is left out when its entry has no vendor line.           *)
RewriteCashOutLedgerWithholdingLines(ls) ==
  LET vendorsOf(l) == Where(ls, LAMBDA x : x.acct \in Vendors /\ x.uid = l.uid)
      tradeOf(l) == Where(vendorsOf(l), LAMBDA x : x.acct \in TradeVendors)
      markedOf(l) == Where(vendorsOf(l), LAMBDA x : x.inv # NoInvoice)
      counterpart(l) == IF tradeOf(l) # <<>> THEN tradeOf(l)[1]
                        ELSE IF markedOf(l) # <<>> THEN markedOf(l)[1]
                        ELSE vendorsOf(l)[1]
      Posted(l) == IsCashOutLedgerWithholdingMainAccount(l) => vendorsOf(l) # <<>>
      rewrite(l) ==
        IF ~IsCashOutLedgerWithholdingMainAccount(l) THEN l
        ELSE [l EXCEPT !.acct = counterpart(l).acct, !.off = l.acct,
                       !.d = IF l.c > 0 THEN l.c ELSE l.d, !.c = 0,
                       !.mark = RewrittenMark(ls, counterpart(l))]
      kept == Where(ls, Posted)
  IN [i \in DOMAIN kept |-> rewrite(kept[i])]

GroupRecordsByJournalBatchNumber(ls) ==
  LET key(l) == <<l.journal, l.route>>
      first == Picked(ls, {i \in DOMAIN ls : \A k \in 1..(i - 1) : key(ls[k]) # key(ls[i])})
  IN [n \in DOMAIN first |-> Where(ls, LAMBDA l : key(l) = key(first[n]))]

MapToJournals(ls) ==
  LET groups == GroupRecordsByJournalBatchNumber(ls)
  IN [n \in DOMAIN groups |-> RewriteCashOutLedgerWithholdingLines(groups[n])]

-----------------------------------------------------------------------------
Rows(u) == AssignMissingUniqueIds(file[u])
Inside(u) == pc[u] \in {"warmup", "source", "rates", "lookup"}

Init ==
  /\ file \in Workbooks
  /\ pc = [u \in Uploads |-> "idle"]
  /\ company = ""
  /\ unbalanced = {}
  /\ asked = [u \in Uploads |-> ""]
  /\ lines = [u \in Uploads |-> <<>>]
  /\ journals = [u \in Uploads |-> <<>>]
  /\ shared = {}

Goto(u, label) == pc' = [pc EXCEPT ![u] = label]

(* formatAndEnrichAsync sets the company and waits for the master data.    *)
Begin(u) ==
  /\ pc[u] = "idle" /\ file[u] # <<>>
  /\ company' = CompanyOf[u]
  /\ LET others == {v \in Uploads \ {u} : Inside(v)}
     IN shared' = IF others = {} THEN shared ELSE shared \cup others \cup {u}
  /\ Goto(u, "warmup")
  /\ UNCHANGED <<file, unbalanced, asked, lines, journals>>

(* The vendor groups are known: the invoices are looked up in the company  *)
(* that the field names now.                                               *)
AskSource(u) ==
  /\ pc[u] = "warmup"
  /\ asked' = [asked EXCEPT ![u] = company]
  /\ Goto(u, "source")
  /\ UNCHANGED <<file, company, unbalanced, lines, journals, shared>>

(* The answers are there: a batch with the errors, or on to the rates.     *)
ValidateSource(u) ==
  /\ pc[u] = "source"
  /\ Goto(u, IF ValidateCashOutSource(asked[u], Rows(u)) THEN "rates" ELSE "refused")
  /\ UNCHANGED <<file, company, unbalanced, asked, lines, journals, shared>>

(* From the rates to the look-up of the marked invoices nothing waits.     *)
Format(u) ==
  /\ pc[u] = "rates"
  /\ unbalanced' = CheckInvoiceBalancedAfterFx(Rows(u))
  /\ lines' = [lines EXCEPT ![u] =
                 UpdateCashBatchAndVoucher(BuildInvoiceLines(company, Rows(u)))]
  /\ asked' = [asked EXCEPT ![u] = company]
  /\ Goto(u, "lookup")
  /\ UNCHANGED <<file, company, journals, shared>>

(* The marked invoices are known: validateAsync, and the batch is stored.  *)
(* Mutant: the marks are not looked up.                                  *)
InvalidUnlessMarked(u, l) == l.error \/ l.uid \in unbalanced
Invalid(u, l) ==
  \/ l.error
  \/ l.uid \in unbalanced
  \/ l.mark # NoInvoice /\ <<asked[u], l.mark, l.acct>> \notin Invoiced
Validate(u) ==
  /\ pc[u] = "lookup"
  /\ lines' = [lines EXCEPT ![u] =
                 [i \in DOMAIN @ |-> [@[i] EXCEPT !.error = Invalid(u, lines[u][i])]]]
  /\ Goto(u, "stored")
  /\ UNCHANGED <<file, company, unbalanced, asked, journals, shared>>

(* The batch is submitted: not if a line has an error.                     *)
ErrorCount(u) == Cardinality({i \in DOMAIN lines[u] : lines[u][i].error})
Post(u) ==
  /\ pc[u] = "stored" /\ lines[u] # <<>> /\ ErrorCount(u) = 0
  /\ journals' = [journals EXCEPT ![u] = MapToJournals(lines[u])]
  /\ Goto(u, "posted")
  /\ UNCHANGED <<file, company, unbalanced, asked, lines, shared>>

Next == \E u \in Uploads :
  \/ Begin(u) \/ AskSource(u) \/ ValidateSource(u)
  \/ Format(u) \/ Validate(u) \/ Post(u)

Spec == Init /\ [][Next]_vars

-----------------------------------------------------------------------------
Accepted(u) == pc[u] \in {"stored", "posted"} /\ lines[u] # <<>> /\ ErrorCount(u) = 0
PostedLines(u) == FlattenSeq(journals[u])
LinesOf(u, id) == Where(PostedLines(u), LAMBDA l : l.uid = id)
Count(s, Test(_)) == Len(Where(s, Test))

(* The money a sequence of lines puts on account a; the offset of a line   *)
(* takes what its account gets.                                            *)
Moves(l, a) ==
  (IF l.acct = a THEN l.d - l.c ELSE 0) - (IF l.off = a THEN l.d - l.c ELSE 0)
Net(ls, a) == SumFunction([i \in DOMAIN ls |-> Moves(ls[i], a)])
AsWritten(rows) ==
  [i \in DOMAIN rows |-> [acct |-> rows[i].acct, off |-> NoAccount,
                          d |-> rows[i].d, c |-> rows[i].c]]

(* Row r of an entry becomes a line of its own.                            *)
RowByRow(rows, r) ==
  IF rows[1].safe = "Vendor Payment" THEN IsMainAccountOnlyLedgerGroup(rows)
  ELSE ~SplitsCustodySettlement(rows) \/ ~InSplit(rows, r)

(* What the code does not carry over: a withholding row among rows kept as *)
(* they are (the vendor keeps the full debit and gets the withheld amount  *)
(* on top, or the row is left out), a withholding row with a debit, a      *)
(* vendor credit in a Vendor Payment, and the other side of a row with a   *)
(* debit and a credit that is paid out of a Custody Settlement.            *)
NotCarriedOver(rows) ==
  \E i \in DOMAIN rows :
    \/ /\ rows[i].acct \in Withholding \cup OtherWithholding
       /\ RowByRow(rows, rows[i]) \/ (IsWithholdingLedgerLine(rows[i]) /\ rows[i].d > 0)
    \/ rows[1].safe = "Vendor Payment" /\ IsVendor(rows[i]) /\ rows[i].c > 0
    \/ ~RowByRow(rows, rows[i]) /\ rows[i].d > 0 /\ rows[i].c > 0

(* Pairing, splitting, merging, numbering and rewriting move the rows of   *)
(* an entry around, but what a posted entry puts on each account is what   *)
(* its rows put there.                                                     *)
EntryMoneyKept ==
  \A u \in Uploads : pc[u] = "posted" =>
    \A e \in ToSet(BuildUniqueIdMap(Rows(u))) :
      NotCarriedOver(e) \/
        \A a \in Accounts : Net(LinesOf(u, e[1].uid), a) = Net(AsWritten(e), a)

(* No withholding row is posted twice, and in a vendor payment each one is *)
(* posted, against a vendor row of its invoice.                            *)
WithholdingOnce ==
  \A u \in Uploads : pc[u] = "posted" =>
    \A e \in ToSet(BuildUniqueIdMap(Rows(u))) :
      \A w \in ToSet(Where(e, IsWithholdingLedgerLine)) :
        LET Same(r) == r.acct = w.acct /\ r.c = w.c
            SameInvoice(r) == Same(r) /\ r.inv = w.inv
            Line(l) == l.off = w.acct /\ l.d = w.c
            Marked(l) == Line(l) /\ (l.mark = w.inv \/ l.acct \in CustodyVendors)
            posted == LinesOf(u, w.uid)
        IN /\ Count(posted, Line) <= Count(e, Same)
           /\ \/ RowByRow(e, w)
              \/ /\ Count(posted, Line) = Count(e, Same)
                 /\ Count(posted, Marked) >= Count(e, SameInvoice)

(* A file without errors balances voucher by voucher, as it was written:   *)
(* by UniqueId, or by voucher where it has no ids.  Excepted: files that   *)
(* have ids for some rows only, whose new ids may be old ones, files that  *)
(* were in the processor together with another, and a Custody Settlement   *)
(* of nothing but withholding: it becomes no line that an error could be   *)
(* set on.                                                                 *)
BecomesNoLine(rows) ==
  \A i \in DOMAIN rows :
    IsWithholdingLedgerLine(rows[i]) /\ rows[i].safe = "Custody Settlement"
WrittenId(r) == IF r.uid # 0 THEN <<"id", r.uid>> ELSE <<"voucher", r.voucher>>
AcceptedBalances ==
  \A u \in Uploads \ shared :
    LET rows == file[u]
        mixed == \E i, k \in DOMAIN rows : rows[i].uid = 0 /\ rows[k].uid # 0
    IN Accepted(u) /\ ~mixed =>
         \A i \in DOMAIN rows :
           \/ rows[i].uid = 0 /\ rows[i].voucher = ""
           \/ LET Mine(r) == WrittenId(r) = WrittenId(rows[i])
                  mine == Where(rows, Mine)
              IN Debits(mine) = Credits(mine) \/ BecomesNoLine(mine)

(* What is posted for a company names that company and settles invoices    *)
(* that its vendors have there.  Excepted: files that shared the processor *)
(* with another, and withholding of entries that settle nothing, which is  *)
(* marked by the handler after the validation.                             *)
SettlesInItsCompany ==
  \A u \in Uploads \ shared : Accepted(u) =>
    \A l \in ToSet(lines[u]) \cup ToSet(PostedLines(u)) :
      /\ l.co = CompanyOf[u]
      /\ l.mark # NoInvoice /\ (l.safe \in Settling \/ l.off \notin OtherWithholding)
           => <<CompanyOf[u], l.mark, l.acct>> \in Invoiced

(* A journal holds whole entries of one route, and no more than MaxLines   *)
(* lines unless it is one entry; and they are of one bucket and one month  *)
(* when the rows of every entry are, which nothing in the code makes sure  *)
(* of: an entry is placed by its first line.                               *)
OneKind(rows) ==
  \A i, k \in DOMAIN rows : rows[i].uid = rows[k].uid =>
    /\ rows[i].month = rows[k].month
    /\ CashVoucherTypeBucket(rows[i].type) = CashVoucherTypeBucket(rows[k].type)
JournalsHomogeneous ==
  \A u \in Uploads :
    /\ \A n \in DOMAIN journals[u] :
         LET js == ToSet(journals[u][n])
         IN /\ \A k, l \in js :
                 /\ k.route = l.route
                 /\ OneKind(Rows(u)) =>
                      /\ k.month = l.month
                      /\ CashVoucherTypeBucket(k.type) = CashVoucherTypeBucket(l.type)
            /\ Len(journals[u][n]) <= MaxLines \/ \A k, l \in js : k.uid = l.uid
    /\ \A n, m \in DOMAIN journals[u] : n # m =>
         {l.uid : l \in ToSet(journals[u][n])} \cap {l.uid : l \in ToSet(journals[u][m])} = {}
=============================================================================
