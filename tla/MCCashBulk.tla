------------------------------ MODULE MCCashBulk ------------------------------
(* Three entries.  The first two share a request; an invoice of the first  *)
(* is marked again by the third, in the next request, and the second has a *)
(* line of a ledger account, which cash-out posts on its own.              *)
EXTENDS CashBulk

CONSTANTS i1, i2, i3

MCLines == 1..6
MCVendorLines == {1, 2, 3, 5, 6}
MCGroupOf == [l \in MCLines |-> (l + 1) \div 2]
MCInvoice == [l \in MCLines |-> CASE l \in {1, 5} -> i1 [] l = 3 -> i2
                                 [] l = 6 -> i3 [] OTHER -> NoInvoice]
MCHeldLines == {3, 6}

ASSUME MCHeldApart == HeldApart
===============================================================================
