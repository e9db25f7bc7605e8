------------------------- MODULE MCCashOutEntries -------------------------
EXTENDS CashOutEntries

CONSTANT MaxRows  \* rows of the entries that are tried one by one

MCUploads == {"u1", "u2"}
MCCompanyOf == [u \in MCUploads |-> IF u = "u1" THEN "c1" ELSE "c2"]
MCInvoiced == {<<"c1", "i1", "V1">>, <<"c1", "i2", "V1">>, <<"c1", "i2", "V2">>,
               <<"c1", "i1", "V2">>, <<"c2", "i1", "V2">>}

Kind(a, i, x, y) == [acct |-> a, inv |-> i, d |-> x, c |-> y]
RowKinds == <<
  Kind("V1", "i1", 2, 0), Kind("V1", "i2", 1, 0), Kind("V2", "i2", 2, 0),
  Kind("V2", "i1", 1, 0), Kind("V1", "", 1, 0), Kind("V1", "i1", 0, 1), Kind("CV", "", 1, 0),
  Kind("bank", "", 0, 1), Kind("bank", "", 0, 2), Kind("bank", "", 0, 3),
  Kind("exp", "", 1, 0), Kind("exp", "", 0, 1),
  Kind("223304", "i1", 0, 1), Kind("223304", "i2", 0, 1), Kind("223304", "", 0, 1),
  Kind("223304", "i1", 1, 0), Kind("223301", "", 0, 1)>>

(* An entry of the given kinds of rows.                                    *)
Entry(s, id, voucher, safe, type, month) ==
  [i \in DOMAIN s |-> [uid |-> id, voucher |-> voucher, safe |-> safe, type |-> type,
                       month |-> month] @@ RowKinds[s[i]]]

(* Every balanced entry of at most MaxRows rows, its rows in the order of  *)
(* their kinds.                                                            *)
Kinds[n \in 0..MaxRows] ==
  IF n = 0 THEN {<<>>}
  ELSE LET shorter == Kinds[n - 1]
           last(s) == IF s = <<>> THEN 1 ELSE Last(s)
       IN shorter \cup {Append(s[1], s[2]) :
            s \in {t \in {x \in shorter : Len(x) = n - 1} \X DOMAIN RowKinds :
                     last(t[1]) <= t[2]}}
Amount(s, side(_)) == FoldLeft(LAMBDA n, k : n + side(RowKinds[k]), 0, s)
BalancedKinds ==
  {s \in Kinds[MaxRows] : Amount(s, LAMBDA r : r.d) = Amount(s, LAMBDA r : r.c)}
SingleEntries ==
  {Entry(s, 1, "x", safe, "cash", 1) :
     s \in BalancedKinds, safe \in {"Vendor Payment", "Custody Settlement", "Direct"}}

(* Files for two requests at once: balanced, unbalanced, settling or       *)
(* rewritten to an invoice that only one company has, without ids, with    *)
(* ids for some rows, with an entry of nothing but withholding, and with   *)
(* one of two months.                                                      *)
Overlapping == {
  Entry(<<3, 9>>, 1, "x", "Vendor Payment", "cash", 1),
  Entry(<<4, 8>>, 1, "x", "Vendor Payment", "cash", 1),
  Entry(<<11, 9>>, 1, "x", "Direct", "cash", 1),
  Entry(<<3, 9>>, 1, "x", "Custody Settlement", "cash", 1),
  Entry(<<1, 12, 17>>, 1, "x", "Direct", "cash", 1),
  Entry(<<11, 8>>, 0, "x", "Direct", "cash", 1) \o Entry(<<11, 8>>, 0, "y", "Direct", "cash", 1),
  Entry(<<11, 11>>, 0, "x", "Direct", "cash", 1) \o Entry(<<9>>, 0, "y", "Direct", "cash", 1),
  Entry(<<11, 11>>, 1, "x", "Direct", "cash", 1) \o Entry(<<9>>, 0, "y", "Direct", "cash", 1),
  Entry(<<11, 8>>, 1, "x", "Direct", "cash", 1)
    \o Entry(<<13>>, 2, "y", "Custody Settlement", "cash", 1),
  Entry(<<11>>, 1, "x", "Direct", "cash", 1) \o Entry(<<8>>, 1, "x", "Direct", "cash", 2)
    \o Entry(<<11, 8>>, 2, "y", "Direct", "cash", 1)}

(* Three entries each, of different lengths, buckets, routes and months.   *)
Short == <<11, 8>>
Long == <<11, 8, 11, 8, 11, 8>>
Attributes == {"Direct", "Custody Issue"} \X {"cash", "cheque", "visa"} \X {1, 2}
Numbered ==
  {Entry(s1, 1, "", a1[1], a1[2], a1[3]) \o Entry(s2, 2, "", a2[1], a2[2], a2[3])
     \o Entry(Short, 3, "", a3[1], a3[2], a3[3]) :
     s1, s2 \in {Short, Long}, a1, a2, a3 \in Attributes}

MCWorkbooks ==
  LET Lines(s) == [i \in DOMAIN s |-> [line |-> i] @@ s[i]]
  IN {[u1 |-> Lines(f), u2 |-> <<>>] : f \in SingleEntries \cup Numbered}
       \cup {[u1 |-> Lines(f), u2 |-> Lines(g)] : f, g \in Overlapping}
=============================================================================
