----------------------- MODULE CustomerCreation_proofs -----------------------
(***************************************************************************)
(* The safety properties of CustomerCreation for every number of requests  *)
(* and documents and every amount of trouble.  None of them is inductive:  *)
(* each needs to know where the requests have got to.                      *)
(***************************************************************************)
EXTENDS CustomerCreation, TLAPS

Pcs == {"idle", "batch", "claim", "account", "tax", "findvat", "vat", "recheckvat",
        "customer", "recheck", "rollback", "mark", "local", "marklocal",
        "readfailed", "markfailed", "done"}
Requests == [pc : Pcs, doc : Documents, from : CreationStatus, mine : BOOLEAN]
Counts == [rejections : Nat, lost : Nat, faults : Nat, crashes : Nat, revals : Nat,
           badMarks : Nat]

(* A request that is past the creation has seen the customer in Finance.   *)
Past == {"mark", "local", "marklocal"}
PastHasCustomer == \A c \in Creators : cr[c].pc \in Past => fin.customer

(* Without a revalidation, the document of a request at work is "creating" *)
(* and nobody else's; one that stores data is "created".                   *)
DocumentsClaimed ==
  used.revals = 0 =>
    /\ rv.pc = "idle"
    /\ \A d \in Documents : remedy[d].data => remedy[d].creation = "created"
    /\ \A c \in Creators :
         /\ Working(c) => remedy[cr[c].doc].creation = "creating"
         /\ cr[c].pc \in {"local", "marklocal"} => remedy[cr[c].doc].creation = "created"
    /\ \A c, e \in Creators :
         c # e /\ Working(c) /\ Working(e) => cr[c].doc # cr[e].doc

(* As long as nothing was lost or failed, a VAT number without a customer  *)
(* belongs to a request that will use it or delete it ...                  *)
Holding(c) == cr[c].mine /\ cr[c].pc \in {"customer", "recheck", "rollback"}
VatHeld ==
  fin.vat /\ ~fin.customer =>
    used.lost + used.faults + used.crashes > 0 \/ \E c \in Creators : Holding(c)

(* ... and a customer no document stores, to one that will look for it.    *)
CustomerHeld ==
  fin.customer =>
    \/ \E d \in Documents : remedy[d].data
    \/ used.faults + used.crashes > 0
    \/ \E c \in Creators : cr[c].pc \in {"mark", "recheck"}

CreationInv ==
  /\ CreationTypeOK /\ CreatedIsInFinance /\ PastHasCustomer
  /\ DocumentsClaimed /\ VatHeld /\ CustomerHeld

LEMMA Types ==
  ASSUME CreationTypeOK
  PROVE  /\ cr \in [Creators -> Requests] /\ used \in Counts
         /\ remedy \in [Documents -> [creation : CreationStatus, data : BOOLEAN]]
         /\ fin \in [customer : BOOLEAN, vat : BOOLEAN]
BY DEF CreationTypeOK, Requests, Pcs, Counts

LEMMA CreationInvInit == Init => CreationInv
<1> SUFFICES ASSUME Init PROVE CreationInv
  OBVIOUS
<1>1. Doc \in Documents
  BY CreationAssumption DEF Doc
<1>2. CreationTypeOK
  BY <1>1 DEF Init, CreationTypeOK, IdleCreator, IdleReval, CreationStatus
<1>3. \A c \in Creators : cr[c].pc = "idle"
  BY DEF Init, IdleCreator
<1>4. /\ fin.customer = FALSE /\ fin.vat = FALSE /\ local = FALSE /\ rv.pc = "idle"
      /\ \A d \in Documents : remedy[d].data = FALSE
  BY DEF Init, IdleReval
<1>5. QED
  BY <1>2, <1>3, <1>4 DEF CreationInv, CreatedIsInFinance, PastHasCustomer, Past,
     DocumentsClaimed, Working, VatHeld, CustomerHeld

-----------------------------------------------------------------------------
(* What the helpers of the actions do.                                     *)

LEMMA GotoStep ==
  ASSUME cr \in [Creators -> Requests], NEW c \in Creators, NEW pc \in Pcs, Goto(c, pc)
  PROVE  /\ cr' \in [Creators -> Requests]
         /\ cr'[c] = [cr[c] EXCEPT !.pc = pc]
         /\ cr'[c].pc = pc /\ cr'[c].doc = cr[c].doc /\ cr'[c].mine = cr[c].mine
         /\ \A e \in Creators : e # c => cr'[e] = cr[e]
BY DEF Goto, Requests

LEMMA UseStep ==
  ASSUME used \in Counts,
         NEW what \in {"rejections", "lost", "faults", "crashes", "revals", "badMarks"},
         Use(what)
  PROVE  /\ used' \in Counts
         /\ used'.revals = IF what = "revals" THEN used.revals + 1 ELSE used.revals
         /\ used'.lost = IF what = "lost" THEN used.lost + 1 ELSE used.lost
         /\ used'.faults = IF what = "faults" THEN used.faults + 1 ELSE used.faults
         /\ used'.crashes = IF what = "crashes" THEN used.crashes + 1 ELSE used.crashes
BY DEF Use, Counts

LEMMA SetStep ==
  ASSUME remedy \in [Documents -> [creation : CreationStatus, data : BOOLEAN]],
         NEW d \in Documents, NEW status \in CreationStatus, SetCreation(d, status)
  PROVE  /\ remedy' \in [Documents -> [creation : CreationStatus, data : BOOLEAN]]
         /\ remedy'[d].creation = status /\ remedy'[d].data = remedy[d].data
         /\ \A e \in Documents : e # d => remedy'[e] = remedy[e]
BY DEF SetCreation

(* A step of a request that changes nothing but where it is.               *)
LEMMA MoveStep ==
  ASSUME CreationInv, NEW c \in Creators, NEW pc \in Pcs, Goto(c, pc),
         UNCHANGED <<fin, remedy, open, local, rv>>,
         used' \in Counts, used'.revals = used.revals, used'.lost >= used.lost,
         used'.faults >= used.faults, used'.crashes >= used.crashes,
         pc \in Past => fin.customer,
         pc \notin {"idle", "batch", "claim", "local", "marklocal", "done"} => Working(c),
         pc \in {"local", "marklocal"} => remedy[cr[c].doc].data \/ cr[c].pc = "local",
         \/ Holding(c) => pc \in {"customer", "recheck", "rollback"} \/ fin.customer
         \/ used'.faults > 0,
         \/ cr[c].pc \in {"mark", "recheck"} => pc \in {"mark", "recheck"} \/ ~fin.customer
         \/ used'.faults > 0
  PROVE  CreationInv'
<1>1. /\ CreationTypeOK /\ CreatedIsInFinance /\ PastHasCustomer
      /\ DocumentsClaimed /\ VatHeld /\ CustomerHeld
  BY DEF CreationInv
<1>2. cr \in [Creators -> Requests] /\ used \in Counts
  BY <1>1, Types
<1>3. /\ cr' \in [Creators -> Requests]
      /\ cr'[c].pc = pc /\ cr'[c].doc = cr[c].doc /\ cr'[c].mine = cr[c].mine
      /\ \A e \in Creators : e # c => cr'[e] = cr[e]
  BY <1>2, GotoStep
<1>4. CreationTypeOK'
  BY <1>1, <1>3 DEF CreationTypeOK, Requests, Pcs, Counts
<1>5. CreatedIsInFinance' /\ PastHasCustomer'
  BY <1>1, <1>3 DEF CreatedIsInFinance, PastHasCustomer
<1>6. DocumentsClaimed'
  <2>1. \A e \in Creators : Working(e)' => Working(e)
    BY <1>3 DEF Working
  <2>2. \A e \in Creators : cr'[e].doc = cr[e].doc
    BY <1>3
  <2>3. \A e \in Creators : cr[e].doc \in Documents
    BY <1>2 DEF Requests
  <2>4. ASSUME used.revals = 0, NEW e \in Creators, cr'[e].pc \in {"local", "marklocal"}
        PROVE  remedy[cr[e].doc].creation = "created"
    BY <1>1, <1>3, <2>3, <2>4 DEF DocumentsClaimed
  <2>5. QED
    BY <1>1, <2>1, <2>2, <2>4 DEF DocumentsClaimed
<1>7. VatHeld'
  <2> SUFFICES ASSUME fin.vat, ~fin.customer,
                      ~(used'.lost + used'.faults + used'.crashes > 0)
               PROVE  \E e \in Creators : Holding(e)'
    BY DEF VatHeld
  <2>1. used.lost + used.faults + used.crashes = 0 /\ ~(used'.faults > 0)
    BY <1>2 DEF Counts
  <2>2. PICK e \in Creators : Holding(e)
    BY <1>1, <2>1 DEF VatHeld
  <2>3. QED
    BY <1>3, <2>1, <2>2 DEF Holding
<1>8. CustomerHeld'
  <2> SUFFICES ASSUME fin.customer, \A d \in Documents : ~remedy[d].data,
                      ~(used'.faults + used'.crashes > 0)
               PROVE  \E e \in Creators : cr'[e].pc \in {"mark", "recheck"}
    BY DEF CustomerHeld
  <2>1. used.faults + used.crashes = 0 /\ ~(used'.faults > 0)
    BY <1>2 DEF Counts
  <2>2. PICK e \in Creators : cr[e].pc \in {"mark", "recheck"}
    BY <1>1, <2>1 DEF CustomerHeld
  <2>3. QED
    BY <1>3, <2>1, <2>2
<1>9. QED
  BY <1>4, <1>5, <1>6, <1>7, <1>8 DEF CreationInv

(* The moves: most steps of a request, and every failing call.             *)
LEMMA Moves ==
  ASSUME CreationInv, NEW c \in Creators,
         \/ RequireEditableBatch(c) \/ LookupAccount(c) \/ AssertTaxNumberAvailable(c)
         \/ FindVat(c) \/ CreateVatRejected(c) \/ RecheckVat(c)
         \/ CreateCustomerRejected(c) \/ RecheckCustomer(c) \/ ReadForFailure(c)
  PROVE  CreationInv'
<1>1. /\ used \in Counts /\ CreatedIsInFinance /\ cr \in [Creators -> Requests]
  BY Types DEF CreationInv
<1>2. cr[c].doc \in Documents
  BY <1>1 DEF Requests
<1>3. /\ UNCHANGED <<fin, remedy, open, local, rv>>
  BY DEF RequireEditableBatch, LookupAccount, AssertTaxNumberAvailable, FindVat,
         CreateVatRejected, RecheckVat, CreateCustomerRejected, RecheckCustomer, ReadForFailure
<1>4. used' = used \/ Use("rejections")
  BY DEF RequireEditableBatch, LookupAccount, AssertTaxNumberAvailable, FindVat,
         CreateVatRejected, RecheckVat, CreateCustomerRejected, RecheckCustomer, ReadForFailure
<1>5. /\ used' \in Counts /\ used'.revals = used.revals /\ used'.lost >= used.lost
      /\ used'.faults >= used.faults /\ used'.crashes >= used.crashes
  <2>1. CASE used' = used
    BY <1>1, <2>1 DEF Counts
  <2>2. CASE Use("rejections")
    BY <1>1, <2>2, UseStep DEF Counts
  <2>3. QED
    BY <1>4, <2>1, <2>2
<1>6. CASE RequireEditableBatch(c)
  <2>1. PICK pc \in {"done", "local", "claim"} :
          Goto(c, pc) /\ (pc = "local" => remedy[cr[c].doc].data)
    BY <1>6 DEF RequireEditableBatch
  <2>2. pc = "local" => fin.customer
    BY <1>1, <1>2, <2>1 DEF CreatedIsInFinance
  <2>3. cr[c].pc = "batch"
    BY <1>6 DEF RequireEditableBatch, At
  <2>4. QED
    BY <1>3, <1>5, <2>1, <2>2, <2>3, MoveStep DEF Pcs, Past, Holding
<1>7. CASE LookupAccount(c) \/ AssertTaxNumberAvailable(c) \/ FindVat(c) \/ CreateVatRejected(c)
           \/ RecheckVat(c)
  <2>1. cr[c].pc \in {"account", "tax", "findvat", "vat", "recheckvat"}
    BY <1>7 DEF LookupAccount, AssertTaxNumberAvailable, FindVat, CreateVatRejected,
                RecheckVat, At
  <2>2. PICK pc \in {"readfailed", "tax", "findvat", "customer", "vat", "recheckvat"} : Goto(c, pc)
    BY <1>7 DEF LookupAccount, AssertTaxNumberAvailable, FindVat, CreateVatRejected,
                RecheckVat, Fail
  <2>3. Working(c)
    BY <2>1 DEF Working
  <2>4. QED
    BY <1>3, <1>5, <2>1, <2>2, <2>3, MoveStep DEF Pcs, Past, Holding
<1>8. CASE CreateCustomerRejected(c)
  <2>1. Goto(c, "recheck") /\ cr[c].pc = "customer"
    BY <1>8 DEF CreateCustomerRejected, At
  <2>2. Working(c)
    BY <2>1 DEF Working
  <2>3. QED
    BY <1>3, <1>5, <2>1, <2>2, MoveStep DEF Pcs, Past
<1>9. CASE RecheckCustomer(c)
  <2>1. cr[c].pc = "recheck"
    BY <1>9 DEF RecheckCustomer, At
  <2>2. PICK pc \in {"mark", "rollback", "readfailed"} :
          /\ Goto(c, pc)
          /\ pc = "mark" <=> fin.customer
          /\ pc = "readfailed" => ~cr[c].mine
    <3>1. cr[c].mine \in BOOLEAN
      BY <1>1 DEF Requests
    <3>2. QED
      BY <1>9, <3>1 DEF RecheckCustomer, AfterRefusal, Fail
  <2>3. Working(c)
    BY <2>1 DEF Working
  <2>4. QED
    BY <1>3, <1>5, <2>1, <2>2, <2>3, MoveStep DEF Pcs, Past, Holding
<1>10. CASE ReadForFailure(c)
  <2>1. cr[c].pc = "readfailed"
    BY <1>10 DEF ReadForFailure, At
  <2>2. PICK pc \in {"done", "markfailed"} : Goto(c, pc)
    BY <1>10 DEF ReadForFailure
  <2>3. Working(c)
    BY <2>1 DEF Working
  <2>4. QED
    BY <1>3, <1>5, <2>1, <2>2, <2>3, MoveStep DEF Pcs, Past, Holding
<1>11. QED
  BY <1>6, <1>7, <1>8, <1>9, <1>10

LEMMA FaultStep ==
  ASSUME CreationInv, NEW c \in Creators, CreationFault(c)
  PROVE  CreationInv'
<1>1. used \in Counts /\ PastHasCustomer /\ cr \in [Creators -> Requests]
  BY Types DEF CreationInv
<1>2. UNCHANGED <<fin, remedy, open, local, rv>>
  BY DEF CreationFault
<1>3. /\ used' \in Counts /\ used'.revals = used.revals /\ used'.lost >= used.lost
      /\ used'.faults >= used.faults /\ used'.crashes >= used.crashes /\ used'.faults > 0
  <2>1. PICK n \in {0, 1} :
          used' = [used EXCEPT !.faults = used.faults + 1, !.badMarks = used.badMarks + n]
    BY DEF CreationFault
  <2>2. /\ used.faults \in Nat /\ used.badMarks \in Nat /\ used.lost \in Nat
        /\ used.crashes \in Nat /\ n \in Nat
    BY <1>1 DEF Counts
  <2>3. used' \in Counts
    <3>5. \A k \in Nat : [used EXCEPT !.faults = k] \in Counts
      BY <1>1 DEF Counts
    <3>6. used.faults + 1 \in Nat
      BY <2>2
    <3>1. PICK u \in Counts : u = [used EXCEPT !.faults = used.faults + 1]
      BY <3>5, <3>6
    <3>2. u.badMarks = used.badMarks /\ used.badMarks + n \in Nat
      BY <1>1, <2>2, <3>1 DEF Counts
    <3>3. [u EXCEPT !.badMarks = used.badMarks + n] \in Counts
      BY <3>1, <3>2 DEF Counts
    <3>4. used' = [u EXCEPT !.badMarks = used.badMarks + n]
      BY <1>1, <2>1, <3>1 DEF Counts
    <3>7. QED
      BY <3>3, <3>4
  <2>4. /\ used'.faults = used.faults + 1 /\ used'.lost = used.lost
        /\ used'.crashes = used.crashes /\ used'.revals = used.revals
    BY <1>1, <2>1 DEF Counts
  <2>5. QED
    BY <2>2, <2>3, <2>4
<1>4. PICK pc \in Pcs :
        /\ Goto(c, pc)
        /\ pc \in {"done", "readfailed", "rollback", "marklocal"}
        /\ pc = "marklocal" => cr[c].pc = "local"
        /\ pc \in {"readfailed", "rollback"} =>
             cr[c].pc \in {"account", "tax", "findvat", "recheckvat", "mark", "rollback", "recheck"}
  BY DEF CreationFault, Fail, AfterRefusal, Pcs, At
<1>5. pc \in {"readfailed", "rollback"} => Working(c)
  BY <1>4 DEF Working
<1>6. pc = "marklocal" => fin.customer
  BY <1>1, <1>4 DEF PastHasCustomer, Past
<1>7. QED
  BY <1>2, <1>3, <1>4, <1>5, <1>6, MoveStep DEF Past

-----------------------------------------------------------------------------
(* The steps that change more than where a request is.                     *)

(* The request reads its document.                                         *)
LEMMA RequireStep ==
  ASSUME CreationInv, NEW c \in Creators, NEW d \in Documents, RequireMissingRecord(c, d)
  PROVE  CreationInv'
<1>1. /\ CreationTypeOK /\ CreatedIsInFinance /\ PastHasCustomer /\ DocumentsClaimed
      /\ VatHeld /\ CustomerHeld /\ cr \in [Creators -> Requests]
      /\ remedy \in [Documents -> [creation : CreationStatus, data : BOOLEAN]]
  BY Types DEF CreationInv
<1>2. DEFINE to == [cr[c] EXCEPT !.pc = "batch", !.doc = d, !.from = remedy[d].creation]
<1>3. /\ to \in Requests /\ to.pc = "batch" /\ cr[c].pc = "idle"
  BY <1>1 DEF Requests, Pcs, RequireMissingRecord, At
<1>4. cr' = [cr EXCEPT ![c] = to] /\ UNCHANGED <<fin, remedy, open, local, rv, used>>
  BY <1>1 DEF RequireMissingRecord, Requests
<1> HIDE DEF to
<1>5. /\ cr' \in [Creators -> Requests] /\ cr'[c].pc = "batch"
      /\ \A e \in Creators : e # c => cr'[e] = cr[e]
  BY <1>1, <1>3, <1>4
<1>6. CreationTypeOK' /\ CreatedIsInFinance' /\ PastHasCustomer'
  BY <1>1, <1>4, <1>5 DEF CreationTypeOK, Requests, Pcs, CreatedIsInFinance, PastHasCustomer, Past
<1>7. \A e \in Creators : Working(e)' => Working(e) /\ e # c
  BY <1>5 DEF Working
<1>8. DocumentsClaimed'
  BY <1>1, <1>4, <1>5, <1>7 DEF DocumentsClaimed
<1>9. VatHeld' /\ CustomerHeld'
  BY <1>1, <1>3, <1>4, <1>5 DEF VatHeld, CustomerHeld, Holding
<1>10. QED
  BY <1>6, <1>8, <1>9 DEF CreationInv

(* The claim: nobody works on a document that can be claimed.              *)
LEMMA ClaimStep ==
  ASSUME CreationInv, NEW c \in Creators, ClaimForCreation(c)
  PROVE  CreationInv'
<1>1. /\ CreationTypeOK /\ CreatedIsInFinance /\ PastHasCustomer /\ DocumentsClaimed
      /\ VatHeld /\ CustomerHeld /\ cr \in [Creators -> Requests] /\ used \in Counts
      /\ remedy \in [Documents -> [creation : CreationStatus, data : BOOLEAN]]
  BY Types DEF CreationInv
<1>2. cr[c].pc = "claim" /\ UNCHANGED <<fin, open, local, rv, used>>
  BY DEF ClaimForCreation, At
<1>3. CASE Goto(c, "done") /\ UNCHANGED remedy
  <2>1. /\ used' \in Counts /\ used'.revals = used.revals /\ used'.lost >= used.lost
        /\ used'.faults >= used.faults /\ used'.crashes >= used.crashes
    BY <1>1, <1>2 DEF Counts
  <2>2. QED
    BY <1>2, <1>3, <2>1, MoveStep DEF Pcs, Past, Holding
<1>4. CASE ~(Goto(c, "done") /\ UNCHANGED remedy)
  <2>1. DEFINE d == cr[c].doc
               to == [cr[c] EXCEPT !.pc = "account", !.from = remedy[d].creation]
  <2>2. /\ d \in Documents /\ remedy[d].creation \in {"missing", "create_failed"}
        /\ SetCreation(d, "creating") /\ cr' = [cr EXCEPT ![c] = to]
    BY <1>1, <1>4 DEF ClaimForCreation, Requests
  <2>3. to \in Requests /\ to.pc = "account" /\ to.doc = d
    BY <1>1, <2>2 DEF Requests, Pcs, CreationStatus
  <2> HIDE DEF to
  <2>4. /\ cr' \in [Creators -> Requests] /\ cr'[c].pc = "account" /\ cr'[c].doc = d
        /\ \A e \in Creators : e # c => cr'[e] = cr[e]
    BY <1>1, <2>2, <2>3
  <2>5. "creating" \in CreationStatus
    BY DEF CreationStatus
  <2>6. /\ remedy' \in [Documents -> [creation : CreationStatus, data : BOOLEAN]]
        /\ remedy'[d].creation = "creating" /\ remedy'[d].data = remedy[d].data
        /\ \A e \in Documents : e # d => remedy'[e] = remedy[e]
    BY <1>1, <2>2, <2>5, SetStep
  <2>7. \A e \in Documents : remedy'[e].data = remedy[e].data
    BY <2>6
  <2>8. CreationTypeOK'
    BY <1>1, <1>2, <2>4, <2>6 DEF CreationTypeOK, Requests, Pcs
  <2>9. CreatedIsInFinance' /\ PastHasCustomer'
    BY <1>1, <1>2, <2>4, <2>7 DEF CreatedIsInFinance, PastHasCustomer, Past
  <2>10. ASSUME used.revals = 0
         PROVE  /\ ~remedy[d].data
                /\ \A e \in Creators : e # c /\ cr[e].pc \in {"local", "marklocal"} => cr[e].doc # d
                /\ \A e \in Creators : e # c /\ Working(e) => cr[e].doc # d
    BY <1>1, <2>2, <2>10 DEF DocumentsClaimed
  <2>11. \A e \in Creators : e # c => Working(e)' = Working(e)
    BY <2>4 DEF Working
  <2>12. \A e \in Creators : cr[e].doc \in Documents
    BY <1>1 DEF Requests
  <2>13. DocumentsClaimed'
    <3> SUFFICES ASSUME used.revals = 0
                 PROVE  /\ rv.pc = "idle"
                        /\ \A e \in Documents : remedy'[e].data => remedy'[e].creation = "created"
                        /\ \A e \in Creators :
                             /\ Working(e)' => remedy'[cr'[e].doc].creation = "creating"
                             /\ cr'[e].pc \in {"local", "marklocal"} =>
                                  remedy'[cr'[e].doc].creation = "created"
                        /\ \A e, f \in Creators :
                             e # f /\ Working(e)' /\ Working(f)' => cr'[e].doc # cr'[f].doc
      BY <1>2 DEF DocumentsClaimed
    <3>1. rv.pc = "idle" /\ \A e \in Documents : remedy'[e].data => remedy'[e].creation = "created"
      BY <1>1, <2>6, <2>10 DEF DocumentsClaimed
    <3>2. ASSUME NEW e \in Creators
          PROVE  /\ Working(e)' => remedy'[cr'[e].doc].creation = "creating"
                 /\ cr'[e].pc \in {"local", "marklocal"} =>
                      remedy'[cr'[e].doc].creation = "created"
      <4>1. CASE e = c
        BY <2>4, <2>6, <4>1
      <4>2. CASE e # c
        BY <1>1, <2>4, <2>6, <2>10, <2>11, <2>12, <4>2 DEF DocumentsClaimed
      <4>3. QED
        BY <4>1, <4>2
    <3>3. \A e, f \in Creators :
            e # f /\ Working(e)' /\ Working(f)' => cr'[e].doc # cr'[f].doc
      BY <1>1, <2>4, <2>10, <2>11 DEF DocumentsClaimed
    <3>4. QED
      BY <3>1, <3>2, <3>3
  <2>14. VatHeld' /\ CustomerHeld'
    BY <1>1, <1>2, <2>4, <2>7 DEF VatHeld, CustomerHeld, Holding
  <2>15. QED
    BY <2>8, <2>9, <2>13, <2>14 DEF CreationInv
<1>5. QED
  BY <1>3, <1>4

(* The writes to Finance, by a request at work that goes on being at work. *)
LEMMA FinanceStep ==
  ASSUME CreationInv, NEW c \in Creators,
         CreateVatNumber(c) \/ CreateCustomer(c) \/ RollbackVatNumber(c)
  PROVE  CreationInv'
<1>1. /\ CreationTypeOK /\ CreatedIsInFinance /\ PastHasCustomer /\ DocumentsClaimed
      /\ VatHeld /\ CustomerHeld /\ cr \in [Creators -> Requests] /\ used \in Counts
      /\ fin \in [customer : BOOLEAN, vat : BOOLEAN]
  BY Types DEF CreationInv
<1>2. UNCHANGED <<remedy, open, local, rv>>
  BY DEF CreateVatNumber, CreateCustomer, RollbackVatNumber
<1>3. /\ cr[c].pc \in {"vat", "customer", "rollback"}
      /\ cr[c].pc = "vat" <=> CreateVatNumber(c)
      /\ cr[c].pc = "customer" <=> CreateCustomer(c)
  BY DEF CreateVatNumber, CreateCustomer, RollbackVatNumber, At
<1>4. used' = used \/ Use("lost")
  BY DEF CreateVatNumber, CreateCustomer, RollbackVatNumber
<1>5. /\ used' \in Counts /\ used'.revals = used.revals /\ used'.lost >= used.lost
      /\ used'.faults = used.faults /\ used'.crashes = used.crashes
      /\ used' # used => used'.lost > 0
  <2>1. CASE used' = used
    BY <1>1, <2>1 DEF Counts
  <2>2. CASE Use("lost")
    BY <1>1, <2>2, UseStep DEF Counts
  <2>3. QED
    BY <1>4, <2>1, <2>2
<1>6. PICK to \in Requests :
        /\ cr' = [cr EXCEPT ![c] = to] /\ to.doc = cr[c].doc
        /\ to.pc \in {"customer", "recheckvat", "mark", "recheck", "readfailed"}
        /\ cr[c].pc = "vat" => (to.pc = "customer" /\ to.mine) \/ Use("lost")
        /\ cr[c].pc = "customer" => to.pc \in {"mark", "recheck"}
        /\ cr[c].pc # "customer" => to.pc # "mark"
  <2>1. ASSUME NEW pc \in Pcs, Goto(c, pc)
        PROVE  \E to \in Requests :
                 cr' = [cr EXCEPT ![c] = to] /\ to.doc = cr[c].doc /\ to.pc = pc
    <3>1. /\ [cr[c] EXCEPT !.pc = pc] \in Requests
          /\ [cr[c] EXCEPT !.pc = pc].doc = cr[c].doc /\ [cr[c] EXCEPT !.pc = pc].pc = pc
      BY <1>1 DEF Requests
    <3>2. cr' = [cr EXCEPT ![c] = [cr[c] EXCEPT !.pc = pc]]
      BY <2>1 DEF Goto
    <3>3. QED
      BY <3>1, <3>2
  <2>2. CASE CreateVatNumber(c)
    <3>1. cr[c].pc = "vat"
      BY <2>2 DEF CreateVatNumber, At
    <3>2. CASE cr' = [cr EXCEPT ![c].pc = "customer", ![c].mine = TRUE]
      <4>1. DEFINE to == [cr[c] EXCEPT !.pc = "customer", !.mine = TRUE]
      <4>2. to \in Requests /\ to.doc = cr[c].doc /\ to.pc = "customer" /\ to.mine = TRUE
        BY <1>1 DEF Requests, Pcs
      <4>3. cr' = [cr EXCEPT ![c] = to]
        BY <1>1, <3>2 DEF Requests
      <4>4. QED
        BY <3>1, <4>2, <4>3
    <3>3. CASE Use("lost") /\ Goto(c, "recheckvat")
      BY <2>1, <3>1, <3>3 DEF Pcs
    <3>4. QED
      BY <2>2, <3>2, <3>3 DEF CreateVatNumber
  <2>3. CASE CreateCustomer(c)
    <3>1. cr[c].pc = "customer" /\ (Goto(c, "mark") \/ Goto(c, "recheck"))
      BY <2>3 DEF CreateCustomer, At
    <3>2. QED
      BY <2>1, <3>1 DEF Pcs
  <2>4. CASE RollbackVatNumber(c)
    <3>1. cr[c].pc = "rollback" /\ Goto(c, "readfailed")
      BY <2>4 DEF RollbackVatNumber, At, Fail
    <3>2. QED
      BY <2>1, <3>1 DEF Pcs
  <2>5. QED
    BY <2>2, <2>3, <2>4
<1>7. /\ cr' \in [Creators -> Requests] /\ cr'[c] = to
      /\ \A e \in Creators : e # c => cr'[e] = cr[e]
  BY <1>1, <1>6
<1>8. /\ fin' \in [customer : BOOLEAN, vat : BOOLEAN]
      /\ fin'.customer = (fin.customer \/ cr[c].pc = "customer")
      /\ fin'.vat = IF cr[c].pc = "rollback" THEN FALSE
                    ELSE fin.vat \/ cr[c].pc = "vat"
  BY <1>1, <1>3 DEF CreateVatNumber, CreateCustomer, RollbackVatNumber, At
<1>9. CreationTypeOK'
  BY <1>1, <1>2, <1>5, <1>7, <1>8 DEF CreationTypeOK, Requests, Pcs, Counts
<1>10. CreatedIsInFinance' /\ PastHasCustomer'
  BY <1>1, <1>2, <1>3, <1>6, <1>7, <1>8 DEF CreatedIsInFinance, PastHasCustomer, Past
<1>11. /\ Working(c) /\ \A e \in Creators : Working(e)' = Working(e)
  BY <1>3, <1>6, <1>7 DEF Working
<1>12. DocumentsClaimed'
  BY <1>1, <1>2, <1>5, <1>6, <1>7, <1>11 DEF DocumentsClaimed
<1>13. VatHeld'
  <2> SUFFICES ASSUME fin'.vat, ~fin'.customer,
                      ~(used'.lost + used'.faults + used'.crashes > 0)
               PROVE  \E e \in Creators : Holding(e)'
    BY DEF VatHeld
  <2>1. ~(used'.lost > 0) /\ used' = used
    BY <1>5 DEF Counts
  <2>2. cr[c].pc = "vat" /\ ~Use("lost")
    <3>1. ~Use("lost")
      BY <1>1, <2>1, UseStep DEF Counts
    <3>2. cr[c].pc = "vat"
      BY <1>3, <1>8
    <3>3. QED
      BY <3>1, <3>2
  <2>3. Holding(c)'
    BY <1>6, <1>7, <2>2 DEF Holding
  <2>4. QED
    BY <2>3
<1>14. CustomerHeld'
  <2>1. CASE cr[c].pc = "customer"
    BY <1>6, <1>7, <2>1 DEF CustomerHeld
  <2>2. CASE cr[c].pc # "customer"
    <3>1. fin'.customer = fin.customer /\ cr[c].pc \notin {"mark", "recheck"}
      BY <1>1, <1>3, <1>8, <2>2
    <3>2. QED
      BY <1>1, <1>2, <1>5, <1>7, <3>1 DEF CustomerHeld
  <2>3. QED
    BY <2>1, <2>2
<1>15. QED
  BY <1>9, <1>10, <1>12, <1>13, <1>14 DEF CreationInv

(* The end of a request: it stores what was created, or that it failed.    *)
LEMMA EndStep ==
  ASSUME CreationInv, NEW c \in Creators,
         \/ MarkCustomerCreated(c) \/ FinishLocalPersistence(c)
         \/ MarkCreationFailure(c) \/ LocalPersistenceFailed(c)
  PROVE  CreationInv'
<1>1. /\ CreationTypeOK /\ CreatedIsInFinance /\ PastHasCustomer /\ DocumentsClaimed
      /\ VatHeld /\ CustomerHeld /\ cr \in [Creators -> Requests]
      /\ remedy \in [Documents -> [creation : CreationStatus, data : BOOLEAN]]
  BY Types DEF CreationInv
<1>2. UNCHANGED <<fin, open, rv, used>>
  BY DEF MarkCustomerCreated, FinishLocalPersistence, MarkCreationFailure, LocalPersistenceFailed
<1>3. PICK d \in Documents : d = cr[c].doc
  BY <1>1 DEF Requests
<1>4. PICK pc \in {"local", "done"} : Goto(c, pc) /\ (pc = "local" <=> MarkCustomerCreated(c))
  <2>1. MarkCustomerCreated(c) => cr[c].pc = "mark" /\ Goto(c, "local")
    BY DEF MarkCustomerCreated, At
  <2>2. FinishLocalPersistence(c) => cr[c].pc = "local" /\ Goto(c, "done")
    BY DEF FinishLocalPersistence, At
  <2>3. MarkCreationFailure(c) => cr[c].pc = "markfailed" /\ Goto(c, "done")
    BY DEF MarkCreationFailure, At
  <2>4. LocalPersistenceFailed(c) => cr[c].pc = "marklocal" /\ Goto(c, "done")
    BY DEF LocalPersistenceFailed, At
  <2>5. MarkCustomerCreated(c) =>
          ~FinishLocalPersistence(c) /\ ~MarkCreationFailure(c) /\ ~LocalPersistenceFailed(c)
    BY <2>1, <2>2, <2>3, <2>4
  <2>6. QED
    BY <2>1, <2>2, <2>3, <2>4, <2>5
<1>5. /\ cr' \in [Creators -> Requests] /\ cr'[c].pc = pc /\ cr'[c].doc = d
      /\ \A e \in Creators : e # c => cr'[e] = cr[e]
  <2>1. pc \in Pcs
    BY DEF Pcs
  <2>2. QED
    BY <1>1, <1>3, <1>4, <2>1, GotoStep
<1>6. /\ cr[c].pc \in {"mark", "local", "marklocal", "markfailed"}
      /\ cr[c].pc = "mark" <=> MarkCustomerCreated(c)
      /\ cr[c].pc = "local" <=> FinishLocalPersistence(c)
      /\ cr[c].pc = "markfailed" <=> MarkCreationFailure(c)
  BY DEF MarkCustomerCreated, FinishLocalPersistence, MarkCreationFailure,
         LocalPersistenceFailed, At
<1>7. /\ remedy' \in [Documents -> [creation : CreationStatus, data : BOOLEAN]]
      /\ \A e \in Documents : e # d => remedy'[e] = remedy[e]
      /\ remedy'[d].data = (remedy[d].data \/ cr[c].pc = "mark")
      /\ remedy'[d].creation = IF cr[c].pc = "local" THEN remedy[d].creation
                               ELSE IF cr[c].pc = "markfailed" THEN "create_failed"
                               ELSE "created"
  <2>1. CASE MarkCustomerCreated(c)
    BY <1>1, <1>3, <1>6, <2>1 DEF MarkCustomerCreated, CreationStatus
  <2>2. CASE FinishLocalPersistence(c)
    BY <1>1, <1>3, <1>6, <2>2 DEF FinishLocalPersistence
  <2>3. CASE MarkCreationFailure(c)
    BY <1>1, <1>3, <1>6, <2>3, SetStep DEF MarkCreationFailure, CreationStatus
  <2>4. CASE LocalPersistenceFailed(c)
    <3>1. SetCreation(d, "created") /\ cr[c].pc = "marklocal"
      BY <1>3, <2>4 DEF LocalPersistenceFailed, At
    <3>2. QED
      BY <1>1, <3>1, SetStep DEF CreationStatus
  <2>5. QED
    BY <2>1, <2>2, <2>3, <2>4
<1>8. local' \in BOOLEAN /\ (local' => local \/ cr[c].pc = "local")
  <2>1. local' = local \/ (local' = TRUE /\ cr[c].pc = "local")
    BY DEF MarkCustomerCreated, FinishLocalPersistence, MarkCreationFailure,
           LocalPersistenceFailed, At
  <2>2. local \in BOOLEAN
    BY <1>1 DEF CreationTypeOK
  <2>3. CASE local' = local
    BY <2>2, <2>3, Zenon
  <2>4. CASE local' = TRUE /\ cr[c].pc = "local"
    BY <2>4, Zenon
  <2>5. QED
    BY <2>1, <2>3, <2>4
<1>9. CreationTypeOK'
  BY <1>1, <1>2, <1>5, <1>7, <1>8 DEF CreationTypeOK, Requests, Pcs
<1>10. cr[c].pc # "markfailed" => fin.customer
  BY <1>1, <1>6 DEF PastHasCustomer, Past
<1>11. CreatedIsInFinance'
  BY <1>1, <1>2, <1>7, <1>8, <1>10 DEF CreatedIsInFinance
<1>12. PastHasCustomer'
  BY <1>1, <1>2, <1>4, <1>5, <1>6, <1>10 DEF PastHasCustomer, Past
<1>13. DocumentsClaimed'
  <2>1. ASSUME used.revals = 0
        PROVE  /\ rv.pc = "idle"
               /\ cr[c].pc \in {"mark", "markfailed"} =>
                    /\ remedy[d].creation = "creating" /\ ~remedy[d].data
                    /\ \A e \in Creators : e # c /\ Working(e) => cr[e].doc # d
               /\ cr[c].pc \in {"local", "marklocal"} => remedy[d].creation = "created"
    BY <1>1, <1>3, <2>1 DEF DocumentsClaimed, Working
  <2>2. /\ ~Working(c)' /\ \A e \in Creators : e # c => Working(e)' = Working(e)
    BY <1>5 DEF Working
  <2>3. \A e \in Creators : cr[e].doc \in Documents
    BY <1>1 DEF Requests
  <2> SUFFICES ASSUME used.revals = 0
               PROVE  /\ \A e \in Documents : remedy'[e].data => remedy'[e].creation = "created"
                      /\ \A e \in Creators :
                           /\ Working(e)' => remedy'[cr'[e].doc].creation = "creating"
                           /\ cr'[e].pc \in {"local", "marklocal"} =>
                                remedy'[cr'[e].doc].creation = "created"
                      /\ \A e, f \in Creators :
                           e # f /\ Working(e)' /\ Working(f)' => cr'[e].doc # cr'[f].doc
    BY <1>2, <2>1 DEF DocumentsClaimed
  <2>4. \A e \in Documents : remedy'[e].data => remedy'[e].creation = "created"
    BY <1>1, <1>6, <1>7, <2>1 DEF DocumentsClaimed
  <2>5. ASSUME NEW e \in Creators, e # c
        PROVE  /\ Working(e)' => remedy'[cr'[e].doc].creation = "creating"
               /\ cr'[e].pc \in {"local", "marklocal"} =>
                    remedy'[cr'[e].doc].creation = "created"
    <3>1. CASE cr[e].doc # d
      BY <1>1, <1>5, <1>7, <2>2, <2>3, <2>5, <3>1 DEF DocumentsClaimed
    <3>2. CASE cr[e].doc = d
      <4>1. Working(e) => remedy[d].creation = "creating"
        BY <1>1, <3>2 DEF DocumentsClaimed
      <4>2. cr[e].pc \in {"local", "marklocal"} => remedy[d].creation = "created"
        BY <1>1, <3>2 DEF DocumentsClaimed
      <4>3. ~Working(e)
        BY <1>6, <2>1, <2>5, <3>2, <4>1
      <4>4. QED
        BY <1>5, <1>6, <1>7, <2>1, <2>2, <2>5, <3>2, <4>2, <4>3
    <3>3. QED
      BY <3>1, <3>2
  <2>6. cr'[c].pc \in {"local", "marklocal"} => remedy'[cr'[c].doc].creation = "created"
    BY <1>4, <1>5, <1>6, <1>7
  <2>7. \A e, f \in Creators :
          e # f /\ Working(e)' /\ Working(f)' => cr'[e].doc # cr'[f].doc
    BY <1>1, <1>5, <2>2 DEF DocumentsClaimed
  <2>8. QED
    BY <2>2, <2>4, <2>5, <2>6, <2>7
<1>14. VatHeld' /\ CustomerHeld'
  <2>1. ~Holding(c) /\ VatHeld'
    BY <1>1, <1>2, <1>5, <1>6 DEF VatHeld, Holding
  <2>2. CASE cr[c].pc = "mark"
    BY <1>7, <2>1, <2>2 DEF CustomerHeld
  <2>3. CASE cr[c].pc # "mark"
    <3>1. \A e \in Documents : remedy[e].data => remedy'[e].data
      BY <1>7
    <3>2. QED
      BY <1>1, <1>2, <1>5, <1>6, <2>1, <2>3, <3>1 DEF CustomerHeld
  <2>4. QED
    BY <2>2, <2>3
<1>15. QED
  BY <1>9, <1>11, <1>12, <1>13, <1>14 DEF CreationInv

(* A revalidation has been counted, so DocumentsClaimed says nothing; it   *)
(* never touches what was created.                                         *)
LEMMA RevalidateStep ==
  ASSUME CreationInv, Revalidate PROVE CreationInv'
<1>1. /\ CreationTypeOK /\ CreatedIsInFinance /\ PastHasCustomer /\ DocumentsClaimed
      /\ VatHeld /\ CustomerHeld /\ used \in Counts
      /\ remedy \in [Documents -> [creation : CreationStatus, data : BOOLEAN]]
  BY Types DEF CreationInv
<1>2. UNCHANGED <<fin, local, cr>>
  BY DEF Revalidate, RevalClaim, RevalList, RevalUpsert, RevalSwitch
<1>3. /\ used' \in Counts /\ used'.revals > 0
      /\ used'.lost = used.lost /\ used'.faults = used.faults /\ used'.crashes = used.crashes
  <2>1. CASE \E d \in Documents : RevalClaim(d)
    <3>1. Use("revals")
      BY <2>1 DEF RevalClaim
    <3>2. QED
      BY <1>1, <3>1, UseStep DEF Counts
  <2>2. CASE RevalList \/ RevalUpsert \/ RevalSwitch
    <3>1. used' = used /\ rv.pc # "idle"
      BY <2>2 DEF RevalList, RevalUpsert, RevalSwitch
    <3>2. used.revals # 0
      BY <1>1, <3>1 DEF DocumentsClaimed
    <3>3. QED
      BY <1>1, <3>1, <3>2 DEF Counts
  <2>3. QED
    BY <2>1, <2>2 DEF Revalidate
<1>4. /\ remedy' \in [Documents -> [creation : CreationStatus, data : BOOLEAN]]
      /\ \A e \in Documents : remedy'[e].data = remedy[e].data
  <2>1. CASE remedy' = remedy
    BY <1>1, <2>1
  <2>2. CASE RevalUpsert
    <3>1. rv.doc \in Documents /\ rv.seen \in CreationStatus
      BY <1>1 DEF CreationTypeOK
    <3>2. \/ remedy' = remedy
          \/ \E status \in CreationStatus : SetCreation(rv.doc, status)
      BY <2>2, <3>1 DEF RevalUpsert, CreationStatus
    <3>3. QED
      BY <1>1, <2>1, <3>1, <3>2, SetStep
  <2>3. QED
    BY <2>1, <2>2 DEF Revalidate, RevalClaim, RevalList, RevalSwitch
<1>5. /\ open' \in [Documents -> BOOLEAN]
      /\ rv' \in [pc : {"idle", "list", "upsert", "switch"}, doc : Documents, bad : BOOLEAN,
                  seen : CreationStatus]
  <2>1. /\ rv \in [pc : {"idle", "list", "upsert", "switch"}, doc : Documents, bad : BOOLEAN,
                   seen : CreationStatus]
        /\ remedy[rv.doc].creation \in CreationStatus
        /\ open \in [Documents -> BOOLEAN] /\ local \in BOOLEAN
    BY <1>1 DEF CreationTypeOK
  <2>2. /\ IdleReval \in [pc : {"idle", "list", "upsert", "switch"}, doc : Documents,
                          bad : BOOLEAN, seen : CreationStatus]
    BY CreationAssumption DEF IdleReval, Doc, CreationStatus
  <2>3. CASE \E d \in Documents : RevalClaim(d)
    BY <2>1, <2>2, <2>3 DEF RevalClaim, IdleReval, CreationStatus
  <2>4. CASE RevalList \/ RevalUpsert \/ RevalSwitch
    BY <2>1, <2>2, <2>4 DEF RevalList, RevalUpsert, RevalSwitch
  <2>5. QED
    BY <2>3, <2>4 DEF Revalidate
<1>6. CreationTypeOK'
  BY <1>1, <1>2, <1>3, <1>4, <1>5 DEF CreationTypeOK, Counts
<1>7. CreatedIsInFinance' /\ PastHasCustomer' /\ CustomerHeld'
  BY <1>1, <1>2, <1>3, <1>4 DEF CreatedIsInFinance, PastHasCustomer, CustomerHeld
<1>8. DocumentsClaimed' /\ VatHeld'
  BY <1>1, <1>2, <1>3 DEF DocumentsClaimed, VatHeld, Holding, Counts
<1>9. QED
  BY <1>6, <1>7, <1>8 DEF CreationInv

(* After a crash nobody is at work.                                        *)
LEMMA CrashStep ==
  ASSUME CreationInv, CrashCreation PROVE CreationInv'
<1>1. /\ CreationTypeOK /\ CreatedIsInFinance /\ DocumentsClaimed
      /\ cr \in [Creators -> Requests] /\ used \in Counts
  BY Types DEF CreationInv
<1>2. UNCHANGED <<fin, remedy, open, local>> /\ Use("crashes") /\ rv' = IdleReval
  BY DEF CrashCreation
<1>3. used' \in Counts /\ used'.revals = used.revals /\ used'.crashes = used.crashes + 1
  BY <1>1, <1>2, UseStep
<1>4. used'.lost + used'.faults + used'.crashes > 0 /\ used'.faults + used'.crashes > 0
  BY <1>1, <1>3 DEF Counts
<1>5. cr' \in [Creators -> Requests] /\ \A c \in Creators : cr'[c].pc \in {"idle", "done"}
  <2>1. \A c \in Creators :
          /\ [cr[c] EXCEPT !.pc = "done"] \in Requests
          /\ [cr[c] EXCEPT !.pc = "done"].pc = "done"
    BY <1>1 DEF Requests, Pcs
  <2>2. cr' = [c \in Creators |-> IF cr[c].pc = "idle" THEN cr[c]
                                 ELSE [cr[c] EXCEPT !.pc = "done"]]
    BY DEF CrashCreation, At
  <2>3. QED
    BY <1>1, <2>1, <2>2
<1>6. IdleReval.pc = "idle"
      /\ IdleReval \in [pc : {"idle", "list", "upsert", "switch"}, doc : Documents,
                        bad : BOOLEAN, seen : CreationStatus]
  BY CreationAssumption DEF IdleReval, Doc, CreationStatus
<1>7. CreationTypeOK'
  BY <1>1, <1>2, <1>3, <1>5, <1>6 DEF CreationTypeOK, Requests, Pcs, Counts
<1>8. \A c \in Creators : ~Working(c)'
  BY <1>5 DEF Working
<1>9. CreatedIsInFinance' /\ PastHasCustomer' /\ DocumentsClaimed'
  BY <1>1, <1>2, <1>3, <1>5, <1>6, <1>8
  DEF CreatedIsInFinance, PastHasCustomer, Past, DocumentsClaimed
<1>10. VatHeld' /\ CustomerHeld'
  BY <1>4 DEF VatHeld, CustomerHeld
<1>11. QED
  BY <1>7, <1>9, <1>10 DEF CreationInv

LEMMA CreationInvStep == CreationInv /\ [Next]_creationVars => CreationInv'
<1> SUFFICES ASSUME CreationInv, [Next]_creationVars PROVE CreationInv'
  OBVIOUS
<1>1. CASE \E c \in Creators : Create(c)
  <2>1. PICK c \in Creators : Create(c)
    BY <1>1
  <2>2. QED
    BY <2>1, RequireStep, Moves, ClaimStep, FinanceStep, EndStep, FaultStep DEF Create
<1>2. CASE Revalidate \/ CrashCreation
  BY <1>2, RevalidateStep, CrashStep
<1>3. CASE UNCHANGED creationVars
  BY <1>3 DEF creationVars, CreationInv, CreationTypeOK, CreatedIsInFinance, PastHasCustomer,
     DocumentsClaimed, Working, VatHeld, CustomerHeld, Holding
<1>4. QED
  BY <1>1, <1>2, <1>3 DEF Next

LEMMA CreationInvHolds == Spec => []CreationInv
BY CreationInvInit, CreationInvStep, PTL DEF Spec

(* No two of any number of requests create a customer from one document at *)
(* a time, unless a revalidation rewrote it.                               *)
THEOREM OneClaim == Spec => []ClaimedOnce
<1>1. CreationInv => ClaimedOnce
  <2> SUFFICES ASSUME CreationInv, NEW c \in Creators, NEW e \in Creators, c # e,
                      Working(c), Working(e), cr[c].doc = cr[e].doc
               PROVE  used.revals > 0
    BY DEF ClaimedOnce
  <2>1. used.revals # 0 /\ used \in Counts
    BY Types DEF CreationInv, DocumentsClaimed
  <2>2. QED
    BY <2>1 DEF Counts
<1>2. QED
  BY <1>1, CreationInvHolds, PTL

(* Nothing calls a customer created that Finance does not have.            *)
THEOREM CreatedIsTrue == Spec => []CreatedIsInFinance
<1>1. CreationInv => CreatedIsInFinance
  BY DEF CreationInv
<1>2. QED
  BY <1>1, CreationInvHolds, PTL

(* However many answers are lost, a customer in Finance is not forgotten.  *)
THEOREM CustomerNotForgotten == Spec => []CustomerKnown
<1>1. CreationInv => CustomerKnown
  <2> SUFFICES ASSUME CreationInv, Quiet, fin.customer,
                      \A d \in Documents : ~remedy[d].data
               PROVE  used.faults > 0 \/ used.crashes > 0
    BY DEF CustomerKnown
  <2>1. used.faults + used.crashes > 0
    BY DEF CreationInv, CustomerHeld, Quiet, Working
  <2>2. used \in Counts
    BY Types DEF CreationInv
  <2>3. QED
    BY <2>1, <2>2 DEF Counts
<1>2. QED
  BY <1>1, CreationInvHolds, PTL

(* What was created for a refused customer is deleted again.               *)
THEOREM NoVatNumberLeft == Spec => []VatNotLeftBehind
<1>1. CreationInv => VatNotLeftBehind
  BY DEF CreationInv, VatHeld, VatNotLeftBehind, Quiet, Working, Holding
<1>2. QED
  BY <1>1, CreationInvHolds, PTL
=============================================================================
