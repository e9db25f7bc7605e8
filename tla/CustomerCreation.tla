--------------------------- MODULE CustomerCreation ---------------------------
(***************************************************************************)
(* A customer that batches name and the local master data lacks is created *)
(* in Finance from a batch's "missing master data" document                *)
(* (CreateCustomerFromMissingDataHandler, InlineCustomerCreationService).  *)
(* Every document of this model names the same customer, with the same tax *)
(* (VAT) number: two batches often miss the same one.  Requests race with  *)
(* each other, with the revalidation of the batch, which rewrites its      *)
(* documents (BatchRevalidation has all of it), with failing calls, with   *)
(* answers of Finance that get lost, and with a crash.                     *)
(***************************************************************************)
EXTENDS Naturals, FiniteSets

CONSTANTS
  Creators,       \* requests to create the customer
  Documents,      \* missing-master-data documents that name it
  MaxTrouble      \* bound: rejections by Finance, lost answers to a creation, failed
                  \* calls, crashes and revalidations, together

ASSUME CreationAssumption == MaxTrouble \in Nat /\ Documents # {}

VARIABLES
  fin,     \* Finance: has the customer, has the VAT number
  remedy,  \* the documents
  open,    \* the batch of the document is PendingPosting
  local,   \* the customer is in the local master data
  cr,      \* the requests and their local variables
  rv,      \* the revalidation under way
  used     \* how much of each bound has been used

creationVars == <<fin, remedy, open, local, cr, rv, used>>

CreationStatus == {"missing", "creating", "created", "create_failed"}
Doc == CHOOSE d \in Documents : TRUE
IdleCreator == [pc |-> "idle", doc |-> Doc, from |-> "missing", mine |-> FALSE]
IdleReval == [pc |-> "idle", doc |-> Doc, bad |-> FALSE, seen |-> "missing"]

Init ==
  /\ fin = [customer |-> FALSE, vat |-> FALSE]
  /\ remedy = [d \in Documents |-> [creation |-> "missing", data |-> FALSE]]
  /\ open = [d \in Documents |-> TRUE]
  /\ local = FALSE
  /\ cr = [c \in Creators |-> IdleCreator]
  /\ rv = IdleReval
  /\ used = [rejections |-> 0, lost |-> 0, faults |-> 0, crashes |-> 0, revals |-> 0,
             badMarks |-> 0]

Trouble == used.rejections + used.lost + used.faults + used.crashes + used.revals
Use(what) == Trouble < MaxTrouble /\ used' = [used EXCEPT ![what] = @ + 1]
At(c, pc) == cr[c].pc = pc
Goto(c, pc) == cr' = [cr EXCEPT ![c].pc = pc]
Fail(c) == Goto(c, "readfailed")
SetCreation(d, status) == remedy' = [remedy EXCEPT ![d].creation = status]

-----------------------------------------------------------------------------
(* The handler up to the claim.                                            *)

RequireMissingRecord(c, d) ==
  /\ At(c, "idle")
  /\ cr' = [cr EXCEPT ![c].pc = "batch", ![c].doc = d, ![c].from = remedy[d].creation]
  /\ UNCHANGED <<fin, remedy, open, local, rv, used>>

(* createdData is written with "created"; a revalidation that no longer    *)
(* misses the customer writes "created" alone.                             *)
RequireEditableBatch(c) ==
  /\ At(c, "batch")
  /\ Goto(c, IF ~open[cr[c].doc] \/ cr[c].from = "creating" THEN "done"
             ELSE IF cr[c].from = "created" /\ remedy[cr[c].doc].data THEN "local"
             ELSE "claim")
  /\ UNCHANGED <<fin, remedy, open, local, rv, used>>

(* Mutant: the claim does not look at the status.                          *)
ClaimUnconditionally(c) ==
  /\ At(c, "claim")
  /\ SetCreation(cr[c].doc, "creating")
  /\ cr' = [cr EXCEPT ![c].pc = "account", ![c].from = remedy[cr[c].doc].creation]
  /\ UNCHANGED <<fin, open, local, rv, used>>

ClaimForCreation(c) ==
  /\ At(c, "claim")
  /\ LET status == remedy[cr[c].doc].creation
     IN  \/ /\ status \in {"missing", "create_failed"}
            /\ SetCreation(cr[c].doc, "creating")
            /\ cr' = [cr EXCEPT ![c].pc = "account", ![c].from = status]
         \/ /\ status \notin {"missing", "create_failed"}
            /\ Goto(c, "done")
            /\ UNCHANGED remedy
  /\ UNCHANGED <<fin, open, local, rv, used>>

-----------------------------------------------------------------------------
(* InlineCustomerCreationService.create.  The claimed document is returned *)
(* as it is after the update, "creating", so its policy for an account     *)
(* that exists is always "conflict".                                       *)

LookupAccount(c) ==
  /\ At(c, "account")
  /\ IF fin.customer THEN Fail(c) ELSE Goto(c, "tax")
  /\ UNCHANGED <<fin, remedy, open, local, rv, used>>

AssertTaxNumberAvailable(c) ==
  /\ At(c, "tax")
  /\ IF fin.customer THEN Fail(c) ELSE Goto(c, "findvat")
  /\ UNCHANGED <<fin, remedy, open, local, rv, used>>

FindVat(c) ==
  /\ At(c, "findvat")
  /\ Goto(c, IF fin.vat THEN "customer" ELSE "vat")
  /\ UNCHANGED <<fin, remedy, open, local, rv, used>>

CreateVatNumber(c) ==
  /\ At(c, "vat") /\ ~fin.vat
  /\ fin' = [fin EXCEPT !.vat = TRUE]
  /\ \/ /\ cr' = [cr EXCEPT ![c].pc = "customer", ![c].mine = TRUE]
        /\ UNCHANGED used
     \/ Use("lost") /\ Goto(c, "recheckvat")
  /\ UNCHANGED <<remedy, open, local, rv>>

(* A number that exists, or a rejected one.                                *)
CreateVatRejected(c) ==
  /\ At(c, "vat")
  /\ Goto(c, "recheckvat")
  /\ IF fin.vat THEN UNCHANGED used ELSE Use("rejections")
  /\ UNCHANGED <<fin, remedy, open, local, rv>>

RecheckVat(c) ==
  /\ At(c, "recheckvat")
  /\ IF fin.vat THEN Goto(c, "customer") ELSE Fail(c)
  /\ UNCHANGED <<fin, remedy, open, local, rv, used>>

CreateCustomer(c) ==
  /\ At(c, "customer") /\ ~fin.customer /\ fin.vat
  /\ fin' = [fin EXCEPT !.customer = TRUE]
  /\ \/ Goto(c, "mark") /\ UNCHANGED used
     \/ Use("lost") /\ Goto(c, "recheck")
  /\ UNCHANGED <<remedy, open, local, rv>>

(* Finance has it, misses its VAT number, or rejects it.                   *)
CreateCustomerRejected(c) ==
  /\ At(c, "customer")
  /\ Goto(c, "recheck")
  /\ IF fin.customer \/ ~fin.vat THEN UNCHANGED used
     ELSE Use("rejections")
  /\ UNCHANGED <<fin, remedy, open, local, rv>>

AfterRefusal(c) == IF cr[c].mine THEN Goto(c, "rollback") ELSE Fail(c)

(* Mutant: an error of the creation is final.                              *)
RecheckNothing(c) ==
  /\ At(c, "recheck")
  /\ AfterRefusal(c)
  /\ UNCHANGED <<fin, remedy, open, local, rv, used>>

(* Mutant: the error is taken for a lost answer.                           *)
RecheckTrusting(c) ==
  /\ At(c, "recheck")
  /\ Goto(c, "mark")
  /\ UNCHANGED <<fin, remedy, open, local, rv, used>>

RecheckCustomer(c) ==
  /\ At(c, "recheck")
  /\ IF fin.customer THEN Goto(c, "mark") ELSE AfterRefusal(c)
  /\ UNCHANGED <<fin, remedy, open, local, rv, used>>

(* Mutant: only a VAT number that was found is deleted.                    *)
RollbackForgotten(c) ==
  /\ At(c, "rollback")
  /\ Fail(c)
  /\ UNCHANGED <<fin, remedy, open, local, rv, used>>

RollbackVatNumber(c) ==
  /\ At(c, "rollback")
  /\ fin' = [fin EXCEPT !.vat = FALSE]
  /\ Fail(c)
  /\ UNCHANGED <<remedy, open, local, rv, used>>

-----------------------------------------------------------------------------
(* The handler after the creation.                                         *)

MarkCustomerCreated(c) ==
  /\ At(c, "mark")
  /\ remedy' = [remedy EXCEPT ![cr[c].doc] = [creation |-> "created", data |-> TRUE]]
  /\ Goto(c, "local")
  /\ UNCHANGED <<fin, open, local, rv, used>>

FinishLocalPersistence(c) ==
  /\ At(c, "local")
  /\ local' = TRUE
  /\ Goto(c, "done")
  /\ UNCHANGED <<fin, remedy, open, rv, used>>

(* markCreationFailure reads the document, then writes it.                 *)
ReadForFailure(c) ==
  /\ At(c, "readfailed")
  /\ Goto(c, IF remedy[cr[c].doc].creation = "created" THEN "done" ELSE "markfailed")
  /\ UNCHANGED <<fin, remedy, open, local, rv, used>>

(* Mutant: the failure is not written.                                     *)
FailureNotMarked(c) ==
  /\ At(c, "markfailed")
  /\ Goto(c, "done")
  /\ UNCHANGED <<fin, remedy, open, local, rv, used>>

MarkCreationFailure(c) ==
  /\ At(c, "markfailed")
  /\ SetCreation(cr[c].doc, "create_failed")
  /\ Goto(c, "done")
  /\ UNCHANGED <<fin, open, local, rv, used>>

(* A call fails.  Before the claim nothing has been changed; the recheck   *)
(* and the deletion of the VAT number fail inside a catch; a failing local *)
(* update is written to the document and answered.                         *)
CreationFault(c) ==
  /\ Trouble < MaxTrouble
  /\ \/ cr[c].pc \in {"batch", "claim", "marklocal"} /\ Goto(c, "done")
     \/ cr[c].pc \in {"account", "tax", "findvat", "recheckvat", "mark", "rollback"}
        /\ Fail(c)
     \/ At(c, "recheck") /\ AfterRefusal(c)
     \/ At(c, "local") /\ Goto(c, "marklocal")
     \/ cr[c].pc \in {"readfailed", "markfailed"} /\ Goto(c, "done")
  /\ used' = [used EXCEPT !.faults = @ + 1,
                !.badMarks = @ + IF cr[c].pc \in {"readfailed", "markfailed"} THEN 1 ELSE 0]
  /\ UNCHANGED <<fin, remedy, open, local, rv>>

LocalPersistenceFailed(c) ==
  /\ At(c, "marklocal")
  /\ SetCreation(cr[c].doc, "created")
  /\ Goto(c, "done")
  /\ UNCHANGED <<fin, open, local, rv, used>>

Create(c) ==
  \/ \E d \in Documents : RequireMissingRecord(c, d)
  \/ RequireEditableBatch(c) \/ ClaimForCreation(c)
  \/ LookupAccount(c) \/ AssertTaxNumberAvailable(c) \/ FindVat(c)
  \/ CreateVatNumber(c) \/ CreateVatRejected(c) \/ RecheckVat(c)
  \/ CreateCustomer(c) \/ CreateCustomerRejected(c) \/ RecheckCustomer(c)
  \/ RollbackVatNumber(c) \/ MarkCustomerCreated(c) \/ FinishLocalPersistence(c)
  \/ ReadForFailure(c) \/ MarkCreationFailure(c) \/ LocalPersistenceFailed(c)
  \/ CreationFault(c)

-----------------------------------------------------------------------------
(* What a revalidation of the document's batch does to it.                 *)

RevalClaim(d) ==
  /\ rv.pc = "idle" /\ open[d]
  /\ Use("revals")
  /\ open' = [open EXCEPT ![d] = FALSE]
  /\ rv' = [IdleReval EXCEPT !.pc = "list", !.doc = d, !.bad = ~local]
  /\ UNCHANGED <<fin, remedy, local, cr>>

RevalList ==
  /\ rv.pc = "list"
  /\ rv' = [rv EXCEPT !.pc = "upsert", !.seen = remedy[rv.doc].creation]
  /\ UNCHANGED <<fin, remedy, open, local, cr, used>>

RevalUpsert ==
  /\ rv.pc = "upsert"
  /\ IF rv.bad THEN SetCreation(rv.doc, rv.seen)
     ELSE IF rv.seen = "created" THEN UNCHANGED remedy
     ELSE SetCreation(rv.doc, "created")
  /\ rv' = [rv EXCEPT !.pc = "switch"]
  /\ UNCHANGED <<fin, open, local, cr, used>>

RevalSwitch ==
  /\ rv.pc = "switch"
  /\ open' = [open EXCEPT ![rv.doc] = TRUE]
  /\ rv' = IdleReval
  /\ UNCHANGED <<fin, remedy, local, cr, used>>

Revalidate == (\E d \in Documents : RevalClaim(d)) \/ RevalList \/ RevalUpsert \/ RevalSwitch

CrashCreation ==
  /\ Use("crashes")
  /\ cr' = [c \in Creators |-> IF At(c, "idle") THEN cr[c] ELSE [cr[c] EXCEPT !.pc = "done"]]
  /\ rv' = IdleReval
  /\ UNCHANGED <<fin, remedy, open, local>>

Next == (\E c \in Creators : Create(c)) \/ Revalidate \/ CrashCreation

Spec == Init /\ [][Next]_creationVars
(* A request that has begun goes on; nobody has to send one.               *)
FairSpec == Spec /\ \A c \in Creators : WF_creationVars(~At(c, "idle") /\ Create(c))

-----------------------------------------------------------------------------
Working(c) == cr[c].pc \notin {"idle", "batch", "claim", "local", "marklocal", "done"}
Quiet == \A c \in Creators : ~Working(c)

(* Every variable has its type.                                            *)
CreationTypeOK ==
  /\ fin \in [customer : BOOLEAN, vat : BOOLEAN]
  /\ remedy \in [Documents -> [creation : CreationStatus, data : BOOLEAN]]
  /\ open \in [Documents -> BOOLEAN] /\ local \in BOOLEAN
  /\ cr \in [Creators ->
       [pc : {"idle", "batch", "claim", "account", "tax", "findvat", "vat", "recheckvat",
              "customer", "recheck", "rollback", "mark", "local", "marklocal",
              "readfailed", "markfailed", "done"},
        doc : Documents, from : CreationStatus, mine : BOOLEAN]]
  /\ rv \in [pc : {"idle", "list", "upsert", "switch"}, doc : Documents, bad : BOOLEAN,
             seen : CreationStatus]
  /\ used \in [rejections : Nat, lost : Nat, faults : Nat, crashes : Nat, revals : Nat,
               badMarks : Nat]

(* Two requests never create from the same document at the same time,      *)
(* unless a revalidation has written the document meanwhile.               *)
ClaimedOnce ==
  \A c, e \in Creators :
    c # e /\ Working(c) /\ Working(e) /\ cr[c].doc = cr[e].doc => used.revals > 0

(* A document that stores a created customer, and the local master data,   *)
(* tell the truth about Finance.                                           *)
CreatedIsInFinance == local \/ (\E d \in Documents : remedy[d].data) => fin.customer

(* When no request is at work, a customer that Finance has is stored in    *)
(* some document, however many answers were lost, unless a call failed.    *)
CustomerKnown ==
  Quiet /\ fin.customer =>
    (\E d \in Documents : remedy[d].data) \/ used.faults > 0 \/ used.crashes > 0

(* A customer that was refused leaves no VAT number behind.                *)
VatNotLeftBehind ==
  Quiet /\ fin.vat /\ ~fin.customer => used.lost + used.faults + used.crashes > 0

(* No document stays "creating" for ever, unless the process ends, marking *)
(* the failure fails, or a revalidation writes a listed "creating" back.   *)
CreatingEnds ==
  \A d \in Documents :
    remedy[d].creation = "creating" ~>
      \/ remedy[d].creation # "creating"
      \/ used.crashes + used.badMarks + used.revals > 0
=============================================================================
