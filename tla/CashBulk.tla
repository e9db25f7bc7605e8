------------------------------ MODULE CashBulk ------------------------------
(***************************************************************************)
(* CustomerPaymentJournalService: how the lines of one routed cash journal *)
(* are written into Finance.  The lines that share a PAYMENTID, the        *)
(* UniqueId of the source entry, are a balanced group; a bulk request holds*)
(* whole groups and is accepted or refused as a whole.  Settlement marks   *)
(* lock invoices: Finance refuses a request that marks a locked invoice,   *)
(* naming the journal that holds the lock, sometimes after it has written  *)
(* the lines, and what it has written may be listed only later.            *)
(***************************************************************************)
EXTENDS Integers, FiniteSets, FiniteSetsExt

CONSTANTS
  Lines,       \* line numbers, in the order of the journal
  GroupOf,     \* the UniqueId group of a line
  VendorLines, \* the lines the bulk service of cash-out accepts
  Invoice,     \* the invoice a line marks for settlement, or NoInvoice
  NoInvoice,
  HeldLines,   \* the lines whose marks have HasWithHoldingLine
  BatchSize,   \* cashInBulkBatchSize, cashOutBulkBatchSize: groups per request
  LateCounts,  \* whether earlier requests may be unlisted at the next count
  MaxRuns,     \* bound: calls of postLinesForHeader for this journal
  MaxTrouble   \* bound: answers lost, ghost marks, deletions, unread counts

ASSUME CashBulkAssumption ==
  /\ Lines \subseteq Nat /\ IsFiniteSet(Lines) /\ VendorLines \subseteq Lines
  /\ HeldLines \subseteq Lines
  /\ LateCounts \in BOOLEAN
  /\ GroupOf \in [Lines -> Nat] /\ DOMAIN Invoice = Lines
  /\ BatchSize \in Nat \ {0} /\ MaxRuns \in Nat /\ MaxTrouble \in Nat

VARIABLES
  fo,      \* Finance: copies of a line it holds and those its lists show, the
           \* lines with a mark, the invoices locked by this and by another
           \* journal, the lines it has deleted at some time
  proc,    \* the call of postLinesForHeader that is under way
  runs,    \* how many calls there have been
  trouble  \* how often Finance has troubled them

cvars == <<fo, proc, runs, trouble>>

Invoices == {Invoice[l] : l \in Lines} \ {NoInvoice}
(* Mutant: a line without an invoice counts as one.                        *)
InvoicesOfAll(S) == {Invoice[l] : l \in S}
InvoicesOf(S) == {Invoice[l] : l \in S} \ {NoInvoice}
GroupsOf(S) == {GroupOf[l] : l \in S}
Troubles == {"lost", "ghosts", "deleted", "unread"}
(* Why Finance refuses a request: an invoice is locked by this journal or  *)
(* by another, or its amount does not allow the settlement.                *)
Refusals == {"self", "foreign", "amount"}
Bump(n, S) == [l \in Lines |-> IF l \in S THEN n[l] + 1 ELSE n[l]]

Suffer(what) ==
  /\ MapThenSumSet(LAMBDA t : trouble[t], Troubles) < MaxTrouble
  /\ trouble' = [trouble EXCEPT ![what] = @ + 1]

(* The direction of the route: cash-out journals are vendor payments.      *)
Directions == {"in", "out"}
Bulk == IF proc.direction = "out" THEN VendorLines ELSE Lines
Listed == {l \in Lines : fo.shown[l] > 0}

(* listIntegrityLinesForHeader reads VendorPaymentJournalLines, where the  *)
(* lines of a cash-in journal are not.                                     *)
IntegrityLines(l) == IF proc.direction = "out" THEN fo.shown[l] ELSE 0
IntegrityCount == Cardinality(UNION {{l} \X (1..IntegrityLines(l)) : l \in Lines})
MissingOf(S) == {l \in S : IntegrityLines(l) = 0}

(* Mutant: a request takes the next BatchSize lines.                       *)
PatchByLines(p) ==
  LET rank(l) == Cardinality({k \in Bulk : k < l})
  IN  {l \in Bulk : rank(l) \div BatchSize = p - 1}

(* chunkCashLinesByUniqueIdGroups: request p takes BatchSize whole groups. *)
Patch(p) ==
  LET rank(l) == Cardinality({g \in GroupsOf(Bulk) : g < GroupOf[l]})
  IN  {l \in Bulk : rank(l) \div BatchSize = p - 1}

(* Mutant: the last, smaller request is forgotten.                         *)
PatchesRoundedDown == Cardinality(GroupsOf(Bulk)) \div BatchSize
Patches == (Cardinality(GroupsOf(Bulk)) + BatchSize - 1) \div BatchSize

Proc(d) == [direction |-> d, pc |-> "idle", existing |-> {}, settled |-> {},
            at |-> 1, todo |-> {}, before |-> 0, seen |-> 0,
            request |-> {}, fail |-> "none"]

CashInit ==
  \E d \in Directions, blocked \in SUBSET Invoices :
    /\ proc = Proc(d)
    /\ fo = [copies |-> [l \in Lines |-> 0], shown |-> [l \in Lines |-> 0],
             withMark |-> {}, own |-> {}, foreign |-> blocked, deleted |-> {}]
    /\ runs = 0 /\ trouble = [t \in Troubles |-> 0]

At(pc) == proc.pc = pc
Go(pc) == proc' = [proc EXCEPT !.pc = pc]
Quiet == UNCHANGED <<fo, runs, trouble>>

(* The call throws; the posting processor fails and BullMQ tries again.    *)
Throw == proc' = Proc(proc.direction)

-----------------------------------------------------------------------------
(* The processor calls again after a failure, a crash, or the loss of its  *)
(* own record that the journal is complete; by then, seconds later, Finance*)
(* lists what it holds.                                                    *)
Start ==
  /\ proc.pc \in {"idle", "done"} /\ runs < MaxRuns
  /\ runs' = runs + 1
  /\ fo' = [fo EXCEPT !.shown = fo.copies]
  /\ proc' = [Proc(proc.direction) EXCEPT !.pc = "list"]
  /\ UNCHANGED trouble

(* postCashLinesForHeader: what is there is skipped by line number; when   *)
(* that cannot be read, a routed journal is not posted.                    *)
ListExisting ==
  /\ At("list")
  /\ \/ proc' = [proc EXCEPT !.existing = Listed, !.pc = "ledger"]
     \/ Throw
  /\ Quiet

(* repairPartialUniqueIdGroups: a group of which Finance has some lines    *)
(* counts as posted.                                                       *)
RepairPartial(existing) ==
  existing \cup {l \in Bulk : GroupOf[l] \in GroupsOf(existing \cap Bulk)}

(* The remaining lines, of Ledger and Bank accounts, are posted one by one *)
(* before the bulk requests of a cash-out journal; they are written through*)
(* the lists themselves, which show them at once.                          *)
LedgerLeft == (Lines \ Bulk) \ proc.existing

PostCashOutLedgerLine ==
  /\ At("ledger")
  /\ \E l \in LedgerLeft :
       /\ \A k \in LedgerLeft : l <= k
       /\ LET next == [proc EXCEPT !.existing = @ \cup {l}]
              once == Bump(fo.copies, {l})
              Write(copies) == fo' = [fo EXCEPT !.copies = copies, !.shown[l] = copies[l]]
          IN  \/ Write(once) /\ proc' = next /\ UNCHANGED trouble
              \/ Throw /\ UNCHANGED <<fo, trouble>>
              \/ Write(once) /\ Throw /\ Suffer("lost")
              \/ Write(Bump(once, {l})) /\ proc' = next /\ Suffer("lost")
  /\ UNCHANGED runs

(* postCashBulkLinesForHeader, before its loop: partial groups, and the    *)
(* invoices that what is there has settled.                                *)
PlanPatches ==
  /\ At("ledger") /\ LedgerLeft = {}
  /\ LET existing == RepairPartial(proc.existing)
     IN  proc' = [proc EXCEPT !.existing = existing,
                    !.settled = InvoicesOf(existing \cap Bulk), !.pc = "patch"]
  /\ Quiet

-----------------------------------------------------------------------------
(* Mutant: every line keeps its mark.                                      *)
KeepMarks(S) == InvoicesOf(S)

(* stripAlreadySettledMarkedLines: what a request for S marks.  The lines  *)
(* of a withholding pair mark the same invoice and keep their marks.       *)
MarksOf(S) == InvoicesOf(S \cap HeldLines) \cup (InvoicesOf(S) \ proc.settled)

(* What BaseCashEntryProcessor makes of one entry: the lines that share the*)
(* invoice of a withholding pair.  An uploader who also pays that invoice  *)
(* in another entry makes that entry mark a lock of its own journal; what  *)
(* is said below of calls that return is said of journals without one.     *)
HeldApart ==
  \A l \in HeldLines, k \in Lines :
    Invoice[l] # NoInvoice /\ Invoice[k] = Invoice[l] => GroupOf[k] = GroupOf[l]

SkipPatch ==
  /\ At("patch") /\ proc.at <= Patches
  /\ Patch(proc.at) \subseteq proc.existing
  /\ proc' = [proc EXCEPT !.at = proc.at + 1,
                !.settled = proc.settled \cup InvoicesOf(Patch(proc.at))]
  /\ Quiet

Finish ==
  /\ At("patch") /\ proc.at > Patches
  /\ Go("done")
  /\ Quiet

(* countIntegrityLinesForHeader: the lines before the request, or 0 if     *)
(* they cannot be read.                                                    *)
CountBefore ==
  /\ At("patch") /\ proc.at <= Patches
  /\ ~(Patch(proc.at) \subseteq proc.existing)
  /\ LateCounts \/ fo.shown = fo.copies
  /\ LET Submit(n) == proc' = [proc EXCEPT !.pc = "post", !.before = n,
                         !.todo = Patch(proc.at) \ proc.existing,
                         !.request = Patch(proc.at) \ proc.existing]
     IN  \/ Submit(IntegrityCount) /\ UNCHANGED trouble
         \/ Submit(0) /\ Suffer("unread")
  /\ UNCHANGED <<fo, runs>>

Accepted ==
  [proc EXCEPT !.pc = "patch", !.at = proc.at + 1,
     !.existing = proc.existing \cup Patch(proc.at),
     !.settled = proc.settled \cup MarksOf(proc.todo)]

-----------------------------------------------------------------------------
(* One bulk request for the lines S with marks for the invoices M.  It is  *)
(* written as a whole or not at all; a request that fails may leave its    *)
(* locks behind (ghosts).  An answer that is lost makes the HTTP client    *)
(* post the request again, or give up: posted again, a request with marks  *)
(* meets its own locks, one without is written twice.                      *)
Request(S, M, success, failure) ==
  LET free == M \cap (fo.own \cup fo.foreign) = {}
      once == [fo EXCEPT !.copies = Bump(fo.copies, S), !.own = fo.own \cup M,
                         !.withMark = fo.withMark \cup {l \in S : Invoice[l] \in M}]
      Unwritten(next) == proc' = next /\ UNCHANGED <<fo, trouble>>
  IN  \/ /\ free
         /\ fo' = once
         /\ proc' = success \/ (M # {} /\ proc' = failure["self"])
         /\ UNCHANGED trouble
      \/ /\ free /\ Suffer("lost")
         /\ \/ fo' = once /\ Throw
            \/ /\ M = {}
               /\ fo' = [once EXCEPT !.copies = Bump(once.copies, S)]
               /\ proc' = success
      \/ Throw /\ UNCHANGED <<fo, trouble>>
      \/ /\ free /\ M # {} /\ Suffer("ghosts")
         /\ fo' = [fo EXCEPT !.own = fo.own \cup M] /\ Throw
      \/ M \cap fo.own # {} /\ Unwritten(failure["self"])
      \/ M \cap fo.foreign # {} /\ Unwritten(failure["foreign"])
      \/ M # {} /\ Unwritten(failure["amount"])

Failed(pc, why) == [proc EXCEPT !.pc = pc, !.fail = why]

(* postCashOutBulkBatch.                                                   *)
PostPatch ==
  /\ At("post")
  /\ LET failure == [why \in Refusals |->
                    Failed(IF why = "amount" THEN "unmark" ELSE "wait", why)]
     IN  Request(proc.request, MarksOf(proc.request), Accepted, failure)
  /\ UNCHANGED runs

(* waitForIntegrityLinesAfterSelfCite: what is listed when it gives up or  *)
(* has seen enough, 0 if that cannot be read.                              *)
WaitForLines ==
  /\ At("wait")
  /\ LET Seen(n) == proc' = [proc EXCEPT !.pc = "recover", !.seen = n]
     IN  \/ Seen(IntegrityCount) /\ UNCHANGED trouble
         \/ Seen(0) /\ Suffer("unread")
  /\ UNCHANGED <<fo, runs>>

(* patchCommitted: the journal has grown by the lines of the request.      *)
PatchCommitted == proc.seen >= proc.before + Cardinality(proc.todo)

(* Mutant: the rematch is not refused while nothing of it is listed.       *)
RefusedNever(missing) == FALSE
(* A request whose own locks are there but none of its lines: posting it   *)
(* again could be a second copy.  Requests that meet locks have marks.     *)
RematchRefused(missing) ==
  proc.fail = "self" /\ missing = proc.todo /\ proc.seen <= proc.before

(* refreshSettledInvoicesFromFO: the marks Finance lists for the journal.  *)
SettledInFinance == InvoicesOf({l \in fo.withMark : IntegrityLines(l) > 0})

(* recoverAlreadyMarkedCashOutBulk up to the rematch.                      *)
RecoverAlreadyMarked ==
  /\ At("recover")
  /\ LET committed == proc.fail = "self" /\ PatchCommitted
         missing   == MissingOf(proc.todo)
     IN  \/ (committed \/ missing = {}) /\ proc' = Accepted
         \/ ~committed /\ missing # {} /\ RematchRefused(missing) /\ Throw
         \/ /\ ~committed /\ missing # {} /\ ~RematchRefused(missing)
            /\ \E refreshed \in {{}, SettledInFinance} :
                 proc' = [proc EXCEPT !.pc = "rematch", !.request = missing,
                            !.settled = proc.settled \cup refreshed]
         \/ ~committed /\ Throw
  /\ Quiet

Rematch ==
  /\ At("rematch")
  /\ LET failure == [why \in Refusals |-> Failed("unmark", why)]
     IN  Request(proc.request, MarksOf(proc.request), Accepted, failure)
  /\ UNCHANGED runs

-----------------------------------------------------------------------------
(* Mutant: marks are dropped whatever the error.                           *)
UnmarkedAlways == TRUE
(* canUnmarkedRetry: a request refused for the amount of an invoice keeps  *)
(* its marks.                                                              *)
CanUnmarkedRetry == proc.fail # "amount"

(* The failures count the lines of the last request; they are looked up in *)
(* the lines of the first.                                                 *)
RetryCandidates ==
  {l \in proc.todo :
     Cardinality({k \in proc.todo : k < l}) < Cardinality(proc.request)}

(* prepareCompleteUnmarkedRetryLines: the groups of which nothing is there.*)
CompleteUnmarked(missing) ==
  LET complete == {l \in proc.todo : GroupOf[l] \in GroupsOf(missing)}
      present  == GroupsOf(complete \ MissingOf(complete))
  IN  {l \in complete : GroupOf[l] \notin present}

PrepareUnmarkedRetry ==
  /\ At("unmark")
  /\ LET missing == MissingOf(RetryCandidates)
         retry   == CompleteUnmarked(missing)
     IN  \/ ~CanUnmarkedRetry /\ Throw
         \/ CanUnmarkedRetry /\ retry = {} /\ proc' = Accepted
         \/ /\ CanUnmarkedRetry /\ retry # {}
            /\ \/ proc' = [proc EXCEPT !.pc = "plain", !.request = retry]
               \/ Throw
  /\ Quiet

PostUnmarked ==
  /\ At("plain")
  /\ LET failure == [why \in Refusals |-> Failed("unmark", why)]
     IN  Request(proc.request, {}, Accepted, failure)
  /\ UNCHANGED runs

-----------------------------------------------------------------------------
CatchUp ==
  /\ fo.shown # fo.copies
  /\ fo' = [fo EXCEPT !.shown = fo.copies]
  /\ UNCHANGED <<proc, runs, trouble>>

(* Finance, or a user of it, deletes a line; its lock goes with it.        *)
FinanceDeletesLine(l) ==
  /\ fo.shown[l] > 0
  /\ Suffer("deleted")
  /\ LET marked == fo.withMark \ {l}
     IN  fo' = [fo EXCEPT !.copies[l] = 0, !.shown[l] = 0, !.withMark = marked,
                  !.own = fo.own \ (InvoicesOf({l}) \ InvoicesOf(marked)),
                  !.deleted = fo.deleted \cup {l}]
  /\ UNCHANGED <<proc, runs>>

Crash ==
  /\ proc.pc \notin {"idle", "done"}
  /\ Throw
  /\ Quiet

CashNext ==
  \/ Start \/ ListExisting \/ PostCashOutLedgerLine \/ PlanPatches
  \/ SkipPatch \/ Finish \/ CountBefore \/ PostPatch
  \/ WaitForLines \/ RecoverAlreadyMarked \/ Rematch
  \/ PrepareUnmarkedRetry \/ PostUnmarked
  \/ CatchUp \/ Crash
  \/ \E l \in Lines : FinanceDeletesLine(l)

CashSpec == CashInit /\ [][CashNext]_cvars

-----------------------------------------------------------------------------
CashTypeOK ==
  /\ proc.direction \in Directions
  /\ proc.pc \in {"idle", "list", "ledger", "patch", "post", "wait", "recover",
                  "rematch", "unmark", "plain", "done"}
  /\ proc.existing \subseteq Lines /\ proc.settled \subseteq Invoices
  /\ proc.request \subseteq proc.todo /\ proc.todo \subseteq Lines
  /\ proc.fail \in {"none", "self", "foreign", "amount"}
  /\ proc.at \in 1..(Patches + 1) /\ proc.before \in Nat /\ proc.seen \in Nat
  /\ fo.own \subseteq Invoices /\ fo.withMark \subseteq Lines
  /\ \A l \in Lines : fo.shown[l] \in 0..fo.copies[l]

Gone(l) == GroupOf[l] \in GroupsOf(fo.deleted)
Wiped(l) == l \in Bulk /\ \A k \in Bulk : GroupOf[k] = GroupOf[l] => k \in fo.deleted

(* As long as no answer is lost, and the count before a request is read, no*)
(* line is written twice: not by a retry, by a request that was written    *)
(* although it was refused, by a late list, or by a journal that is posted *)
(* again when it is complete; unless Finance deletes each line of the entry*)
(* that travels in bulk, which looks like an entry that was never written. *)
LinesOnce ==
  trouble.lost = 0 /\ trouble.unread = 0 =>
    \A l \in Lines : fo.copies[l] <= 1 \/ Wiped(l)

(* The lines of an entry that travel in bulk are in Finance all together   *)
(* or not at all, at every moment and after every failure, so the journal  *)
(* balances; unless Finance has deleted one of them.                       *)
GroupsWhole ==
  \A l, k \in Bulk :
    GroupOf[l] = GroupOf[k] /\ ~Gone(l) => fo.copies[l] = fo.copies[k]

(* Without ghost marks: when the call has returned, every line of the      *)
(* journal is in Finance, except for entries of which Finance deleted one. *)
ReturnedIsComplete ==
  At("done") /\ trouble.ghosts = 0 =>
    \A l \in Lines : fo.copies[l] > 0 \/ Gone(l)

(* Without ghost marks: when the call has returned, every invoice the      *)
(* journal was to settle is marked by it; except that one invoice another  *)
(* journal holds takes the marks of its whole request with it, and that    *)
(* Finance may have deleted an entry.                                      *)
Blocked(l) == \E p \in 1..Patches :
                l \in Patch(p) /\ InvoicesOf(Patch(p)) \cap fo.foreign # {}

ReturnedHasSettled ==
  At("done") /\ trouble.ghosts = 0 =>
    \A l \in Bulk : \/ Invoice[l] \in fo.own \cup {NoInvoice}
                    \/ \E k \in Bulk : Invoice[k] = Invoice[l] /\ (Blocked(k) \/ Gone(k))

(* Without ghost marks: Finance names this journal as the holder of a lock *)
(* only for a request it has written.  This is what the recovery concludes *)
(* from "self-cite + FO grew by this patch's size".                        *)
SelfCiteIsCommitted ==
  (proc.pc \in {"wait", "recover"} /\ proc.fail = "self" /\ trouble.ghosts = 0) =>
    \A l \in proc.todo : fo.copies[l] > 0 \/ Gone(l)
=============================================================================
