--------------------------- MODULE CashBulk_proofs ---------------------------
(***************************************************************************)
(* The five properties of CashBulk, for every journal, request size,       *)
(* number of calls and amount of trouble.                                  *)
(*                                                                         *)
(* GroupsWhole, the balance of a routed cash journal, is not inductive:    *)
(* the lines a call has planned to post, and those it takes for posted,    *)
(* must be whole groups as well (CallWhole), and so must what the lists of *)
(* Finance show, which the plan is made from (ShownEven).                  *)
(*                                                                         *)
(* What a call knows of the journal (PlannedInv) is that every line that   *)
(* is written is in its plan, and the marks only on lines that are there.  *)
(* ReturnInv adds, without ghost marks, that what it takes for posted is   *)
(* there and what it takes for settled is marked; and OnceInv that what it *)
(* asks for again is not there.                                            *)
(***************************************************************************)
EXTENDS CashBulk, FiniteSetTheorems, TLAPS

(* A call is a record of these fields; the counts of a list have no use    *)
(* here.                                                                   *)
IsCall(p) ==
  p = [direction |-> p.direction, pc |-> p.pc, existing |-> p.existing,
       settled |-> p.settled, at |-> p.at, todo |-> p.todo, before |-> p.before,
       seen |-> p.seen, request |-> p.request, fail |-> p.fail]

Books == [copies : [Lines -> Nat], shown : [Lines -> Nat], withMark : SUBSET Lines,
          own : SUBSET Invoices, foreign : SUBSET Invoices, deleted : SUBSET Lines]

(* n is the same for the lines of a group, unless Finance deleted one.     *)
Even(n) == \A l, k \in Bulk : GroupOf[l] = GroupOf[k] /\ ~Gone(l) => n[l] = n[k]

(* S has all or nothing of a group of bulk lines, unless Finance deleted   *)
(* one of them.                                                            *)
Whole(S) == \A l, k \in Bulk : GroupOf[l] = GroupOf[k] /\ ~Gone(l) => (l \in S <=> k \in S)

ShownEven == Even(fo.shown)
Planned == {"idle", "list", "ledger"}
CallWhole ==
  /\ proc.todo \subseteq Bulk /\ Whole(proc.todo)
  /\ proc.request \subseteq Bulk /\ Whole(proc.request)
  /\ proc.pc \notin Planned => Whole(proc.existing)

GroupInv ==
  /\ IsCall(proc) /\ fo \in Books /\ GroupsWhole /\ ShownEven /\ CallWhole

LEMMA BulkLines == Bulk \subseteq Lines
BY CashBulkAssumption DEF Bulk

LEMMA EmptyWhole == Whole({})
BY DEF Whole

LEMMA PatchWhole == \A p : Patch(p) \subseteq Bulk /\ Whole(Patch(p))
BY DEF Patch, Whole

LEMMA WholeSets ==
  ASSUME NEW S, Whole(S), NEW T, Whole(T)
  PROVE  Whole(S \ T) /\ Whole(S \cup T)
BY DEF Whole

LEMMA GroupInvInit == CashInit => GroupInv
<1> SUFFICES ASSUME CashInit PROVE GroupInv
  OBVIOUS
<1>1. PICK d \in Directions, blocked \in SUBSET Invoices :
        /\ proc = Proc(d)
        /\ fo = [copies |-> [l \in Lines |-> 0], shown |-> [l \in Lines |-> 0],
                 withMark |-> {}, own |-> {}, foreign |-> blocked, deleted |-> {}]
  BY DEF CashInit
<1>2. IsCall(proc) /\ proc.todo = {} /\ proc.request = {} /\ proc.pc = "idle"
  BY <1>1 DEF IsCall, Proc
<1>3. fo \in Books
  BY <1>1 DEF Books
<1>4. \A l \in Lines : fo.copies[l] = 0 /\ fo.shown[l] = 0
  BY <1>1
<1>5. GroupsWhole /\ ShownEven
  BY <1>4, BulkLines DEF GroupsWhole, ShownEven, Even
<1>6. CallWhole
  BY <1>2, EmptyWhole DEF CallWhole, Planned
<1>7. QED
  BY <1>2, <1>3, <1>5, <1>6 DEF GroupInv

-----------------------------------------------------------------------------
(* The steps of Finance's books, and those of the call.                    *)

(* What two states of one direction agree on when no group was deleted     *)
(* between them.                                                           *)
SameGroups == proc'.direction = proc.direction /\ fo.deleted \subseteq fo'.deleted

LEMMA SameGroupsKeep ==
  ASSUME SameGroups
  PROVE  /\ Bulk' = Bulk
         /\ \A l : Gone(l) => Gone(l)'
         /\ \A S : Whole(S) => Whole(S)'
         /\ \A n : Even(n) => Even(n)'
<1>1. Bulk' = Bulk
  BY DEF SameGroups, Bulk
<1>2. \A l : Gone(l) => Gone(l)'
  BY DEF SameGroups, Gone, GroupsOf
<1>3. QED
  BY <1>1, <1>2 DEF Whole, Even

(* The books after a request for whole groups, written once or twice.      *)
LEMMA BumpEven ==
  ASSUME NEW n \in [Lines -> Nat], Even(n), NEW S, Whole(S)
  PROVE  Bump(n, S) \in [Lines -> Nat] /\ Even(Bump(n, S))
<1>1. Bump(n, S) \in [Lines -> Nat]
      /\ \A l \in Lines : Bump(n, S)[l] = IF l \in S THEN n[l] + 1 ELSE n[l]
  BY DEF Bump
<1>2. QED
  BY <1>1, BulkLines DEF Even, Whole

(* A step that leaves the deleted groups alone.                            *)
LEMMA KeepStep ==
  ASSUME GroupInv, IsCall(proc)', proc'.direction = proc.direction,
         proc'.todo \subseteq Bulk, Whole(proc'.todo),
         proc'.request \subseteq Bulk, Whole(proc'.request),
         proc'.pc \notin Planned => Whole(proc'.existing),
         fo' \in Books, fo'.deleted = fo.deleted, Even(fo'.copies), Even(fo'.shown)
  PROVE  GroupInv'
<1>1. SameGroups
  BY DEF SameGroups
<1>2. CallWhole'
  BY <1>1, SameGroupsKeep DEF CallWhole
<1>3. ShownEven'
  BY <1>1, SameGroupsKeep DEF ShownEven, Even, Gone
<1>4. GroupsWhole'
  BY <1>1, SameGroupsKeep DEF GroupsWhole, Even, Gone
<1>5. QED
  BY <1>2, <1>3, <1>4 DEF GroupInv

(* ... and one that leaves all the books alone.                            *)
LEMMA CallStep ==
  ASSUME GroupInv, IsCall(proc)', proc'.direction = proc.direction,
         proc'.todo \subseteq Bulk, Whole(proc'.todo),
         proc'.request \subseteq Bulk, Whole(proc'.request),
         proc'.pc \notin Planned => Whole(proc'.existing), fo' = fo
  PROVE  GroupInv'
<1>1. fo \in Books /\ Even(fo.copies) /\ Even(fo.shown)
  BY DEF GroupInv, GroupsWhole, ShownEven, Even
<1>2. QED
  BY <1>1, KeepStep

LEMMA ThrownStep ==
  ASSUME GroupInv, Throw, fo' \in Books, fo'.deleted = fo.deleted,
         Even(fo'.copies), Even(fo'.shown)
  PROVE  GroupInv'
<1>1. IsCall(proc)' /\ proc'.todo = {} /\ proc'.request = {} /\ proc'.pc = "idle"
      /\ proc'.direction = proc.direction
  BY DEF IsCall, Throw, Proc
<1>2. proc'.pc \in Planned
  BY <1>1 DEF Planned
<1>3. QED
  BY <1>1, <1>2, EmptyWhole, KeepStep

LEMMA ThrownOnly ==
  ASSUME GroupInv, Throw, fo' = fo PROVE GroupInv'
<1>1. fo \in Books /\ Even(fo.copies) /\ Even(fo.shown)
  BY DEF GroupInv, GroupsWhole, ShownEven, Even
<1>2. QED
  BY <1>1, ThrownStep

-----------------------------------------------------------------------------
(* What a request for whole groups does to the books.                      *)
LEMMA RequestStep ==
  ASSUME GroupInv, NEW S, Whole(S), S \subseteq Lines, NEW M \in SUBSET Invoices,
         NEW success, NEW failure, Request(S, M, success, failure)
  PROVE  /\ fo' \in Books /\ fo'.deleted = fo.deleted
         /\ Even(fo'.copies) /\ Even(fo'.shown)
         /\ Throw \/ proc' = success \/ \E why \in Refusals : proc' = failure[why]
<1>1. fo \in Books /\ Even(fo.copies) /\ Even(fo.shown)
  BY DEF GroupInv, GroupsWhole, ShownEven, Even
<1>2. DEFINE marked == fo.withMark \cup {l \in S : Invoice[l] \in M}
             locked == fo.own \cup M
             one    == Bump(fo.copies, S)
             two    == Bump(one, S)
<1>3. marked \subseteq Lines /\ locked \subseteq Invoices
  BY <1>1 DEF Books
<1>4. fo.copies \in [Lines -> Nat]
  BY <1>1 DEF Books
<1>5. one \in [Lines -> Nat] /\ Even(one)
  BY <1>1, <1>4, BumpEven
<1>6. two \in [Lines -> Nat] /\ Even(two)
  BY <1>5, BumpEven
<1>7. PICK next \in {fo, [fo EXCEPT !.own = locked],
                     [fo EXCEPT !.copies = one, !.own = locked, !.withMark = marked],
                     [[fo EXCEPT !.copies = one, !.own = locked, !.withMark = marked]
                        EXCEPT !.copies = two]} :
        fo' = next
  <2> HIDE DEF marked, locked
  <2>1. [fo EXCEPT !.copies = one, !.own = locked, !.withMark = marked].copies = one
    BY <1>1 DEF Books
  <2>2. QED
    BY <2>1 DEF Request, marked, locked
<1>8. Throw \/ proc' = success \/ \E why \in Refusals : proc' = failure[why]
  BY DEF Request, Refusals
<1> HIDE DEF marked, locked, one, two
<1>9. /\ next \in Books /\ next.deleted = fo.deleted /\ next.shown = fo.shown
      /\ next.copies \in {fo.copies, one, two}
  BY <1>1, <1>3, <1>5, <1>6 DEF Books
<1>10. QED
  BY <1>1, <1>5, <1>6, <1>7, <1>8, <1>9

LEMMA AcceptedWhole ==
  ASSUME IsCall(proc), CallWhole, proc.pc \notin Planned, proc' = Accepted
  PROVE  /\ IsCall(proc)' /\ proc'.direction = proc.direction
         /\ proc'.todo \subseteq Bulk /\ Whole(proc'.todo)
         /\ proc'.request \subseteq Bulk /\ Whole(proc'.request)
         /\ Whole(proc'.existing)
<1>1. /\ IsCall(proc)' /\ proc'.direction = proc.direction /\ proc'.todo = proc.todo
      /\ proc'.request = proc.request
      /\ proc'.existing = proc.existing \cup Patch(proc.at)
  BY DEF IsCall, Accepted
<1>2. Whole(proc.existing)
  BY DEF CallWhole
<1>3. Whole(proc'.existing)
  BY <1>1, <1>2, PatchWhole, WholeSets
<1>4. QED
  BY <1>1, <1>3 DEF CallWhole

LEMMA FailedWhole ==
  ASSUME IsCall(proc), CallWhole, proc.pc \notin Planned,
         NEW pc, NEW why, proc' = Failed(pc, why)
  PROVE  /\ IsCall(proc)' /\ proc'.direction = proc.direction
         /\ proc'.todo \subseteq Bulk /\ Whole(proc'.todo)
         /\ proc'.request \subseteq Bulk /\ Whole(proc'.request)
         /\ Whole(proc'.existing)
<1>1. /\ IsCall(proc)' /\ proc'.direction = proc.direction /\ proc'.todo = proc.todo
      /\ proc'.request = proc.request /\ proc'.existing = proc.existing
  BY DEF IsCall, Failed
<1>2. QED
  BY <1>1 DEF CallWhole

(* The three requests of the bulk path.                                    *)
LEMMA PostSteps ==
  ASSUME GroupInv, PostPatch \/ Rematch \/ PostUnmarked
  PROVE  GroupInv'
<1>1. IsCall(proc) /\ CallWhole
  BY DEF GroupInv
<1>2. proc.pc \in {"post", "rematch", "plain"} /\ proc.pc \notin Planned
  BY DEF PostPatch, Rematch, PostUnmarked, At, Planned
<1>3. PICK failure : \E M \in SUBSET Invoices :
        /\ Request(proc.request, M, Accepted, failure)
        /\ \A why \in Refusals : \E pc : failure[why] = Failed(pc, why)
  <2>1. MarksOf(proc.request) \in SUBSET Invoices /\ {} \in SUBSET Invoices
    BY <1>1, BulkLines DEF MarksOf, InvoicesOf, Invoices, CallWhole
  <2>2. QED
    BY <2>1 DEF PostPatch, Rematch, PostUnmarked
<1>4. Whole(proc.request) /\ proc.request \subseteq Lines
  BY <1>1, BulkLines DEF CallWhole
<1>5. /\ fo' \in Books /\ fo'.deleted = fo.deleted
      /\ Even(fo'.copies) /\ Even(fo'.shown)
      /\ Throw \/ proc' = Accepted \/ \E why \in Refusals : proc' = failure[why]
  BY <1>3, <1>4, RequestStep
<1>6. CASE Throw
  BY <1>5, <1>6, ThrownStep
<1>7. CASE proc' = Accepted
  BY <1>1, <1>2, <1>5, <1>7, AcceptedWhole, KeepStep
<1>8. CASE \E why \in Refusals : proc' = failure[why]
  <2>1. PICK why \in Refusals : \E pc : proc' = Failed(pc, why)
    BY <1>3, <1>8
  <2>2. PICK pc : proc' = Failed(pc, why)
    BY <2>1
  <2>3. QED
    BY <1>1, <1>2, <1>5, <2>2, FailedWhole, KeepStep
<1>9. QED
  BY <1>5, <1>6, <1>7, <1>8

-----------------------------------------------------------------------------
(* The steps that plan what to post.                                       *)

LEMMA StartStep ==
  ASSUME GroupInv, Start PROVE GroupInv'
<1>1. fo \in Books /\ Even(fo.copies)
  BY DEF GroupInv, GroupsWhole, Even
<1>2. /\ fo' \in Books /\ fo'.copies = fo.copies /\ fo'.shown = fo.copies
      /\ fo'.deleted = fo.deleted
  BY <1>1 DEF Start, Books
<1>3. /\ IsCall(proc)' /\ proc'.direction = proc.direction /\ proc'.pc = "list"
      /\ proc'.todo = {} /\ proc'.request = {}
  BY DEF Start, Proc, IsCall
<1>4. QED
  BY <1>1, <1>2, <1>3, EmptyWhole, KeepStep DEF Planned

LEMMA ListStep ==
  ASSUME GroupInv, ListExisting PROVE GroupInv'
<1>1. IsCall(proc) /\ CallWhole /\ fo' = fo
  BY DEF GroupInv, ListExisting, Quiet
<1>2. CASE Throw
  BY <1>1, <1>2, ThrownOnly
<1>3. CASE ~Throw
  <2>1. /\ IsCall(proc)' /\ proc'.direction = proc.direction /\ proc'.pc = "ledger"
        /\ proc'.todo = proc.todo /\ proc'.request = proc.request
    BY <1>1, <1>3 DEF ListExisting, IsCall
  <2>2. QED
    BY <1>1, <2>1, CallStep DEF CallWhole, Planned
<1>4. QED
  BY <1>2, <1>3

(* A line that is not posted in bulk belongs to no group.                  *)
LEMMA LedgerLineStep ==
  ASSUME GroupInv, PostCashOutLedgerLine PROVE GroupInv'
<1>1. /\ IsCall(proc) /\ CallWhole /\ fo \in Books /\ Even(fo.copies) /\ Even(fo.shown)
      /\ proc.pc = "ledger" /\ fo.copies \in [Lines -> Nat] /\ fo.shown \in [Lines -> Nat]
  BY DEF GroupInv, GroupsWhole, ShownEven, Even, PostCashOutLedgerLine, At, Books
<1>2. PICK l \in LedgerLeft :
        /\ fo' = fo \/ \E copies \in {Bump(fo.copies, {l}), Bump(Bump(fo.copies, {l}), {l})} :
             fo' = [fo EXCEPT !.copies = copies, !.shown[l] = copies[l]]
        /\ Throw \/ proc' = [proc EXCEPT !.existing = proc.existing \cup {l}]
  BY DEF PostCashOutLedgerLine
<1>3. l \in Lines /\ l \notin Bulk
  BY DEF LedgerLeft
<1>4. Whole({l})
  BY <1>3 DEF Whole
<1>5. /\ fo' \in Books /\ fo'.deleted = fo.deleted
      /\ Even(fo'.copies) /\ Even(fo'.shown)
  <2>1. CASE fo' = fo
    BY <1>1, <2>1
  <2>2. CASE fo' # fo
    <3>1. Bump(fo.copies, {l}) \in [Lines -> Nat] /\ Even(Bump(fo.copies, {l}))
      BY <1>1, <1>4, BumpEven
    <3>2. /\ Bump(Bump(fo.copies, {l}), {l}) \in [Lines -> Nat]
          /\ Even(Bump(Bump(fo.copies, {l}), {l}))
      BY <3>1, <1>4, BumpEven
    <3>3. PICK copies \in [Lines -> Nat] :
            /\ Even(copies)
            /\ fo' = [fo EXCEPT !.copies = copies, !.shown[l] = copies[l]]
      BY <1>2, <2>2, <3>1, <3>2
    <3>4. DEFINE shown == [fo.shown EXCEPT ![l] = copies[l]]
    <3>5. shown \in [Lines -> Nat] /\ \A k \in Lines : k # l => shown[k] = fo.shown[k]
      BY <1>1, <1>3
    <3>6. Even(shown)
      BY <1>1, <1>3, <3>5, BulkLines DEF Even
    <3> HIDE DEF shown
    <3>7. fo' = [fo EXCEPT !.copies = copies, !.shown = shown]
      BY <1>1, <3>3 DEF shown, Books
    <3>8. fo' \in Books /\ fo'.deleted = fo.deleted /\ fo'.copies = copies /\ fo'.shown = shown
      BY <1>1, <3>5, <3>7 DEF Books
    <3>9. QED
      BY <3>3, <3>6, <3>8
  <2>3. QED
    BY <2>1, <2>2
<1>6. CASE Throw
  BY <1>5, <1>6, ThrownStep
<1>7. CASE proc' = [proc EXCEPT !.existing = proc.existing \cup {l}]
  <2>1. /\ IsCall(proc)' /\ proc'.direction = proc.direction /\ proc'.pc = "ledger"
        /\ proc'.todo = proc.todo /\ proc'.request = proc.request
    BY <1>1, <1>7 DEF IsCall
  <2>2. QED
    BY <1>1, <1>5, <2>1, KeepStep DEF CallWhole, Planned
<1>8. QED
  BY <1>2, <1>6, <1>7

(* Partial groups count as posted, so what counts as posted is whole.      *)
LEMMA PlanStep ==
  ASSUME GroupInv, PlanPatches PROVE GroupInv'
<1>1. IsCall(proc) /\ CallWhole /\ fo' = fo
  BY DEF GroupInv, PlanPatches, Quiet
<1>2. /\ IsCall(proc)' /\ proc'.direction = proc.direction
      /\ proc'.todo = proc.todo /\ proc'.request = proc.request
      /\ proc'.existing = RepairPartial(proc.existing)
  BY <1>1 DEF PlanPatches, IsCall
<1>3. Whole(RepairPartial(proc.existing))
  BY DEF Whole, RepairPartial, GroupsOf
<1>4. QED
  BY <1>1, <1>2, <1>3, CallStep DEF CallWhole

(* A request that is skipped, the end, and the wait: nothing is planned.   *)
LEMMA WaitSteps ==
  ASSUME GroupInv, SkipPatch \/ Finish \/ WaitForLines PROVE GroupInv'
<1>1. IsCall(proc) /\ CallWhole /\ fo' = fo
  BY DEF GroupInv, SkipPatch, Finish, WaitForLines, Quiet
<1>2. proc.pc \in {"patch", "wait"} /\ Whole(proc.existing)
  BY <1>1 DEF SkipPatch, Finish, WaitForLines, At, CallWhole, Planned
<1>3. /\ IsCall(proc)' /\ proc'.direction = proc.direction
      /\ proc'.todo = proc.todo /\ proc'.request = proc.request
      /\ proc'.existing = proc.existing
  <2>1. CASE SkipPatch
    BY <1>1, <2>1 DEF SkipPatch, IsCall
  <2>2. CASE Finish
    BY <1>1, <2>2 DEF Finish, Go, IsCall
  <2>3. CASE WaitForLines
    BY <1>1, <2>3 DEF WaitForLines, IsCall
  <2>4. QED
    BY <2>1, <2>2, <2>3
<1>4. QED
  BY <1>1, <1>2, <1>3, CallStep DEF CallWhole

LEMMA CountStep ==
  ASSUME GroupInv, CountBefore PROVE GroupInv'
<1>1. IsCall(proc) /\ CallWhole /\ fo' = fo
  BY DEF GroupInv, CountBefore
<1>2. Whole(proc.existing)
  BY <1>1 DEF CountBefore, At, CallWhole, Planned
<1>3. DEFINE todo == Patch(proc.at) \ proc.existing
<1>4. todo \subseteq Bulk /\ Whole(todo)
  BY <1>2, PatchWhole, WholeSets
<1>5. /\ IsCall(proc)' /\ proc'.direction = proc.direction
      /\ proc'.todo = todo /\ proc'.request = todo /\ proc'.existing = proc.existing
  BY <1>1 DEF CountBefore, IsCall
<1>6. QED
  BY <1>1, <1>2, <1>4, <1>5, CallStep

LEMMA MissingWhole ==
  ASSUME ShownEven, NEW S, Whole(S) PROVE Whole(MissingOf(S))
BY DEF ShownEven, Even, Whole, MissingOf, IntegrityLines

(* What is asked for again after a refusal is whole, because the lists are.*)
LEMMA RecoverStep ==
  ASSUME GroupInv, RecoverAlreadyMarked PROVE GroupInv'
<1>1. IsCall(proc) /\ CallWhole /\ ShownEven /\ fo' = fo
  BY DEF GroupInv, RecoverAlreadyMarked, Quiet
<1>2. proc.pc \notin Planned /\ Whole(proc.existing)
  BY <1>1 DEF RecoverAlreadyMarked, At, CallWhole, Planned
<1>3. CASE Throw
  BY <1>1, <1>3, ThrownOnly
<1>4. CASE proc' = Accepted
  BY <1>1, <1>2, <1>4, AcceptedWhole, CallStep
<1>5. CASE proc' # Accepted /\ ~Throw
  <2>1. DEFINE missing == MissingOf(proc.todo)
  <2>2. missing \subseteq Bulk /\ Whole(missing)
    BY <1>1, MissingWhole DEF CallWhole, MissingOf
  <2>3. /\ IsCall(proc)' /\ proc'.direction = proc.direction
        /\ proc'.todo = proc.todo /\ proc'.request = missing /\ proc'.existing = proc.existing
    BY <1>1, <1>5 DEF RecoverAlreadyMarked, IsCall
  <2>4. QED
    BY <1>1, <1>2, <2>2, <2>3, CallStep DEF CallWhole
<1>6. QED
  BY <1>3, <1>4, <1>5

LEMMA RetryStep ==
  ASSUME GroupInv, PrepareUnmarkedRetry PROVE GroupInv'
<1>1. IsCall(proc) /\ CallWhole /\ ShownEven /\ fo' = fo
  BY DEF GroupInv, PrepareUnmarkedRetry, Quiet
<1>2. proc.pc \notin Planned /\ Whole(proc.existing)
  BY <1>1 DEF PrepareUnmarkedRetry, At, CallWhole, Planned
<1>3. CASE Throw
  BY <1>1, <1>3, ThrownOnly
<1>4. CASE proc' = Accepted
  BY <1>1, <1>2, <1>4, AcceptedWhole, CallStep
<1>5. CASE proc' # Accepted /\ ~Throw
  <2>1. DEFINE missing == MissingOf(RetryCandidates)
               retry == CompleteUnmarked(missing)
  <2>2. retry \subseteq Bulk /\ Whole(retry)
    BY <1>1 DEF CallWhole, Whole, CompleteUnmarked
  <2>3. /\ IsCall(proc)' /\ proc'.direction = proc.direction
        /\ proc'.todo = proc.todo /\ proc'.request = retry /\ proc'.existing = proc.existing
    BY <1>1, <1>5 DEF PrepareUnmarkedRetry, IsCall
  <2>4. QED
    BY <1>1, <1>2, <2>2, <2>3, CallStep DEF CallWhole
<1>6. QED
  BY <1>3, <1>4, <1>5

-----------------------------------------------------------------------------
(* The steps of Finance.                                                   *)

LEMMA CatchUpStep ==
  ASSUME GroupInv, CatchUp PROVE GroupInv'
<1>1. /\ fo \in Books /\ Even(fo.copies) /\ CallWhole /\ IsCall(proc)
      /\ proc' = proc
  BY DEF GroupInv, GroupsWhole, Even, CatchUp
<1>2. /\ fo' \in Books /\ fo'.copies = fo.copies /\ fo'.shown = fo.copies
      /\ fo'.deleted = fo.deleted
  BY <1>1 DEF CatchUp, Books
<1>3. IsCall(proc)'
  BY <1>1 DEF IsCall
<1>4. QED
  BY <1>1, <1>2, <1>3, KeepStep DEF CallWhole

(* Nothing is claimed of the group of a line that is deleted.              *)
LEMMA DeleteStep ==
  ASSUME GroupInv, NEW d \in Lines, FinanceDeletesLine(d) PROVE GroupInv'
<1>1. /\ fo \in Books /\ Even(fo.copies) /\ Even(fo.shown) /\ CallWhole /\ IsCall(proc)
      /\ proc' = proc
  BY DEF GroupInv, GroupsWhole, ShownEven, Even, FinanceDeletesLine
<1>3. DEFINE marked == fo.withMark \ {d}
             own == fo.own \ (InvoicesOf({d}) \ InvoicesOf(marked))
             copies == [fo.copies EXCEPT ![d] = 0]
             shown == [fo.shown EXCEPT ![d] = 0]
             deleted == fo.deleted \cup {d}
<1>4. /\ marked \in SUBSET Lines /\ own \in SUBSET Invoices /\ deleted \in SUBSET Lines
      /\ copies \in [Lines -> Nat] /\ shown \in [Lines -> Nat]
      /\ \A l \in Lines : l # d => copies[l] = fo.copies[l] /\ shown[l] = fo.shown[l]
  BY <1>1 DEF Books
<1>5. fo' = [fo EXCEPT !.copies = copies, !.shown = shown, !.withMark = marked,
               !.own = own, !.deleted = deleted]
  BY <1>1 DEF FinanceDeletesLine, Books
<1>6. d \in deleted /\ fo.deleted \subseteq deleted
  OBVIOUS
<1> HIDE DEF marked, own, copies, shown, deleted
<1>7. /\ fo' \in Books /\ fo'.copies = copies /\ fo'.shown = shown /\ fo'.deleted = deleted
  BY <1>1, <1>4, <1>5 DEF Books
<1>8. SameGroups
  BY <1>1, <1>6, <1>7 DEF SameGroups
<1>9. CallWhole' /\ IsCall(proc)'
  BY <1>1, <1>8, SameGroupsKeep DEF CallWhole, IsCall
<1>10. \A l, k \in Bulk :
         GroupOf[l] = GroupOf[k] /\ ~Gone(l)' => l # d /\ k # d /\ ~Gone(l)
  BY <1>6, <1>7 DEF Gone, GroupsOf
<1>11. GroupsWhole' /\ ShownEven'
  BY <1>1, <1>4, <1>7, <1>8, <1>10, BulkLines, SameGroupsKeep
  DEF GroupsWhole, ShownEven, Even
<1>12. QED
  BY <1>7, <1>9, <1>11 DEF GroupInv

LEMMA GroupInvStep == GroupInv /\ [CashNext]_cvars => GroupInv'
<1> SUFFICES ASSUME GroupInv, [CashNext]_cvars PROVE GroupInv'
  OBVIOUS
<1>1. CASE \/ Start \/ ListExisting \/ PostCashOutLedgerLine \/ PlanPatches
           \/ SkipPatch \/ Finish \/ CountBefore \/ PostPatch
           \/ WaitForLines \/ RecoverAlreadyMarked \/ Rematch
           \/ PrepareUnmarkedRetry \/ PostUnmarked
  BY <1>1, StartStep, ListStep, LedgerLineStep, PlanStep, WaitSteps, CountStep, PostSteps,
     RecoverStep, RetryStep
<1>2. CASE CatchUp \/ Crash \/ \E l \in Lines : FinanceDeletesLine(l)
  <2>1. Crash => Throw /\ fo' = fo
    BY DEF Crash, Quiet
  <2>2. QED
    BY <1>2, <2>1, CatchUpStep, ThrownOnly, DeleteStep
<1>3. CASE UNCHANGED cvars
  <2>1. proc' = proc /\ fo' = fo /\ IsCall(proc) /\ CallWhole
    BY <1>3 DEF cvars, GroupInv
  <2>2. IsCall(proc)'
    BY <2>1 DEF IsCall
  <2>3. QED
    BY <2>1, <2>2, CallStep DEF CallWhole
<1>4. QED
  BY <1>1, <1>2, <1>3 DEF CashNext

(* A routed cash journal balances at every moment and after every failure, *)
(* whatever its lines, the size of the requests and the order of its       *)
(* troubles, but for entries of which Finance deleted a line.              *)
THEOREM JournalBalances == CashSpec => []GroupsWhole
<1>1. GroupInv => GroupsWhole
  BY DEF GroupInv
<1>2. QED
  BY <1>1, GroupInvInit, GroupInvStep, PTL DEF CashSpec

-----------------------------------------------------------------------------
(* What a call knows.                                                      *)

Calls == [direction : Directions,
          pc : {"idle", "list", "ledger", "patch", "post", "wait", "recover",
                "rematch", "unmark", "plain", "done"},
          existing : SUBSET Lines, settled : SUBSET Invoices, at : Nat \ {0},
          todo : SUBSET Lines, before : Nat, seen : Nat, request : SUBSET Lines,
          fail : {"none", "self", "foreign", "amount"}]

(* S has all or nothing of the bulk lines of an entry.                     *)
Closed(S) == \A l, k \in Bulk : GroupOf[l] = GroupOf[k] => (l \in S <=> k \in S)

Written == {l \in Lines : fo.copies[l] > 0}
InRequest == {"post", "wait", "recover", "rematch", "unmark", "plain"}

ShapeInv ==
  /\ proc \in Calls /\ fo \in Books /\ trouble \in [Troubles -> Nat]
  /\ \A l \in Lines : fo.shown[l] <= fo.copies[l]

(* What a call knows of the journal.                                       *)
PlanInv ==
  /\ proc.pc \in Planned => proc.at = 1
  /\ proc.pc = "list" => fo.shown = fo.copies /\ proc.existing = {}
  /\ proc.pc \in {"ledger", "patch", "post"} => Written \subseteq proc.existing
  /\ proc.pc \in InRequest => Written \subseteq proc.existing \cup proc.todo
  /\ proc.pc \notin Planned =>
       /\ Closed(proc.existing) /\ Lines \ Bulk \subseteq proc.existing
       /\ InvoicesOf(proc.existing \cap Bulk) \subseteq proc.settled
       /\ \A p \in 1..(proc.at - 1) : Patch(p) \subseteq proc.existing
  /\ proc.pc \in InRequest =>
       /\ proc.at <= Patches /\ proc.todo # {} /\ proc.request \subseteq proc.todo
       /\ \A p \in {proc.at} : proc.todo = Patch(p) \ proc.existing
  /\ proc.pc = "done" => proc.at > Patches

(* What the marks in Finance say.                                          *)
MarkInv ==
  /\ fo.withMark \subseteq Bulk \cap Written /\ InvoicesOf(fo.withMark) \subseteq fo.own
  /\ fo.own \cap fo.foreign = {}

PlannedInv == ShapeInv /\ PlanInv /\ MarkInv

There(S) == \A l \in S : fo.copies[l] > 0 \/ Gone(l)
NotThere(S) == \A l \in S : fo.copies[l] = 0

(* The invoice of l is marked, or the reason why it is not.                *)
Settled(l) == \/ Invoice[l] \in fo.own \cup {NoInvoice}
              \/ \E k \in Bulk : Invoice[k] = Invoice[l] /\ (Blocked(k) \/ Gone(k))

(* Every invoice with a lock has a line with a mark, and every line that is*)
(* there has its mark.                                                     *)
MarkedBooks ==
  /\ fo.own \subseteq InvoicesOf(fo.withMark)
  /\ \A l \in Bulk \cap Written : Settled(l)

(* What the call takes for posted is there, what it takes for settled is.  *)
KnownPosted ==
  /\ There(proc.existing)
  /\ \A l \in Bulk : Invoice[l] \in proc.settled => Settled(l)

(* The lines of the request are all there or none is, and a refusal that   *)
(* lets them go without marks is one that excuses it.                      *)
AskedFor ==
  /\ proc.pc = "post" => NotThere(proc.todo) /\ proc.request = proc.todo
  /\ proc.pc \in InRequest \ {"post"} =>
       /\ There(proc.todo) \/ (NotThere(proc.todo) /\ proc.request = proc.todo)
       /\ proc.pc \in {"wait", "recover"} /\ proc.fail = "self" => There(proc.todo)
       /\ proc.fail # "amount" => \A l \in proc.todo : Settled(l)

ReturnInv == trouble.ghosts = 0 => MarkedBooks /\ KnownPosted /\ AskedFor

FailInv ==
  /\ proc.pc \in {"wait", "recover", "rematch", "plain"} => proc.fail \in {"self", "foreign"}
  /\ proc.pc = "unmark" => proc.fail \in Refusals

(* A line of S that is not listed was deleted.                             *)
Noticed(S) == \A l \in S : fo.shown[l] > 0 \/ l \in fo.deleted
InStep == fo.shown = fo.copies

(* No line is there twice, and what a call may still ask for is not there: *)
(* before a request and after a refusal none of it is, or the lines that   *)
(* are there are seen (Noticed) when the call looks for what is missing.   *)
OnceBooks == \A l \in Lines : fo.copies[l] <= 1 \/ Wiped(l)
Asked == NotThere(proc.todo) /\ proc.request = proc.todo
Count == IF proc.pc = "wait" THEN IntegrityCount ELSE proc.seen
OnceCall ==
  /\ proc.pc = "post" => Asked /\ InStep /\ IntegrityCount <= proc.before
  /\ proc.pc \in {"wait", "recover"} =>
       /\ proc.request = proc.todo
       /\ proc.direction = "in" => Count <= proc.before
       /\ \/ NotThere(proc.todo) /\ Count <= proc.before /\ InStep
          \/ /\ \A l \in proc.todo : fo.copies[l] > 0 \/ l \in fo.deleted
             /\ proc.fail = "self"
             /\ InStep \/ (Count <= proc.before /\ \A l \in proc.todo : fo.shown[l] = 0)
  /\ proc.pc \in {"wait", "recover", "rematch"} /\ proc.fail = "foreign" =>
       MarksOf(proc.todo) \cap fo.foreign # {}
  /\ proc.pc = "rematch" =>
       \/ Asked /\ proc.fail = "foreign"
       \/ /\ proc.direction = "out" /\ NotThere(proc.request)
          /\ Noticed(proc.todo \ proc.request) /\ proc.request \subseteq fo.deleted
  /\ proc.pc \in {"unmark", "plain"} /\ proc.fail # "amount" =>
       \/ Asked
       \/ /\ proc.direction = "out" /\ Noticed(proc.todo)
          /\ proc.pc = "plain" => \A l \in proc.request : Wiped(l)

OnceInv == trouble.lost = 0 /\ trouble.unread = 0 => OnceBooks /\ OnceCall

-----------------------------------------------------------------------------
(* Requests and counts.                                                    *)

(* The image of a finite set of lines.                                     *)
LEMMA GroupsFinite ==
  ASSUME NEW S \in SUBSET Lines PROVE IsFiniteSet(GroupsOf(S))
<1>1. IsFiniteSet(S)
  BY CashBulkAssumption, FS_Subset
<1>2. DEFINE f == [l \in S |-> GroupOf[l]]
<1>3. f \in Surjection(S, GroupsOf(S))
  BY DEF Surjection, GroupsOf
<1>4. QED
  BY <1>1, <1>3, FS_Surjection

LEMMA PatchesNat == Patches \in Nat
<1>1. Cardinality(GroupsOf(Bulk)) \in Nat
  BY BulkLines, GroupsFinite, FS_CardinalityType
<1>2. \A n, b \in Nat : b > 0 => (n + b - 1) \div b \in Nat
  OBVIOUS
<1>3. QED
  BY <1>1, <1>2, CashBulkAssumption DEF Patches

(* Every line that travels in bulk is in one of the requests.              *)
LEMMA Covered == \A l \in Bulk : \E p \in 1..Patches : l \in Patch(p)
<1> SUFFICES ASSUME NEW l \in Bulk PROVE \E p \in 1..Patches : l \in Patch(p)
  OBVIOUS
<1> DEFINE below == {g \in GroupsOf(Bulk) : g < GroupOf[l]}
           r == Cardinality(below)
           n == Cardinality(GroupsOf(Bulk))
<1>1. IsFiniteSet(GroupsOf(Bulk)) /\ GroupOf[l] \in GroupsOf(Bulk) /\ GroupOf[l] \in Nat
  BY BulkLines, GroupsFinite, CashBulkAssumption DEF GroupsOf
<1>2. below \in SUBSET GroupsOf(Bulk) /\ GroupOf[l] \notin below
  BY <1>1
<1>3. r \in Nat /\ n \in Nat /\ r <= n /\ r # n
  BY <1>1, <1>2, FS_Subset, FS_CardinalityType
<1>4. \A a, c, b \in Nat : b > 0 /\ a < c =>
         /\ a \div b \in Nat /\ (c + b - 1) \div b \in Nat
         /\ a \div b + 1 <= (c + b - 1) \div b
  OBVIOUS
<1>5. BatchSize \in Nat /\ BatchSize > 0
  BY CashBulkAssumption
<1> DEFINE p == r \div BatchSize + 1
<1>6. r \div BatchSize \in Nat /\ p <= Patches /\ Patches \in Nat
  BY <1>3, <1>4, <1>5, PatchesNat DEF Patches
<1>7. p \in 1..Patches /\ r \div BatchSize = p - 1
  BY <1>6
<1>8. l \in Patch(p)
  BY <1>7 DEF Patch
<1>9. QED
  BY <1>7, <1>8

LEMMA PatchClosed == \A p : Patch(p) \subseteq Bulk /\ Closed(Patch(p))
BY DEF Patch, Closed

(* The lines that are listed, one for each copy.                           *)
ListedCopies == UNION {{l} \X (1..IntegrityLines(l)) : l \in Lines}

LEMMA ListedFinite ==
  ASSUME ShapeInv PROVE IsFiniteSet(ListedCopies) /\ IntegrityCount \in Nat
<1>1. \A l \in Lines : IntegrityLines(l) \in Nat
  BY DEF ShapeInv, Books, IntegrityLines
<1> DEFINE of(l) == {l} \X (1..IntegrityLines(l))
           f == [l \in Lines |-> of(l)]
           all == {of(l) : l \in Lines}
<1>2. f \in Surjection(Lines, all)
  BY DEF Surjection
<1>3. IsFiniteSet(all)
  BY <1>2, FS_Surjection, CashBulkAssumption
<1>4. \A l \in Lines : IsFiniteSet(of(l))
  <2> SUFFICES ASSUME NEW l \in Lines PROVE IsFiniteSet(of(l))
    OBVIOUS
  <2> DEFINE n == IntegrityLines(l)
  <2>1. IsFiniteSet({l})
    BY FS_Singleton
  <2>2. n \in Int
    BY <1>1
  <2> HIDE DEF n
  <2>3. IsFiniteSet(1..n)
    BY <2>2, FS_Interval
  <2>4. IsFiniteSet({l} \X (1..n))
    BY <2>1, <2>3, FS_Product
  <2>5. QED
    BY <2>4 DEF n
<1>5. IsFiniteSet(UNION all)
  BY <1>3, <1>4, FS_UNION
<1>6. QED
  BY <1>5, FS_CardinalityType DEF ListedCopies, IntegrityCount

(* A list that has lost lines counts no more than before.                  *)
LEMMA CountShrinks ==
  ASSUME ShapeInv, ShapeInv', proc'.direction = proc.direction,
         \A l \in Lines : fo'.shown[l] <= fo.shown[l]
  PROVE  IntegrityCount' \in Nat /\ IntegrityCount' <= IntegrityCount
<1>1. \A l \in Lines : /\ IntegrityLines(l) \in Nat /\ IntegrityLines(l)' \in Nat
                       /\ IntegrityLines(l)' <= IntegrityLines(l)
  BY DEF ShapeInv, Books, IntegrityLines
<1>2. \A l \in Lines : {l} \X (1..IntegrityLines(l)') \subseteq {l} \X (1..IntegrityLines(l))
  BY <1>1
<1>3. ListedCopies' \in SUBSET ListedCopies
  BY <1>2 DEF ListedCopies
<1>4. QED
  BY <1>3, ListedFinite, FS_Subset, FS_CardinalityType DEF ListedCopies, IntegrityCount

-----------------------------------------------------------------------------
(* What the operations do to each field.                                   *)

SameTroubles == trouble' = trouble

LEMMA Suffered ==
  ASSUME ShapeInv, NEW what \in Troubles, Suffer(what)
  PROVE  /\ trouble' \in [Troubles -> Nat] /\ trouble'[what] # 0
         /\ \A t \in Troubles : trouble'[t] = 0 => trouble[t] = 0
BY DEF ShapeInv, Suffer

LEMMA SameDirection ==
  ASSUME proc'.direction = proc.direction
  PROVE  /\ Bulk' = Bulk /\ Patches' = Patches /\ \A p : Patch(p)' = Patch(p)
         /\ \A S : Closed(S)' <=> Closed(S)
<1>1. Bulk' = Bulk
  BY DEF Bulk
<1>2. QED
  BY <1>1 DEF Patches, Patch, Closed

(* The call is over: it has thrown.                                        *)
Reset == /\ proc' \in Calls /\ proc'.direction = proc.direction /\ proc'.pc = "idle"
         /\ proc'.existing = {} /\ proc'.settled = {} /\ proc'.at = 1

LEMMA Thrown ==
  ASSUME ShapeInv, Throw PROVE Reset
BY DEF ShapeInv, Throw, Reset, Proc, Calls

LEMMA AcceptedSets ==
  ASSUME ShapeInv, proc' = Accepted
  PROVE  /\ proc' \in Calls /\ proc'.direction = proc.direction /\ proc'.pc = "patch"
         /\ proc'.at = proc.at + 1 /\ proc'.existing = proc.existing \cup Patch(proc.at)
         /\ proc'.settled = proc.settled \cup MarksOf(proc.todo)
<1> DEFINE patch == Patch(proc.at)
           marks == MarksOf(proc.todo)
<1>1. proc \in Calls /\ patch \subseteq Lines /\ marks \subseteq Invoices
  BY PatchClosed, BulkLines DEF ShapeInv, Calls, MarksOf, InvoicesOf, Invoices
<1>2. proc' = [proc EXCEPT !.pc = "patch", !.at = proc.at + 1,
                 !.existing = proc.existing \cup patch, !.settled = proc.settled \cup marks]
  BY DEF Accepted
<1> HIDE DEF patch, marks
<1>3. /\ proc.existing \cup patch \in SUBSET Lines /\ proc.settled \cup marks \in SUBSET Invoices
      /\ proc.at + 1 \in Nat \ {0}
  BY <1>1 DEF Calls
<1>4. /\ proc'.direction = proc.direction /\ proc'.pc = "patch"
      /\ proc'.at = proc.at + 1 /\ proc'.existing = proc.existing \cup patch
      /\ proc'.settled = proc.settled \cup marks
  BY <1>1, <1>2 DEF Calls
<1>5. proc' \in Calls
  BY <1>1, <1>2, <1>3 DEF Calls
<1>6. QED
  BY <1>4, <1>5 DEF patch, marks

LEMMA FailedSets ==
  ASSUME ShapeInv, NEW pc \in {"wait", "unmark"}, NEW why \in Refusals, proc' = Failed(pc, why)
  PROVE  /\ proc' \in Calls /\ proc'.direction = proc.direction /\ proc'.pc = pc
         /\ proc'.fail = why /\ proc'.at = proc.at /\ proc'.existing = proc.existing
         /\ proc'.settled = proc.settled /\ proc'.todo = proc.todo
         /\ proc'.before = proc.before /\ proc'.seen = proc.seen
         /\ proc'.request = proc.request
<1>1. proc \in Calls
  BY DEF ShapeInv
<1>2. QED
  BY <1>1 DEF Failed, Calls, Refusals

(* The books after the lines S have got the given number of copies, and    *)
(* the invoices M a lock.                                                  *)
Wrote(S, M, copies) ==
  /\ fo' \in Books /\ fo'.copies = copies /\ fo'.shown = fo.shown
  /\ fo'.deleted = fo.deleted /\ fo'.foreign = fo.foreign
  /\ fo'.own = fo.own \cup M
  /\ fo'.withMark = fo.withMark \cup {l \in S : Invoice[l] \in M}

LEMMA RequestSets ==
  ASSUME ShapeInv, NEW S \in SUBSET Lines, NEW M \in SUBSET Invoices,
         NEW success, NEW failure, Request(S, M, success, failure)
  PROVE  \/ /\ M \cap (fo.own \cup fo.foreign) = {}
            /\ Wrote(S, M, Bump(fo.copies, S)) /\ SameTroubles
            /\ proc' = success \/ (M # {} /\ proc' = failure["self"])
         \/ /\ M \cap (fo.own \cup fo.foreign) = {} /\ Suffer("lost")
            /\ \/ Wrote(S, M, Bump(fo.copies, S)) /\ Throw
               \/ Wrote(S, M, Bump(Bump(fo.copies, S), S)) /\ M = {} /\ proc' = success
         \/ Throw /\ fo' = fo /\ SameTroubles
         \/ /\ M \cap (fo.own \cup fo.foreign) = {} /\ Suffer("ghosts") /\ Throw
            /\ Wrote({}, M, fo.copies)
         \/ /\ fo' = fo /\ SameTroubles
            /\ \/ M \cap fo.own # {} /\ proc' = failure["self"]
               \/ M \cap fo.foreign # {} /\ proc' = failure["foreign"]
               \/ M # {} /\ proc' = failure["amount"]
<1> DEFINE marked == fo.withMark \cup {l \in S : Invoice[l] \in M}
           locked == fo.own \cup M
           one == Bump(fo.copies, S)
           two == Bump(one, S)
           once == [fo EXCEPT !.copies = one, !.own = locked, !.withMark = marked]
<1>1. fo \in Books /\ marked \in SUBSET Lines /\ locked \in SUBSET Invoices
  BY DEF ShapeInv, Books
<1>2. one \in [Lines -> Nat] /\ two \in [Lines -> Nat]
  BY <1>1 DEF Books, Bump
<1>3. {l \in {} : Invoice[l] \in M} = {}
  OBVIOUS
<1> HIDE DEF one, two, marked, locked
<1>4. once \in Books /\ once.copies = one
  BY <1>1, <1>2 DEF Books
<1>5. fo' = once => Wrote(S, M, one)
  BY <1>1, <1>2 DEF Wrote, marked, locked, Books
<1>6. fo' = [once EXCEPT !.copies = two] => Wrote(S, M, two)
  BY <1>1, <1>2 DEF Wrote, marked, locked, Books
<1>7. fo' = [fo EXCEPT !.own = locked] => Wrote({}, M, fo.copies)
  BY <1>1, <1>3 DEF Wrote, locked, Books
<1>8. QED
  BY <1>4, <1>5, <1>6, <1>7 DEF Request, SameTroubles, one, two, marked, locked

-----------------------------------------------------------------------------
(* PlannedInv.                                                             *)

LEMMA PlannedInit == CashInit => PlannedInv
<1> SUFFICES ASSUME CashInit PROVE PlannedInv
  OBVIOUS
<1>1. PICK d \in Directions, blocked \in SUBSET Invoices :
        /\ proc = Proc(d)
        /\ fo = [copies |-> [l \in Lines |-> 0], shown |-> [l \in Lines |-> 0],
                 withMark |-> {}, own |-> {}, foreign |-> blocked, deleted |-> {}]
  BY DEF CashInit
<1>2. ShapeInv /\ proc.pc = "idle" /\ proc.at = 1
  BY <1>1 DEF CashInit, ShapeInv, Proc, Calls, Books
<1>3. MarkInv
  BY <1>1 DEF MarkInv, InvoicesOf
<1>4. PlanInv
  BY <1>2 DEF PlanInv, Planned, InRequest
<1>5. QED
  BY <1>2, <1>3, <1>4 DEF PlannedInv

(* Nothing is claimed of a call that is over.                              *)
LEMMA ResetPlans ==
  ASSUME Reset PROVE PlanInv'
BY DEF Reset, PlanInv, Planned, InRequest

(* The books of a request for S.                                           *)
LEMMA WroteKeeps ==
  ASSUME ShapeInv, MarkInv, proc'.direction = proc.direction,
         NEW S \in SUBSET Bulk, NEW M \in SUBSET Invoices, M \cap fo.foreign = {},
         NEW copies \in [Lines -> Nat],
         \A l \in Lines : IF l \in S THEN copies[l] > fo.copies[l] ELSE copies[l] = fo.copies[l],
         Wrote(S, M, copies)
  PROVE  /\ MarkInv' /\ Written' = Written \cup S
         /\ \A l \in Lines : fo'.shown[l] <= fo'.copies[l]
<1>1. /\ fo \in Books /\ fo' \in Books /\ \A l \in Lines : fo.shown[l] <= fo.copies[l]
      /\ fo'.copies = copies /\ fo'.shown = fo.shown
  BY DEF ShapeInv, Wrote
<1>2. /\ Bulk' = Bulk /\ Bulk \subseteq Lines
  BY SameDirection, BulkLines
<1>3. Written' = Written \cup S
  BY <1>1, <1>2 DEF Written, Books
<1>4. \A l \in Lines : fo'.shown[l] <= fo'.copies[l]
  BY <1>1 DEF Books
<1>5. MarkInv'
  BY <1>2, <1>3 DEF MarkInv, Wrote, InvoicesOf
<1>6. QED
  BY <1>3, <1>4, <1>5

LEMMA Bumped ==
  ASSUME ShapeInv, NEW S \in SUBSET Lines
  PROVE  LET one == Bump(fo.copies, S)
             two == Bump(one, S)
         IN  /\ one \in [Lines -> Nat] /\ two \in [Lines -> Nat]
             /\ \A l \in Lines : /\ one[l] = IF l \in S THEN fo.copies[l] + 1 ELSE fo.copies[l]
                                 /\ two[l] = IF l \in S THEN fo.copies[l] + 2 ELSE fo.copies[l]
<1>1. fo.copies \in [Lines -> Nat]
  BY DEF ShapeInv, Books
<1>2. QED
  BY <1>1 DEF Bump

(* A request for lines of the plan: whatever its answer, the books are in  *)
(* order, and it has written at most those lines.                          *)
LEMMA RequestBooks ==
  ASSUME ShapeInv, MarkInv, NEW S \in SUBSET Bulk, NEW M \in SUBSET Invoices,
         NEW success, NEW failure, Request(S, M, success, failure),
         proc' \in Calls, proc'.direction = proc.direction
  PROVE  ShapeInv' /\ MarkInv' /\ Written \subseteq Written' /\ Written' \subseteq Written \cup S
<1> DEFINE one == Bump(fo.copies, S)
           two == Bump(one, S)
<1>1. S \in SUBSET Lines /\ {} \in SUBSET Bulk
  BY BulkLines
<1>2. /\ one \in [Lines -> Nat] /\ two \in [Lines -> Nat] /\ fo.copies \in [Lines -> Nat]
      /\ \A l \in Lines : /\ IF l \in S THEN one[l] > fo.copies[l] ELSE one[l] = fo.copies[l]
                          /\ IF l \in S THEN two[l] > fo.copies[l] ELSE two[l] = fo.copies[l]
  BY <1>1, Bumped DEF ShapeInv, Books
<1>3. trouble' \in [Troubles -> Nat]
  <2>1. {"lost", "ghosts"} \subseteq Troubles /\ trouble \in [Troubles -> Nat]
    BY DEF Troubles, ShapeInv
  <2>2. SameTroubles \/ Suffer("lost") \/ Suffer("ghosts")
    BY <1>1, RequestSets
  <2>3. QED
    BY <2>1, <2>2, Suffered DEF SameTroubles
<1> HIDE DEF one, two
<1>4. \/ fo' = fo
      \/ /\ M \cap fo.foreign = {}
         /\ Wrote(S, M, one) \/ Wrote(S, M, two) \/ Wrote({}, M, fo.copies)
  BY <1>1, RequestSets DEF one, two
<1>5. CASE fo' = fo
  <2>1. MarkInv' /\ Written' = Written
    BY <1>5, SameDirection DEF MarkInv, Written
  <2>2. QED
    BY <1>3, <1>5, <2>1 DEF ShapeInv
<1>6. CASE M \cap fo.foreign = {} /\ (Wrote(S, M, one) \/ Wrote(S, M, two))
  <2>1. PICK copies \in {one, two} : Wrote(S, M, copies)
    BY <1>6
  <2>2. MarkInv' /\ Written' = Written \cup S /\ \A l \in Lines : fo'.shown[l] <= fo'.copies[l]
    BY <1>2, <1>6, <2>1, WroteKeeps
  <2>3. QED
    BY <1>3, <2>1, <2>2 DEF ShapeInv, Wrote
<1>7. CASE M \cap fo.foreign = {} /\ Wrote({}, M, fo.copies)
  <2>1. MarkInv' /\ Written' = Written \cup {} /\ \A l \in Lines : fo'.shown[l] <= fo'.copies[l]
    BY <1>1, <1>2, <1>7, WroteKeeps
  <2>2. QED
    BY <1>3, <1>7, <2>1 DEF ShapeInv, Wrote
<1>8. QED
  BY <1>4, <1>5, <1>6, <1>7

(* A request that is accepted completes its place in the plan.             *)
LEMMA AcceptedPlans ==
  ASSUME ShapeInv, PlanInv, proc.pc \in InRequest, proc' = Accepted,
         Written' \subseteq Written \cup proc.todo
  PROVE  PlanInv'
<1>1. /\ proc' \in Calls /\ proc'.direction = proc.direction /\ proc'.pc = "patch"
      /\ proc'.at = proc.at + 1 /\ proc'.existing = proc.existing \cup Patch(proc.at)
      /\ proc'.settled = proc.settled \cup MarksOf(proc.todo) /\ proc.at \in Nat
  BY AcceptedSets DEF ShapeInv, Calls
<1>2. /\ Closed(proc.existing) /\ Lines \ Bulk \subseteq proc.existing
      /\ InvoicesOf(proc.existing \cap Bulk) \subseteq proc.settled
      /\ \A p \in 1..(proc.at - 1) : Patch(p) \subseteq proc.existing
      /\ proc.todo = Patch(proc.at) \ proc.existing
      /\ Written \subseteq proc.existing \cup proc.todo
  BY DEF PlanInv, InRequest, Planned
<1>3. Written' \subseteq proc'.existing
  BY <1>1, <1>2
<1>4. Closed(proc.existing)' /\ Lines \ Bulk' \subseteq proc'.existing
  BY <1>1, <1>2, PatchClosed, SameDirection DEF Closed
<1>5. InvoicesOf(proc'.existing \cap Bulk') \subseteq proc'.settled
  BY <1>1, <1>2, PatchClosed, SameDirection DEF InvoicesOf, MarksOf
<1>6. \A p \in 1..(proc'.at - 1) : Patch(p)' \subseteq proc'.existing
  <2> SUFFICES ASSUME NEW p \in 1..proc.at PROVE Patch(p) \subseteq proc'.existing
    BY <1>1, SameDirection
  <2>1. p = proc.at \/ p \in 1..(proc.at - 1)
    BY <1>1
  <2>2. QED
    BY <1>1, <1>2, <2>1
<1>7. QED
  BY <1>1, <1>3, <1>4, <1>5, <1>6 DEF PlanInv, Planned, InRequest

(* A step within a request.                                                *)
LEMMA WithinPlans ==
  ASSUME ShapeInv, PlanInv, proc.pc \in InRequest, proc'.pc \in InRequest \ {"post"},
         proc'.direction = proc.direction, proc'.existing = proc.existing,
         proc'.at = proc.at, proc'.todo = proc.todo, proc'.request \subseteq proc.todo,
         proc.settled \subseteq proc'.settled, Written' \subseteq Written \cup proc.todo
  PROVE  PlanInv'
<1>1. /\ Closed(proc.existing) /\ Lines \ Bulk \subseteq proc.existing
      /\ InvoicesOf(proc.existing \cap Bulk) \subseteq proc.settled
      /\ \A p \in 1..(proc.at - 1) : Patch(p) \subseteq proc.existing
      /\ \A p \in {proc.at} : proc.todo = Patch(p) \ proc.existing
      /\ Written \subseteq proc.existing \cup proc.todo
      /\ proc.at <= Patches /\ proc.todo # {}
  BY DEF PlanInv, InRequest, Planned
<1>2. /\ Bulk' = Bulk /\ Patches' = Patches /\ \A p : Patch(p)' = Patch(p)
      /\ Closed(proc.existing)' <=> Closed(proc.existing)
  BY SameDirection DEF Closed
<1>3. QED
  BY <1>1, <1>2 DEF PlanInv, InRequest, Planned

-----------------------------------------------------------------------------
(* What each step of the plan sets.                                        *)

Refreshed ==
  /\ fo' \in Books /\ fo'.shown = fo.copies /\ fo'.copies = fo.copies
  /\ fo'.withMark = fo.withMark /\ fo'.own = fo.own /\ fo'.foreign = fo.foreign
  /\ fo'.deleted = fo.deleted

LEMMA StartSets ==
  ASSUME ShapeInv, Start
  PROVE  /\ proc' \in Calls /\ proc'.direction = proc.direction /\ proc'.pc = "list"
         /\ proc'.existing = {} /\ proc'.settled = {} /\ proc'.todo = {} /\ proc'.request = {}
         /\ proc'.at = 1
         /\ Refreshed /\ SameTroubles
BY DEF ShapeInv, Start, Proc, Calls, Books, Refreshed, SameTroubles

LEMMA ListSets ==
  ASSUME ShapeInv, ListExisting
  PROVE  /\ fo' = fo /\ SameTroubles
         /\ \/ Reset
            \/ /\ proc' \in Calls /\ proc'.direction = proc.direction /\ proc'.pc = "ledger"
               /\ proc'.existing = Listed /\ proc'.settled = proc.settled /\ proc'.at = proc.at
<1>1. proc \in Calls /\ Listed \subseteq Lines
  BY DEF ShapeInv, Listed
<1>2. fo' = fo /\ SameTroubles
  BY DEF ListExisting, Quiet, SameTroubles
<1>3. CASE Throw
  BY <1>2, <1>3, Thrown
<1>4. CASE ~Throw
  <2>1. proc' = [proc EXCEPT !.existing = Listed, !.pc = "ledger"]
    BY <1>4 DEF ListExisting
  <2>2. QED
    BY <1>1, <1>2, <2>1 DEF Calls
<1>5. QED
  BY <1>3, <1>4

LEMMA LedgerSets ==
  ASSUME ShapeInv, PostCashOutLedgerLine
  PROVE  \E l \in LedgerLeft :
           /\ l \in Lines \ Bulk /\ l \notin proc.existing
           /\ \/ /\ proc' \in Calls /\ proc'.direction = proc.direction /\ proc'.pc = "ledger"
                 /\ proc'.existing = proc.existing \cup {l} /\ proc'.settled = proc.settled
                 /\ proc'.at = proc.at
              \/ Reset
           /\ \/ fo' = fo /\ SameTroubles /\ Reset
              \/ /\ fo' \in Books /\ fo'.withMark = fo.withMark /\ fo'.own = fo.own
                 /\ fo'.foreign = fo.foreign /\ fo'.deleted = fo.deleted
                 /\ \A k \in Lines : k # l => /\ fo'.copies[k] = fo.copies[k]
                                              /\ fo'.shown[k] = fo.shown[k]
                 /\ fo'.shown[l] = fo'.copies[l]
                 /\ \/ fo'.copies[l] = fo.copies[l] + 1 /\ (SameTroubles \/ Suffer("lost"))
                    \/ fo'.copies[l] = fo.copies[l] + 2 /\ Suffer("lost")
<1>1. PICK l \in LedgerLeft :
        LET next == [proc EXCEPT !.existing = @ \cup {l}]
            once == Bump(fo.copies, {l})
            Write(copies) == fo' = [fo EXCEPT !.copies = copies, !.shown[l] = copies[l]]
        IN  \/ Write(once) /\ proc' = next /\ UNCHANGED trouble
            \/ Throw /\ UNCHANGED <<fo, trouble>>
            \/ Write(once) /\ Throw /\ Suffer("lost")
            \/ Write(Bump(once, {l})) /\ proc' = next /\ Suffer("lost")
  BY DEF PostCashOutLedgerLine
<1>2. l \in Lines \ Bulk /\ l \notin proc.existing /\ proc.pc = "ledger"
  BY DEF LedgerLeft, PostCashOutLedgerLine, At
<1> DEFINE one == Bump(fo.copies, {l})
           two == Bump(one, {l})
           Wr(copies) == fo' = [fo EXCEPT !.copies = copies, !.shown[l] = copies[l]]
<1>3. /\ one \in [Lines -> Nat] /\ two \in [Lines -> Nat]
      /\ \A k \in Lines : /\ one[k] = IF k = l THEN fo.copies[k] + 1 ELSE fo.copies[k]
                          /\ two[k] = IF k = l THEN fo.copies[k] + 2 ELSE fo.copies[k]
  BY <1>2, Bumped
<1> HIDE DEF one, two
<1>4. ASSUME NEW copies \in [Lines -> Nat], Wr(copies)
      PROVE  /\ fo' \in Books /\ fo'.withMark = fo.withMark /\ fo'.own = fo.own
             /\ fo'.foreign = fo.foreign /\ fo'.deleted = fo.deleted /\ fo'.copies = copies
             /\ \A k \in Lines : k # l => fo'.shown[k] = fo.shown[k]
             /\ fo'.shown[l] = copies[l]
  BY <1>2, <1>4 DEF ShapeInv, Books
<1>5. ASSUME proc' = [proc EXCEPT !.existing = @ \cup {l}]
      PROVE  /\ proc' \in Calls /\ proc'.direction = proc.direction /\ proc'.pc = "ledger"
             /\ proc'.existing = proc.existing \cup {l} /\ proc'.settled = proc.settled
             /\ proc'.at = proc.at
  <2>1. proc \in Calls /\ proc.existing \cup {l} \in SUBSET Lines
    BY <1>2 DEF ShapeInv, Calls
  <2>2. QED
    BY <1>2, <1>5, <2>1 DEF Calls
<1>6. \/ /\ proc' \in Calls /\ proc'.direction = proc.direction /\ proc'.pc = "ledger"
         /\ proc'.existing = proc.existing \cup {l} /\ proc'.settled = proc.settled
         /\ proc'.at = proc.at
      \/ Reset
  BY <1>1, <1>5, Thrown
<1>7. \/ Wr(one) /\ (SameTroubles \/ Suffer("lost"))
      \/ Wr(two) /\ Suffer("lost")
      \/ fo' = fo /\ SameTroubles /\ Reset
  BY <1>1, Thrown DEF one, two, SameTroubles
<1>8. \/ fo' = fo /\ SameTroubles /\ Reset
      \/ /\ fo' \in Books /\ fo'.withMark = fo.withMark /\ fo'.own = fo.own
         /\ fo'.foreign = fo.foreign /\ fo'.deleted = fo.deleted
         /\ \A k \in Lines : k # l => /\ fo'.copies[k] = fo.copies[k]
                                      /\ fo'.shown[k] = fo.shown[k]
         /\ fo'.shown[l] = fo'.copies[l]
         /\ \/ fo'.copies[l] = fo.copies[l] + 1 /\ (SameTroubles \/ Suffer("lost"))
            \/ fo'.copies[l] = fo.copies[l] + 2 /\ Suffer("lost")
  <2>1. CASE Wr(one) /\ (SameTroubles \/ Suffer("lost"))
    <3> HIDE DEF Wr
    <3>1. /\ fo' \in Books /\ fo'.withMark = fo.withMark /\ fo'.own = fo.own
          /\ fo'.foreign = fo.foreign /\ fo'.deleted = fo.deleted /\ fo'.copies = one
          /\ \A k \in Lines : k # l => fo'.shown[k] = fo.shown[k]
          /\ fo'.shown[l] = one[l]
      BY <1>3, <1>4, <2>1
    <3>2. QED
      BY <1>2, <1>3, <2>1, <3>1
  <2>2. CASE Wr(two) /\ Suffer("lost")
    <3> HIDE DEF Wr
    <3>1. /\ fo' \in Books /\ fo'.withMark = fo.withMark /\ fo'.own = fo.own
          /\ fo'.foreign = fo.foreign /\ fo'.deleted = fo.deleted /\ fo'.copies = two
          /\ \A k \in Lines : k # l => fo'.shown[k] = fo.shown[k]
          /\ fo'.shown[l] = two[l]
      BY <1>3, <1>4, <2>2
    <3>2. QED
      BY <1>2, <1>3, <2>2, <3>1
  <2>3. QED
    BY <1>7, <2>1, <2>2
<1>9. QED
  BY <1>2, <1>6, <1>8

LEMMA RepairedLines ==
  ASSUME NEW S \in SUBSET Lines
  PROVE  RepairPartial(S) \in SUBSET Lines /\ S \subseteq RepairPartial(S)
BY BulkLines DEF RepairPartial

LEMMA PlanSets ==
  ASSUME ShapeInv, PlanPatches
  PROVE  /\ fo' = fo /\ SameTroubles /\ proc.pc = "ledger"
         /\ proc' \in Calls /\ proc'.direction = proc.direction /\ proc'.pc = "patch"
         /\ proc'.at = proc.at
         /\ proc'.existing = RepairPartial(proc.existing)
         /\ proc'.settled = InvoicesOf(RepairPartial(proc.existing) \cap Bulk)
<1> DEFINE existing == RepairPartial(proc.existing)
           settled == InvoicesOf(existing \cap Bulk)
<1>1. proc \in Calls /\ proc.existing \in SUBSET Lines
  BY DEF ShapeInv, Calls
<1>2. existing \in SUBSET Lines
  BY <1>1, RepairedLines
<1>3. settled \in SUBSET Invoices
  BY <1>2 DEF InvoicesOf, Invoices
<1>4. proc' = [proc EXCEPT !.existing = existing, !.settled = settled, !.pc = "patch"]
  BY DEF PlanPatches
<1>5. fo' = fo /\ SameTroubles /\ proc.pc = "ledger"
  BY DEF PlanPatches, Quiet, At, SameTroubles
<1> HIDE DEF existing, settled
<1>6. /\ proc' \in Calls /\ proc'.direction = proc.direction /\ proc'.pc = "patch"
      /\ proc'.at = proc.at /\ proc'.existing = existing /\ proc'.settled = settled
  BY <1>1, <1>2, <1>3, <1>4 DEF Calls
<1>7. QED
  BY <1>5, <1>6 DEF existing, settled

LEMMA SkipSets ==
  ASSUME ShapeInv, SkipPatch
  PROVE  /\ fo' = fo /\ SameTroubles /\ proc.pc = "patch" /\ Patch(proc.at) \subseteq proc.existing
         /\ proc' \in Calls /\ proc'.direction = proc.direction /\ proc'.pc = "patch"
         /\ proc'.at = proc.at + 1 /\ proc'.existing = proc.existing
         /\ proc'.settled = proc.settled \cup InvoicesOf(Patch(proc.at))
<1> DEFINE settled == proc.settled \cup InvoicesOf(Patch(proc.at))
<1>1. proc \in Calls
  BY DEF ShapeInv
<1>2. settled \in SUBSET Invoices /\ proc.at + 1 \in Nat \ {0}
  BY <1>1, PatchClosed, BulkLines DEF InvoicesOf, Invoices, Calls
<1>3. proc' = [proc EXCEPT !.at = proc.at + 1, !.settled = settled]
  BY DEF SkipPatch
<1>4. fo' = fo /\ SameTroubles /\ proc.pc = "patch" /\ Patch(proc.at) \subseteq proc.existing
  BY DEF SkipPatch, Quiet, At, SameTroubles
<1> HIDE DEF settled
<1>5. /\ proc'.direction = proc.direction /\ proc'.pc = "patch"
      /\ proc'.at = proc.at + 1 /\ proc'.existing = proc.existing /\ proc'.settled = settled
  BY <1>1, <1>3, <1>4 DEF Calls
<1>6. proc' \in Calls
  BY <1>1, <1>2, <1>3 DEF Calls
<1>7. QED
  BY <1>4, <1>5, <1>6 DEF settled

LEMMA CountSets ==
  ASSUME ShapeInv, CountBefore
  PROVE  LET todo == Patch(proc.at) \ proc.existing IN
         /\ fo' = fo /\ proc.pc = "patch" /\ proc.at <= Patches /\ todo # {}
         /\ LateCounts \/ fo.shown = fo.copies
         /\ proc' \in Calls /\ proc'.direction = proc.direction /\ proc'.pc = "post"
         /\ proc'.at = proc.at /\ proc'.existing = proc.existing
         /\ proc'.settled = proc.settled /\ proc'.todo = todo /\ proc'.request = todo
         /\ \/ proc'.before = IntegrityCount /\ SameTroubles
            \/ Suffer("unread")
<1> DEFINE todo == Patch(proc.at) \ proc.existing
<1>1. proc \in Calls /\ IntegrityCount \in Nat /\ 0 \in Nat
  BY ListedFinite DEF ShapeInv
<1>2. todo \in SUBSET Lines
  BY PatchClosed, BulkLines
<1>3. /\ fo' = fo /\ proc.pc = "patch" /\ proc.at <= Patches /\ todo # {}
      /\ LateCounts \/ fo.shown = fo.copies
  BY DEF CountBefore, At
<1>4. PICK n \in Nat : /\ proc' = [proc EXCEPT !.pc = "post", !.before = n, !.todo = todo,
                                     !.request = todo]
                       /\ (n = IntegrityCount /\ SameTroubles) \/ Suffer("unread")
  BY <1>1 DEF CountBefore, SameTroubles
<1> HIDE DEF todo
<1>5. /\ proc' \in Calls /\ proc'.direction = proc.direction /\ proc'.pc = "post"
      /\ proc'.at = proc.at /\ proc'.existing = proc.existing
      /\ proc'.settled = proc.settled /\ proc'.todo = todo /\ proc'.request = todo
      /\ proc'.before = n
  BY <1>1, <1>2, <1>4 DEF Calls
<1>6. QED
  BY <1>3, <1>4, <1>5 DEF todo

(* The call as it is, at another place.                                    *)
SamePlan == /\ proc'.direction = proc.direction /\ proc'.at = proc.at
            /\ proc'.existing = proc.existing /\ proc'.todo = proc.todo
            /\ proc'.before = proc.before

LEMMA FinishSets ==
  ASSUME ShapeInv, Finish
  PROVE  /\ fo' = fo /\ SameTroubles /\ proc.pc = "patch" /\ proc.at > Patches
         /\ proc' \in Calls /\ SamePlan /\ proc'.pc = "done" /\ proc'.settled = proc.settled
BY DEF ShapeInv, Finish, At, Go, Quiet, Calls, SameTroubles, SamePlan

LEMMA WaitSets ==
  ASSUME ShapeInv, WaitForLines
  PROVE  /\ fo' = fo /\ proc.pc = "wait"
         /\ proc' \in Calls /\ SamePlan /\ proc'.pc = "recover" /\ proc'.fail = proc.fail
         /\ proc'.settled = proc.settled /\ proc'.request = proc.request
         /\ \/ proc'.seen = IntegrityCount /\ SameTroubles
            \/ Suffer("unread")
<1>1. proc \in Calls /\ IntegrityCount \in Nat /\ 0 \in Nat
  BY ListedFinite DEF ShapeInv
<1>2. fo' = fo /\ proc.pc = "wait"
  BY DEF WaitForLines, At
<1>3. PICK n \in Nat : /\ proc' = [proc EXCEPT !.pc = "recover", !.seen = n]
                       /\ (n = IntegrityCount /\ SameTroubles) \/ Suffer("unread")
  BY <1>1 DEF WaitForLines, SameTroubles
<1>4. /\ proc' \in Calls /\ SamePlan /\ proc'.pc = "recover" /\ proc'.fail = proc.fail
      /\ proc'.settled = proc.settled /\ proc'.request = proc.request /\ proc'.seen = n
  BY <1>1, <1>3 DEF Calls, SamePlan
<1>5. QED
  BY <1>2, <1>3, <1>4

LEMMA RecoverSets ==
  ASSUME ShapeInv, RecoverAlreadyMarked
  PROVE  LET missing == MissingOf(proc.todo) IN
         /\ fo' = fo /\ SameTroubles /\ proc.pc = "recover"
         /\ \/ Reset
            \/ proc' = Accepted /\ (proc.fail = "self" \/ missing = {})
            \/ /\ ~RematchRefused(missing) /\ missing # {}
               /\ proc' \in Calls /\ SamePlan /\ proc'.pc = "rematch" /\ proc'.fail = proc.fail
               /\ proc'.request = missing
               /\ \E refreshed \in {{}, SettledInFinance} :
                    proc'.settled = proc.settled \cup refreshed
<1> DEFINE missing == MissingOf(proc.todo)
<1>1. proc \in Calls /\ missing \in SUBSET Lines
  BY DEF ShapeInv, Calls, MissingOf
<1>2. fo' = fo /\ SameTroubles /\ proc.pc = "recover"
  BY DEF RecoverAlreadyMarked, Quiet, At, SameTroubles
<1>3. SettledInFinance \subseteq Invoices
  BY DEF ShapeInv, Books, SettledInFinance, InvoicesOf, Invoices
<1>4. \/ Throw
      \/ proc' = Accepted /\ (proc.fail = "self" \/ missing = {})
      \/ /\ ~RematchRefused(missing) /\ missing # {}
         /\ \E refreshed \in {{}, SettledInFinance} :
              proc' = [proc EXCEPT !.pc = "rematch", !.request = missing,
                         !.settled = proc.settled \cup refreshed]
  BY DEF RecoverAlreadyMarked
<1> HIDE DEF missing
<1>5. CASE \E refreshed \in {{}, SettledInFinance} :
              proc' = [proc EXCEPT !.pc = "rematch", !.request = missing,
                         !.settled = proc.settled \cup refreshed]
  <2>1. PICK refreshed \in {{}, SettledInFinance} :
              proc' = [proc EXCEPT !.pc = "rematch", !.request = missing,
                         !.settled = proc.settled \cup refreshed]
    BY <1>5
  <2>2. proc.settled \cup refreshed \in SUBSET Invoices
    BY <1>1, <1>3 DEF Calls
  <2>3. /\ proc' \in Calls /\ SamePlan /\ proc'.pc = "rematch" /\ proc'.fail = proc.fail
        /\ proc'.request = missing /\ proc'.settled = proc.settled \cup refreshed
    BY <1>1, <2>1, <2>2 DEF Calls, SamePlan
  <2>4. QED
    BY <1>2, <1>4, <2>1, <2>3, Thrown DEF missing, Accepted, Throw, Proc
<1>6. QED
  BY <1>2, <1>4, <1>5, Thrown DEF missing

LEMMA RetrySets ==
  ASSUME ShapeInv, PrepareUnmarkedRetry
  PROVE  LET retry == CompleteUnmarked(MissingOf(RetryCandidates)) IN
         /\ fo' = fo /\ SameTroubles /\ proc.pc = "unmark"
         /\ \/ Reset
            \/ proc' = Accepted /\ CanUnmarkedRetry /\ retry = {}
            \/ /\ CanUnmarkedRetry
               /\ proc' \in Calls /\ SamePlan /\ proc'.pc = "plain" /\ proc'.fail = proc.fail
               /\ proc'.request = retry /\ proc'.settled = proc.settled
<1> DEFINE retry == CompleteUnmarked(MissingOf(RetryCandidates))
<1>1. proc \in Calls /\ retry \in SUBSET Lines
  BY DEF ShapeInv, Calls, CompleteUnmarked
<1>2. fo' = fo /\ SameTroubles /\ proc.pc = "unmark"
  BY DEF PrepareUnmarkedRetry, Quiet, At, SameTroubles
<1>3. \/ Throw
      \/ proc' = Accepted /\ CanUnmarkedRetry /\ retry = {}
      \/ CanUnmarkedRetry /\ proc' = [proc EXCEPT !.pc = "plain", !.request = retry]
  BY DEF PrepareUnmarkedRetry
<1> HIDE DEF retry
<1>4. proc' = [proc EXCEPT !.pc = "plain", !.request = retry] =>
        /\ proc' \in Calls /\ SamePlan /\ proc'.pc = "plain" /\ proc'.fail = proc.fail
        /\ proc'.request = retry /\ proc'.settled = proc.settled
  BY <1>1 DEF Calls, SamePlan
<1>5. QED
  BY <1>2, <1>3, <1>4, Thrown DEF retry

LEMMA CatchUpSets ==
  ASSUME ShapeInv, CatchUp
  PROVE  Refreshed /\ SameTroubles /\ proc' = proc
BY DEF ShapeInv, CatchUp, Books, Refreshed, SameTroubles

LEMMA DeleteSets ==
  ASSUME ShapeInv, NEW d \in Lines, FinanceDeletesLine(d)
  PROVE  /\ proc' = proc /\ Suffer("deleted") /\ fo' \in Books /\ fo.shown[d] > 0
         /\ fo'.copies[d] = 0 /\ fo'.shown[d] = 0
         /\ \A l \in Lines : l # d => fo'.copies[l] = fo.copies[l] /\ fo'.shown[l] = fo.shown[l]
         /\ fo'.withMark = fo.withMark \ {d} /\ fo'.foreign = fo.foreign
         /\ fo'.own = fo.own \ (InvoicesOf({d}) \ InvoicesOf(fo.withMark \ {d}))
         /\ fo'.deleted = fo.deleted \cup {d}
<1> DEFINE marked == fo.withMark \ {d}
           own == fo.own \ (InvoicesOf({d}) \ InvoicesOf(marked))
           copies == [fo.copies EXCEPT ![d] = 0]
           shown == [fo.shown EXCEPT ![d] = 0]
           deleted == fo.deleted \cup {d}
<1>1. fo \in Books
  BY DEF ShapeInv
<1>2. /\ marked \in SUBSET Lines /\ own \in SUBSET Invoices /\ deleted \in SUBSET Lines
      /\ copies \in [Lines -> Nat] /\ shown \in [Lines -> Nat]
      /\ copies[d] = 0 /\ shown[d] = 0
      /\ \A l \in Lines : l # d => copies[l] = fo.copies[l] /\ shown[l] = fo.shown[l]
  BY <1>1 DEF Books
<1>3. fo' = [fo EXCEPT !.copies = copies, !.shown = shown, !.withMark = marked,
               !.own = own, !.deleted = deleted]
  BY <1>1 DEF FinanceDeletesLine, Books
<1>4. proc' = proc /\ Suffer("deleted") /\ fo.shown[d] > 0
  BY DEF FinanceDeletesLine
<1> HIDE DEF marked, own, copies, shown, deleted
<1>5. /\ fo' \in Books /\ fo'.copies = copies /\ fo'.shown = shown /\ fo'.deleted = deleted
      /\ fo'.withMark = marked /\ fo'.own = own /\ fo'.foreign = fo.foreign
  BY <1>1, <1>2, <1>3 DEF Books
<1>6. /\ fo'.withMark = fo.withMark \ {d} /\ fo'.deleted = fo.deleted \cup {d}
      /\ fo'.own = fo.own \ (InvoicesOf({d}) \ InvoicesOf(fo.withMark \ {d}))
  BY <1>5 DEF marked, own, deleted
<1>7. QED
  BY <1>2, <1>4, <1>5, <1>6

(* A request of the plan, with its marks.                                  *)
Marks == IF proc.pc = "plain" THEN {} ELSE MarksOf(proc.request)
AfterFailure(why) ==
  IF proc.pc = "post" /\ why # "amount" THEN Failed("wait", why) ELSE Failed("unmark", why)

LEMMA PostSets ==
  ASSUME ShapeInv, PostPatch \/ Rematch \/ PostUnmarked
  PROVE  /\ proc.pc \in {"post", "rematch", "plain"}
         /\ Marks \in SUBSET Invoices
         /\ \E failure : /\ Request(proc.request, Marks, Accepted, failure)
                         /\ \A why \in Refusals : failure[why] = AfterFailure(why)
<1>1. Marks \in SUBSET Invoices
  BY DEF ShapeInv, Calls, Marks, MarksOf, InvoicesOf, Invoices
<1>2. CASE PostPatch
  <2> DEFINE failure == [why \in Refusals |->
                    Failed(IF why = "amount" THEN "unmark" ELSE "wait", why)]
  <2>1. proc.pc = "post" /\ Marks = MarksOf(proc.request)
    BY <1>2 DEF PostPatch, At, Marks
  <2>2. Request(proc.request, Marks, Accepted, failure)
    BY <1>2, <2>1 DEF PostPatch
  <2>3. \A why \in Refusals : failure[why] = AfterFailure(why)
    BY <2>1 DEF AfterFailure
  <2> HIDE DEF failure
  <2>4. QED
    BY <1>1, <2>1, <2>2, <2>3
<1>3. CASE Rematch \/ PostUnmarked
  <2> DEFINE failure == [why \in Refusals |-> Failed("unmark", why)]
  <2>1. proc.pc \in {"rematch", "plain"}
    BY <1>3 DEF Rematch, PostUnmarked, At
  <2>2. Request(proc.request, Marks, Accepted, failure)
    BY <1>3 DEF Rematch, PostUnmarked, At, Marks
  <2>3. \A why \in Refusals : failure[why] = AfterFailure(why)
    BY <2>1 DEF AfterFailure
  <2> HIDE DEF failure
  <2>4. QED
    BY <1>1, <2>1, <2>2, <2>3
<1>4. QED
  BY <1>2, <1>3

-----------------------------------------------------------------------------
(* PlannedInv is inductive.                                                *)

LEMMA SameBooks ==
  ASSUME ShapeInv, MarkInv, fo' = fo, trouble' \in [Troubles -> Nat],
         proc' \in Calls, proc'.direction = proc.direction
  PROVE  ShapeInv' /\ MarkInv' /\ Written' = Written
<1>1. Bulk' = Bulk
  BY SameDirection
<1>2. QED
  BY <1>1 DEF ShapeInv, MarkInv, Written

LEMMA TroublesKept ==
  ASSUME ShapeInv, SameTroubles \/ \E what \in Troubles : Suffer(what)
  PROVE  trouble' \in [Troubles -> Nat]
BY Suffered DEF ShapeInv, SameTroubles

LEMMA ResetPlanned ==
  ASSUME PlannedInv, Reset, fo' = fo, SameTroubles
  PROVE  PlannedInv'
BY SameBooks, ResetPlans, TroublesKept DEF PlannedInv, Reset

LEMMA PostPlanned ==
  ASSUME PlannedInv, PostPatch \/ Rematch \/ PostUnmarked
  PROVE  /\ PlannedInv' /\ Written' \subseteq Written \cup proc.request
         /\ Written \subseteq Written' /\ proc'.direction = proc.direction
<1>1. /\ ShapeInv /\ PlanInv /\ MarkInv /\ proc.pc \in InRequest
      /\ proc.request \subseteq proc.todo
  BY PostSets DEF PlannedInv, PlanInv, InRequest
<1>2. proc.request \in SUBSET Bulk
  BY <1>1, PatchClosed DEF PlanInv
<1>3. Marks \in SUBSET Invoices
  BY <1>1, PostSets
<1>4. PICK failure : /\ Request(proc.request, Marks, Accepted, failure)
                     /\ \A why \in Refusals : failure[why] = AfterFailure(why)
  BY <1>1, PostSets
<1>5. \/ Throw \/ proc' = Accepted
      \/ \E why \in Refusals : proc' = AfterFailure(why)
  BY <1>2, <1>4, BulkLines DEF Request, Refusals
<1>6. ASSUME proc' \in Calls, proc'.direction = proc.direction
      PROVE  /\ ShapeInv' /\ MarkInv' /\ Written \subseteq Written'
             /\ Written' \subseteq Written \cup proc.request
  BY <1>1, <1>2, <1>3, <1>4, <1>6, RequestBooks
<1>7. CASE Throw
  BY <1>1, <1>6, <1>7, Thrown, ResetPlans DEF PlannedInv, Reset
<1>8. CASE proc' = Accepted
  BY <1>1, <1>6, <1>8, AcceptedSets, AcceptedPlans DEF PlannedInv
<1>9. CASE \E why \in Refusals : proc' = AfterFailure(why)
  <2>1. PICK why \in Refusals, pc \in {"wait", "unmark"} : proc' = Failed(pc, why)
    BY <1>9 DEF AfterFailure
  <2>2. /\ proc' \in Calls /\ proc'.direction = proc.direction /\ proc'.pc = pc
        /\ proc'.fail = why /\ proc'.at = proc.at /\ proc'.existing = proc.existing
        /\ proc'.settled = proc.settled /\ proc'.todo = proc.todo
        /\ proc'.request = proc.request
    BY <1>1, <2>1, FailedSets
  <2>3. proc'.pc \in InRequest \ {"post"}
    BY <2>2 DEF InRequest
  <2>4. PlanInv'
    BY <1>1, <1>6, <2>2, <2>3, WithinPlans
  <2>5. QED
    BY <1>6, <2>2, <2>4 DEF PlannedInv
<1>10. QED
  BY <1>5, <1>7, <1>8, <1>9

LEMMA StartPlanned ==
  ASSUME PlannedInv, Start PROVE PlannedInv'
<1>1. /\ proc' \in Calls /\ proc'.direction = proc.direction /\ proc'.pc = "list"
      /\ proc'.existing = {} /\ proc'.at = 1 /\ Refreshed /\ SameTroubles
      /\ ShapeInv /\ MarkInv
  BY StartSets DEF PlannedInv
<1>2. trouble' \in [Troubles -> Nat] /\ Bulk' = Bulk
  BY <1>1, TroublesKept, SameDirection
<1>3. ShapeInv' /\ MarkInv'
  BY <1>1, <1>2 DEF ShapeInv, MarkInv, Written, Refreshed, Books
<1>4. PlanInv'
  BY <1>1 DEF PlanInv, Refreshed, Planned, InRequest
<1>5. QED
  BY <1>3, <1>4 DEF PlannedInv

LEMMA ListPlanned ==
  ASSUME PlannedInv, ListExisting PROVE PlannedInv'
<1>1. /\ ShapeInv /\ PlanInv /\ MarkInv /\ proc.pc = "list" /\ fo' = fo /\ SameTroubles
  BY ListSets DEF PlannedInv, ListExisting, At
<1>2. CASE Reset
  BY <1>1, <1>2, ResetPlanned
<1>3. CASE ~Reset
  <2>1. /\ proc' \in Calls /\ proc'.direction = proc.direction /\ proc'.pc = "ledger"
        /\ proc'.existing = Listed /\ proc'.at = proc.at
    BY <1>1, <1>3, ListSets
  <2>2. Written = Listed /\ proc.at = 1
    BY <1>1 DEF PlanInv, Written, Listed, Planned
  <2>3. ShapeInv' /\ MarkInv' /\ Written' = Written
    BY <1>1, <2>1, SameBooks, TroublesKept
  <2>4. PlanInv'
    BY <2>1, <2>2, <2>3 DEF PlanInv, Planned, InRequest
  <2>5. QED
    BY <2>3, <2>4 DEF PlannedInv
<1>4. QED
  BY <1>2, <1>3

LEMMA LedgerPlanned ==
  ASSUME PlannedInv, PostCashOutLedgerLine PROVE PlannedInv'
<1>1. ShapeInv /\ PlanInv /\ MarkInv /\ proc.pc = "ledger"
  BY DEF PlannedInv, PostCashOutLedgerLine, At
<1>2. PICK l \in LedgerLeft :
           /\ l \in Lines \ Bulk /\ l \notin proc.existing
           /\ \/ /\ proc' \in Calls /\ proc'.direction = proc.direction /\ proc'.pc = "ledger"
                 /\ proc'.existing = proc.existing \cup {l} /\ proc'.settled = proc.settled
                 /\ proc'.at = proc.at
              \/ Reset
           /\ \/ fo' = fo /\ SameTroubles /\ Reset
              \/ /\ fo' \in Books /\ fo'.withMark = fo.withMark /\ fo'.own = fo.own
                 /\ fo'.foreign = fo.foreign /\ fo'.deleted = fo.deleted
                 /\ \A k \in Lines : k # l => /\ fo'.copies[k] = fo.copies[k]
                                              /\ fo'.shown[k] = fo.shown[k]
                 /\ fo'.shown[l] = fo'.copies[l]
                 /\ \/ fo'.copies[l] = fo.copies[l] + 1 /\ (SameTroubles \/ Suffer("lost"))
                    \/ fo'.copies[l] = fo.copies[l] + 2 /\ Suffer("lost")
  BY <1>1, LedgerSets
<1>3. CASE fo' = fo /\ SameTroubles /\ Reset
  BY <1>3, ResetPlanned
<1>4. CASE ~(fo' = fo /\ SameTroubles /\ Reset)
  <2>1. /\ fo' \in Books /\ fo'.withMark = fo.withMark /\ fo'.own = fo.own
        /\ fo'.foreign = fo.foreign
        /\ \A k \in Lines : k # l => /\ fo'.copies[k] = fo.copies[k]
                                     /\ fo'.shown[k] = fo.shown[k]
        /\ fo'.shown[l] = fo'.copies[l]
        /\ fo'.copies[l] > 0 /\ fo'.copies[l] \in Nat
        /\ SameTroubles \/ Suffer("lost")
    BY <1>1, <1>2, <1>4 DEF ShapeInv, Books
  <2>2. /\ trouble' \in [Troubles -> Nat]
        /\ proc' \in Calls /\ proc'.direction = proc.direction /\ Bulk' = Bulk
    BY <1>1, <1>2, <2>1, TroublesKept, SameDirection DEF Troubles, Reset
  <2>3. Written' = Written \cup {l}
    BY <1>2, <2>1 DEF Written
  <2>4. ShapeInv'
    BY <1>1, <2>1, <2>2 DEF ShapeInv, Books
  <2>5. MarkInv'
    BY <1>1, <2>1, <2>2, <2>3 DEF MarkInv
  <2>6. PlanInv'
    <3>1. CASE Reset
      BY <3>1, ResetPlans
    <3>2. CASE ~Reset
      BY <1>1, <1>2, <2>3, <3>2 DEF PlanInv, Planned, InRequest
    <3>3. QED
      BY <3>1, <3>2
  <2>7. QED
    BY <2>4, <2>5, <2>6 DEF PlannedInv
<1>5. QED
  BY <1>3, <1>4

LEMMA PlanPlanned ==
  ASSUME PlannedInv, PlanPatches PROVE PlannedInv'
<1> DEFINE existing == RepairPartial(proc.existing)
<1>1. /\ ShapeInv /\ PlanInv /\ MarkInv /\ LedgerLeft = {}
      /\ fo' = fo /\ SameTroubles /\ proc.pc = "ledger"
      /\ proc' \in Calls /\ proc'.direction = proc.direction /\ proc'.pc = "patch"
      /\ proc'.at = 1 /\ proc'.existing = existing
      /\ proc'.settled = InvoicesOf(existing \cap Bulk)
  BY PlanSets DEF PlannedInv, PlanPatches, PlanInv, Planned
<1>2. /\ Closed(existing) /\ proc.existing \subseteq existing
  BY DEF Closed, RepairPartial, GroupsOf
<1>3. /\ Written \subseteq proc.existing /\ Lines \ Bulk \subseteq proc.existing
  BY <1>1 DEF PlanInv, LedgerLeft
<1>4. ShapeInv' /\ MarkInv' /\ Written' = Written
  BY <1>1, SameBooks, TroublesKept
<1>5. Bulk' = Bulk /\ Closed(proc.existing)'
  BY <1>1, <1>2, SameDirection DEF Closed
<1>6. 1..(proc'.at - 1) = {}
  BY <1>1
<1>7. PlanInv'
  BY <1>1, <1>2, <1>3, <1>4, <1>5, <1>6 DEF PlanInv, Planned, InRequest, InvoicesOf
<1>8. QED
  BY <1>4, <1>7 DEF PlannedInv

LEMMA SkipPlanned ==
  ASSUME PlannedInv, SkipPatch PROVE PlannedInv'
<1>1. /\ ShapeInv /\ PlanInv /\ MarkInv
      /\ fo' = fo /\ SameTroubles /\ proc.pc = "patch" /\ Patch(proc.at) \subseteq proc.existing
      /\ proc' \in Calls /\ proc'.direction = proc.direction /\ proc'.pc = "patch"
      /\ proc'.at = proc.at + 1 /\ proc'.existing = proc.existing
      /\ proc.settled \subseteq proc'.settled /\ proc.at \in Nat
  BY SkipSets DEF PlannedInv, ShapeInv, Calls
<1>2. /\ Bulk' = Bulk /\ \A p : Patch(p)' = Patch(p)
      /\ Closed(proc.existing) /\ Closed(proc.existing)'
  BY <1>1, SameDirection DEF PlanInv, Planned, Closed
<1>3. ShapeInv' /\ MarkInv' /\ Written' = Written
  BY <1>1, SameBooks, TroublesKept
<1>4. \A p \in 1..(proc'.at - 1) : Patch(p)' \subseteq proc.existing
  <2> SUFFICES ASSUME NEW p \in 1..proc.at PROVE Patch(p) \subseteq proc.existing
    BY <1>1, <1>2
  <2>1. p = proc.at \/ p \in 1..(proc.at - 1)
    BY <1>1
  <2>2. QED
    BY <1>1, <2>1 DEF PlanInv, Planned
<1>5. PlanInv'
  BY <1>1, <1>2, <1>3, <1>4 DEF PlanInv, Planned, InRequest
<1>6. QED
  BY <1>3, <1>5 DEF PlannedInv

LEMMA FinishPlanned ==
  ASSUME PlannedInv, Finish PROVE PlannedInv'
<1>1. /\ ShapeInv /\ PlanInv /\ MarkInv
      /\ fo' = fo /\ SameTroubles /\ proc.pc = "patch" /\ proc.at > Patches
      /\ proc' \in Calls /\ SamePlan /\ proc'.pc = "done" /\ proc'.settled = proc.settled
  BY FinishSets DEF PlannedInv
<1>2. /\ Bulk' = Bulk /\ Patches' = Patches /\ \A p : Patch(p)' = Patch(p)
      /\ Closed(proc.existing) /\ Closed(proc.existing)'
  BY <1>1, SameDirection DEF PlanInv, Planned, Closed, SamePlan
<1>3. ShapeInv' /\ MarkInv' /\ Written' = Written
  BY <1>1, SameBooks, TroublesKept DEF SamePlan
<1>4. PlanInv'
  BY <1>1, <1>2, <1>3 DEF PlanInv, Planned, InRequest, SamePlan
<1>5. QED
  BY <1>3, <1>4 DEF PlannedInv

LEMMA CountPlanned ==
  ASSUME PlannedInv, CountBefore PROVE PlannedInv'
<1> DEFINE todo == Patch(proc.at) \ proc.existing
<1>1. /\ ShapeInv /\ PlanInv /\ MarkInv
      /\ fo' = fo /\ proc.pc = "patch" /\ proc.at <= Patches /\ todo # {}
      /\ proc' \in Calls /\ proc'.direction = proc.direction /\ proc'.pc = "post"
      /\ proc'.at = proc.at /\ proc'.existing = proc.existing
      /\ proc'.settled = proc.settled /\ proc'.todo = todo /\ proc'.request = todo
      /\ SameTroubles \/ Suffer("unread")
  BY CountSets DEF PlannedInv
<1>2. /\ Bulk' = Bulk /\ Patches' = Patches /\ \A p : Patch(p)' = Patch(p)
      /\ Closed(proc.existing) /\ Closed(proc.existing)'
  BY <1>1, SameDirection DEF PlanInv, Planned, Closed
<1>3. ShapeInv' /\ MarkInv' /\ Written' = Written
  BY <1>1, SameBooks, TroublesKept DEF Troubles
<1>4. \A p \in {proc'.at} : proc'.todo = Patch(p)' \ proc'.existing
  BY <1>1, <1>2
<1> HIDE DEF todo
<1>5. PlanInv'
  BY <1>1, <1>2, <1>3, <1>4 DEF PlanInv, Planned, InRequest
<1>6. QED
  BY <1>3, <1>5 DEF PlannedInv

LEMMA WaitPlanned ==
  ASSUME PlannedInv, WaitForLines PROVE PlannedInv'
<1>1. /\ ShapeInv /\ PlanInv /\ MarkInv
      /\ fo' = fo /\ proc.pc = "wait"
      /\ proc' \in Calls /\ SamePlan /\ proc'.pc = "recover"
      /\ proc'.settled = proc.settled /\ proc'.request = proc.request
      /\ SameTroubles \/ Suffer("unread")
  BY WaitSets DEF PlannedInv
<1>2. ShapeInv' /\ MarkInv' /\ Written' = Written
  BY <1>1, SameBooks, TroublesKept DEF Troubles, SamePlan
<1>3. proc.pc \in InRequest /\ proc'.pc \in InRequest \ {"post"}
      /\ proc'.request \subseteq proc.todo
  BY <1>1 DEF InRequest, PlanInv
<1>4. PlanInv'
  BY <1>1, <1>2, <1>3, WithinPlans DEF SamePlan
<1>5. QED
  BY <1>2, <1>4 DEF PlannedInv

LEMMA RecoverPlanned ==
  ASSUME PlannedInv, RecoverAlreadyMarked PROVE PlannedInv'
<1>1. /\ ShapeInv /\ PlanInv /\ MarkInv
      /\ fo' = fo /\ SameTroubles /\ proc.pc = "recover" /\ proc.pc \in InRequest
      /\ \/ Reset \/ proc' = Accepted
         \/ /\ proc' \in Calls /\ SamePlan /\ proc'.pc = "rematch"
            /\ proc'.request = MissingOf(proc.todo)
            /\ proc.settled \subseteq proc'.settled
  BY RecoverSets DEF PlannedInv, InRequest
<1>2. CASE Reset
  BY <1>1, <1>2, ResetPlanned
<1>3. CASE proc' = Accepted
  <2>1. proc' \in Calls /\ proc'.direction = proc.direction
    BY <1>1, <1>3, AcceptedSets
  <2>2. ShapeInv' /\ MarkInv' /\ Written' = Written
    BY <1>1, <2>1, SameBooks, TroublesKept
  <2>3. PlanInv'
    BY <1>1, <1>3, <2>2, AcceptedPlans
  <2>4. QED
    BY <2>2, <2>3 DEF PlannedInv
<1>4. CASE ~Reset /\ proc' # Accepted
  <2>1. proc'.pc \in InRequest \ {"post"} /\ MissingOf(proc.todo) \subseteq proc.todo
    BY <1>1, <1>4 DEF InRequest, MissingOf
  <2>2. ShapeInv' /\ MarkInv' /\ Written' = Written
    BY <1>1, <1>4, SameBooks, TroublesKept DEF SamePlan
  <2>3. PlanInv'
    BY <1>1, <1>4, <2>1, <2>2, WithinPlans DEF SamePlan
  <2>4. QED
    BY <2>2, <2>3 DEF PlannedInv
<1>5. QED
  BY <1>2, <1>3, <1>4

LEMMA RetryPlanned ==
  ASSUME PlannedInv, PrepareUnmarkedRetry PROVE PlannedInv'
<1> DEFINE retry == CompleteUnmarked(MissingOf(RetryCandidates))
<1>1. /\ ShapeInv /\ PlanInv /\ MarkInv
      /\ fo' = fo /\ SameTroubles /\ proc.pc = "unmark" /\ proc.pc \in InRequest
      /\ \/ Reset \/ proc' = Accepted
         \/ /\ proc' \in Calls /\ SamePlan /\ proc'.pc = "plain"
            /\ proc'.request = retry /\ proc'.settled = proc.settled
  BY RetrySets DEF PlannedInv, InRequest
<1>2. CASE Reset
  BY <1>1, <1>2, ResetPlanned
<1>3. CASE proc' = Accepted
  <2>1. proc' \in Calls /\ proc'.direction = proc.direction
    BY <1>1, <1>3, AcceptedSets
  <2>2. ShapeInv' /\ MarkInv' /\ Written' = Written
    BY <1>1, <2>1, SameBooks, TroublesKept
  <2>3. PlanInv'
    BY <1>1, <1>3, <2>2, AcceptedPlans
  <2>4. QED
    BY <2>2, <2>3 DEF PlannedInv
<1>4. CASE ~Reset /\ proc' # Accepted
  <2>1. proc'.pc \in InRequest \ {"post"} /\ retry \subseteq proc.todo
    BY <1>1, <1>4 DEF InRequest, CompleteUnmarked
  <2> HIDE DEF retry
  <2>2. ShapeInv' /\ MarkInv' /\ Written' = Written
    BY <1>1, <1>4, SameBooks, TroublesKept DEF SamePlan
  <2>3. PlanInv'
    BY <1>1, <1>4, <2>1, <2>2, WithinPlans DEF SamePlan
  <2>4. QED
    BY <2>2, <2>3 DEF PlannedInv
<1>5. QED
  BY <1>2, <1>3, <1>4

(* Finance on its own: it writes nothing.                                  *)
LEMMA FinancePlans ==
  ASSUME PlanInv, proc' = proc, Written' \subseteq Written,
         fo.shown = fo.copies => fo'.shown = fo'.copies
  PROVE  PlanInv'
<1>1. proc'.direction = proc.direction
  OBVIOUS
<1>2. /\ Bulk' = Bulk /\ Patches' = Patches /\ \A p : Patch(p)' = Patch(p)
      /\ Closed(proc.existing)' <=> Closed(proc.existing)
  BY <1>1, SameDirection DEF Closed
<1>3. QED
  BY <1>2 DEF PlanInv, Planned, InRequest

LEMMA CatchUpPlanned ==
  ASSUME PlannedInv, CatchUp PROVE PlannedInv'
<1>1. ShapeInv /\ PlanInv /\ MarkInv /\ Refreshed /\ SameTroubles /\ proc' = proc
  BY CatchUpSets DEF PlannedInv
<1>2. trouble' \in [Troubles -> Nat] /\ Bulk' = Bulk /\ Written' = Written
  BY <1>1, TroublesKept DEF Bulk, Written, Refreshed
<1>3. ShapeInv' /\ MarkInv'
  BY <1>1, <1>2 DEF ShapeInv, MarkInv, Refreshed, Books
<1>4. PlanInv'
  BY <1>1, <1>2, FinancePlans DEF Refreshed
<1>5. QED
  BY <1>3, <1>4 DEF PlannedInv

LEMMA DeletePlanned ==
  ASSUME PlannedInv, NEW d \in Lines, FinanceDeletesLine(d) PROVE PlannedInv'
<1>1. /\ ShapeInv /\ PlanInv /\ MarkInv
      /\ proc' = proc /\ Suffer("deleted") /\ fo' \in Books
      /\ fo'.copies[d] = 0 /\ fo'.shown[d] = 0
      /\ \A l \in Lines : l # d => fo'.copies[l] = fo.copies[l] /\ fo'.shown[l] = fo.shown[l]
      /\ fo'.withMark = fo.withMark \ {d} /\ fo'.foreign = fo.foreign
      /\ fo'.own = fo.own \ (InvoicesOf({d}) \ InvoicesOf(fo.withMark \ {d}))
  BY DeleteSets DEF PlannedInv
<1>2. trouble' \in [Troubles -> Nat] /\ Bulk' = Bulk /\ Written' = Written \ {d}
  BY <1>1, TroublesKept DEF Bulk, Written, Troubles
<1>3. ShapeInv'
  BY <1>1, <1>2 DEF ShapeInv, Books
<1>4. MarkInv'
  BY <1>1, <1>2 DEF MarkInv, InvoicesOf
<1>5. fo.shown = fo.copies => fo'.shown = fo'.copies
  BY <1>1, <1>3 DEF ShapeInv, Books
<1>6. PlanInv'
  BY <1>1, <1>2, <1>5, FinancePlans
<1>7. QED
  BY <1>3, <1>4, <1>6 DEF PlannedInv

LEMMA CrashSets ==
  ASSUME ShapeInv, Crash PROVE Reset /\ fo' = fo /\ SameTroubles
BY Thrown DEF Crash, Quiet, SameTroubles

LEMMA PlannedStep == PlannedInv /\ [CashNext]_cvars => PlannedInv'
<1> SUFFICES ASSUME PlannedInv, [CashNext]_cvars PROVE PlannedInv'
  OBVIOUS
<1>1. CASE \/ Start \/ ListExisting \/ PostCashOutLedgerLine \/ PlanPatches
           \/ SkipPatch \/ Finish \/ CountBefore
  BY <1>1, StartPlanned, ListPlanned, LedgerPlanned, PlanPlanned, SkipPlanned,
     FinishPlanned, CountPlanned
<1>2. CASE \/ PostPatch \/ WaitForLines \/ RecoverAlreadyMarked \/ Rematch
           \/ PrepareUnmarkedRetry \/ PostUnmarked
  BY <1>2, PostPlanned, WaitPlanned, RecoverPlanned, RetryPlanned
<1>3. CASE CatchUp \/ Crash \/ \E l \in Lines : FinanceDeletesLine(l)
  BY <1>3, CatchUpPlanned, DeletePlanned, CrashSets, ResetPlanned DEF PlannedInv
<1>4. CASE UNCHANGED cvars
  <2>1. /\ proc' = proc /\ fo' = fo /\ trouble' = trouble /\ ShapeInv /\ MarkInv /\ PlanInv
        /\ proc \in Calls
    BY <1>4 DEF cvars, PlannedInv, ShapeInv
  <2>2. ShapeInv' /\ MarkInv' /\ Written' = Written
    BY <2>1, SameBooks, TroublesKept DEF SameTroubles
  <2>3. QED
    BY <2>1, <2>2, FinancePlans DEF PlannedInv
<1>5. QED
  BY <1>1, <1>2, <1>3, <1>4 DEF CashNext

-----------------------------------------------------------------------------
(* Why a request has failed.                                               *)

LEMMA FailInit == CashInit => FailInv
BY DEF CashInit, Proc, FailInv

LEMMA FailStep ==
  ASSUME PlannedInv, FailInv, [CashNext]_cvars PROVE FailInv'
<1>1. ShapeInv
  BY DEF PlannedInv
<1> DEFINE late == {"wait", "recover", "rematch", "plain", "unmark"}
<1>2. ASSUME proc'.pc \notin late PROVE FailInv'
  BY <1>2 DEF FailInv
<1>3. CASE Reset \/ proc' = Accepted
  BY <1>1, <1>2, <1>3, AcceptedSets DEF Reset
<1>4. CASE \/ Start \/ ListExisting \/ PostCashOutLedgerLine \/ PlanPatches
           \/ SkipPatch \/ Finish \/ CountBefore
  BY <1>1, <1>2, <1>3, <1>4, StartSets, ListSets, LedgerSets, PlanSets, SkipSets, FinishSets,
     CountSets
<1>5. CASE PostPatch \/ Rematch \/ PostUnmarked
  <2>1. PICK failure : /\ Request(proc.request, Marks, Accepted, failure)
                       /\ \A why \in Refusals : failure[why] = AfterFailure(why)
    BY <1>1, <1>5, PostSets
  <2>2. \/ Throw \/ proc' = Accepted
        \/ \E why \in Refusals : proc' = AfterFailure(why)
    BY <2>1 DEF Request, Refusals
  <2>3. CASE \E why \in Refusals : proc' = AfterFailure(why)
    <3>1. PICK why \in Refusals : proc' = AfterFailure(why)
      BY <2>3
    <3>2. /\ proc'.fail = why /\ proc'.pc \in {"wait", "unmark"}
          /\ proc'.pc = "wait" => why # "amount"
      BY <1>1, <3>1, FailedSets DEF AfterFailure
    <3>3. QED
      BY <3>2 DEF FailInv, Refusals
  <2>4. QED
    BY <1>1, <1>3, <2>2, <2>3, Thrown
<1>6. CASE WaitForLines
  BY <1>1, <1>6, WaitSets DEF FailInv
<1>7. CASE RecoverAlreadyMarked
  BY <1>1, <1>3, <1>7, RecoverSets DEF FailInv
<1>8. CASE PrepareUnmarkedRetry
  BY <1>1, <1>3, <1>8, RetrySets DEF FailInv, CanUnmarkedRetry, Refusals
<1>9. CASE CatchUp \/ (\E l \in Lines : FinanceDeletesLine(l)) \/ UNCHANGED cvars
  <2>1. proc' = proc
    BY <1>1, <1>9, CatchUpSets, DeleteSets DEF cvars
  <2>2. QED
    BY <2>1 DEF FailInv
<1>10. CASE Crash
  BY <1>1, <1>3, <1>10, CrashSets
<1>11. QED
  BY <1>4, <1>5, <1>6, <1>7, <1>8, <1>9, <1>10 DEF CashNext

-----------------------------------------------------------------------------
(* What a call that returns has done.                                      *)

Solid == PlannedInv /\ GroupsWhole /\ FailInv

(* Books that only grow keep what is there and what is marked.             *)
LEMMA BooksGrow ==
  ASSUME proc'.direction = proc.direction, fo.own \subseteq fo'.own,
         fo'.foreign = fo.foreign, fo'.deleted = fo.deleted,
         \A l \in Lines : fo.copies[l] > 0 => fo'.copies[l] > 0
  PROVE  /\ \A S : S \subseteq Lines /\ There(S) => There(S)'
         /\ \A l : Settled(l) => Settled(l)'
<1>1. /\ Bulk' = Bulk /\ Patches' = Patches /\ \A p : Patch(p)' = Patch(p)
      /\ \A l : Gone(l)' <=> Gone(l)
  BY SameDirection DEF Gone
<1>2. \A l : Blocked(l)' <=> Blocked(l)
  BY <1>1 DEF Blocked
<1>3. QED
  BY <1>1, <1>2 DEF There, Settled

(* An invoice is settled or not, whichever line marks it.                  *)
LEMMA SettledAlike ==
  ASSUME NEW l, NEW k, Invoice[l] = Invoice[k], Settled(k) PROVE Settled(l)
BY DEF Settled

LEMMA ThereIsSettled ==
  ASSUME MarkedBooks, NEW S \in SUBSET Bulk, There(S)
  PROVE  \A l : Invoice[l] \in InvoicesOf(S) => Settled(l)
<1>1. \A k \in S : Settled(k)
  BY BulkLines DEF MarkedBooks, There, Written, Settled
<1>2. QED
  BY <1>1, SettledAlike DEF InvoicesOf

LEMMA ResetReturned ==
  ASSUME Reset, MarkedBooks' PROVE ReturnInv'
BY DEF Reset, ReturnInv, KnownPosted, AskedFor, There, InRequest

LEMMA SameBooksMarked ==
  ASSUME MarkedBooks, fo' = fo, proc'.direction = proc.direction
  PROVE  /\ MarkedBooks'
         /\ \A S : S \subseteq Lines /\ There(S) => There(S)'
         /\ \A l : Settled(l) => Settled(l)'
<1>1. /\ \A S : S \subseteq Lines /\ There(S) => There(S)'
      /\ \A l : Settled(l) => Settled(l)'
  BY BooksGrow
<1>2. Bulk' = Bulk
  BY SameDirection
<1>3. QED
  BY <1>1, <1>2 DEF MarkedBooks, Written

LEMMA ReturnInit == CashInit => ReturnInv
<1> SUFFICES ASSUME CashInit PROVE ReturnInv
  OBVIOUS
<1>1. /\ proc.pc = "idle" /\ proc.existing = {} /\ proc.settled = {}
      /\ fo.own = {} /\ \A l \in Lines : fo.copies[l] = 0
  BY DEF CashInit, Proc
<1>2. QED
  BY <1>1 DEF ReturnInv, MarkedBooks, KnownPosted, AskedFor, There, Written, InRequest

LEMMA StartReturned ==
  ASSUME Solid, ReturnInv, Start PROVE ReturnInv'
<1>1. /\ ShapeInv /\ proc'.direction = proc.direction /\ proc'.pc = "list"
      /\ proc'.existing = {} /\ proc'.settled = {} /\ Refreshed /\ SameTroubles
  BY StartSets DEF Solid, PlannedInv
<1> SUFFICES ASSUME trouble'.ghosts = 0 PROVE MarkedBooks' /\ KnownPosted' /\ AskedFor'
  BY DEF ReturnInv
<1>2. MarkedBooks
  BY <1>1 DEF ReturnInv, SameTroubles
<1>3. \A l : Settled(l) => Settled(l)'
  BY <1>1, BooksGrow DEF Refreshed
<1>4. Bulk' = Bulk
  BY <1>1, SameDirection
<1>5. MarkedBooks'
  BY <1>1, <1>2, <1>3, <1>4 DEF MarkedBooks, Written, Refreshed
<1>6. QED
  BY <1>1, <1>5 DEF KnownPosted, AskedFor, There, InRequest

LEMMA ListReturned ==
  ASSUME Solid, ReturnInv, ListExisting PROVE ReturnInv'
<1>1. /\ ShapeInv /\ PlanInv /\ fo' = fo /\ SameTroubles /\ proc.pc = "list"
      /\ \/ Reset
         \/ /\ proc'.direction = proc.direction /\ proc'.pc = "ledger"
            /\ proc'.existing = Listed /\ proc'.settled = proc.settled
  BY ListSets DEF Solid, PlannedInv, ListExisting, At
<1> SUFFICES ASSUME trouble'.ghosts = 0 PROVE MarkedBooks' /\ KnownPosted' /\ AskedFor'
  BY DEF ReturnInv
<1>2. MarkedBooks /\ KnownPosted
  BY <1>1 DEF ReturnInv, SameTroubles
<1>3. proc'.direction = proc.direction
  BY <1>1 DEF Reset
<1>4. MarkedBooks' /\ \A l : Settled(l) => Settled(l)'
  BY <1>1, <1>2, <1>3, SameBooksMarked
<1>5. CASE Reset
  BY <1>4, <1>5, ResetReturned DEF ReturnInv
<1>6. CASE ~Reset
  <2>1. \A l \in Listed : fo'.copies[l] > 0
    BY <1>1 DEF PlanInv, Listed
  <2>2. There(proc.existing)'
    BY <1>1, <1>6, <2>1 DEF There
  <2>3. KnownPosted'
    BY <1>1, <1>2, <1>3, <1>4, <1>6, <2>2, SameDirection DEF KnownPosted
  <2>4. QED
    BY <1>1, <1>4, <1>6, <2>3 DEF AskedFor, InRequest
<1>7. QED
  BY <1>5, <1>6

LEMMA LedgerReturned ==
  ASSUME Solid, ReturnInv, PostCashOutLedgerLine PROVE ReturnInv'
<1>1. ShapeInv
  BY DEF Solid, PlannedInv
<1>2. PICK l \in LedgerLeft :
           /\ l \in Lines \ Bulk /\ l \notin proc.existing
           /\ \/ /\ proc' \in Calls /\ proc'.direction = proc.direction /\ proc'.pc = "ledger"
                 /\ proc'.existing = proc.existing \cup {l} /\ proc'.settled = proc.settled
                 /\ proc'.at = proc.at
              \/ Reset
           /\ \/ fo' = fo /\ SameTroubles /\ Reset
              \/ /\ fo' \in Books /\ fo'.withMark = fo.withMark /\ fo'.own = fo.own
                 /\ fo'.foreign = fo.foreign /\ fo'.deleted = fo.deleted
                 /\ \A k \in Lines : k # l => /\ fo'.copies[k] = fo.copies[k]
                                              /\ fo'.shown[k] = fo.shown[k]
                 /\ fo'.shown[l] = fo'.copies[l]
                 /\ \/ fo'.copies[l] = fo.copies[l] + 1 /\ (SameTroubles \/ Suffer("lost"))
                    \/ fo'.copies[l] = fo.copies[l] + 2 /\ Suffer("lost")
  BY <1>1, LedgerSets
<1> SUFFICES ASSUME trouble'.ghosts = 0 PROVE MarkedBooks' /\ KnownPosted' /\ AskedFor'
  BY DEF ReturnInv
<1>3. SameTroubles \/ Suffer("lost")
  BY <1>2
<1>4. trouble.ghosts = 0
  BY <1>1, <1>3, Suffered DEF SameTroubles, Troubles
<1>5. MarkedBooks /\ KnownPosted
  BY <1>4 DEF ReturnInv
<1>6. /\ fo'.own = fo.own /\ fo'.foreign = fo.foreign /\ fo'.deleted = fo.deleted
      /\ fo'.withMark = fo.withMark
      /\ \A k \in Lines : k # l => fo'.copies[k] = fo.copies[k]
      /\ \A k \in Lines : fo.copies[k] > 0 => fo'.copies[k] > 0
      /\ ~Reset => fo'.copies[l] > 0
  BY <1>1, <1>2 DEF ShapeInv, Books
<1>7. proc'.direction = proc.direction
  BY <1>2 DEF Reset
<1>8. /\ Bulk' = Bulk
      /\ \A S : S \subseteq Lines /\ There(S) => There(S)'
      /\ \A k : Settled(k) => Settled(k)'
  BY <1>6, <1>7, BooksGrow, SameDirection
<1>9. MarkedBooks'
  BY <1>2, <1>5, <1>6, <1>8 DEF MarkedBooks, Written
<1>10. CASE Reset
  BY <1>9, <1>10, ResetReturned DEF ReturnInv
<1>11. CASE ~Reset
  <2>1. /\ proc'.pc = "ledger" /\ proc'.existing = proc.existing \cup {l}
        /\ proc'.settled = proc.settled /\ fo'.copies[l] > 0
        /\ proc.existing \subseteq Lines
    BY <1>1, <1>2, <1>6, <1>11 DEF ShapeInv, Calls
  <2>2. There(proc.existing)'
    BY <1>5, <1>8, <2>1 DEF KnownPosted, There
  <2>3. KnownPosted'
    BY <1>5, <1>8, <2>1, <2>2 DEF KnownPosted
  <2>4. QED
    BY <1>9, <2>1, <2>3 DEF AskedFor, InRequest
<1>12. QED
  BY <1>10, <1>11

(* The rest of an entry of which some lines are there is there, or Finance *)
(* has deleted one of its lines.                                           *)
LEMMA RepairedThere ==
  ASSUME GroupsWhole, NEW S \in SUBSET Lines, There(S)
  PROVE  There(RepairPartial(S))
<1> SUFFICES ASSUME NEW l \in Bulk, GroupOf[l] \in GroupsOf(S \cap Bulk)
             PROVE  fo.copies[l] > 0 \/ Gone(l)
  BY DEF There, RepairPartial
<1>1. PICK k \in S \cap Bulk : GroupOf[l] = GroupOf[k]
  BY DEF GroupsOf
<1>2. fo.copies[k] > 0 \/ Gone(k)
  BY DEF There
<1>3. QED
  BY <1>1, <1>2 DEF GroupsWhole, Gone

LEMMA PlanReturned ==
  ASSUME Solid, ReturnInv, PlanPatches PROVE ReturnInv'
<1>0. PICK existing : existing = RepairPartial(proc.existing)
  OBVIOUS
<1>1. /\ ShapeInv /\ GroupsWhole /\ fo' = fo /\ SameTroubles
      /\ proc'.direction = proc.direction /\ proc'.pc = "patch"
      /\ proc'.existing = existing /\ proc'.settled = InvoicesOf(existing \cap Bulk)
      /\ proc.existing \in SUBSET Lines
  BY <1>0, PlanSets DEF Solid, PlannedInv, ShapeInv, Calls
<1> SUFFICES ASSUME trouble'.ghosts = 0 PROVE MarkedBooks' /\ KnownPosted' /\ AskedFor'
  BY DEF ReturnInv
<1>2. MarkedBooks /\ KnownPosted
  BY <1>1 DEF ReturnInv, SameTroubles
<1>3. /\ MarkedBooks' /\ Bulk' = Bulk
      /\ \A S : S \subseteq Lines /\ There(S) => There(S)'
      /\ \A l : Settled(l) => Settled(l)'
  BY <1>1, <1>2, SameBooksMarked, SameDirection
<1>4. There(existing) /\ existing \in SUBSET Lines
  BY <1>0, <1>1, <1>2, RepairedThere, RepairedLines DEF KnownPosted
<1>5. There(existing \cap Bulk)
  BY <1>4 DEF There
<1>6. \A l : Invoice[l] \in InvoicesOf(existing \cap Bulk) => Settled(l)
  BY <1>2, <1>5, ThereIsSettled
<1>7. There(existing)'
  BY <1>3, <1>4
<1>8. There(proc.existing)'
  BY <1>1, <1>7 DEF There
<1>9. KnownPosted'
  BY <1>1, <1>3, <1>6, <1>8 DEF KnownPosted
<1>10. QED
  BY <1>1, <1>3, <1>9 DEF AskedFor, InRequest

LEMMA SkipReturned ==
  ASSUME Solid, ReturnInv, SkipPatch PROVE ReturnInv'
<1> DEFINE patch == Patch(proc.at)
<1>1. /\ ShapeInv /\ fo' = fo /\ SameTroubles /\ patch \subseteq proc.existing
      /\ proc'.direction = proc.direction /\ proc'.pc = "patch"
      /\ proc'.existing = proc.existing /\ proc'.settled = proc.settled \cup InvoicesOf(patch)
      /\ proc.existing \subseteq Lines /\ patch \in SUBSET Bulk
  BY SkipSets, PatchClosed DEF Solid, PlannedInv, ShapeInv, Calls
<1> SUFFICES ASSUME trouble'.ghosts = 0 PROVE MarkedBooks' /\ KnownPosted' /\ AskedFor'
  BY DEF ReturnInv
<1>2. MarkedBooks /\ KnownPosted
  BY <1>1 DEF ReturnInv, SameTroubles
<1>3. /\ MarkedBooks' /\ Bulk' = Bulk
      /\ \A S : S \subseteq Lines /\ There(S) => There(S)'
      /\ \A l : Settled(l) => Settled(l)'
  BY <1>1, <1>2, SameBooksMarked, SameDirection
<1> HIDE DEF patch
<1>4. There(patch)
  BY <1>1, <1>2 DEF KnownPosted, There
<1>5. \A l : Invoice[l] \in InvoicesOf(patch) => Settled(l)
  BY <1>1, <1>2, <1>4, ThereIsSettled
<1>6. There(proc.existing)'
  BY <1>1, <1>2, <1>3 DEF KnownPosted, There
<1>7. KnownPosted'
  BY <1>1, <1>2, <1>3, <1>5, <1>6 DEF KnownPosted
<1>8. QED
  BY <1>1, <1>3, <1>7 DEF AskedFor, InRequest

LEMMA FinishReturned ==
  ASSUME Solid, ReturnInv, Finish PROVE ReturnInv'
<1>1. /\ ShapeInv /\ fo' = fo /\ SameTroubles
      /\ proc'.direction = proc.direction /\ proc'.pc = "done"
      /\ proc'.existing = proc.existing /\ proc'.settled = proc.settled
      /\ proc.existing \subseteq Lines
  BY FinishSets DEF Solid, PlannedInv, ShapeInv, Calls, SamePlan
<1> SUFFICES ASSUME trouble'.ghosts = 0 PROVE MarkedBooks' /\ KnownPosted' /\ AskedFor'
  BY DEF ReturnInv
<1>2. MarkedBooks /\ KnownPosted
  BY <1>1 DEF ReturnInv, SameTroubles
<1>3. /\ MarkedBooks' /\ Bulk' = Bulk
      /\ \A S : S \subseteq Lines /\ There(S) => There(S)'
      /\ \A l : Settled(l) => Settled(l)'
  BY <1>1, <1>2, SameBooksMarked, SameDirection
<1>4. There(proc.existing)'
  BY <1>1, <1>2, <1>3 DEF KnownPosted, There
<1>5. KnownPosted'
  BY <1>1, <1>2, <1>3, <1>4 DEF KnownPosted
<1>6. QED
  BY <1>1, <1>3, <1>5 DEF AskedFor, InRequest

LEMMA CountReturned ==
  ASSUME Solid, ReturnInv, CountBefore PROVE ReturnInv'
<1> DEFINE todo == Patch(proc.at) \ proc.existing
<1>1. /\ ShapeInv /\ PlanInv /\ fo' = fo /\ proc.pc = "patch"
      /\ proc'.direction = proc.direction /\ proc'.pc = "post"
      /\ proc'.existing = proc.existing /\ proc'.settled = proc.settled
      /\ proc'.todo = todo /\ proc'.request = todo
      /\ SameTroubles \/ Suffer("unread")
      /\ proc.existing \subseteq Lines /\ todo \subseteq Lines
  BY CountSets, PatchClosed, BulkLines DEF Solid, PlannedInv, ShapeInv, Calls
<1> SUFFICES ASSUME trouble'.ghosts = 0 PROVE MarkedBooks' /\ KnownPosted' /\ AskedFor'
  BY DEF ReturnInv
<1>2. MarkedBooks /\ KnownPosted
  BY <1>1, Suffered DEF ReturnInv, SameTroubles, Troubles
<1>3. /\ MarkedBooks' /\ Bulk' = Bulk
      /\ \A S : S \subseteq Lines /\ There(S) => There(S)'
      /\ \A l : Settled(l) => Settled(l)'
  BY <1>1, <1>2, SameBooksMarked, SameDirection
<1>4. There(proc.existing)'
  BY <1>1, <1>2, <1>3 DEF KnownPosted, There
<1>5. KnownPosted'
  BY <1>1, <1>2, <1>3, <1>4 DEF KnownPosted
<1>6. NotThere(todo)
  BY <1>1 DEF PlanInv, NotThere, Written, ShapeInv, Books
<1>7. AskedFor'
  BY <1>1, <1>6 DEF AskedFor, NotThere, InRequest
<1>8. QED
  BY <1>3, <1>5, <1>7

(* When none of a request is there, all of it is missing, and all of it is *)
(* tried again.                                                            *)
LEMMA AllMissing ==
  ASSUME ShapeInv, NEW S \in SUBSET Lines, NotThere(S) PROVE MissingOf(S) = S
BY DEF ShapeInv, Books, NotThere, MissingOf, IntegrityLines

LEMMA AllCandidates ==
  ASSUME ShapeInv, proc.request = proc.todo PROVE RetryCandidates = proc.todo
<1>1. proc.todo \in SUBSET Lines /\ IsFiniteSet(proc.todo)
  BY CashBulkAssumption, FS_Subset DEF ShapeInv, Calls
<1>2. ASSUME NEW l \in proc.todo
      PROVE  Cardinality({k \in proc.todo : k < l}) < Cardinality(proc.todo)
  <2> DEFINE before == {k \in proc.todo : k < l}
  <2>1. before \in SUBSET proc.todo /\ l \notin before
    <3>1. l \in Nat
      BY <1>1, <1>2, CashBulkAssumption
    <3>2. ~(l < l)
      BY <3>1
    <3>3. QED
      BY <3>2
  <2>2. before # proc.todo
    BY <1>2, <2>1
  <2>3. /\ Cardinality(before) \in Nat /\ Cardinality(proc.todo) \in Nat
        /\ Cardinality(before) <= Cardinality(proc.todo)
        /\ Cardinality(proc.todo) # Cardinality(before)
    BY <1>1, <2>1, <2>2, FS_Subset, FS_CardinalityType
  <2>4. QED
    BY <2>3
<1>3. QED
  BY <1>2 DEF RetryCandidates

LEMMA AllRetried ==
  ASSUME ShapeInv, NotThere(proc.todo), proc.request = proc.todo
  PROVE  CompleteUnmarked(MissingOf(RetryCandidates)) = proc.todo
<1>1. proc.todo \in SUBSET Lines
  BY DEF ShapeInv, Calls
<1>2. MissingOf(RetryCandidates) = proc.todo
  BY <1>1, AllCandidates, AllMissing
<1>3. {l \in proc.todo : GroupOf[l] \in GroupsOf(proc.todo)} = proc.todo
  BY DEF GroupsOf
<1>4. proc.todo \ MissingOf(proc.todo) = {} /\ GroupsOf({}) = {}
  BY <1>1, AllMissing DEF GroupsOf
<1>5. QED
  BY <1>2, <1>3, <1>4 DEF CompleteUnmarked

LEMMA WaitReturned ==
  ASSUME Solid, ReturnInv, WaitForLines PROVE ReturnInv'
<1>1. /\ ShapeInv /\ fo' = fo /\ proc.pc = "wait"
      /\ proc'.direction = proc.direction /\ proc'.pc = "recover" /\ proc'.fail = proc.fail
      /\ proc'.existing = proc.existing /\ proc'.settled = proc.settled
      /\ proc'.todo = proc.todo /\ proc'.request = proc.request
      /\ SameTroubles \/ Suffer("unread")
      /\ proc.existing \subseteq Lines /\ proc.todo \subseteq Lines
  BY WaitSets DEF Solid, PlannedInv, ShapeInv, Calls, SamePlan
<1> SUFFICES ASSUME trouble'.ghosts = 0 PROVE MarkedBooks' /\ KnownPosted' /\ AskedFor'
  BY DEF ReturnInv
<1>2. MarkedBooks /\ KnownPosted /\ AskedFor
  BY <1>1, Suffered DEF ReturnInv, SameTroubles, Troubles
<1>3. /\ MarkedBooks' /\ Bulk' = Bulk
      /\ \A S : S \subseteq Lines /\ There(S) => There(S)'
      /\ \A l : Settled(l) => Settled(l)'
  BY <1>1, <1>2, SameBooksMarked, SameDirection
<1>4. There(proc.existing)'
  BY <1>1, <1>2, <1>3 DEF KnownPosted, There
<1>5. KnownPosted'
  BY <1>1, <1>2, <1>3, <1>4 DEF KnownPosted
<1>6. There(proc.todo) => There(proc.todo)'
  BY <1>1, <1>3 DEF There
<1>7. AskedFor'
  BY <1>1, <1>2, <1>3, <1>6 DEF AskedFor, NotThere, InRequest
<1>8. QED
  BY <1>3, <1>5, <1>7

(* A request that is accepted: its lines are there and settled.            *)
LEMMA AcceptedReturned ==
  ASSUME ShapeInv, PlanInv, proc.pc \in InRequest, KnownPosted, proc' = Accepted, MarkedBooks',
         \A S : S \subseteq Lines /\ There(S) => There(S)',
         \A l : Settled(l) => Settled(l)',
         There(proc.todo)', \A l \in proc.todo : Settled(l)'
  PROVE  KnownPosted' /\ AskedFor'
<1>1. /\ proc'.direction = proc.direction /\ proc'.pc = "patch"
      /\ proc'.existing = proc.existing \cup Patch(proc.at)
      /\ proc'.settled = proc.settled \cup MarksOf(proc.todo)
      /\ proc'.todo = proc.todo
  BY AcceptedSets DEF Accepted, ShapeInv, Calls
<1>2. proc'.existing = proc.existing \cup proc.todo /\ proc.existing \subseteq Lines
  BY <1>1 DEF PlanInv, ShapeInv, Calls
<1>3. \A l \in proc.existing \cup proc.todo : fo'.copies[l] > 0 \/ Gone(l)'
  BY <1>1, <1>2 DEF KnownPosted, There
<1>4. There(proc.existing)'
  BY <1>2, <1>3 DEF There
<1>5. \A l : Invoice[l] \in MarksOf(proc.todo) => Settled(l)'
  <2> SUFFICES ASSUME NEW l, Invoice[l] \in MarksOf(proc.todo) PROVE Settled(l)'
    OBVIOUS
  <2>1. PICK k \in proc.todo : Invoice[l] = Invoice[k]
    BY DEF MarksOf, InvoicesOf
  <2>2. QED
    BY <2>1 DEF Settled
<1>6. KnownPosted'
  BY <1>1, <1>4, <1>5, SameDirection DEF KnownPosted
<1>7. QED
  BY <1>1, <1>6 DEF AskedFor, InRequest

LEMMA RecoverReturned ==
  ASSUME Solid, ReturnInv, RecoverAlreadyMarked PROVE ReturnInv'
<1> DEFINE missing == MissingOf(proc.todo)
<1>1. /\ ShapeInv /\ PlanInv /\ MarkInv /\ FailInv /\ fo' = fo /\ SameTroubles
      /\ proc.pc = "recover" /\ proc.pc \in InRequest
      /\ \/ Reset
         \/ proc' = Accepted /\ (proc.fail = "self" \/ missing = {})
         \/ /\ SamePlan /\ proc'.pc = "rematch" /\ proc'.fail = proc.fail
            /\ proc'.request = missing
            /\ \E refreshed \in {{}, SettledInFinance} :
                 proc'.settled = proc.settled \cup refreshed
      /\ proc.existing \subseteq Lines /\ proc.todo \in SUBSET Lines /\ proc.todo # {}
  BY RecoverSets DEF Solid, PlannedInv, ShapeInv, Calls, InRequest, PlanInv
<1>2. proc'.direction = proc.direction
  BY <1>1, AcceptedSets DEF Reset, SamePlan
<1> SUFFICES ASSUME trouble'.ghosts = 0 PROVE MarkedBooks' /\ KnownPosted' /\ AskedFor'
  BY DEF ReturnInv
<1>3. MarkedBooks /\ KnownPosted /\ AskedFor
  BY <1>1 DEF ReturnInv, SameTroubles
<1>4. /\ MarkedBooks' /\ Bulk' = Bulk
      /\ \A S : S \subseteq Lines /\ There(S) => There(S)'
      /\ \A l : Settled(l) => Settled(l)'
  BY <1>1, <1>2, <1>3, SameBooksMarked, SameDirection
<1>5. /\ There(proc.todo) \/ (NotThere(proc.todo) /\ proc.request = proc.todo)
      /\ proc.fail = "self" => There(proc.todo)
      /\ proc.fail # "amount" /\ \A l \in proc.todo : Settled(l)
  BY <1>1, <1>3 DEF AskedFor, FailInv
<1>6. NotThere(proc.todo) => missing = proc.todo
  BY <1>1, AllMissing
<1> HIDE DEF missing
<1>7. CASE Reset
  BY <1>4, <1>7, ResetReturned DEF ReturnInv
<1>8. CASE proc' = Accepted /\ (proc.fail = "self" \/ missing = {})
  <2>1. There(proc.todo)
    BY <1>1, <1>5, <1>6, <1>8
  <2>2. proc'.todo = proc.todo
    BY <1>1, <1>8 DEF Accepted, ShapeInv, Calls
  <2>3. There(proc.todo)'
    BY <1>1, <1>4, <2>1, <2>2 DEF There
  <2>4. \A l \in proc.todo : Settled(l)'
    BY <1>4, <1>5
  <2>5. QED
    BY <1>1, <1>3, <1>4, <1>8, <2>3, <2>4, AcceptedReturned
<1>9. CASE /\ SamePlan /\ proc'.pc = "rematch" /\ proc'.fail = proc.fail
           /\ proc'.request = missing
           /\ \E refreshed \in {{}, SettledInFinance} :
                proc'.settled = proc.settled \cup refreshed
  <2>1. PICK refreshed \in {{}, SettledInFinance} :
             /\ proc'.settled = proc.settled \cup refreshed
             /\ proc'.pc = "rematch" /\ proc'.fail = proc.fail /\ proc'.request = missing
             /\ proc'.existing = proc.existing /\ proc'.todo = proc.todo
    BY <1>1, <1>9 DEF SamePlan
  <2>2. refreshed \subseteq fo.own
    BY <1>1 DEF MarkInv, SettledInFinance, InvoicesOf
  <2>3. \A l : Invoice[l] \in refreshed => Settled(l)
    BY <2>2 DEF Settled
  <2>4. There(proc.existing)'
    BY <1>1, <1>3, <1>4, <2>1 DEF KnownPosted, There
  <2>5. KnownPosted'
    BY <1>3, <1>4, <2>1, <2>3, <2>4 DEF KnownPosted
  <2>6. There(proc.todo) => There(proc.todo)'
    BY <1>1, <1>4, <2>1 DEF There
  <2>7. AskedFor'
    BY <1>1, <1>4, <1>5, <1>6, <2>1, <2>6 DEF AskedFor, NotThere, InRequest
  <2>8. QED
    BY <1>4, <2>5, <2>7
<1>10. QED
  BY <1>1, <1>7, <1>8, <1>9

LEMMA RetryReturned ==
  ASSUME Solid, ReturnInv, PrepareUnmarkedRetry PROVE ReturnInv'
<1> DEFINE retry == CompleteUnmarked(MissingOf(RetryCandidates))
<1>1. /\ ShapeInv /\ PlanInv /\ fo' = fo /\ SameTroubles
      /\ proc.pc = "unmark" /\ proc.pc \in InRequest
      /\ \/ Reset
         \/ proc' = Accepted /\ CanUnmarkedRetry /\ retry = {}
         \/ /\ CanUnmarkedRetry
            /\ SamePlan /\ proc'.pc = "plain" /\ proc'.fail = proc.fail
            /\ proc'.request = retry /\ proc'.settled = proc.settled
      /\ proc.existing \subseteq Lines /\ proc.todo \in SUBSET Lines /\ proc.todo # {}
  BY RetrySets DEF Solid, PlannedInv, ShapeInv, Calls, InRequest, PlanInv
<1>2. proc'.direction = proc.direction
  BY <1>1, AcceptedSets DEF Reset, SamePlan
<1> SUFFICES ASSUME trouble'.ghosts = 0 PROVE MarkedBooks' /\ KnownPosted' /\ AskedFor'
  BY DEF ReturnInv
<1>3. MarkedBooks /\ KnownPosted /\ AskedFor
  BY <1>1 DEF ReturnInv, SameTroubles
<1>4. /\ MarkedBooks' /\ Bulk' = Bulk
      /\ \A S : S \subseteq Lines /\ There(S) => There(S)'
      /\ \A l : Settled(l) => Settled(l)'
  BY <1>1, <1>2, <1>3, SameBooksMarked, SameDirection
<1>5. /\ There(proc.todo) \/ (NotThere(proc.todo) /\ proc.request = proc.todo)
      /\ CanUnmarkedRetry => \A l \in proc.todo : Settled(l)
  BY <1>1, <1>3 DEF AskedFor, CanUnmarkedRetry
<1>6. NotThere(proc.todo) /\ proc.request = proc.todo => retry = proc.todo
  BY <1>1, AllRetried
<1> HIDE DEF retry
<1>7. CASE Reset
  BY <1>4, <1>7, ResetReturned DEF ReturnInv
<1>8. CASE proc' = Accepted /\ CanUnmarkedRetry /\ retry = {}
  <2>1. There(proc.todo)
    BY <1>1, <1>5, <1>6, <1>8
  <2>2. proc'.todo = proc.todo
    BY <1>1, <1>8 DEF Accepted, ShapeInv, Calls
  <2>3. There(proc.todo)'
    BY <1>1, <1>4, <2>1, <2>2 DEF There
  <2>4. \A l \in proc.todo : Settled(l)'
    BY <1>4, <1>5, <1>8
  <2>5. QED
    BY <1>1, <1>3, <1>4, <1>8, <2>3, <2>4, AcceptedReturned
<1>9. CASE /\ CanUnmarkedRetry
           /\ SamePlan /\ proc'.pc = "plain" /\ proc'.fail = proc.fail
           /\ proc'.request = retry /\ proc'.settled = proc.settled
  <2>1. /\ proc'.settled = proc.settled /\ CanUnmarkedRetry
        /\ proc'.pc = "plain" /\ proc'.fail = proc.fail /\ proc'.request = retry
        /\ proc'.existing = proc.existing /\ proc'.todo = proc.todo
    BY <1>1, <1>9 DEF SamePlan
  <2>2. There(proc.existing)'
    BY <1>1, <1>3, <1>4, <2>1 DEF KnownPosted, There
  <2>3. KnownPosted'
    BY <1>3, <1>4, <2>1, <2>2 DEF KnownPosted
  <2>4. There(proc.todo) => There(proc.todo)'
    BY <1>1, <1>4, <2>1 DEF There
  <2>5. AskedFor'
    BY <1>1, <1>4, <1>5, <1>6, <2>1, <2>4 DEF AskedFor, NotThere, InRequest
  <2>6. QED
    BY <1>4, <2>3, <2>5
<1>10. QED
  BY <1>1, <1>7, <1>8, <1>9

(* What a request means to the call that makes it.                         *)
LEMMA RequestMeant ==
  ASSUME Solid, KnownPosted, AskedFor, PostPatch \/ Rematch \/ PostUnmarked
  PROVE  /\ ShapeInv /\ PlanInv /\ MarkInv /\ proc.pc \in {"post", "rematch", "plain"}
         /\ proc.pc \in InRequest
         /\ proc.request \subseteq proc.todo /\ proc.todo \subseteq Bulk
         /\ Marks \subseteq InvoicesOf(proc.request)
         /\ Marks \cap proc.settled \subseteq InvoicesOf(proc.request \cap HeldLines)
         /\ There(proc.todo) \/ (NotThere(proc.todo) /\ proc.request = proc.todo)
         /\ \A l \in proc.request : Invoice[l] \in Marks \cup {NoInvoice} \/ Settled(l)
         /\ proc.pc = "post" => NotThere(proc.todo) /\ proc.request = proc.todo
         /\ proc.pc # "post" => \A l \in proc.todo : Settled(l)
<1>1. ShapeInv /\ PlanInv /\ MarkInv /\ FailInv /\ proc.pc \in {"post", "rematch", "plain"}
  BY PostSets DEF Solid, PlannedInv
<1>2. proc.pc \in InRequest
  BY <1>1 DEF InRequest
<1>3. proc.request \subseteq proc.todo /\ proc.todo \subseteq Bulk
  BY <1>1, <1>2, PatchClosed DEF PlanInv
<1>4. /\ Marks \subseteq InvoicesOf(proc.request)
      /\ Marks \cap proc.settled \subseteq InvoicesOf(proc.request \cap HeldLines)
  BY DEF Marks, MarksOf, InvoicesOf
<1>5. /\ proc.pc = "post" => NotThere(proc.todo) /\ proc.request = proc.todo
      /\ There(proc.todo) \/ (NotThere(proc.todo) /\ proc.request = proc.todo)
  BY <1>2 DEF AskedFor
<1>6. proc.pc # "post" => \A l \in proc.todo : Settled(l)
  BY <1>1, <1>2 DEF AskedFor, FailInv
<1>7. \A l \in proc.request : Invoice[l] \in Marks \cup {NoInvoice} \/ Settled(l)
  <2> SUFFICES ASSUME NEW l \in proc.request
               PROVE  Invoice[l] \in Marks \cup {NoInvoice} \/ Settled(l)
    OBVIOUS
  <2>1. CASE proc.pc # "post"
    BY <1>3, <1>6, <2>1
  <2>2. CASE proc.pc = "post" /\ Invoice[l] \in proc.settled
    BY <1>3, <2>2 DEF KnownPosted
  <2>3. CASE proc.pc = "post" /\ Invoice[l] \notin proc.settled
    BY <2>3 DEF Marks, MarksOf, InvoicesOf
  <2>4. QED
    BY <2>1, <2>2, <2>3
<1>8. QED
  BY <1>1, <1>2, <1>3, <1>4, <1>5, <1>6, <1>7

(* A request that is written, whatever is answered.                        *)
LEMMA WrittenReturned ==
  ASSUME Solid, MarkedBooks, KnownPosted, AskedFor, PostPatch \/ Rematch \/ PostUnmarked,
         proc'.direction = proc.direction,
         NEW copies, \A l \in Lines : /\ l \in proc.request => copies[l] > 0
                                      /\ l \notin proc.request => copies[l] = fo.copies[l],
         Wrote(proc.request, Marks, copies)
  PROVE  /\ MarkedBooks'
         /\ \A S : S \subseteq Lines /\ There(S) => There(S)'
         /\ \A l : Settled(l) => Settled(l)'
         /\ \A l \in proc.todo : (fo'.copies[l] > 0 \/ Gone(l)') /\ Settled(l)'
<1>1. /\ proc.request \subseteq proc.todo /\ proc.todo \subseteq Bulk
      /\ Marks \subseteq InvoicesOf(proc.request)
      /\ There(proc.todo) \/ (NotThere(proc.todo) /\ proc.request = proc.todo)
      /\ \A l \in proc.request : Invoice[l] \in Marks \cup {NoInvoice} \/ Settled(l)
      /\ proc.pc = "post" => proc.request = proc.todo
      /\ proc.pc # "post" => \A l \in proc.todo : Settled(l)
  BY RequestMeant
<1>2. /\ fo'.own = fo.own \cup Marks /\ fo'.foreign = fo.foreign /\ fo'.deleted = fo.deleted
      /\ fo'.withMark = fo.withMark \cup {l \in proc.request : Invoice[l] \in Marks}
      /\ \A l \in Lines : /\ l \in proc.request => fo'.copies[l] > 0
                          /\ l \notin proc.request => fo'.copies[l] = fo.copies[l]
  BY DEF Wrote
<1>3. Bulk' = Bulk /\ Bulk \subseteq Lines
  BY SameDirection, BulkLines
<1>4. /\ \A S : S \subseteq Lines /\ There(S) => There(S)'
      /\ \A l : Settled(l) => Settled(l)'
  BY <1>2, BooksGrow
<1>5. \A l \in proc.request : Settled(l)'
  <2> SUFFICES ASSUME NEW l \in proc.request PROVE Settled(l)'
    OBVIOUS
  <2>1. CASE Settled(l)
    BY <1>4, <2>1
  <2>2. CASE Invoice[l] \in Marks \cup {NoInvoice}
    BY <1>2, <2>2 DEF Settled
  <2>3. QED
    BY <1>1, <2>1, <2>2
<1>6. \A l \in proc.todo : Settled(l)'
  BY <1>1, <1>4, <1>5
<1>7. \A l \in proc.todo : fo'.copies[l] > 0 \/ Gone(l)'
  <2>1. CASE There(proc.todo)
    <3>1. \A l \in proc.todo : fo.copies[l] > 0 \/ Gone(l)
      BY <2>1 DEF There
    <3>2. \A l : Gone(l)' <=> Gone(l)
      BY <1>2 DEF Gone
    <3>3. QED
      BY <1>1, <1>2, <1>3, <3>1, <3>2
  <2>2. CASE proc.request = proc.todo
    BY <1>1, <1>2, <1>3, <2>2
  <2>3. QED
    BY <1>1, <2>1, <2>2
<1>8. fo'.own \subseteq InvoicesOf(fo'.withMark)
  BY <1>1, <1>2 DEF MarkedBooks, InvoicesOf
<1>9. \A l \in Bulk \cap Written' : Settled(l)'
  <2> SUFFICES ASSUME NEW l \in Bulk, l \in Written' PROVE Settled(l)'
    OBVIOUS
  <2>1. CASE l \in proc.request
    BY <1>5, <2>1
  <2>2. CASE l \notin proc.request
    <3>1. l \in Written
      BY <1>2, <1>3, <2>2 DEF Written
    <3>2. QED
      BY <1>4, <3>1 DEF MarkedBooks
  <2>3. QED
    BY <2>1, <2>2
<1>10. QED
  BY <1>3, <1>4, <1>6, <1>7, <1>8, <1>9 DEF MarkedBooks

(* A first request never meets a lock of its own journal: the invoices of  *)
(* the lines that are there are not marked again, and a line that keeps its*)
(* mark shares its invoice with lines of its own entry, which are not there*)
(* either.                                                                 *)
LEMMA NoOwnLock ==
  ASSUME Solid, MarkedBooks, KnownPosted, AskedFor, PostPatch, HeldApart
  PROVE  Marks \cap fo.own = {}
<1>1. /\ PlanInv /\ MarkInv /\ proc.pc \in InRequest /\ proc.pc = "post"
      /\ Marks \cap proc.settled \subseteq InvoicesOf(proc.request \cap HeldLines)
      /\ proc.request \subseteq proc.todo /\ proc.todo \subseteq Bulk
      /\ NotThere(proc.todo)
  BY RequestMeant DEF PostPatch, At
<1>2. InvoicesOf(proc.existing \cap Bulk) \subseteq proc.settled
  BY <1>1 DEF PlanInv, InRequest, Planned
<1>3. fo.withMark \subseteq proc.existing \cap Bulk
  BY <1>1 DEF MarkInv, PlanInv, NotThere, Written
<1>4. fo.own \subseteq proc.settled
  BY <1>2, <1>3 DEF MarkedBooks, InvoicesOf
<1>5. \A l \in proc.request \cap HeldLines, k \in proc.existing \cap Bulk :
        ~(Invoice[k] = Invoice[l] /\ Invoice[l] # NoInvoice)
  <2> SUFFICES ASSUME NEW l \in proc.request \cap HeldLines, NEW k \in proc.existing \cap Bulk,
                      Invoice[k] = Invoice[l], Invoice[l] # NoInvoice
               PROVE  FALSE
    OBVIOUS
  <2>1. l \in Bulk /\ l \notin proc.existing
    BY <1>1 DEF PlanInv
  <2>2. k \in Lines /\ GroupOf[k] = GroupOf[l]
    BY BulkLines DEF HeldApart
  <2>3. Closed(proc.existing)
    BY <1>1 DEF PlanInv, InRequest, Planned
  <2>4. QED
    BY <2>1, <2>2, <2>3 DEF Closed
<1>6. InvoicesOf(proc.request \cap HeldLines) \cap fo.own = {}
  BY <1>3, <1>5 DEF MarkedBooks, InvoicesOf
<1>7. QED
  BY <1>1, <1>4, <1>6

(* A request that meets the lock of another journal explains the invoices  *)
(* that are not settled.                                                   *)
LEMMA ForeignExplains ==
  ASSUME Solid, KnownPosted, AskedFor, PostPatch \/ Rematch \/ PostUnmarked,
         Marks \cap fo.foreign # {}
  PROVE  \A l \in proc.todo : Settled(l)
<1>1. /\ ShapeInv /\ PlanInv /\ proc.pc \in InRequest
      /\ proc.request \subseteq proc.todo /\ proc.todo \subseteq Bulk
      /\ Marks \subseteq InvoicesOf(proc.request)
  BY RequestMeant
<1>2. proc.at \in 1..Patches /\ proc.todo \subseteq Patch(proc.at)
  BY <1>1, PatchesNat DEF PlanInv, ShapeInv, Calls
<1>3. InvoicesOf(Patch(proc.at)) \cap fo.foreign # {}
  BY <1>1, <1>2 DEF InvoicesOf
<1>4. \A l \in proc.todo : Blocked(l)
  BY <1>2, <1>3 DEF Blocked
<1>5. QED
  BY <1>1, <1>4 DEF Settled

(* The request has failed, and the call goes on.                           *)
LEMMA FailureReturned ==
  ASSUME Solid, MarkedBooks', KnownPosted, PostPatch \/ Rematch \/ PostUnmarked,
         \A S : S \subseteq Lines /\ There(S) => There(S)',
         \A l : Settled(l) => Settled(l)',
         NEW why \in Refusals, proc' = AfterFailure(why),
         \/ \A l \in proc.todo : fo'.copies[l] > 0 \/ Gone(l)'
         \/ (\A l \in proc.todo : fo'.copies[l] = 0) /\ proc.request = proc.todo,
         proc.pc = "post" /\ why = "self" => \A l \in proc.todo : fo'.copies[l] > 0 \/ Gone(l)',
         why # "amount" => \A l \in proc.todo : Settled(l)'
  PROVE  KnownPosted' /\ AskedFor'
<1>1. ShapeInv /\ proc.existing \subseteq Lines
  BY DEF Solid, PlannedInv, ShapeInv, Calls
<1>2. /\ proc'.direction = proc.direction /\ proc'.fail = why
      /\ proc'.pc = IF proc.pc = "post" /\ why # "amount" THEN "wait" ELSE "unmark"
      /\ proc'.existing = proc.existing /\ proc'.settled = proc.settled
      /\ proc'.todo = proc.todo /\ proc'.request = proc.request
  BY <1>1, FailedSets DEF AfterFailure
<1>3. There(proc.existing)'
  BY <1>1, <1>2 DEF KnownPosted, There
<1>4. KnownPosted'
  BY <1>2, <1>3, SameDirection DEF KnownPosted
<1>5. AskedFor'
  BY <1>2 DEF AskedFor, InRequest, There, NotThere
<1>6. QED
  BY <1>4, <1>5

LEMMA PostReturned ==
  ASSUME Solid, ReturnInv, HeldApart, PostPatch \/ Rematch \/ PostUnmarked PROVE ReturnInv'
<1> SUFFICES ASSUME trouble'.ghosts = 0 PROVE MarkedBooks' /\ KnownPosted' /\ AskedFor'
  BY DEF ReturnInv
<1> DEFINE S == proc.request
           M == Marks
           one == Bump(fo.copies, S)
           two == Bump(one, S)
<1>1. ShapeInv /\ PlanInv /\ proc.pc \in InRequest
  BY PostSets DEF Solid, PlannedInv, InRequest
<1>2. M \in SUBSET Invoices /\ S \in SUBSET Lines
  BY <1>1, PostSets DEF ShapeInv, Calls, PlanInv
<1>3. PICK failure : /\ Request(S, M, Accepted, failure)
                     /\ \A why \in Refusals : failure[why] = AfterFailure(why)
  BY <1>1, PostSets
<1>4. /\ failure["self"] = AfterFailure("self") /\ failure["foreign"] = AfterFailure("foreign")
      /\ failure["amount"] = AfterFailure("amount")
  BY <1>3 DEF Refusals
<1>5. /\ one \in [Lines -> Nat] /\ two \in [Lines -> Nat]
      /\ \A l \in Lines : /\ l \in S => one[l] > 0 /\ two[l] > 0
                          /\ l \notin S => one[l] = fo.copies[l] /\ two[l] = fo.copies[l]
  BY <1>1, <1>2, Bumped DEF ShapeInv, Books
<1> HIDE DEF one, two, S, M
<1>6. \/ /\ Wrote(S, M, one) \/ Wrote(S, M, two)
         /\ SameTroubles \/ Suffer("lost")
         /\ proc' = Accepted \/ Throw \/ proc' = AfterFailure("self")
      \/ Suffer("ghosts")
      \/ /\ fo' = fo /\ SameTroubles
         /\ \/ Throw
            \/ M \cap fo.own # {} /\ proc' = AfterFailure("self")
            \/ M \cap fo.foreign # {} /\ proc' = AfterFailure("foreign")
            \/ M # {} /\ proc' = AfterFailure("amount")
  BY <1>1, <1>2, <1>3, <1>4, RequestSets DEF one, two
<1>7. ~Suffer("ghosts")
  BY <1>1, Suffered DEF Troubles
<1>8. trouble.ghosts = 0
  BY <1>1, <1>6, <1>7, Suffered DEF SameTroubles, Troubles
<1>9. MarkedBooks /\ KnownPosted /\ AskedFor
  BY <1>8 DEF ReturnInv
<1>10. proc'.direction = proc.direction
  BY PostPlanned DEF Solid
<1>11. CASE /\ Wrote(S, M, one) \/ Wrote(S, M, two)
            /\ proc' = Accepted \/ Throw \/ proc' = AfterFailure("self")
  <2>1. PICK copies \in {one, two} : Wrote(S, M, copies)
    BY <1>11
  <2>2. \A l \in Lines : /\ l \in S => copies[l] > 0
                         /\ l \notin S => copies[l] = fo.copies[l]
    BY <1>5, <2>1
  <2>3. /\ MarkedBooks'
        /\ \A T : T \subseteq Lines /\ There(T) => There(T)'
        /\ \A l : Settled(l) => Settled(l)'
        /\ \A l \in proc.todo : (fo'.copies[l] > 0 \/ Gone(l)') /\ Settled(l)'
    BY <1>9, <1>10, <2>1, <2>2, WrittenReturned DEF S, M
  <2>4. CASE proc' = Accepted
    <3>1. proc'.todo = proc.todo
      BY <1>1, <2>4 DEF Accepted, ShapeInv, Calls
    <3>2. There(proc.todo)'
      BY <2>3, <3>1 DEF There
    <3>3. QED
      BY <1>1, <1>9, <2>3, <2>4, <3>2, AcceptedReturned
  <2>5. CASE Throw
    BY <1>1, <2>3, <2>5, Thrown, ResetReturned DEF ReturnInv
  <2>6. CASE proc' = AfterFailure("self")
    <3>1. "self" \in Refusals
      BY DEF Refusals
    <3>2. QED
      BY <1>9, <2>3, <2>6, <3>1, FailureReturned
  <2>7. QED
    BY <1>11, <2>4, <2>5, <2>6
<1>12. CASE /\ fo' = fo
            /\ \/ Throw
               \/ M \cap fo.own # {} /\ proc' = AfterFailure("self")
               \/ M \cap fo.foreign # {} /\ proc' = AfterFailure("foreign")
               \/ M # {} /\ proc' = AfterFailure("amount")
  <2>1. /\ MarkedBooks'
        /\ \A T : T \subseteq Lines /\ There(T) => There(T)'
        /\ \A l : Settled(l) => Settled(l)'
    BY <1>9, <1>10, <1>12, SameBooksMarked
  <2>2. CASE Throw
    BY <1>1, <2>1, <2>2, Thrown, ResetReturned DEF ReturnInv
  <2>3. \/ \A l \in proc.todo : fo'.copies[l] > 0 \/ Gone(l)'
        \/ (\A l \in proc.todo : fo'.copies[l] = 0) /\ proc.request = proc.todo
    <3>1. There(proc.todo) \/ (NotThere(proc.todo) /\ proc.request = proc.todo)
      BY <1>9, RequestMeant
    <3>2. \A l : Gone(l)' <=> Gone(l)
      BY <1>12 DEF Gone
    <3>3. QED
      BY <1>12, <3>1, <3>2 DEF There, NotThere
  <2>4. proc.pc # "post" => \A l \in proc.todo : Settled(l)
    BY <1>9, RequestMeant
  <2>5. CASE M \cap fo.own # {} /\ proc' = AfterFailure("self")
    <3>1. "self" \in Refusals
      BY DEF Refusals
    <3>2. proc.pc # "post"
      BY <1>9, <2>5, NoOwnLock DEF M, PostPatch, Rematch, PostUnmarked, At
    <3>3. QED
      BY <1>9, <2>1, <2>3, <2>4, <2>5, <3>1, <3>2, FailureReturned
  <2>6. CASE M \cap fo.foreign # {} /\ proc' = AfterFailure("foreign")
    <3>1. "foreign" \in Refusals
      BY DEF Refusals
    <3>2. \A l \in proc.todo : Settled(l)
      BY <1>9, <2>6, ForeignExplains DEF M
    <3>3. QED
      BY <1>9, <2>1, <2>3, <2>6, <3>1, <3>2, FailureReturned
  <2>7. CASE proc' = AfterFailure("amount")
    <3>1. "amount" \in Refusals
      BY DEF Refusals
    <3>2. QED
      BY <1>9, <2>1, <2>3, <2>7, <3>1, FailureReturned
  <2>8. QED
    BY <1>12, <2>2, <2>5, <2>6, <2>7
<1>13. QED
  BY <1>6, <1>7, <1>11, <1>12

-----------------------------------------------------------------------------
(* Finance, and the end of the argument.                                   *)

LEMMA CatchUpReturned ==
  ASSUME Solid, ReturnInv, CatchUp PROVE ReturnInv'
<1>1. ShapeInv /\ Refreshed /\ SameTroubles /\ proc' = proc
  BY CatchUpSets DEF Solid, PlannedInv
<1> SUFFICES ASSUME trouble'.ghosts = 0 PROVE MarkedBooks' /\ KnownPosted' /\ AskedFor'
  BY DEF ReturnInv
<1>2. MarkedBooks /\ KnownPosted /\ AskedFor
  BY <1>1 DEF ReturnInv, SameTroubles
<1>3. /\ Bulk' = Bulk
      /\ \A S : S \subseteq Lines /\ There(S) => There(S)'
      /\ \A l : Settled(l) => Settled(l)'
  BY <1>1, BooksGrow, SameDirection DEF Refreshed
<1>4. proc.existing \subseteq Lines /\ proc.todo \subseteq Lines
  BY <1>1 DEF ShapeInv, Calls
<1>5. There(proc.existing)' /\ (There(proc.todo) => There(proc.todo)')
  BY <1>1, <1>2, <1>3, <1>4 DEF KnownPosted, There
<1>6. MarkedBooks'
  BY <1>1, <1>2, <1>3 DEF MarkedBooks, Written, Refreshed
<1>7. KnownPosted'
  BY <1>1, <1>2, <1>3, <1>5 DEF KnownPosted
<1>8. AskedFor'
  BY <1>1, <1>2, <1>3, <1>5 DEF AskedFor, NotThere, Refreshed, InRequest
<1>9. QED
  BY <1>6, <1>7, <1>8

(* A line that Finance deletes takes its lock along only if no other line  *)
(* has a mark for the invoice; its entry is gone.                          *)
LEMMA DeleteReturned ==
  ASSUME Solid, ReturnInv, NEW d \in Lines, FinanceDeletesLine(d) PROVE ReturnInv'
<1>1. /\ ShapeInv /\ MarkInv /\ proc' = proc /\ Suffer("deleted") /\ fo' \in Books
      /\ fo'.copies[d] = 0
      /\ \A l \in Lines : l # d => fo'.copies[l] = fo.copies[l]
      /\ fo'.withMark = fo.withMark \ {d} /\ fo'.foreign = fo.foreign
      /\ fo'.own = fo.own \ (InvoicesOf({d}) \ InvoicesOf(fo.withMark \ {d}))
      /\ fo'.deleted = fo.deleted \cup {d}
  BY DeleteSets DEF Solid, PlannedInv
<1> SUFFICES ASSUME trouble'.ghosts = 0 PROVE MarkedBooks' /\ KnownPosted' /\ AskedFor'
  BY DEF ReturnInv
<1>2. MarkedBooks /\ KnownPosted /\ AskedFor
  BY <1>1, Suffered DEF ReturnInv, Troubles
<1>3. /\ Bulk' = Bulk /\ Patches' = Patches /\ \A p : Patch(p)' = Patch(p)
      /\ Bulk \subseteq Lines
  BY <1>1, SameDirection, BulkLines
<1>4. Gone(d)' /\ \A l : Gone(l) => Gone(l)'
  BY <1>1 DEF Gone, GroupsOf
<1>5. \A S : S \subseteq Lines /\ There(S) => \A l \in S : fo'.copies[l] > 0 \/ Gone(l)'
  BY <1>1, <1>4 DEF There
<1>6. \A l : Blocked(l) => Blocked(l)'
  BY <1>1, <1>3 DEF Blocked
<1>7. \A l : Settled(l) => Settled(l)'
  <2> SUFFICES ASSUME NEW l, Settled(l) PROVE Settled(l)'
    OBVIOUS
  <2>1. CASE \E k \in Bulk : Invoice[k] = Invoice[l] /\ (Blocked(k) \/ Gone(k))
    BY <1>3, <1>4, <1>6, <2>1 DEF Settled
  <2>2. CASE Invoice[l] \in fo'.own \cup {NoInvoice}
    BY <2>2 DEF Settled
  <2>3. CASE Invoice[l] \in fo.own /\ Invoice[l] \notin fo'.own
    <3>1. Invoice[l] \in InvoicesOf({d}) /\ Invoice[l] \notin InvoicesOf(fo.withMark \ {d})
      BY <1>1, <2>3
    <3>2. Invoice[l] \in InvoicesOf(fo.withMark)
      BY <1>2, <2>3 DEF MarkedBooks
    <3>3. d \in fo.withMark /\ Invoice[d] = Invoice[l]
      BY <3>1, <3>2 DEF InvoicesOf
    <3>4. QED
      BY <1>1, <1>3, <1>4, <3>3 DEF Settled, MarkInv
  <2>4. QED
    BY <2>1, <2>2, <2>3 DEF Settled
<1>8. MarkedBooks'
  <2>1. fo'.own \subseteq InvoicesOf(fo'.withMark)
    BY <1>1, <1>2 DEF MarkedBooks, InvoicesOf
  <2>2. \A l \in Bulk \cap Written' : l \in Written
    BY <1>1, <1>3 DEF Written
  <2>3. QED
    BY <1>2, <1>3, <1>7, <2>1, <2>2 DEF MarkedBooks
<1>9. proc.existing \subseteq Lines /\ proc.todo \subseteq Lines
  BY <1>1 DEF ShapeInv, Calls
<1>10. There(proc.existing)' /\ (There(proc.todo) => There(proc.todo)')
  BY <1>1, <1>2, <1>5, <1>9 DEF KnownPosted, There
<1>11. NotThere(proc.todo) => NotThere(proc.todo)'
  BY <1>1, <1>9 DEF NotThere
<1>12. KnownPosted'
  BY <1>1, <1>2, <1>3, <1>7, <1>10 DEF KnownPosted
<1>13. AskedFor'
  BY <1>1, <1>2, <1>7, <1>10, <1>11 DEF AskedFor, InRequest
<1>14. QED
  BY <1>8, <1>12, <1>13

LEMMA ReturnStep ==
  ASSUME HeldApart PROVE Solid /\ ReturnInv /\ [CashNext]_cvars => ReturnInv'
<1> SUFFICES ASSUME Solid, ReturnInv, [CashNext]_cvars PROVE ReturnInv'
  OBVIOUS
<1>1. ShapeInv
  BY DEF Solid, PlannedInv
<1>2. CASE \/ Start \/ ListExisting \/ PostCashOutLedgerLine \/ PlanPatches
           \/ SkipPatch \/ Finish \/ CountBefore
  BY <1>2, StartReturned, ListReturned, LedgerReturned, PlanReturned, SkipReturned,
     FinishReturned, CountReturned
<1>3. CASE \/ PostPatch \/ WaitForLines \/ RecoverAlreadyMarked \/ Rematch
           \/ PrepareUnmarkedRetry \/ PostUnmarked
  BY <1>3, PostReturned, WaitReturned, RecoverReturned, RetryReturned
<1>4. CASE CatchUp \/ \E l \in Lines : FinanceDeletesLine(l)
  BY <1>4, CatchUpReturned, DeleteReturned
<1>5. CASE Crash
  <2>1. Reset /\ fo' = fo /\ SameTroubles
    BY <1>1, <1>5, CrashSets
  <2>2. proc'.direction = proc.direction
    BY <2>1 DEF Reset
  <2>3. trouble.ghosts = 0 => MarkedBooks'
    BY <2>1, <2>2, SameBooksMarked DEF ReturnInv
  <2>4. QED
    BY <2>1, <2>3, ResetReturned DEF ReturnInv, SameTroubles
<1>6. CASE UNCHANGED cvars
  <2>1. fo' = fo /\ proc' = proc /\ SameTroubles
        /\ proc.existing \subseteq Lines /\ proc.todo \subseteq Lines
    BY <1>1, <1>6 DEF cvars, SameTroubles, ShapeInv, Calls
  <2> SUFFICES ASSUME trouble'.ghosts = 0 PROVE MarkedBooks' /\ KnownPosted' /\ AskedFor'
    BY DEF ReturnInv
  <2>2. MarkedBooks /\ KnownPosted /\ AskedFor
    BY <2>1 DEF ReturnInv, SameTroubles
  <2>3. /\ MarkedBooks' /\ Bulk' = Bulk
        /\ \A S : S \subseteq Lines /\ There(S) => There(S)'
        /\ \A l : Settled(l) => Settled(l)'
    BY <2>1, <2>2, SameBooksMarked, SameDirection
  <2>4. There(proc.existing)' /\ (There(proc.todo) => There(proc.todo)')
    BY <2>1, <2>2, <2>3 DEF KnownPosted, There
  <2>5. KnownPosted'
    BY <2>1, <2>2, <2>3, <2>4 DEF KnownPosted
  <2>6. AskedFor'
    BY <2>1, <2>2, <2>3, <2>4 DEF AskedFor, NotThere, InRequest
  <2>7. QED
    BY <2>3, <2>5, <2>6
<1>7. QED
  BY <1>2, <1>3, <1>4, <1>5, <1>6 DEF CashNext

LEMMA SolidInv == CashSpec => []Solid
<1>1. CashInit => PlannedInv /\ GroupInv /\ FailInv
  BY PlannedInit, GroupInvInit, FailInit
<1>2. PlannedInv /\ GroupInv /\ FailInv /\ [CashNext]_cvars => (PlannedInv /\ GroupInv /\ FailInv)'
  BY PlannedStep, GroupInvStep, FailStep
<1>3. PlannedInv /\ GroupInv /\ FailInv => Solid
  BY DEF Solid, GroupInv
<1>4. QED
  BY <1>1, <1>2, <1>3, PTL DEF CashSpec

LEMMA CallsReturn == ASSUME HeldApart PROVE CashSpec => [](Solid /\ ReturnInv)
BY SolidInv, ReturnInit, ReturnStep, PTL DEF CashSpec

(* A call that Finance tells that its own journal holds the lock has       *)
(* written the request, in every journal and however often Finance has     *)
(* troubled it, if no mark was left without its lines and no other entry   *)
(* marks the invoice of a withholding pair.                                *)
THEOREM SelfCiteCommitted == ASSUME HeldApart PROVE CashSpec => []SelfCiteIsCommitted
<1>1. ReturnInv => SelfCiteIsCommitted
  BY DEF ReturnInv, AskedFor, InRequest, There, SelfCiteIsCommitted
<1>2. QED
  BY <1>1, CallsReturn, PTL

(* A call that returns leaves a journal that has all its lines, those of   *)
(* the requests that were accepted and those it has found or taken for     *)
(* posted, unless Finance has deleted one of an entry.                     *)
THEOREM ReturnComplete == ASSUME HeldApart PROVE CashSpec => []ReturnedIsComplete
<1>1. Solid /\ ReturnInv => ReturnedIsComplete
  <2> SUFFICES ASSUME Solid, ReturnInv, proc.pc = "done", trouble.ghosts = 0,
                      NEW l \in Lines
               PROVE  fo.copies[l] > 0 \/ Gone(l)
    BY DEF ReturnedIsComplete, At
  <2>1. ShapeInv /\ PlanInv /\ There(proc.existing)
    BY DEF Solid, PlannedInv, ReturnInv, KnownPosted
  <2>2. /\ Lines \ Bulk \subseteq proc.existing /\ proc.at > Patches
        /\ \A p \in 1..(proc.at - 1) : Patch(p) \subseteq proc.existing
    BY <2>1 DEF PlanInv, Planned
  <2>3. l \in proc.existing
    <3>1. CASE l \in Bulk
      <4>1. PICK p \in 1..Patches : l \in Patch(p)
        BY <3>1, Covered
      <4>2. p \in 1..(proc.at - 1)
        BY <2>1, <2>2, <4>1, PatchesNat DEF ShapeInv, Calls
      <4>3. QED
        BY <2>2, <4>1, <4>2
    <3>2. QED
      BY <2>2, <3>1
  <2>4. QED
    BY <2>1, <2>3 DEF There
<1>2. QED
  BY <1>1, CallsReturn, PTL

(* ... and every invoice it was to settle is marked, unless another        *)
(* journal holds an invoice of the same request or Finance has deleted a   *)
(* line of the entry.                                                      *)
THEOREM ReturnSettled == ASSUME HeldApart PROVE CashSpec => []ReturnedHasSettled
<1>1. ReturnInv /\ ReturnedIsComplete => ReturnedHasSettled
  <2> SUFFICES ASSUME ReturnInv, ReturnedIsComplete, proc.pc = "done", trouble.ghosts = 0,
                      NEW l \in Bulk
               PROVE  Settled(l)
    BY DEF ReturnedHasSettled, At, Settled
  <2>1. fo.copies[l] > 0 \/ Gone(l)
    BY BulkLines DEF ReturnedIsComplete, At
  <2>2. CASE Gone(l)
    BY <2>2 DEF Settled
  <2>3. CASE fo.copies[l] > 0
    BY <2>3, BulkLines DEF ReturnInv, MarkedBooks, Written
  <2>4. QED
    BY <2>1, <2>2, <2>3
<1>2. QED
  BY <1>1, CallsReturn, ReturnComplete, PTL

-----------------------------------------------------------------------------
(* What a journal has twice.                                               *)

LEMMA SameCount ==
  ASSUME fo'.shown = fo.shown \/ proc.direction = "in", proc'.direction = proc.direction
  PROVE  IntegrityCount' = IntegrityCount
<1>1. \A l \in Lines : IntegrityLines(l)' = IntegrityLines(l)
  BY DEF IntegrityLines
<1>2. UNION {{l} \X (1..IntegrityLines(l)') : l \in Lines}
        = UNION {{l} \X (1..IntegrityLines(l)) : l \in Lines}
  BY <1>1
<1>3. QED
  BY <1>2 DEF IntegrityCount

(* Troubles only add up.                                                   *)
LEMMA Untroubled ==
  ASSUME ShapeInv, SameTroubles \/ \E what \in Troubles : Suffer(what),
         trouble'.lost = 0, trouble'.unread = 0
  PROVE  trouble.lost = 0 /\ trouble.unread = 0 /\ ~Suffer("lost") /\ ~Suffer("unread")
BY Suffered DEF SameTroubles, Troubles

LEMMA WipedKept ==
  ASSUME proc'.direction = proc.direction, fo.deleted \subseteq fo'.deleted
  PROVE  \A l : Wiped(l) => Wiped(l)'
BY SameDirection DEF Wiped

(* Books with no new copy, and books where lines that were not there have  *)
(* one.                                                                    *)
LEMMA FewerCopies ==
  ASSUME ShapeInv, ShapeInv', OnceBooks, proc'.direction = proc.direction,
         fo.deleted \subseteq fo'.deleted,
         \A l \in Lines : fo'.copies[l] <= fo.copies[l] \/ fo'.copies[l] <= 1 \/ Wiped(l)
  PROVE  OnceBooks'
BY WipedKept DEF OnceBooks, ShapeInv, Books

LEMMA OutsideRequest ==
  ASSUME proc'.pc \notin InRequest PROVE OnceCall'
BY DEF OnceCall, InRequest

LEMMA OnceInit == CashInit => OnceInv
<1> SUFFICES ASSUME CashInit PROVE OnceInv
  OBVIOUS
<1>1. proc.pc = "idle" /\ \A l \in Lines : fo.copies[l] = 0
  BY DEF CashInit, Proc
<1>2. QED
  BY <1>1 DEF OnceInv, OnceBooks, OnceCall

(* The steps of the plan.                                                  *)
LEMMA PlannedOnce ==
  ASSUME PlannedInv, OnceInv,
         \/ Start \/ ListExisting \/ PlanPatches \/ SkipPatch \/ Finish \/ Crash
  PROVE  OnceInv'
<1>1. ShapeInv
  BY DEF PlannedInv
<1>2. /\ SameTroubles /\ proc'.direction = proc.direction /\ proc'.pc \notin InRequest
      /\ fo'.copies = fo.copies /\ fo'.deleted = fo.deleted
  BY <1>1, StartSets, ListSets, PlanSets, SkipSets, FinishSets, CrashSets
  DEF Reset, Refreshed, SamePlan, InRequest
<1>3. OnceBooks => OnceBooks'
  BY <1>2, WipedKept DEF OnceBooks
<1>4. QED
  BY <1>2, <1>3, OutsideRequest DEF OnceInv, SameTroubles

LEMMA LedgerOnce ==
  ASSUME PlannedInv, PlannedInv', OnceInv, PostCashOutLedgerLine PROVE OnceInv'
<1>1. ShapeInv /\ PlanInv /\ proc.pc = "ledger" /\ ShapeInv'
  BY DEF PlannedInv, PostCashOutLedgerLine, At
<1>2. PICK l \in LedgerLeft :
           /\ l \in Lines \ Bulk /\ l \notin proc.existing
           /\ proc'.direction = proc.direction /\ proc'.pc \in {"ledger", "idle"}
           /\ \/ fo' = fo /\ SameTroubles
              \/ /\ fo'.deleted = fo.deleted
                 /\ \A k \in Lines : k # l => fo'.copies[k] = fo.copies[k]
                 /\ \/ fo'.copies[l] = fo.copies[l] + 1 /\ (SameTroubles \/ Suffer("lost"))
                    \/ Suffer("lost")
  <2>1. PICK l \in LedgerLeft :
           /\ l \in Lines \ Bulk /\ l \notin proc.existing
           /\ \/ /\ proc' \in Calls /\ proc'.direction = proc.direction /\ proc'.pc = "ledger"
                 /\ proc'.existing = proc.existing \cup {l} /\ proc'.settled = proc.settled
                 /\ proc'.at = proc.at
              \/ Reset
           /\ \/ fo' = fo /\ SameTroubles /\ Reset
              \/ /\ fo' \in Books /\ fo'.withMark = fo.withMark /\ fo'.own = fo.own
                 /\ fo'.foreign = fo.foreign /\ fo'.deleted = fo.deleted
                 /\ \A k \in Lines : k # l => /\ fo'.copies[k] = fo.copies[k]
                                              /\ fo'.shown[k] = fo.shown[k]
                 /\ fo'.shown[l] = fo'.copies[l]
                 /\ \/ fo'.copies[l] = fo.copies[l] + 1 /\ (SameTroubles \/ Suffer("lost"))
                    \/ fo'.copies[l] = fo.copies[l] + 2 /\ Suffer("lost")
    BY <1>1, LedgerSets
  <2>2. QED
    BY <2>1 DEF Reset
<1>3. "lost" \in Troubles
  BY DEF Troubles
<1>4. SameTroubles \/ \E what \in Troubles : Suffer(what)
  BY <1>2, <1>3
<1> SUFFICES ASSUME trouble'.lost = 0, trouble'.unread = 0 PROVE OnceBooks' /\ OnceCall'
  BY DEF OnceInv
<1>5. trouble.lost = 0 /\ trouble.unread = 0 /\ ~Suffer("lost")
  BY <1>1, <1>4, Untroubled
<1>6. fo.copies[l] = 0
  BY <1>1, <1>2 DEF PlanInv, Written, ShapeInv, Books
<1>7. \A k \in Lines : fo'.copies[k] <= fo.copies[k] \/ fo'.copies[k] <= 1
  BY <1>1, <1>2, <1>5, <1>6 DEF ShapeInv, Books
<1>8. OnceBooks'
  BY <1>1, <1>2, <1>5, <1>7, FewerCopies DEF OnceInv
<1>9. QED
  BY <1>2, <1>8, OutsideRequest DEF InRequest

(* With lists that are up to date, the count before a request is exact.    *)
LEMMA CountOnce ==
  ASSUME LateCounts = FALSE, PlannedInv, OnceInv, CountBefore PROVE OnceInv'
<1> DEFINE todo == Patch(proc.at) \ proc.existing
<1>1. /\ ShapeInv /\ PlanInv /\ fo' = fo /\ proc.pc = "patch" /\ InStep
      /\ proc'.direction = proc.direction /\ proc'.pc = "post"
      /\ proc'.todo = todo /\ proc'.request = todo
      /\ \/ proc'.before = IntegrityCount /\ SameTroubles
         \/ Suffer("unread")
      /\ todo \subseteq Lines
  BY CountSets, PatchClosed, BulkLines DEF PlannedInv, InStep
<1> SUFFICES ASSUME trouble'.lost = 0, trouble'.unread = 0 PROVE OnceBooks' /\ OnceCall'
  BY DEF OnceInv
<1>2. ~Suffer("unread")
  BY <1>1, Suffered DEF Troubles
<1>3. OnceBooks /\ proc'.before = IntegrityCount
  BY <1>1, <1>2 DEF OnceInv, SameTroubles
<1>4. OnceBooks'
  BY <1>1, <1>3, WipedKept DEF OnceBooks
<1>5. IntegrityCount' = IntegrityCount /\ IntegrityCount \in Nat
  BY <1>1, SameCount, ListedFinite
<1>6. NotThere(todo)
  BY <1>1 DEF PlanInv, NotThere, Written, ShapeInv, Books
<1>7. Asked' /\ InStep'
  BY <1>1, <1>6 DEF Asked, NotThere, InStep
<1>8. OnceCall'
  BY <1>1, <1>3, <1>5, <1>7 DEF OnceCall
<1>9. QED
  BY <1>4, <1>8

-----------------------------------------------------------------------------
(* The steps of a request.                                                 *)

LEMMA WaitOnce ==
  ASSUME PlannedInv, FailInv, OnceInv, WaitForLines PROVE OnceInv'
<1>1. /\ ShapeInv /\ fo' = fo /\ proc.pc = "wait"
      /\ proc'.direction = proc.direction /\ proc'.todo = proc.todo
      /\ proc'.before = proc.before
      /\ proc'.pc = "recover" /\ proc'.fail = proc.fail
      /\ proc'.settled = proc.settled /\ proc'.request = proc.request
      /\ \/ proc'.seen = IntegrityCount /\ SameTroubles
         \/ Suffer("unread")
  BY WaitSets DEF PlannedInv, SamePlan
<1> SUFFICES ASSUME trouble'.lost = 0, trouble'.unread = 0 PROVE OnceBooks' /\ OnceCall'
  BY DEF OnceInv
<1>2. ~Suffer("unread")
  BY <1>1, Suffered DEF Troubles
<1>3. OnceBooks /\ OnceCall /\ proc'.seen = IntegrityCount
  BY <1>1, <1>2 DEF OnceInv, SameTroubles
<1>4. OnceBooks'
  BY <1>1, <1>3, WipedKept DEF OnceBooks
<1>5. /\ Count' = Count /\ MarksOf(proc.todo)' = MarksOf(proc.todo)
      /\ InStep' <=> InStep
      /\ NotThere(proc.todo)' <=> NotThere(proc.todo)
  BY <1>1, <1>3 DEF Count, MarksOf, InStep, NotThere
<1>6. OnceCall'
  BY <1>1, <1>3, <1>5 DEF OnceCall
<1>7. QED
  BY <1>4, <1>6

(* What is asked for again, because it is not listed, is not there: either *)
(* nothing of the request was written, or its missing lines are deleted.   *)
LEMMA RecoverOnce ==
  ASSUME PlannedInv, FailInv, OnceInv, RecoverAlreadyMarked PROVE OnceInv'
<1>0. PICK missing : missing = MissingOf(proc.todo)
  OBVIOUS
<1>1. /\ ShapeInv /\ MarkInv /\ fo' = fo /\ SameTroubles /\ proc.pc = "recover"
      /\ \/ Reset
         \/ proc' = Accepted
         \/ /\ ~RematchRefused(missing)
            /\ proc'.direction = proc.direction /\ proc'.todo = proc.todo
            /\ proc'.pc = "rematch" /\ proc'.fail = proc.fail /\ proc'.request = missing
            /\ \E refreshed \in {{}, SettledInFinance} :
                 proc'.settled = proc.settled \cup refreshed
      /\ proc.todo \in SUBSET Lines /\ proc.before \in Nat
  BY <1>0, RecoverSets DEF PlannedInv, SamePlan, ShapeInv, Calls
<1> SUFFICES ASSUME trouble'.lost = 0, trouble'.unread = 0 PROVE OnceBooks' /\ OnceCall'
  BY DEF OnceInv
<1>2. OnceBooks /\ OnceCall
  BY <1>1 DEF OnceInv, SameTroubles
<1>3. proc'.direction = proc.direction
  BY <1>1, AcceptedSets DEF Reset
<1>4. OnceBooks'
  BY <1>1, <1>2, <1>3, WipedKept DEF OnceBooks
<1>5. CASE Reset \/ proc' = Accepted
  <2>1. proc'.pc \notin InRequest
    BY <1>1, <1>5, AcceptedSets DEF Reset, InRequest
  <2>2. QED
    BY <1>4, <2>1, OutsideRequest
<1>6. CASE /\ ~RematchRefused(missing)
           /\ proc'.direction = proc.direction /\ proc'.todo = proc.todo
           /\ proc'.pc = "rematch" /\ proc'.fail = proc.fail /\ proc'.request = missing
           /\ \E refreshed \in {{}, SettledInFinance} :
                proc'.settled = proc.settled \cup refreshed
  <2>1. /\ proc.request = proc.todo /\ proc.fail \in {"self", "foreign"}
        /\ proc.direction = "in" => proc.seen <= proc.before
        /\ \/ NotThere(proc.todo) /\ proc.seen <= proc.before /\ InStep
           \/ /\ \A l \in proc.todo : fo.copies[l] > 0 \/ l \in fo.deleted
              /\ proc.fail = "self"
              /\ InStep \/ (proc.seen <= proc.before /\ \A l \in proc.todo : fo.shown[l] = 0)
        /\ proc.fail = "foreign" => MarksOf(proc.todo) \cap fo.foreign # {}
    BY <1>1, <1>2 DEF OnceCall, Count, FailInv
  <2>2. proc.fail = "self" /\ proc.seen <= proc.before => missing # proc.todo
    BY <1>6 DEF RematchRefused
  <2>3. proc'.fail = "foreign" => MarksOf(proc.todo)' \cap fo'.foreign # {}
    <3>1. PICK refreshed \in {{}, SettledInFinance} :
            proc'.settled = proc.settled \cup refreshed
      BY <1>6
    <3>2. refreshed \cap fo.foreign = {}
      BY <1>1 DEF MarkInv, SettledInFinance, InvoicesOf
    <3>3. MarksOf(proc.todo) \ refreshed \subseteq MarksOf(proc.todo)'
      BY <1>6, <3>1 DEF MarksOf, InvoicesOf
    <3>4. QED
      BY <1>1, <1>6, <2>1, <3>2, <3>3
  <2>4. CASE NotThere(proc.todo) /\ proc.seen <= proc.before
    <3>1. missing = proc.todo
      BY <1>0, <1>1, <2>4, AllMissing
    <3>2. proc.fail = "foreign"
      BY <2>1, <2>2, <2>4, <3>1
    <3>3. Asked'
      BY <1>1, <1>6, <2>4, <3>1 DEF Asked, NotThere
    <3>4. QED
      BY <1>4, <1>6, <2>3, <3>2, <3>3 DEF OnceCall
  <2>5. CASE /\ \A l \in proc.todo : fo.copies[l] > 0 \/ l \in fo.deleted
             /\ proc.fail = "self"
             /\ InStep \/ (proc.seen <= proc.before /\ \A l \in proc.todo : fo.shown[l] = 0)
    <3>1. (\A l \in proc.todo : fo.shown[l] = 0) => missing = proc.todo
      BY <1>0 DEF MissingOf, IntegrityLines
    <3>2. InStep
      BY <2>2, <2>5, <3>1
    <3>3. proc.direction = "out"
      <4>1. proc.direction = "in" => missing = proc.todo
        BY <1>0 DEF MissingOf, IntegrityLines
      <4>2. proc.direction \in Directions
        BY <1>1 DEF ShapeInv, Calls
      <4>3. QED
        BY <2>1, <2>2, <2>5, <4>1, <4>2 DEF Directions
    <3>4. missing = {l \in proc.todo : fo.shown[l] = 0}
      BY <1>0, <3>3 DEF MissingOf, IntegrityLines
    <3>5. \A l \in missing : fo.copies[l] = 0 /\ l \in fo.deleted
      BY <1>1, <2>5, <3>2, <3>4 DEF InStep, ShapeInv, Books
    <3>6. \A l \in proc.todo \ missing : fo.shown[l] > 0
      BY <1>1, <3>4 DEF ShapeInv, Books
    <3>7. /\ NotThere(proc.request)' /\ Noticed(proc.todo \ proc.request)'
          /\ proc'.request \subseteq fo'.deleted
      BY <1>1, <1>6, <3>5, <3>6 DEF NotThere, Noticed
    <3>8. QED
      BY <1>4, <1>6, <2>3, <3>3, <3>7 DEF OnceCall
  <2>6. QED
    BY <2>1, <2>4, <2>5
<1>7. QED
  BY <1>1, <1>5, <1>6

(* The lines that are tried without marks are those of the request, or of  *)
(* entries of which Finance has deleted each line.                         *)
LEMMA RetryWiped ==
  ASSUME PlanInv, proc.pc \in InRequest, proc.direction = "out", Noticed(proc.todo),
         NEW S, NEW l \in CompleteUnmarked(S)
  PROVE  Wiped(l)
<1> DEFINE complete == {k \in proc.todo : GroupOf[k] \in GroupsOf(S)}
<1>1. /\ l \in proc.todo /\ GroupOf[l] \in GroupsOf(S)
      /\ GroupOf[l] \notin GroupsOf(complete \ MissingOf(complete))
  BY DEF CompleteUnmarked
<1>2. /\ proc.todo = Patch(proc.at) \ proc.existing /\ Closed(proc.existing)
  BY DEF PlanInv, InRequest, Planned
<1>3. proc.todo \subseteq Bulk /\ Closed(proc.todo)
  BY <1>2, PatchClosed DEF Closed
<1>4. ASSUME NEW k \in Bulk, GroupOf[k] = GroupOf[l] PROVE k \in fo.deleted
  <2>1. k \in complete
    BY <1>1, <1>3, <1>4 DEF Closed
  <2>2. k \in MissingOf(complete)
    BY <1>1, <1>4, <2>1 DEF GroupsOf
  <2>3. fo.shown[k] = 0
    BY <2>2 DEF MissingOf, IntegrityLines
  <2>4. QED
    BY <2>1, <2>3 DEF Noticed
<1>5. QED
  BY <1>1, <1>3, <1>4 DEF Wiped

LEMMA RetryOnce ==
  ASSUME PlannedInv, OnceInv, PrepareUnmarkedRetry PROVE OnceInv'
<1>0. PICK retry : retry = CompleteUnmarked(MissingOf(RetryCandidates))
  OBVIOUS
<1>1. /\ ShapeInv /\ PlanInv /\ fo' = fo /\ SameTroubles /\ proc.pc = "unmark"
      /\ \/ Reset
         \/ proc' = Accepted
         \/ /\ CanUnmarkedRetry
            /\ proc'.direction = proc.direction /\ proc'.todo = proc.todo
            /\ proc'.pc = "plain" /\ proc'.fail = proc.fail /\ proc'.request = retry
  BY <1>0, RetrySets DEF PlannedInv, SamePlan
<1> SUFFICES ASSUME trouble'.lost = 0, trouble'.unread = 0 PROVE OnceBooks' /\ OnceCall'
  BY DEF OnceInv
<1>2. OnceBooks /\ OnceCall
  BY <1>1 DEF OnceInv, SameTroubles
<1>3. proc'.direction = proc.direction
  BY <1>1, AcceptedSets DEF Reset
<1>4. OnceBooks'
  BY <1>1, <1>2, <1>3, WipedKept DEF OnceBooks
<1>5. CASE Reset \/ proc' = Accepted
  <2>1. proc'.pc \notin InRequest
    BY <1>1, <1>5, AcceptedSets DEF Reset, InRequest
  <2>2. QED
    BY <1>4, <2>1, OutsideRequest
<1>6. CASE /\ CanUnmarkedRetry
           /\ proc'.direction = proc.direction /\ proc'.todo = proc.todo
           /\ proc'.pc = "plain" /\ proc'.fail = proc.fail /\ proc'.request = retry
  <2>1. Asked \/ (proc.direction = "out" /\ Noticed(proc.todo))
    BY <1>1, <1>2, <1>6 DEF OnceCall, CanUnmarkedRetry
  <2>2. CASE Asked
    <3>1. retry = proc.todo
      BY <1>0, <1>1, <2>2, AllRetried DEF Asked
    <3>2. Asked'
      BY <1>1, <1>6, <2>2, <3>1 DEF Asked, NotThere
    <3>3. QED
      BY <1>4, <1>6, <3>2 DEF OnceCall
  <2>3. CASE proc.direction = "out" /\ Noticed(proc.todo)
    <3>1. \A l \in retry : Wiped(l)
      BY <1>0, <1>1, <2>3, RetryWiped DEF InRequest
    <3>2. \A l \in proc'.request : Wiped(l)'
      BY <1>1, <1>6, <3>1, WipedKept
    <3>3. Noticed(proc.todo)'
      BY <1>1, <1>6, <2>3 DEF Noticed
    <3>4. QED
      BY <1>4, <1>6, <2>3, <3>2, <3>3 DEF OnceCall
  <2>4. QED
    BY <2>1, <2>2, <2>3
<1>7. QED
  BY <1>1, <1>5, <1>6

(* The call after a request that has failed.                               *)
LEMMA FailedOnce ==
  ASSUME ShapeInv, OnceCall, FailInv, NEW why \in Refusals, proc' = AfterFailure(why),
         proc.pc \in {"post", "rematch"},
         fo'.shown = fo.shown, fo'.deleted = fo.deleted, fo'.foreign = fo.foreign,
         \/ fo'.copies = fo.copies
         \/ /\ why = "self" /\ ~(proc.pc = "rematch" /\ Asked /\ proc.fail = "foreign")
            /\ \A l \in proc.request : fo'.copies[l] > 0,
         why = "foreign" => Marks \cap fo.foreign # {}
  PROVE  OnceCall'
<1>1. /\ proc'.direction = proc.direction /\ proc'.fail = why
      /\ proc'.pc = IF proc.pc = "post" /\ why # "amount" THEN "wait" ELSE "unmark"
      /\ proc'.todo = proc.todo /\ proc'.request = proc.request
      /\ proc'.settled = proc.settled /\ proc'.before = proc.before
  BY FailedSets DEF AfterFailure
<1>2. proc.todo \subseteq Lines /\ proc.before \in Nat
  BY DEF ShapeInv, Calls
<1>3. CASE proc.pc = "post"
  <2>1. Asked /\ InStep /\ IntegrityCount <= proc.before /\ proc.request = proc.todo
    BY <1>3 DEF OnceCall, Asked
  <2>2. IntegrityCount' <= proc'.before
    BY <1>1, <2>1, SameCount
  <2>3. CASE why = "amount"
    BY <1>1, <1>3, <2>3 DEF OnceCall
  <2>4. CASE why # "amount"
    <3>1. proc'.pc = "wait" /\ why \in {"self", "foreign"} /\ Count' = IntegrityCount'
      BY <1>1, <1>3, <2>4 DEF Refusals, Count
    <3>2. why = "foreign" => MarksOf(proc.todo)' \cap fo'.foreign # {}
      BY <1>1, <1>3, <2>1 DEF Marks, MarksOf
    <3>3. \A l \in proc.todo : fo'.shown[l] = 0
      BY <1>2, <2>1 DEF ShapeInv, Books, Asked, NotThere
    <3>4. CASE fo'.copies = fo.copies
      <4>1. NotThere(proc.todo)' /\ InStep'
        BY <1>1, <2>1, <3>4 DEF Asked, NotThere, InStep
      <4>2. QED
        BY <1>1, <2>1, <2>2, <3>1, <3>2, <4>1 DEF OnceCall
    <3>5. CASE why = "self" /\ \A l \in proc.request : fo'.copies[l] > 0
      BY <1>1, <2>1, <2>2, <3>1, <3>3, <3>5 DEF OnceCall
    <3>6. QED
      BY <3>4, <3>5
  <2>5. QED
    BY <2>3, <2>4
<1>4. CASE proc.pc = "rematch"
  <2>1. proc'.pc = "unmark"
    BY <1>1, <1>4
  <2>2. \/ Asked /\ proc.fail = "foreign"
        \/ /\ proc.direction = "out"
           /\ Noticed(proc.todo \ proc.request) /\ proc.request \subseteq fo.deleted
    BY <1>4 DEF OnceCall
  <2>3. CASE Asked /\ proc.fail = "foreign"
    <3>1. Asked'
      BY <1>1, <1>4, <2>3 DEF Asked, NotThere
    <3>2. QED
      BY <2>1, <3>1 DEF OnceCall
  <2>4. CASE /\ proc.direction = "out"
             /\ Noticed(proc.todo \ proc.request) /\ proc.request \subseteq fo.deleted
    <3>1. Noticed(proc.todo)'
      BY <1>1, <2>4 DEF Noticed
    <3>2. QED
      BY <1>1, <2>1, <2>4, <3>1 DEF OnceCall
  <2>5. QED
    BY <2>2, <2>3, <2>4
<1>5. QED
  BY <1>3, <1>4

LEMMA PostOnce ==
  ASSUME Solid, OnceInv, PostPatch \/ Rematch \/ PostUnmarked PROVE OnceInv'
<1> SUFFICES ASSUME trouble'.lost = 0, trouble'.unread = 0 PROVE OnceBooks' /\ OnceCall'
  BY DEF OnceInv
<1> DEFINE S == proc.request
           M == Marks
           one == Bump(fo.copies, S)
<1>1. /\ ShapeInv /\ PlanInv /\ FailInv /\ proc.pc \in InRequest
      /\ proc.pc \in {"post", "rematch", "plain"}
  BY PostSets DEF Solid, PlannedInv, InRequest
<1>2. M \in SUBSET Invoices /\ S \in SUBSET Lines
  BY <1>1, PostSets DEF ShapeInv, Calls, PlanInv
<1>3. PICK failure : /\ Request(S, M, Accepted, failure)
                     /\ \A why \in Refusals : failure[why] = AfterFailure(why)
  BY <1>1, PostSets
<1>4. /\ failure["self"] = AfterFailure("self") /\ failure["foreign"] = AfterFailure("foreign")
      /\ failure["amount"] = AfterFailure("amount") /\ {"self", "foreign", "amount"} = Refusals
  BY <1>3 DEF Refusals
<1>5. \A l \in Lines : one[l] = IF l \in S THEN fo.copies[l] + 1 ELSE fo.copies[l]
  BY <1>1, <1>2, Bumped
<1>6. {"lost", "ghosts", "unread"} \subseteq Troubles
  BY DEF Troubles
<1> HIDE DEF one, S, M
<1>7. \/ /\ M \cap (fo.own \cup fo.foreign) = {} /\ Wrote(S, M, one) /\ SameTroubles
         /\ proc' = Accepted \/ (M # {} /\ proc' = AfterFailure("self"))
      \/ Suffer("lost")
      \/ Throw /\ fo' = fo /\ SameTroubles
      \/ Throw /\ Wrote({}, M, fo.copies) /\ Suffer("ghosts")
      \/ /\ fo' = fo /\ SameTroubles /\ M # {}
         /\ \E why \in Refusals : /\ proc' = AfterFailure(why)
                                  /\ why = "foreign" => M \cap fo.foreign # {}
  BY <1>1, <1>2, <1>3, <1>4, RequestSets DEF one
<1>8. SameTroubles \/ \E what \in Troubles : Suffer(what)
  BY <1>6, <1>7
<1>9. OnceBooks /\ OnceCall /\ ~Suffer("lost")
  BY <1>1, <1>8, Untroubled DEF OnceInv
<1>10. proc'.direction = proc.direction /\ ShapeInv'
  BY PostPlanned DEF Solid, PlannedInv
<1>11. proc.pc = "plain" => M = {}
  BY DEF M, Marks
<1>12. proc' = Accepted \/ Throw => proc'.pc \notin InRequest
  BY <1>1, AcceptedSets, Thrown DEF Reset, InRequest
<1>13. CASE Throw /\ (fo' = fo \/ Wrote({}, M, fo.copies))
  <2>1. fo'.copies = fo.copies /\ fo'.deleted = fo.deleted
    BY <1>13 DEF Wrote
  <2>2. OnceBooks'
    BY <1>9, <1>10, <2>1, WipedKept DEF OnceBooks
  <2>3. QED
    BY <1>12, <1>13, <2>2, OutsideRequest
<1>14. CASE /\ fo' = fo /\ M # {}
            /\ \E why \in Refusals : /\ proc' = AfterFailure(why)
                                     /\ why = "foreign" => M \cap fo.foreign # {}
  <2>1. OnceBooks'
    BY <1>9, <1>10, <1>14, WipedKept DEF OnceBooks
  <2>2. proc.pc \in {"post", "rematch"}
    BY <1>1, <1>11, <1>14
  <2>3. OnceCall'
    BY <1>1, <1>9, <1>14, <2>2, FailedOnce DEF M
  <2>4. QED
    BY <2>1, <2>3
<1>15. CASE /\ M \cap (fo.own \cup fo.foreign) = {} /\ Wrote(S, M, one)
            /\ proc' = Accepted \/ (M # {} /\ proc' = AfterFailure("self"))
  <2>1. /\ fo'.copies = one /\ fo'.shown = fo.shown /\ fo'.deleted = fo.deleted
        /\ fo'.foreign = fo.foreign
    BY <1>15 DEF Wrote
  <2>2. ~(proc.pc = "rematch" /\ Asked /\ proc.fail = "foreign")
    BY <1>9, <1>15 DEF OnceCall, Asked, M, Marks
  <2>3. \A l \in S : fo.copies[l] = 0 \/ Wiped(l)
    <3>1. S \subseteq proc.todo
      BY <1>1 DEF PlanInv, S
    <3>2. CASE proc.pc \in {"post", "rematch"}
      BY <1>9, <2>2, <3>1, <3>2 DEF OnceCall, Asked, NotThere, S
    <3>3. CASE proc.pc = "plain"
      <4>1. proc.fail # "amount"
        BY <1>1, <3>3 DEF FailInv
      <4>2. Asked \/ \A l \in S : Wiped(l)
        BY <1>9, <3>3, <4>1 DEF OnceCall, S
      <4>3. QED
        BY <3>1, <4>2 DEF Asked, NotThere
    <3>4. QED
      BY <1>1, <3>2, <3>3
  <2>4. \A l \in Lines : fo'.copies[l] <= fo.copies[l] \/ fo'.copies[l] <= 1 \/ Wiped(l)
    BY <1>1, <1>5, <2>1, <2>3 DEF ShapeInv, Books
  <2>5. OnceBooks'
    BY <1>1, <1>9, <1>10, <2>1, <2>4, FewerCopies
  <2>6. CASE proc' = Accepted
    BY <1>12, <2>5, <2>6, OutsideRequest
  <2>7. CASE M # {} /\ proc' = AfterFailure("self")
    <3>1. proc.pc \in {"post", "rematch"} /\ "self" \in Refusals
      BY <1>1, <1>4, <1>11, <2>7
    <3>2. \A l \in proc.request : fo'.copies[l] > 0
      BY <1>1, <1>2, <1>5, <2>1 DEF ShapeInv, Books, S
    <3>3. OnceCall'
      BY <1>1, <1>9, <2>1, <2>2, <2>7, <3>1, <3>2, FailedOnce
    <3>4. QED
      BY <2>5, <3>3
  <2>8. QED
    BY <1>15, <2>6, <2>7
<1>16. QED
  BY <1>7, <1>9, <1>13, <1>14, <1>15

-----------------------------------------------------------------------------

LEMMA CatchUpOnce ==
  ASSUME PlannedInv, OnceInv, CatchUp PROVE OnceInv'
<1>1. ShapeInv /\ Refreshed /\ SameTroubles /\ proc' = proc /\ ~InStep /\ InStep'
  BY CatchUpSets DEF PlannedInv, CatchUp, InStep, Refreshed
<1> SUFFICES ASSUME trouble'.lost = 0, trouble'.unread = 0 PROVE OnceBooks' /\ OnceCall'
  BY DEF OnceInv
<1>2. OnceBooks /\ OnceCall
  BY <1>1 DEF OnceInv, SameTroubles
<1>3. OnceBooks'
  BY <1>1, <1>2, WipedKept DEF OnceBooks, Refreshed
<1>4. /\ proc.todo \subseteq Lines /\ proc.request \subseteq proc.todo \cup Lines
      /\ proc.before \in Nat
  BY <1>1 DEF ShapeInv, Calls
<1>5. \A T : T \subseteq Lines /\ Noticed(T) => \A l \in T : fo'.shown[l] > 0 \/ l \in fo'.deleted
  BY <1>1 DEF Noticed, Refreshed, ShapeInv, Books
<1>6. /\ Noticed(proc.todo) => Noticed(proc.todo)'
      /\ Noticed(proc.todo \ proc.request) => Noticed(proc.todo \ proc.request)'
  BY <1>1, <1>4, <1>5 DEF Noticed
<1>7. (Asked => Asked') /\ (NotThere(proc.request) => NotThere(proc.request)')
  BY <1>1 DEF Asked, NotThere, Refreshed
<1>8. \A l : Wiped(l) => Wiped(l)'
  BY <1>1, WipedKept DEF Refreshed
<1>9. proc.direction = "in" /\ proc.pc \in {"wait", "recover"} => Count' <= proc'.before
  <2>1. CASE proc.pc = "wait"
    BY <1>1, <1>2, <2>1, SameCount DEF Count, OnceCall
  <2>2. CASE proc.pc # "wait"
    BY <1>1, <1>2, <2>2 DEF Count, OnceCall
  <2>3. QED
    BY <2>1, <2>2
<1>10. MarksOf(proc.todo)' = MarksOf(proc.todo)
  BY <1>1 DEF MarksOf
<1>11. OnceCall'
  BY <1>1, <1>2, <1>6, <1>7, <1>8, <1>9, <1>10 DEF OnceCall, Refreshed
<1>12. QED
  BY <1>3, <1>11

LEMMA DeleteOnce ==
  ASSUME PlannedInv, PlannedInv', OnceInv, NEW d \in Lines, FinanceDeletesLine(d)
  PROVE  OnceInv'
<1>1. /\ ShapeInv /\ ShapeInv' /\ proc' = proc /\ Suffer("deleted")
      /\ fo'.copies[d] = 0 /\ fo'.shown[d] = 0
      /\ \A l \in Lines : l # d => fo'.copies[l] = fo.copies[l] /\ fo'.shown[l] = fo.shown[l]
      /\ fo'.foreign = fo.foreign /\ fo'.deleted = fo.deleted \cup {d}
  BY DeleteSets DEF PlannedInv
<1> SUFFICES ASSUME trouble'.lost = 0, trouble'.unread = 0 PROVE OnceBooks' /\ OnceCall'
  BY DEF OnceInv
<1>2. "deleted" \in Troubles
  BY DEF Troubles
<1>3. OnceBooks /\ OnceCall
  BY <1>1, <1>2, Untroubled DEF OnceInv
<1>4. \A l \in Lines : fo'.copies[l] <= fo.copies[l] /\ fo'.shown[l] <= fo.shown[l]
  BY <1>1 DEF ShapeInv, Books
<1>5. OnceBooks'
  BY <1>1, <1>3, <1>4, FewerCopies
<1>6. IntegrityCount' <= IntegrityCount /\ IntegrityCount \in Nat /\ IntegrityCount' \in Nat
  BY <1>1, <1>4, CountShrinks, ListedFinite
<1>7. proc.todo \subseteq Lines /\ proc.before \in Nat /\ proc.seen \in Nat
  BY <1>1 DEF ShapeInv, Calls
<1>8. proc.request \subseteq Lines
  BY <1>1 DEF ShapeInv, Calls
<1>9. InStep => InStep'
  BY <1>1 DEF InStep, ShapeInv, Books
<1>10. \A T : T \subseteq Lines /\ Noticed(T) => \A l \in T : fo'.shown[l] > 0 \/ l \in fo'.deleted
  BY <1>1 DEF Noticed
<1>11. /\ Noticed(proc.todo) => Noticed(proc.todo)'
       /\ Noticed(proc.todo \ proc.request) => Noticed(proc.todo \ proc.request)'
  BY <1>1, <1>7, <1>10 DEF Noticed
<1>12. /\ NotThere(proc.todo) => NotThere(proc.todo)'
       /\ NotThere(proc.request) => NotThere(proc.request)'
       /\ Asked => Asked'
  BY <1>1, <1>7, <1>8 DEF NotThere, Asked
<1>13. \A l : Wiped(l) => Wiped(l)'
  BY <1>1, WipedKept
<1>14. MarksOf(proc.todo)' = MarksOf(proc.todo)
  BY <1>1 DEF MarksOf
<1>15. proc.pc \in {"wait", "recover"} /\ Count <= proc.before => Count' <= proc'.before
  BY <1>1, <1>6, <1>7 DEF Count
<1>16. /\ (\A l \in proc.todo : fo.shown[l] = 0) => \A l \in proc.todo : fo'.shown[l] = 0
       /\ (\A l \in proc.todo : fo.copies[l] > 0 \/ l \in fo.deleted) =>
            \A l \in proc.todo : fo'.copies[l] > 0 \/ l \in fo'.deleted
  BY <1>1, <1>7
<1>17. OnceCall'
  <2>1. proc.pc = "post" => Asked' /\ InStep' /\ IntegrityCount' <= proc'.before
    BY <1>1, <1>3, <1>6, <1>7, <1>9, <1>12 DEF OnceCall
  <2>2. QED
    BY <1>1, <1>3, <1>9, <1>11, <1>12, <1>13, <1>14, <1>15, <1>16, <2>1 DEF OnceCall
<1>18. QED
  BY <1>5, <1>17

LEMMA OnceStep ==
  ASSUME LateCounts = FALSE
  PROVE  Solid /\ Solid' /\ OnceInv /\ [CashNext]_cvars => OnceInv'
<1> SUFFICES ASSUME Solid, Solid', OnceInv, [CashNext]_cvars PROVE OnceInv'
  OBVIOUS
<1>1. PlannedInv /\ PlannedInv' /\ FailInv
  BY DEF Solid
<1>2. CASE \/ Start \/ ListExisting \/ PostCashOutLedgerLine \/ PlanPatches
           \/ SkipPatch \/ Finish \/ CountBefore \/ Crash
  BY <1>1, <1>2, PlannedOnce, LedgerOnce, CountOnce
<1>3. CASE \/ PostPatch \/ WaitForLines \/ RecoverAlreadyMarked \/ Rematch
           \/ PrepareUnmarkedRetry \/ PostUnmarked
  BY <1>1, <1>3, PostOnce, WaitOnce, RecoverOnce, RetryOnce
<1>4. CASE CatchUp \/ \E l \in Lines : FinanceDeletesLine(l)
  BY <1>1, <1>4, CatchUpOnce, DeleteOnce
<1>5. CASE UNCHANGED cvars
  <2>1. fo' = fo /\ proc' = proc /\ trouble' = trouble
    BY <1>5 DEF cvars
  <2>2. OnceBooks => OnceBooks'
    BY <2>1, WipedKept DEF OnceBooks
  <2>3. /\ IntegrityCount' = IntegrityCount /\ MarksOf(proc.todo)' = MarksOf(proc.todo)
        /\ \A l : Wiped(l) => Wiped(l)'
    BY <2>1, SameCount, WipedKept DEF MarksOf
  <2>4. OnceCall => OnceCall'
    BY <2>1, <2>3 DEF OnceCall, Asked, NotThere, InStep, Count, Noticed
  <2>5. QED
    BY <2>1, <2>2, <2>4 DEF OnceInv
<1>6. QED
  BY <1>2, <1>3, <1>4, <1>5 DEF CashNext

(* No line of a journal is written twice, by any number of calls, retries  *)
(* and refusals, as long as no answer is lost, the lists that are counted  *)
(* before a request are up to date and can be read, and Finance has not    *)
(* deleted every line of the entry.                                        *)
THEOREM BulkLinesOnce ==
  ASSUME LateCounts = FALSE PROVE CashSpec => []LinesOnce
<1>1. OnceInv => LinesOnce
  BY DEF OnceInv, OnceBooks, LinesOnce
<1>2. QED
  BY <1>1, SolidInv, OnceInit, OnceStep, PTL DEF CashSpec
=============================================================================
