------------------------- MODULE ResumablePosting -------------------------
(***************************************************************************)
(* What the vendor and the customer-payment processors share: they never   *)
(* roll back.  The journals of a failed run stay in Finance, Finance may   *)
(* clean them up, and the next run resumes from the first open journal.    *)
(***************************************************************************)
EXTENDS DurableQueue

CONSTANTS
  LedgerGroups, \* the cash journals on the ledger route (Safe Type GL)
  MaxCleanups,  \* bound: journals deleted, or numbers reused, by Finance
  MaxLost       \* bound: answers of Finance that are lost

ASSUME ResumablePostingAssumption ==
  LedgerGroups \subseteq Groups /\ MaxCleanups \in Nat /\ MaxLost \in Nat

VARIABLES
  attempted,  \* dfoAttemptedIds of the batch
  outside     \* how often Finance has cleaned up, and lost an answer

rvars == <<vars, attempted, outside>>

Suffer(what, bound) == /\ outside[what] < bound
                       /\ outside' = [outside EXCEPT ![what] = @ + 1]

Created == {worker.created[i] : i \in 1..Len(worker.created)}
SnapshotHeaders == {worker.snap[g].header : g \in Groups} \ {NoHeader}
Recorded == {groups[g].header : g \in Groups} \ {NoHeader}

(* group 0 is a journal that is not of this batch; gone is the group whose *)
(* journal had this number, and all its lines, when Finance deleted it.    *)
NewJournal(g) == [group |-> g, live |-> TRUE, lines |-> "none", gone |-> 0]

RInit == Init /\ attempted = {} /\ outside = [cleanups |-> 0, lost |-> 0]

-----------------------------------------------------------------------------
(* Finance deletes a journal at any time; it gives a free number to        *)
(* another journal only while no run of the processor is under way.        *)

FinanceDelete(h) ==
  /\ fo[h].live
  /\ Suffer("cleanups", MaxCleanups)
  /\ fo' = [fo EXCEPT ![h].live = FALSE,
               ![h].gone = IF fo[h].lines \in {"full", "extra"}
                           THEN fo[h].group ELSE fo[h].gone]
  /\ UNCHANGED <<batch, job, groups, redis, worker, subs, ctl, boot, spent, attempted>>

FinanceReuse(h) ==
  /\ ~fo[h].live /\ worker.pc = "idle"
  /\ Suffer("cleanups", MaxCleanups)
  /\ fo' = [fo EXCEPT ![h].live = TRUE, ![h].group = 0, ![h].lines = "none"]
  /\ UNCHANGED <<batch, job, groups, redis, worker, subs, ctl, boot, spent, attempted>>

Finance == \E h \in HeaderIds : FinanceDelete(h) \/ FinanceReuse(h)

-----------------------------------------------------------------------------
(* A new header is refused, or made while its answer is lost; the client   *)
(* then posts it again, or gives up.                                       *)

HeaderRejected ==
  /\ worker.pc = "create"
  /\ Goto("caught")
  /\ UNCHANGED <<batch, job, groups, redis, fo, subs, ctl, boot, spent, attempted, outside>>

HeaderUnanswered ==
  /\ worker.pc = "create"
  /\ Len(fo) < MaxHeaders
  /\ Suffer("lost", MaxLost)
  /\ fo' = Append(fo, NewJournal(worker.at))
  /\ UNCHANGED worker \/ Goto("caught")
  /\ UNCHANGED <<batch, job, groups, redis, subs, ctl, boot, spent, attempted>>

-----------------------------------------------------------------------------
(* The lines of a journal in Finance: none, some but not all (partial),    *)
(* each once (full), each but some twice (extra), or some twice and some   *)
(* missing, fewer lines than the journal has (repeated) or as many         *)
(* (miscounted).  postLinesForHeader lists the lines that are there and    *)
(* skips them; the ledger route of a cash journal posts them all.          *)

(* Mutant: the lines that are there are not skipped.                       *)
LinesPostedBlindly(lines) == IF lines = "none" THEN "full" ELSE "extra"

Blind == worker.at \in LedgerGroups
Uneven == {"repeated", "miscounted"}

LinesPosted(lines) ==
  IF lines = "none" \/ (~Blind /\ lines \in {"partial", "full"})
  THEN "full" ELSE "extra"

(* What is there after a line failed: as before, or some or all of the     *)
(* lines that were still to be posted.                                     *)
PartlyPosted(lines) ==
  {lines, LinesPosted(lines)}
    \cup IF lines = "none" THEN {"partial"} ELSE {}
    \cup IF lines = "repeated" \/ (Blind /\ lines = "partial") THEN Uneven ELSE {}

AtLines == worker.pc = "lines" /\ fo[worker.key].live

WriteLines(after, pc) ==
  /\ fo' = [fo EXCEPT ![worker.key].lines = after]
  /\ Goto(pc)
  /\ UNCHANGED <<batch, job, groups, redis, subs, ctl, boot, spent, attempted>>

PostLines ==
  /\ AtLines
  /\ WriteLines(LinesPosted(fo[worker.key].lines), "complete")
  /\ UNCHANGED outside

(* The answer to a line is lost and the client posts the line again; a     *)
(* later line may still fail.                                              *)
PostLinesRepeated ==
  /\ AtLines
  /\ Suffer("lost", MaxLost)
  /\ \/ WriteLines("extra", "complete")
     \/ /\ fo[worker.key].lines \in {"none", "partial", "repeated"}
        /\ \E after \in Uneven : WriteLines(after, "caught")

(* Mutant: the failure of a line does not reach the processor.             *)
PostLinesRejectedSwallowed ==
  /\ AtLines
  /\ \E after \in PartlyPosted(fo[worker.key].lines) : WriteLines(after, "complete")
  /\ UNCHANGED outside

PostLinesRejected ==
  /\ AtLines
  /\ \E after \in PartlyPosted(fo[worker.key].lines) : WriteLines(after, "caught")
  /\ UNCHANGED outside

-----------------------------------------------------------------------------
(* The calls that fail outside postGroups' try go to processJob's catch,   *)
(* and from there, or from markActive, straight to BullMQ.                 *)
StoreFault ==
  /\ Spend("faults", MaxFaults)
  /\ \/ worker.pc \in {"relink", "record", "complete", "count"} /\ Goto("caught")
     \/ /\ worker.pc \in {"list", "check", "stop", "markGroup", "caught",
                          "settle", "clear", "posted", "finish"}
        /\ Goto("fail")
     \/ worker.pc \in {"start", "fail", "cancel"} /\ Goto("throw")
  /\ UNCHANGED <<batch, job, groups, redis, fo, subs, ctl, boot, attempted, outside>>

SetPosted ==
  /\ worker.pc = "posted"
  /\ SetBatchStatus("Posted")
  /\ Goto("finish")
  /\ UNCHANGED <<job, groups, redis, fo, subs, ctl, boot, spent, attempted, outside>>

(* The queue, the requests and the crashes of DurableQueue.                *)
Queue ==
  /\ \/ \E s \in Submitters : Submit(s)
     \/ Control \/ PickUp \/ PromoteDelayed \/ Stalled
     \/ Processor \/ Crash \/ Boot
  /\ UNCHANGED <<attempted, outside>>

PostHeaderAndLines ==
  \/ HeaderRejected \/ HeaderUnanswered
  \/ PostLines \/ PostLinesRepeated \/ PostLinesRejected

-----------------------------------------------------------------------------
Live == {h \in HeaderIds : fo[h].live}
Own(g) == {h \in Live : fo[h].group = g}
WithLines(g) == {h \in Own(g) : fo[h].lines # "none"}

(* Posted means that Finance has got every journal of the batch with all   *)
(* its lines: it holds the journal, or has deleted it since.               *)
PostedIsComplete ==
  batch.status = "Posted" =>
    \A g \in Groups :
      \/ \E h \in Own(g) : fo[h].lines \in {"full", "extra"}
      \/ \E h \in HeaderIds : fo[h].gone = g

(* As long as no answer of Finance is lost, no run, crash or retry of a    *)
(* submission posts the lines of a journal into a second one, nor a line   *)
(* twice into one, but on the ledger route.                                *)
LinesOnce ==
  outside.lost = 0 /\ spent.submits <= 1 =>
    \A g \in Groups :
      /\ Cardinality(WithLines(g)) <= 1
      /\ g \notin LedgerGroups => \A h \in Own(g) : fo[h].lines \in {"none", "partial", "full"}

(* Nothing is ever written into a journal that is not of this batch.       *)
ForeignUntouched == \A h \in Own(0) : fo[h].lines = "none"
=============================================================================
