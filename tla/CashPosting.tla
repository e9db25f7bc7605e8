---------------------------- MODULE CashPosting ----------------------------
(***************************************************************************)
(* PostCustomerPaymentJournalDFOProcessor for routed cash journals (payload*)
(* version 2).  Every journal carries the integration marker of its group  *)
(* in its description, and a number is used only if its journal has it.    *)
(* On the ledger route a run also looks for the journal of its group among *)
(* all of them, and so finds those of earlier runs and submissions; on the *)
(* vendor and customer routes it has only the number its group recorded.   *)
(* Each group has its route; a batch may mix them.                         *)
(* worker.undo counts the recreations of a header within one group.        *)
(***************************************************************************)
EXTENDS ResumablePosting

CONSTANT
  Prefixes  \* pairs (g, k): the marker of g is a proper prefix of that of k

Seqs == INSTANCE SequencesExt

MaxHeaderRecreates == 2

ASSUME CashPostingAssumption ==
  Prefixes \subseteq {p \in LedgerGroups \X Groups : p[1] < p[2]}

-----------------------------------------------------------------------------
(* The look-up of the ledger strategy: descriptions that contain MW:b:i,   *)
(* not those that contain [MW:b:i], so i = 1 is found in MW:b:10 too.      *)
MarkedHeaders(g) ==
  {h \in HeaderIds : fo[h].live /\ (fo[h].group = g \/ <<g, fo[h].group>> \in Prefixes)}

(* Mutant: the marker is never looked up.                                  *)
MarkerHeadersNone(g) == {}

(* The other strategies have no look-up: nothing is found.                 *)
MarkerHeaders(g) == IF g \in LedgerGroups THEN MarkedHeaders(g) ELSE {}

FindHeader ==
  /\ worker.pc = "open"
  /\ LET recorded == worker.snap[worker.at].header
         marked   == MarkerHeaders(worker.at)
     IN  \/ /\ Cardinality(marked) = 1
            /\ \E h \in marked :
                 worker' = [worker EXCEPT !.key = h, !.undo = 0,
                              !.pc = IF h = recorded THEN "verify" ELSE "relink"]
         \/ /\ Cardinality(marked) # 1
            /\ worker' = [worker EXCEPT !.key = recorded, !.undo = 0,
                            !.pc = IF recorded = NoHeader THEN "create" ELSE "verify"]
  /\ UNCHANGED <<batch, job, groups, redis, fo, subs, ctl, boot, spent, attempted, outside>>

QueryRejected ==
  /\ worker.pc = "verify" \/ (worker.pc = "open" /\ worker.at \in LedgerGroups)
  /\ Goto("caught")
  /\ UNCHANGED <<batch, job, groups, redis, fo, subs, ctl, boot, spent, attempted, outside>>

RelinkHeader ==
  /\ worker.pc = "relink"
  /\ SetGroup(worker.at, [groups[worker.at] EXCEPT !.header = worker.key])
  /\ Goto("verify")
  /\ UNCHANGED <<batch, job, redis, fo, subs, ctl, boot, spent, attempted, outside>>

(* Mutant: a journal that has lines is taken for complete.                 *)
EnoughIfAny == {"partial", "repeated", "full", "extra", "miscounted"}

(* The lines of a journal are counted: as many as its group has.           *)
Enough == {"full", "extra", "miscounted"}

(* Mutant: the description of the journal is not compared.                 *)
VerifyHeaderNumberOnly ==
  /\ worker.pc = "verify"
  /\ \/ /\ ~fo[worker.key].live
        /\ Goto("create")
     \/ /\ fo[worker.key].live
        /\ worker' = [worker EXCEPT !.created = Append(worker.created, worker.key),
                        !.pc = IF fo[worker.key].lines \in Enough
                               THEN "complete" ELSE "lines"]
  /\ UNCHANGED <<batch, job, groups, redis, fo, subs, ctl, boot, spent, attempted, outside>>

(* A journal that is gone, or has another description, is replaced; one    *)
(* with enough lines is not written again.                                 *)
VerifyHeader ==
  /\ worker.pc = "verify"
  /\ LET j == fo[worker.key]
     IN  \/ /\ ~j.live \/ j.group # worker.at
            /\ Goto("create")
         \/ /\ j.live /\ j.group = worker.at
            /\ worker' = [worker EXCEPT
                            !.created = Append(worker.created, worker.key),
                            !.pc = IF j.lines \in Enough THEN "complete" ELSE "lines"]
  /\ UNCHANGED <<batch, job, groups, redis, fo, subs, ctl, boot, spent, attempted, outside>>

-----------------------------------------------------------------------------
CreateHeader ==
  /\ worker.pc = "create"
  /\ Len(fo) < MaxHeaders
  /\ fo' = Append(fo, NewJournal(worker.at))
  /\ worker' = [worker EXCEPT !.pc = "record", !.key = Len(fo) + 1,
                              !.created = Append(worker.created, Len(fo) + 1)]
  /\ UNCHANGED <<batch, job, groups, redis, subs, ctl, boot, spent, attempted, outside>>

SetCreatedHeader ==
  /\ worker.pc = "record"
  /\ SetGroup(worker.at, [groups[worker.at] EXCEPT !.header = worker.key])
  /\ Goto("lines")
  /\ UNCHANGED <<batch, job, redis, fo, subs, ctl, boot, spent, attempted, outside>>

(* A journal deleted while its lines were on the way is made again, at     *)
(* most twice; other errors, and a third time, end the run.                *)
RecreateHeader ==
  /\ worker.pc = "lines" /\ ~fo[worker.key].live
  /\ \/ /\ worker.undo < MaxHeaderRecreates
        /\ worker' = [worker EXCEPT !.pc = "create", !.undo = worker.undo + 1,
                        !.created = Seqs!RemoveFirst(worker.created, worker.key)]
     \/ Goto("caught")
  /\ UNCHANGED <<batch, job, groups, redis, fo, subs, ctl, boot, spent, attempted, outside>>

-----------------------------------------------------------------------------
(* The catch of postGroups: the ids wait in dfoAttemptedIds.               *)
StoreAttemptedIds ==
  /\ worker.pc = "caught"
  /\ attempted' = IF batch.exists THEN attempted \cup Created ELSE attempted
  /\ Goto("fail")
  /\ UNCHANGED <<batch, job, groups, redis, fo, subs, ctl, boot, spent, outside>>

SetDfoIds(ids) ==
  batch' = IF batch.exists THEN [batch EXCEPT !.dfoIds = ids] ELSE batch

(* Mutant: only the headers of this run are stored.                        *)
CompleteBatchOfRun ==
  /\ worker.pc = "settle"
  /\ SetDfoIds(Created)
  /\ Goto("clear")
  /\ UNCHANGED <<job, groups, redis, fo, subs, ctl, boot, spent, attempted, outside>>

(* completeBatch replaces the ids, clears the attempted ones, then posts.  *)
CompleteBatch ==
  /\ worker.pc = "settle"
  /\ SetDfoIds(SnapshotHeaders \cup Created)
  /\ Goto("clear")
  /\ UNCHANGED <<job, groups, redis, fo, subs, ctl, boot, spent, attempted, outside>>

ClearAttempted ==
  /\ worker.pc = "clear"
  /\ attempted' = IF batch.exists THEN {} ELSE attempted
  /\ Goto("posted")
  /\ UNCHANGED <<batch, job, groups, redis, fo, subs, ctl, boot, spent, outside>>

CashNext ==
  \/ Queue \/ Finance \/ FindHeader \/ QueryRejected \/ RelinkHeader
  \/ VerifyHeader \/ CreateHeader \/ SetCreatedHeader \/ RecreateHeader
  \/ PostHeaderAndLines
  \/ StoreAttemptedIds \/ CompleteBatch \/ ClearAttempted \/ SetPosted
  \/ StoreFault

CashSpec == RInit /\ [][CashNext]_rvars

-----------------------------------------------------------------------------
(* As long as no answer of Finance is lost there is never a second journal *)
(* for a group of the ledger route, however often the batch is retried,    *)
(* recovered after a crash, or submitted again with its groups replaced.   *)
OneJournal == outside.lost = 0 => \A g \in LedgerGroups : Cardinality(Own(g)) <= 1

(* The same for every route: the marker is the durable idempotency key of  *)
(* a journal group, as the strategy interface says.  It does not hold: on  *)
(* the other routes nothing finds a header whose number was not recorded.  *)
MarkerIsKey == outside.lost = 0 => \A g \in Groups : Cardinality(Own(g)) <= 1

(* dfoIds of a posted batch, which the user sees, names every journal of   *)
(* it that has lines, those of earlier runs included.  Of a batch that was *)
(* submitted again, those on the ledger route; except that a lost answer   *)
(* may have made two of them, and that a worker restarted after a crash    *)
(* may still be running with the groups the new submission has replaced.   *)
PostedJournalsListed ==
  batch.status = "Posted" =>
    \A g \in Groups :
      spent.submits = 1 \/ (g \in LedgerGroups /\ spent.crashes = 0 /\ outside.lost = 0) =>
        WithLines(g) \subseteq batch.dfoIds

(* Where the lines that are there are listed, a count that is high enough  *)
(* is that of all the lines: Finance has got every one of them, whichever  *)
(* run, retry or submission posted them, unless the journal was deleted.   *)
CountedIsComplete ==
  batch.status = "Posted" /\ outside.lost = 0 =>
    \A g \in Groups \ LedgerGroups :
      \/ \E h \in Own(g) : fo[h].lines = "full"
      \/ \E h \in HeaderIds : fo[h].gone = g
=============================================================================
