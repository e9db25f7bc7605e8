--------------------------- MODULE VendorPosting ---------------------------
(***************************************************************************)
(* PostVendorJournalDFOProcessor: a header of an earlier run is reused     *)
(* when a journal of that number still exists; the strategy of invoice     *)
(* journals has no headerExists, so their headers are always reused.       *)
(***************************************************************************)
EXTENDS ResumablePosting

CONSTANT HasHeaderExists  \* TRUE for payment journals, FALSE for invoices

ASSUME VendorPostingAssumption == HasHeaderExists \in BOOLEAN /\ LedgerGroups = {}

OpenGroup ==
  /\ worker.pc = "open"
  /\ LET h == worker.snap[worker.at].header
     IN  worker' = IF h # NoHeader /\ (HasHeaderExists => fo[h].live)
                   THEN [worker EXCEPT !.pc = "lines", !.key = h,
                           !.created = Append(worker.created, h)]
                   ELSE [worker EXCEPT !.pc = "create"]
  /\ UNCHANGED <<batch, job, groups, redis, fo, subs, ctl, boot, spent, attempted, outside>>

QueryRejected ==
  /\ worker.pc = "open"
  /\ HasHeaderExists /\ worker.snap[worker.at].header # NoHeader
  /\ Goto("caught")
  /\ UNCHANGED <<batch, job, groups, redis, fo, subs, ctl, boot, spent, attempted, outside>>

CreateHeader ==
  /\ worker.pc = "create"
  /\ Len(fo) < MaxHeaders
  /\ fo' = Append(fo, NewJournal(worker.at))
  /\ worker' = [worker EXCEPT !.pc = "record", !.key = Len(fo) + 1]
  /\ UNCHANGED <<batch, job, groups, redis, subs, ctl, boot, spent, attempted, outside>>

(* Mutant: the number is kept in memory only.                              *)
SetCreatedHeaderLost ==
  /\ worker.pc = "record"
  /\ worker' = [worker EXCEPT !.pc = "lines", !.created = Append(worker.created, worker.key)]
  /\ UNCHANGED <<batch, job, groups, redis, fo, subs, ctl, boot, spent, attempted, outside>>

SetCreatedHeader ==
  /\ worker.pc = "record"
  /\ SetGroup(worker.at, [groups[worker.at] EXCEPT !.header = worker.key])
  /\ worker' = [worker EXCEPT !.pc = "lines", !.created = Append(worker.created, worker.key)]
  /\ UNCHANGED <<batch, job, redis, fo, subs, ctl, boot, spent, attempted, outside>>

(* The journal was deleted while its lines were on the way.                *)
LinesVanished ==
  /\ worker.pc = "lines" /\ ~fo[worker.key].live
  /\ Goto("caught")
  /\ UNCHANGED <<batch, job, groups, redis, fo, subs, ctl, boot, spent, attempted, outside>>

(* The lines cannot be listed: all of them are posted again, or some until *)
(* one fails.                                                              *)
PostLinesUnlisted ==
  /\ AtLines
  /\ Suffer("lost", MaxLost)
  /\ \/ WriteLines(IF fo[worker.key].lines = "none" THEN "full" ELSE "extra", "complete")
     \/ /\ fo[worker.key].lines \in {"partial", "repeated"}
        /\ \E after \in Uneven : WriteLines(after, "caught")

(* The catch of postGroups: no rollback, the ids go to the batch.          *)
StoreHeaderIds ==
  /\ worker.pc = "caught"
  /\ AddDfoIds(Created)
  /\ Goto("fail")
  /\ UNCHANGED <<job, groups, redis, fo, subs, ctl, boot, spent, attempted, outside>>

(* Mutant: only the headers of this run are stored.                        *)
CompleteBatchOfRun ==
  /\ worker.pc = "settle"
  /\ AddDfoIds(Created)
  /\ Goto("posted")
  /\ UNCHANGED <<job, groups, redis, fo, subs, ctl, boot, spent, attempted, outside>>

CompleteBatch ==
  /\ worker.pc = "settle"
  /\ AddDfoIds(SnapshotHeaders \cup Created)
  /\ Goto("posted")
  /\ UNCHANGED <<job, groups, redis, fo, subs, ctl, boot, spent, attempted, outside>>

VendorNext ==
  \/ Queue \/ Finance \/ OpenGroup \/ QueryRejected
  \/ CreateHeader \/ SetCreatedHeader
  \/ PostHeaderAndLines \/ LinesVanished \/ PostLinesUnlisted
  \/ StoreHeaderIds \/ CompleteBatch \/ SetPosted \/ StoreFault

VendorSpec == RInit /\ [][VendorNext]_rvars

-----------------------------------------------------------------------------
(* Whatever fails, every journal with lines is found from the batch or     *)
(* from its durable groups, so that a retry or Finance can take it up;     *)
(* until the batch is deleted, once the groups are purged.                 *)
JournalsAreKnown ==
  batch.exists /\ ctl # "deleteBatch" =>
    \A g \in Groups : WithLines(g) \subseteq batch.dfoIds \cup Recorded
=============================================================================
