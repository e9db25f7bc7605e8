--------------------------- MODULE LedgerPosting ---------------------------
(***************************************************************************)
(* PostLedgerJournalDfoProcessor (and the free-text-invoice processor,     *)
(* whose group loop and rollback have the same shape): one journal at a    *)
(* time, header then lines, everything this run wrote rolled back when one *)
(* journal fails.  The queue, the requests and the crashes are those of    *)
(* DurableQueue.                                                           *)
(***************************************************************************)
EXTENDS DurableQueue

Created == {worker.created[i] : i \in 1..Len(worker.created)}

(* D365FO numbers a new journal; only the header exists yet.               *)
NewJournal(g) == [group |-> g, live |-> TRUE, lines |-> "none", kept |-> FALSE]

-----------------------------------------------------------------------------
(* One journal: reuse the header of an earlier run, or create one.         *)

ReuseHeader ==
  /\ worker.pc = "open"
  /\ worker.snap[worker.at].header # NoHeader
  /\ LET h == worker.snap[worker.at].header
     IN  worker' = [worker EXCEPT !.pc = "lines", !.key = h,
                      !.created = Append(worker.created, h)]
  /\ UNCHANGED <<batch, job, groups, redis, fo, subs, ctl, boot, spent>>

(* Mutant: the number is kept in memory only.                              *)
CreateHeaderUnrecorded ==
  /\ worker.pc = "open"
  /\ worker.snap[worker.at].header = NoHeader
  /\ Len(fo) < MaxHeaders
  /\ fo' = Append(fo, NewJournal(worker.at))
  /\ worker' = [worker EXCEPT !.pc = "lines", !.key = Len(fo) + 1,
                  !.created = Append(worker.created, Len(fo) + 1)]
  /\ UNCHANGED <<batch, job, groups, redis, subs, ctl, boot, spent>>

CreateHeader ==
  /\ worker.pc = "open"
  /\ worker.snap[worker.at].header = NoHeader
  /\ Len(fo) < MaxHeaders
  /\ fo' = Append(fo, NewJournal(worker.at))
  /\ worker' = [worker EXCEPT !.pc = "record", !.key = Len(fo) + 1]
  /\ UNCHANGED <<batch, job, groups, redis, subs, ctl, boot, spent>>

CreateHeaderRejected ==
  /\ worker.pc = "open"
  /\ worker.snap[worker.at].header = NoHeader
  /\ Goto("caught")
  /\ UNCHANGED <<batch, job, groups, redis, fo, subs, ctl, boot, spent>>

(* Finance creates the header, the answer is lost: the client posts again, *)
(* or gives up after its last try.                                         *)
CreateHeaderUnanswered ==
  /\ worker.pc = "open"
  /\ worker.snap[worker.at].header = NoHeader
  /\ Len(fo) < MaxHeaders
  /\ Spend("faults", MaxFaults)
  /\ fo' = Append(fo, NewJournal(worker.at))
  /\ UNCHANGED worker \/ Goto("caught")
  /\ UNCHANGED <<batch, job, groups, redis, subs, ctl, boot>>

(* Mutants: the update is lost; it stores the next number; it goes to the  *)
(* next group.                                                             *)
SetCreatedHeaderLost ==
  /\ worker.pc = "record"
  /\ worker' = [worker EXCEPT !.pc = "lines", !.created = Append(worker.created, worker.key)]
  /\ UNCHANGED <<batch, job, groups, redis, fo, subs, ctl, boot, spent>>

SetCreatedHeaderOffByOne ==
  /\ worker.pc = "record"
  /\ SetGroup(worker.at, [groups[worker.at] EXCEPT !.header = worker.key + 1])
  /\ worker' = [worker EXCEPT !.pc = "lines", !.created = Append(worker.created, worker.key)]
  /\ UNCHANGED <<batch, job, redis, fo, subs, ctl, boot, spent>>

SetCreatedHeaderOnNext ==
  /\ worker.pc = "record"
  /\ LET g == (worker.at % N) + 1
     IN  SetGroup(g, [groups[g] EXCEPT !.header = worker.key])
  /\ worker' = [worker EXCEPT !.pc = "lines", !.created = Append(worker.created, worker.key)]
  /\ UNCHANGED <<batch, job, redis, fo, subs, ctl, boot, spent>>

SetCreatedHeader ==
  /\ worker.pc = "record"
  /\ SetGroup(worker.at, [groups[worker.at] EXCEPT !.header = worker.key])
  /\ worker' = [worker EXCEPT !.pc = "lines", !.created = Append(worker.created, worker.key)]
  /\ UNCHANGED <<batch, job, redis, fo, subs, ctl, boot, spent>>

(* Posting the lines again under a header that has some duplicates them.   *)
PostLines ==
  /\ worker.pc = "lines"
  /\ fo[worker.key].live
  /\ fo' = [fo EXCEPT ![worker.key].lines =
              IF fo[worker.key].lines = "none" THEN "full" ELSE "extra"]
  /\ Goto("complete")
  /\ UNCHANGED <<batch, job, groups, redis, subs, ctl, boot, spent>>

(* The answer to a line is lost and the client posts the line again.       *)
PostLinesRepeated ==
  /\ worker.pc = "lines"
  /\ fo[worker.key].live
  /\ Spend("faults", MaxFaults)
  /\ fo' = [fo EXCEPT ![worker.key].lines = "extra"]
  /\ Goto("complete")
  /\ UNCHANGED <<batch, job, groups, redis, subs, ctl, boot>>

(* A line, the answer to the last one or the financial tags fail: none,    *)
(* some or all of the lines have been written.                             *)
PostLinesRejected ==
  /\ worker.pc = "lines"
  /\ \/ UNCHANGED fo
     \/ /\ fo[worker.key].live
        /\ \E written \in {"partial", "full"} :
             fo' = [fo EXCEPT ![worker.key].lines =
                      IF fo[worker.key].lines = "none" THEN written ELSE "extra"]
  /\ Goto("caught")
  /\ UNCHANGED <<batch, job, groups, redis, subs, ctl, boot, spent>>

PostGroup ==
  \/ ReuseHeader \/ CreateHeader \/ CreateHeaderRejected
  \/ CreateHeaderUnanswered \/ SetCreatedHeader
  \/ PostLines \/ PostLinesRepeated \/ PostLinesRejected

-----------------------------------------------------------------------------
(* executePosting's catch: rollbackAll visits the headers of this run from *)
(* the last one back; a header that is already gone counts as deleted.     *)

(* Mutant: the rollback starts at the last index, not at the length.       *)
StartRollbackShort ==
  /\ worker.pc = "caught"
  /\ worker' = [worker EXCEPT
                  !.pc = IF worker.created = <<>> THEN "fail" ELSE "rollback",
                  !.undo = IF worker.created = <<>> THEN 0
                           ELSE Len(worker.created) - 1]
  /\ UNCHANGED <<batch, job, groups, redis, fo, subs, ctl, boot, spent>>

StartRollback ==
  /\ worker.pc = "caught"
  /\ worker' = [worker EXCEPT
                  !.pc = IF worker.created = <<>> THEN "fail" ELSE "rollback",
                  !.undo = Len(worker.created)]
  /\ UNCHANGED <<batch, job, groups, redis, fo, subs, ctl, boot, spent>>

(* The lines go first, some of them or all; listing them again and trying  *)
(* again is this step once more.                                           *)
RollbackLines ==
  /\ worker.pc = "rollback" /\ worker.undo > 0
  /\ LET h == worker.created[worker.undo]
     IN  /\ fo[h].live /\ fo[h].lines # "none"
         /\ \E left \in {"none", "partial"} \ {fo[h].lines} :
              fo' = [fo EXCEPT ![h].lines = left]
  /\ UNCHANGED <<batch, job, groups, redis, worker, subs, ctl, boot, spent>>

RollbackHeader ==
  /\ worker.pc = "rollback" /\ worker.undo > 0
  /\ fo' = [fo EXCEPT ![worker.created[worker.undo]].live = FALSE]
  /\ worker' = [worker EXCEPT !.undo = @ - 1]
  /\ UNCHANGED <<batch, job, groups, redis, subs, ctl, boot, spent>>

(* The header cannot be deleted, with or without its lines.                *)
RetainHeader ==
  /\ worker.pc = "rollback" /\ worker.undo > 0
  /\ LET h == worker.created[worker.undo]
     IN  /\ fo[h].live
         /\ fo' = [fo EXCEPT ![h].kept = TRUE]
         /\ worker' = [worker EXCEPT !.undo = worker.undo - 1,
                          !.failed = worker.failed \cup {h}]
  /\ UNCHANGED <<batch, job, groups, redis, subs, ctl, boot, spent>>

RollbackDone ==
  /\ worker.pc = "rollback" /\ worker.undo = 0
  /\ Goto(IF worker.failed = {} THEN "reset" ELSE "keepIds")
  /\ UNCHANGED <<batch, job, groups, redis, fo, subs, ctl, boot, spent>>

(* Mutant: what could not be deleted is not added to the batch.            *)
KeepRetainedIdsDropped ==
  /\ worker.pc = "keepIds"
  /\ Goto("reset")
  /\ UNCHANGED <<batch, job, groups, redis, fo, subs, ctl, boot, spent>>

KeepRetainedIds ==
  /\ worker.pc = "keepIds"
  /\ AddDfoIds(worker.failed)
  /\ Goto("reset")
  /\ UNCHANGED <<job, groups, redis, fo, subs, ctl, boot, spent>>

ResetGroups ==
  /\ worker.pc = "reset"
  /\ resetAfterRollback(Created, worker.failed)
  /\ Goto("fail")
  /\ UNCHANGED <<batch, redis, fo, subs, ctl, boot, spent>>

RollBack ==
  \/ StartRollback \/ RollbackLines \/ RollbackHeader \/ RetainHeader
  \/ RollbackDone \/ KeepRetainedIds \/ ResetGroups

-----------------------------------------------------------------------------
(* handlePostingSuccess: the ids of the snapshot and of this run, Posted.  *)

SnapshotHeaders == {worker.snap[g].header : g \in Groups} \ {NoHeader}

(* Mutant: only the headers of this run are stored.                        *)
StoreCreatedHeaderIdsOfRun ==
  /\ worker.pc = "settle"
  /\ AddDfoIds(Created)
  /\ Goto("posted")
  /\ UNCHANGED <<job, groups, redis, fo, subs, ctl, boot, spent>>

StoreCreatedHeaderIds ==
  /\ worker.pc = "settle"
  /\ AddDfoIds(SnapshotHeaders \cup Created)
  /\ Goto("posted")
  /\ UNCHANGED <<job, groups, redis, fo, subs, ctl, boot, spent>>

SetPosted ==
  /\ worker.pc = "posted"
  /\ SetBatchStatus("Posted")
  /\ Goto("finish")
  /\ UNCHANGED <<job, groups, redis, fo, subs, ctl, boot, spent>>

Settle == StoreCreatedHeaderIds \/ SetPosted

-----------------------------------------------------------------------------
(* A MongoDB call that fails: inside executePosting's try it is caught and *)
(* rolled back, outside it goes to processJob's catch, and from there (or  *)
(* from markActive, which no try covers) straight to BullMQ.               *)
StoreFault ==
  /\ Spend("faults", MaxFaults)
  /\ \/ /\ worker.pc \in {"check", "stop", "markGroup", "record", "complete",
                          "count", "settle", "posted"}
        /\ Goto("caught")
     \/ worker.pc \in {"list", "keepIds", "reset", "finish"} /\ Goto("fail")
     \/ worker.pc \in {"start", "fail", "cancel"} /\ Goto("throw")
  /\ UNCHANGED <<batch, job, groups, redis, fo, subs, ctl, boot>>

-----------------------------------------------------------------------------
Next ==
  \/ \E s \in Submitters : Submit(s)
  \/ Control
  \/ PickUp \/ PromoteDelayed \/ Stalled
  \/ Processor \/ PostGroup \/ RollBack \/ Settle
  \/ StoreFault \/ Crash \/ Boot

Spec == Init /\ [][Next]_vars

(* A request that was accepted runs to its end, BullMQ hands out jobs and  *)
(* promotes delayed ones, the processor and the boot code go on.  Nobody   *)
(* has to ask for anything.                                                *)
Fairness ==
  /\ \A s \in Submitters : WF_vars(subs[s] # "idle" /\ Submit(s))
  /\ WF_vars(ctl # "idle" /\ Control)
  /\ WF_vars(PickUp) /\ WF_vars(PromoteDelayed) /\ WF_vars(Stalled)
  /\ WF_vars(Processor \/ PostGroup \/ RollBack \/ Settle)
  /\ WF_vars(Boot)

-----------------------------------------------------------------------------
(* Types.  HeaderIds grows with fo, so the ids are bounded by it.          *)

GroupDocs == [status : {"absent", "pending", "active", "completed"},
              header : {NoHeader} \cup HeaderIds]

Lines == {"none", "partial", "full", "extra"}
Journals == [group : Groups, live : BOOLEAN, kept : BOOLEAN, lines : Lines]

WorkerPc == {"idle", "start", "list", "check", "stop", "markGroup", "open",
             "record", "lines", "complete", "count", "settle", "posted",
             "finish", "caught", "rollback", "keepIds", "reset", "fail",
             "cancel", "throw", "return"}
SubPc == {"idle", "prepare", "lookup", "markPosted", "remove", "storePrepare",
          "deleteGroups", "insertGroups", "upsertJob", "add"}
CtlPc == {"idle", "pauseSet", "resumeClear", "resumeFind", "requeueCheck",
          "requeueAdd", "markQueued", "deletePause", "deleteRedis",
          "deletePurge", "deleteBatch"}

Workers == [pc : WorkerPc, attempt : Nat, snap : [Groups -> GroupDocs],
            at : 0..N, key : {NoHeader} \cup HeaderIds, created : Seq(HeaderIds),
            undo : Nat, failed : SUBSET HeaderIds]

BatchOK == batch \in [exists : BOOLEAN, status : BatchStatus, paused : BOOLEAN,
                      dfoIds : SUBSET HeaderIds]
JobOK == job \in [status : JobStatus, completed : Nat]
GroupsOK == groups \in [Groups -> GroupDocs]
RedisOK == redis \in [state : RedisState, attempts : Nat, stalled : Nat]
FoOK == fo \in Seq(Journals)
WorkerOK == worker \in Workers
RequestsOK ==
  /\ subs \in [Submitters -> SubPc]
  /\ ctl \in CtlPc
  /\ boot \in {"release", "force", "restore", "done"}
  /\ spent \in [submits : Nat, pauses : Nat, deletes : Nat, faults : Nat,
                crashes : Nat]

(* Every variable has its type, and every journal number kept anywhere is  *)
(* one Finance has given out.                                              *)
TypeOK == BatchOK /\ JobOK /\ GroupsOK /\ RedisOK /\ FoOK /\ WorkerOK /\ RequestsOK

(* The processor has a group, a journal and something to roll back where   *)
(* its code uses them.                                                     *)
WorkerPosition ==
  /\ worker.pc \in {"markGroup", "open", "record", "lines", "complete", "count"}
       => worker.at \in Groups
  /\ worker.pc \in {"record", "lines"} => worker.key \in HeaderIds
  /\ worker.pc = "rollback" => worker.undo <= Len(worker.created)

-----------------------------------------------------------------------------
(* Safety.                                                                 *)

Recorded == {groups[g].header : g \in Groups} \ {NoHeader}
Known == batch.dfoIds \cup Recorded \cup Created
           \cup (IF worker.pc = "record" THEN {worker.key} ELSE {})
Live == {h \in HeaderIds : fo[h].live}
Posted(g) == {h \in Live : fo[h].group = g /\ fo[h].lines \in {"full", "extra"}}

(* Posted means that Finance holds the journal of every group.             *)
PostedIsComplete ==
  batch.status = "Posted" => \A g \in Groups : Posted(g) # {}

(* No group is in Finance twice and no line is posted twice, except under  *)
(* a header Finance refused to delete.                                     *)
PostedOnce ==
  batch.status = "Posted" =>
    /\ \A g \in Groups : \A h, k \in Posted(g) : h = k \/ fo[h].kept \/ fo[k].kept
    /\ \A h \in Live : fo[h].lines # "full" => fo[h].kept

(* The user finds in dfoIds every journal the batch left in Finance.       *)
PostedIsKnown == batch.status = "Posted" => Live \subseteq batch.dfoIds

(* Everything answers, there is one request at a time, and a batch that    *)
(* somebody pauses or deletes is requested once: a second request replaces *)
(* the groups that a pause has left completed, and one that has been       *)
(* overtaken replaces those of a run.                                      *)
Ordered ==
  /\ spent.faults + spent.crashes = 0
  /\ \/ spent.submits <= 1
     \/ spent.pauses + spent.deletes = 0 /\ \A s, t \in Submitters : s = t

PostedMeansPosted ==
  Ordered => PostedIsComplete /\ PostedOnce /\ PostedIsKnown

(* A batch that was given up has been rolled back: what is left in Finance *)
(* is what Finance refused to delete, and the user finds it in dfoIds; or  *)
(* it belongs to a group that was completed before a pause, which the      *)
(* rollback of the resumed run does not see.                               *)
CanceledIsRolledBack ==
  Ordered /\ Quiescent /\ batch.status = "Canceled" /\ spent.deletes = 0 =>
    \A h \in Live :
      \/ fo[h].kept /\ h \in batch.dfoIds
      \/ spent.pauses > 0 /\ \E g \in CompletedGroups : groups[g].header = h

(* As long as MongoDB and Finance answer, no journal is left in Finance    *)
(* that neither the batch nor the durable groups nor the running processor *)
(* know of.  Deleting the batch forgets its journals, once the groups are  *)
(* purged; and a pause, or the one of a deletion, can stop a worker whose  *)
(* groups a second request is replacing.                                   *)
NoUnknownJournal ==
  /\ batch.exists /\ ctl # "deleteBatch"
  /\ spent.faults + spent.crashes = 0
  /\ spent.pauses + spent.deletes = 0 \/ spent.submits = 1
  => Live \subseteq Known

(* Nobody pauses or deletes the batch, and everything answers.             *)
Undisturbed ==
  spent.pauses + spent.deletes + spent.faults + spent.crashes = 0

(* The groups of the only request are there: no other one has replaced     *)
(* them and no deletion, not even one that a crash cut short, has purged   *)
(* them.                                                                   *)
Intact ==
  /\ batch.exists /\ ctl # "deleteBatch"
  /\ spent.submits <= 1
  /\ spent.deletes = 0 \/ spent.crashes = 0

(* A crash or a lost answer can leave a journal nobody knows of, but only  *)
(* an empty one, and no more of them than there were crashes and faults:   *)
(* lines are only posted under a header that has been recorded.            *)
OrphansAreEmptyAndCounted ==
  Intact =>
    /\ Cardinality(Live \ Known) <= spent.faults + spent.crashes
    /\ \A h \in Live \ Known : fo[h].lines = "none"

(* When nothing runs, the progress the screens show is the number of       *)
(* completed groups.                                                       *)
ProgressMatchesGroups ==
  Ordered /\ Quiescent => job.completed = Cardinality(CompletedGroups)

(* No group ever points at the journal of another group, and a processor   *)
(* run rolls no header back twice.                                         *)
JournalsNotMixed ==
  /\ \A g \in Groups :
       groups[g].header # NoHeader => fo[groups[g].header].group = g
  /\ \A i, j \in 1..Len(worker.created) :
       i # j => worker.created[i] # worker.created[j]

(* Resuming leaves no job behind on the pause: a job that stopped on it is *)
(* back on its queue, or the batch is still paused.                        *)
ResumeRequeuesTheJob ==
  Quiescent /\ batch.exists /\ job.status = "paused" => batch.paused

(* An accepted batch is posted, given up, stopped by a pause, or deleted.  *)
PostingEnds ==
  batch.status = "Posting" ~>
    \/ batch.status \in {"Posted", "Canceled"}
    \/ job.status = "paused" \/ ~batch.exists

-----------------------------------------------------------------------------
(* The processor implements the promise made for every posting.            *)

Lifecycle == INSTANCE PostingLifecycle WITH
  phase <- batch.status,
  posted <- {g \in Groups : Posted(g) # {}},
  stuck <- {g \in Groups : \E h \in Live : fo[h].group = g /\ fo[h].kept}

AllOrNothing == Lifecycle!Spec
=============================================================================
