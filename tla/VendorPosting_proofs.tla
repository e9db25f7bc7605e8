----------------------- MODULE VendorPosting_proofs -----------------------
(***************************************************************************)
(* What the posting of vendor journals leaves in Finance, for every number *)
(* of journals, attempts, pauses, deletions, faults, crashes and cleanups: *)
(* a posted batch is complete as long as Finance gives no number away; and *)
(* the one request of a batch, however often it is retried and resumed,    *)
(* posts no line twice and loses no journal that has lines.                *)
(***************************************************************************)
EXTENDS VendorPosting, FiniteSetTheorems, TLAPS

OnceLines == {"none", "partial", "full"}
LineStates == OnceLines \cup {"repeated", "miscounted", "extra"}
Journals == [group : 0..N, live : BOOLEAN, lines : LineStates, gone : 0..N]
GroupDocs == [status : {"absent", "pending", "active", "completed"},
              header : {NoHeader} \cup HeaderIds]
IsWorker(w) ==
  w = [pc |-> w.pc, attempt |-> w.attempt, snap |-> w.snap, at |-> w.at,
       key |-> w.key, created |-> w.created, undo |-> w.undo, failed |-> w.failed]
IsBatch(b) ==
  b = [exists |-> b.exists, status |-> b.status, paused |-> b.paused, dfoIds |-> b.dfoIds]
Spendings == [submits : Nat, pauses : Nat, deletes : Nat, faults : Nat, crashes : Nat]

(* The processor is at a group, from its choice to its completion.         *)
AtGroup == {"markGroup", "open", "create", "record", "lines", "complete", "count"}
Loop == AtGroup \cup {"check"}

VendorTyped ==
  /\ fo \in Seq(Journals)
  /\ groups \in [Groups -> GroupDocs]
  /\ IsWorker(worker) /\ worker.snap \in [Groups -> GroupDocs]
  /\ worker.at \in 0..N /\ worker.key \in {NoHeader} \cup HeaderIds
  /\ worker.pc \in AtGroup => worker.at \in Groups
  /\ worker.pc \in {"record", "lines"} => worker.key \in HeaderIds
  /\ worker.pc \in {"start", "list"} => worker.at = 0
  /\ IsBatch(batch)
  /\ redis = [state |-> redis.state, attempts |-> redis.attempts, stalled |-> redis.stalled]
  /\ DOMAIN subs = Submitters
  /\ spent \in Spendings /\ outside \in [cleanups : Nat, lost : Nat]

(* A number that is recorded for a group is of its journal, or Finance has *)
(* given it away.                                                          *)
OfGroup(h, g) == h # NoHeader => fo[h].group \in {0, g}

OwnHeaders ==
  /\ \A g \in Groups : OfGroup(groups[g].header, g) /\ OfGroup(worker.snap[g].header, g)
  /\ worker.pc \in {"record", "lines"} => OfGroup(worker.key, worker.at)

-----------------------------------------------------------------------------
(* Posted.                                                                 *)

(* Finance has given no number of the batch to another journal.            *)
NumbersKept == \A h \in HeaderIds : fo[h].group # 0

(* No request can find the finished job of a run that stopped on a pause:  *)
(* the handler does not set Posted on it, or there is one request, or      *)
(* nothing that stops.                                                     *)
Straight ==
  \/ ~AlreadyMarksPosted \/ spent.submits <= 1
  \/ spent.pauses + spent.deletes = 0

(* Finance holds the journal of a group with all its lines, or did when it *)
(* deleted it.                                                             *)
DoneIn(journals, g) ==
  \E h \in 1..Len(journals) :
    \/ /\ journals[h].live /\ journals[h].group = g
       /\ journals[h].lines \in {"full", "extra"}
    \/ journals[h].gone = g
Done(g) == DoneIn(fo, g)
AllDone == \A g \in Groups : Done(g)
Passed(g) ==
  \/ g < worker.at
  \/ g = worker.at /\ worker.pc \in {"check", "complete", "count"}

(* What the groups and the processor take for posted is.                   *)
PassedInv ==
  /\ \A h \in HeaderIds : fo[h].live => fo[h].gone = 0
  /\ \A g \in Groups :
       /\ groups[g].status = "completed" => Done(g)
       /\ worker.snap[g].status = "completed" => Done(g)
       /\ worker.pc \in Loop /\ Passed(g) => Done(g)
  /\ worker.pc \in {"settle", "posted", "finish"} => AllDone

PostedInv ==
  /\ Straight =>
       /\ batch.status = "Posted" => AllDone
       /\ \A s \in Submitters : subs[s] = "markPosted" => AllDone
  /\ /\ spent.pauses + spent.deletes = 0
     /\ worker.pc = "return" \/ redis.state = "completed"
     => AllDone

(* Nobody stops the posting.                                               *)
FreeInv ==
  spent.pauses + spent.deletes = 0 =>
    batch.exists /\ ~batch.paused /\ ctl = "idle" /\ worker.pc # "stop"

(* Until the only request has stored its job nothing runs.                 *)
Preparing == {"prepare", "lookup", "storePrepare", "deleteGroups", "insertGroups",
              "upsertJob"}
Fresh == spent.submits = 0 \/ \E s \in Submitters : subs[s] \in Preparing

RequestInv ==
  spent.submits <= 1 =>
    /\ spent.submits = 0 => \A s \in Submitters : subs[s] = "idle"
    /\ \A s, t \in Submitters : subs[s] # "idle" /\ subs[t] # "idle" => s = t
    /\ \A s \in Submitters : subs[s] \in Preparing \cup {"idle", "add"}
    /\ Fresh => /\ fo = <<>> /\ job.status = "none"
                /\ redis.state = "absent" /\ worker.pc = "idle"
                /\ ctl \notin {"requeueCheck", "requeueAdd", "markQueued"}

-----------------------------------------------------------------------------
(* The journals with lines, while there is one request.                    *)

Gone(g) == groups[g].status = "absent"
LinesIn(journals, g) ==
  {h \in 1..Len(journals) : /\ journals[h].live /\ journals[h].group = g
                            /\ journals[h].lines # "none"}
HeldBy(g, h) == LinesIn(fo, g) \subseteq {h}

(* The journal of a group that has lines is the one its group records, and *)
(* the one the processor works with.                                       *)
HeldInv ==
  /\ \A g \in Groups : \A h, k \in LinesIn(fo, g) : h = k
  /\ groups = NoGroups \/ \A g \in Groups : ~Gone(g)
  /\ \A g \in Groups : ~Gone(g) => HeldBy(g, groups[g].header)
  /\ worker.pc \in Loop =>
       \A g \in Groups :
         g > worker.at \/ (g = worker.at /\ worker.pc \in {"markGroup", "open"}) =>
           /\ HeldBy(g, worker.snap[g].header)
           /\ ~Gone(g) => groups[g].header = worker.snap[g].header
  /\ worker.pc \in {"create", "record"} => LinesIn(fo, worker.at) = {}
  /\ worker.pc = "lines" =>
       /\ HeldBy(worker.at, worker.key)
       /\ ~Gone(worker.at) => groups[worker.at].header = worker.key

(* Only a deletion purges the groups of a run.                             *)
PurgeInv ==
  /\ ctl \in {"deletePause", "deleteRedis", "deletePurge", "deleteBatch"} => spent.deletes > 0
  /\ (\E g \in Groups : Gone(g)) =>
       \/ fo = <<>> /\ worker.pc \notin Loop
       \/ ~batch.exists \/ ctl = "deleteBatch"
       \/ spent.deletes > 0 /\ spent.crashes > 0

OneRequestInv == spent.submits <= 1 => HeldInv /\ PurgeInv

NotRepeated ==
  outside.lost = 0 => \A h \in HeaderIds : fo[h].lines \in OnceLines

VendorInv ==
  /\ VendorTyped /\ OwnHeaders
  /\ NumbersKept => PassedInv /\ PostedInv
  /\ FreeInv /\ RequestInv /\ OneRequestInv /\ NotRepeated

-----------------------------------------------------------------------------
(* Types.                                                                  *)

LEMMA SeqFacts ==
  ASSUME VendorTyped
  PROVE  /\ HeaderIds = 1..Len(fo) /\ Len(fo) \in Nat
         /\ \A h \in HeaderIds : fo[h] \in Journals
         /\ Groups = 1..N /\ N \in Nat /\ 0 \notin Groups
         /\ NoHeader \notin HeaderIds
BY DurableQueueAssumption DEF VendorTyped, HeaderIds, Groups, NoHeader, DurableQueueAssumption

(* What is typed by the numbers Finance has given out stays typed.         *)
LEMMA MoreNumbers ==
  ASSUME VendorTyped, fo' \in Seq(Journals), Len(fo) <= Len(fo')
  PROVE  HeaderIds \subseteq HeaderIds' /\ GroupDocs \subseteq GroupDocs'
<1>1. HeaderIds \subseteq HeaderIds'
  BY DEF VendorTyped, HeaderIds
<1>2. QED
  BY <1>1 DEF GroupDocs

LEMMA SameNumbers ==
  ASSUME VendorTyped, UNCHANGED fo
  PROVE  /\ HeaderIds' = HeaderIds /\ GroupDocs' = GroupDocs /\ fo' \in Seq(Journals)
BY DEF VendorTyped, HeaderIds, GroupDocs

(* The batch document, the Redis job and the counters.                     *)
SideTyped ==
  /\ IsBatch(batch)
  /\ redis = [state |-> redis.state, attempts |-> redis.attempts, stalled |-> redis.stalled]
  /\ DOMAIN subs = Submitters
  /\ spent \in Spendings /\ outside \in [cleanups : Nat, lost : Nat]

LEMMA SideStep ==
  ASSUME VendorTyped, VendorNext
  PROVE  SideTyped'
<1>0. SideTyped
  BY DEF VendorTyped, SideTyped
<1>1. \/ UNCHANGED batch \/ batch' = [batch EXCEPT !.exists = FALSE]
      \/ \E x : \/ batch' = [batch EXCEPT !.status = x] \/ batch' = [batch EXCEPT !.paused = x]
                \/ batch' = [batch EXCEPT !.dfoIds = @ \cup x]
  BY DEF VendorNext, Queue, Submit, SubmitValidate, SubmitPrepare,
       SubmitLookup, SubmitMarkPosted, SubmitRemoveFailed,
       SubmitStorePrepare, ReplaceDeleteGroups, ReplaceInsertGroups,
       ReplaceUpsertJob, SubmitAdd, Control, PauseRead, PauseSet,
       ResumeRead, ResumeClear, ResumeFindJob, RequeueCheck, RequeueAdd,
       MarkQueued, DeleteRead, DeletePause, DeleteRedisJob, DeletePurge,
       DeleteBatch, Boot, ReleaseRead, ForceRemove, Restore, PickUp,
       PromoteDelayed, Stalled, Crash, Processor, MarkActive, ListGroups,
       CheckPause, RecordWorkerStopped, MarkGroupActive, CompleteGroup,
       CountGroup, MarkCompleted, FailJob, CancelBatch, Return, Throw,
       OpenGroup, QueryRejected, CreateHeader, SetCreatedHeader,
       PostHeaderAndLines, HeaderRejected, HeaderUnanswered, PostLines,
       PostLinesRepeated, PostLinesRejected, LinesVanished,
       PostLinesUnlisted, WriteLines, StoreHeaderIds, CompleteBatch,
       SetPosted, StoreFault, Finance, FinanceDelete, FinanceReuse,
       SetBatchStatus, SetBatchPaused, AddDfoIds
<1>2. \/ UNCHANGED redis \/ redis' = NoRedisJob \/ redis' = NewRedisJob
      \/ \E x, y : \/ redis' = [redis EXCEPT !.state = x]
                   \/ redis' = [redis EXCEPT !.state = x, !.stalled = y]
                   \/ redis' = [redis EXCEPT !.attempts = y, !.state = x]
  BY DEF VendorNext, Queue, Submit, SubmitValidate, SubmitPrepare,
       SubmitLookup, SubmitMarkPosted, SubmitRemoveFailed,
       SubmitStorePrepare, ReplaceDeleteGroups, ReplaceInsertGroups,
       ReplaceUpsertJob, SubmitAdd, Control, PauseRead, PauseSet,
       ResumeRead, ResumeClear, ResumeFindJob, RequeueCheck, RequeueAdd,
       MarkQueued, DeleteRead, DeletePause, DeleteRedisJob, DeletePurge,
       DeleteBatch, Boot, ReleaseRead, ForceRemove, Restore, PickUp,
       PromoteDelayed, Stalled, Crash, Processor, MarkActive, ListGroups,
       CheckPause, RecordWorkerStopped, MarkGroupActive, CompleteGroup,
       CountGroup, MarkCompleted, FailJob, CancelBatch, Return, Throw,
       OpenGroup, QueryRejected, CreateHeader, SetCreatedHeader,
       PostHeaderAndLines, HeaderRejected, HeaderUnanswered, PostLines,
       PostLinesRepeated, PostLinesRejected, LinesVanished,
       PostLinesUnlisted, WriteLines, StoreHeaderIds, CompleteBatch,
       SetPosted, StoreFault, Finance, FinanceDelete, FinanceReuse
<1>3. \/ UNCHANGED subs \/ subs' = [s \in Submitters |-> "idle"]
      \/ \E s, x : subs' = [subs EXCEPT ![s] = x]
  BY DEF VendorNext, Queue, Submit, SubmitValidate, SubmitPrepare,
       SubmitLookup, SubmitMarkPosted, SubmitRemoveFailed,
       SubmitStorePrepare, ReplaceDeleteGroups, ReplaceInsertGroups,
       ReplaceUpsertJob, SubmitAdd, Control, PauseRead, PauseSet,
       ResumeRead, ResumeClear, ResumeFindJob, RequeueCheck, RequeueAdd,
       MarkQueued, DeleteRead, DeletePause, DeleteRedisJob, DeletePurge,
       DeleteBatch, Boot, ReleaseRead, ForceRemove, Restore, PickUp,
       PromoteDelayed, Stalled, Crash, Processor, MarkActive, ListGroups,
       CheckPause, RecordWorkerStopped, MarkGroupActive, CompleteGroup,
       CountGroup, MarkCompleted, FailJob, CancelBatch, Return, Throw,
       OpenGroup, QueryRejected, CreateHeader, SetCreatedHeader,
       PostHeaderAndLines, HeaderRejected, HeaderUnanswered, PostLines,
       PostLinesRepeated, PostLinesRejected, LinesVanished,
       PostLinesUnlisted, WriteLines, StoreHeaderIds, CompleteBatch,
       SetPosted, StoreFault, Finance, FinanceDelete, FinanceReuse, SubGoto
<1>4. \/ UNCHANGED spent
      \/ \E what \in {"submits", "pauses", "deletes", "faults", "crashes"} :
           spent' = [spent EXCEPT ![what] = @ + 1]
  BY DEF VendorNext, Queue, Submit, SubmitValidate, SubmitPrepare,
       SubmitLookup, SubmitMarkPosted, SubmitRemoveFailed,
       SubmitStorePrepare, ReplaceDeleteGroups, ReplaceInsertGroups,
       ReplaceUpsertJob, SubmitAdd, Control, PauseRead, PauseSet,
       ResumeRead, ResumeClear, ResumeFindJob, RequeueCheck, RequeueAdd,
       MarkQueued, DeleteRead, DeletePause, DeleteRedisJob, DeletePurge,
       DeleteBatch, Boot, ReleaseRead, ForceRemove, Restore, PickUp,
       PromoteDelayed, Stalled, Crash, Processor, MarkActive, ListGroups,
       CheckPause, RecordWorkerStopped, MarkGroupActive, CompleteGroup,
       CountGroup, MarkCompleted, FailJob, CancelBatch, Return, Throw,
       OpenGroup, QueryRejected, CreateHeader, SetCreatedHeader,
       PostHeaderAndLines, HeaderRejected, HeaderUnanswered, PostLines,
       PostLinesRepeated, PostLinesRejected, LinesVanished,
       PostLinesUnlisted, WriteLines, StoreHeaderIds, CompleteBatch,
       SetPosted, StoreFault, Finance, FinanceDelete, FinanceReuse, Spend
<1>5. \/ UNCHANGED outside
      \/ \E what \in {"cleanups", "lost"} : outside' = [outside EXCEPT
           ![what] = @ + 1]
  BY DEF VendorNext, Queue, Submit, SubmitValidate, SubmitPrepare,
       SubmitLookup, SubmitMarkPosted, SubmitRemoveFailed,
       SubmitStorePrepare, ReplaceDeleteGroups, ReplaceInsertGroups,
       ReplaceUpsertJob, SubmitAdd, Control, PauseRead, PauseSet,
       ResumeRead, ResumeClear, ResumeFindJob, RequeueCheck, RequeueAdd,
       MarkQueued, DeleteRead, DeletePause, DeleteRedisJob, DeletePurge,
       DeleteBatch, Boot, ReleaseRead, ForceRemove, Restore, PickUp,
       PromoteDelayed, Stalled, Crash, Processor, MarkActive, ListGroups,
       CheckPause, RecordWorkerStopped, MarkGroupActive, CompleteGroup,
       CountGroup, MarkCompleted, FailJob, CancelBatch, Return, Throw,
       OpenGroup, QueryRejected, CreateHeader, SetCreatedHeader,
       PostHeaderAndLines, HeaderRejected, HeaderUnanswered, PostLines,
       PostLinesRepeated, PostLinesRejected, LinesVanished,
       PostLinesUnlisted, WriteLines, StoreHeaderIds, CompleteBatch,
       SetPosted, StoreFault, Finance, FinanceDelete, FinanceReuse, Suffer
<1>6. IsBatch(batch)'
  BY <1>0, <1>1 DEF SideTyped, IsBatch
<1>7. (redis = [state |-> redis.state, attempts |-> redis.attempts, stalled |-> redis.stalled])'
  BY <1>0, <1>2 DEF SideTyped, NoRedisJob, NewRedisJob
<1>8. DOMAIN subs' = Submitters
  BY <1>0, <1>3 DEF SideTyped
<1>9. spent' \in Spendings
  BY <1>0, <1>4 DEF SideTyped, Spendings
<1>10. outside' \in [cleanups : Nat, lost : Nat]
  BY <1>0, <1>5 DEF SideTyped
<1>11. QED
  BY <1>6, <1>7, <1>8, <1>9, <1>10 DEF SideTyped


(* The kinds of steps: what others do, the ends of runs, the steps of the  *)
(* processor that leave its loop and those that go on in it, those that    *)
(* open a journal, and those that write lines.                             *)
Quiet == UNCHANGED <<fo, outside>>
Aside == /\ \/ \E s \in Submitters : Submit(s)
            \/ Control \/ PromoteDelayed \/ Stalled \/ Boot
         /\ Quiet /\ UNCHANGED worker
Ends == (PickUp \/ Crash \/ Return \/ Throw) /\ Quiet
Leaves == /\ \/ QueryRejected \/ HeaderRejected \/ LinesVanished \/ StoreFault
             \/ MarkActive \/ RecordWorkerStopped \/ MarkCompleted \/ FailJob
             \/ CancelBatch \/ StoreHeaderIds \/ CompleteBatch \/ SetPosted
          /\ Quiet
Walks == (MarkGroupActive \/ CompleteGroup \/ CountGroup) /\ Quiet
Reads == (ListGroups \/ CheckPause) /\ Quiet
Opens == OpenGroup \/ CreateHeader \/ HeaderUnanswered \/ SetCreatedHeader
Writes == PostLines \/ PostLinesRepeated \/ PostLinesRejected \/ PostLinesUnlisted

LEMMA Kinds ==
  ASSUME VendorNext
  PROVE  Aside \/ Ends \/ Leaves \/ Walks \/ Reads \/ Opens \/ Writes \/ Finance
<1>1. ASSUME Queue PROVE UNCHANGED fo
  BY <1>1 DEF Queue, Submit, SubmitValidate, SubmitPrepare, SubmitLookup,
       SubmitMarkPosted, SubmitRemoveFailed, SubmitStorePrepare,
       ReplaceDeleteGroups, ReplaceInsertGroups, ReplaceUpsertJob,
       SubmitAdd, Control, PauseRead, PauseSet, ResumeRead, ResumeClear,
       ResumeFindJob, RequeueCheck, RequeueAdd, MarkQueued, DeleteRead,
       DeletePause, DeleteRedisJob, DeletePurge, DeleteBatch, Boot,
       ReleaseRead, ForceRemove, Restore, Processor, MarkActive, ListGroups,
       CheckPause, RecordWorkerStopped, MarkGroupActive, CompleteGroup,
       CountGroup, MarkCompleted, FailJob, CancelBatch, Return, Throw,
       PickUp, PromoteDelayed, Stalled, Crash
<1>2. ASSUME \/ \E s \in Submitters : Submit(s)
             \/ Control \/ PromoteDelayed \/ Stalled \/ Boot
      PROVE  UNCHANGED worker
  BY <1>2 DEF Submit, SubmitValidate, SubmitPrepare, SubmitLookup,
       SubmitMarkPosted, SubmitRemoveFailed, SubmitStorePrepare,
       ReplaceDeleteGroups, ReplaceInsertGroups, ReplaceUpsertJob,
       SubmitAdd, Control, PauseRead, PauseSet, ResumeRead, ResumeClear,
       ResumeFindJob, RequeueCheck, RequeueAdd, MarkQueued, DeleteRead,
       DeletePause, DeleteRedisJob, DeletePurge, DeleteBatch, Boot,
       ReleaseRead, ForceRemove, Restore, PromoteDelayed, Stalled
<1>3. CASE Queue
  BY <1>1, <1>2, <1>3 DEF Queue, Processor, Aside, Ends, Leaves, Walks, Reads, Quiet
<1>4. CASE QueryRejected \/ HeaderRejected \/ LinesVanished \/ StoreFault \/ StoreHeaderIds
             \/ CompleteBatch \/ SetPosted
  BY <1>4 DEF QueryRejected, HeaderRejected, LinesVanished, StoreFault, StoreHeaderIds,
     CompleteBatch, SetPosted, Leaves, Quiet
<1>5. QED
  BY <1>3, <1>4 DEF VendorNext, PostHeaderAndLines, Opens, Writes

LEMMA AsideGroups ==
  ASSUME Aside
  PROVE  \/ UNCHANGED groups \/ groups' = NoGroups
         \/ groups' = [g \in Groups |-> Pending]
BY DEF Aside, Submit, SubmitValidate, SubmitPrepare, SubmitLookup,
     SubmitMarkPosted, SubmitRemoveFailed, SubmitStorePrepare,
     ReplaceDeleteGroups, ReplaceInsertGroups, ReplaceUpsertJob, SubmitAdd,
     Control, PauseRead, PauseSet, ResumeRead, ResumeClear, ResumeFindJob,
     RequeueCheck, RequeueAdd, MarkQueued, DeleteRead, DeletePause,
     DeleteRedisJob, DeletePurge, DeleteBatch, Boot, ReleaseRead, ForceRemove,
     Restore, PromoteDelayed, Stalled

LEMMA EndsRun ==
  ASSUME Ends
  PROVE  /\ UNCHANGED groups
         /\ \/ worker' = IdleWorker
            \/ worker' = [IdleWorker EXCEPT !.pc = "start", !.attempt = redis.attempts]
BY DEF Ends, PickUp, Crash, Return, Throw

LEMMA EndsIdle ==
  ASSUME Ends
  PROVE  /\ UNCHANGED groups /\ IsWorker(worker)'
         /\ worker'.snap = NoGroups /\ worker'.at = 0 /\ worker'.key = NoHeader
         /\ worker'.pc \in {"idle", "start"}
<1>1. CASE worker' = IdleWorker
  BY <1>1, EndsRun DEF IdleWorker, IsWorker
<1>2. CASE worker' = [IdleWorker EXCEPT !.pc = "start", !.attempt = redis.attempts]
  BY <1>2, EndsRun DEF IdleWorker, IsWorker
<1>3. QED
  BY <1>1, <1>2, EndsRun

OutOfLoop == {"list", "caught", "fail", "throw", "return", "cancel", "posted", "finish"}

LEMMA LeavesLoop ==
  ASSUME Leaves
  PROVE  UNCHANGED groups /\ \E p \in OutOfLoop : Goto(p) /\ (p = "list" => worker.pc = "start")
BY DEF Leaves, QueryRejected, HeaderRejected, LinesVanished, StoreFault, MarkActive,
     RecordWorkerStopped, MarkCompleted, FailJob, CancelBatch, StoreHeaderIds, CompleteBatch,
     SetPosted, OutOfLoop

(* A step that only moves the program counter.                             *)
LEMMA GotoKeeps ==
  ASSUME VendorTyped, NEW p, Goto(p)
  PROVE  /\ IsWorker(worker)' /\ worker'.pc = p /\ worker'.at = worker.at
         /\ worker'.key = worker.key /\ worker'.snap = worker.snap
BY DEF VendorTyped, IsWorker, Goto

LEMMA WalksOn ==
  ASSUME VendorTyped, Walks
  PROVE  /\ worker.pc \in AtGroup /\ worker.at \in Groups
         /\ \/ worker.pc = "markGroup" /\ Goto("open")
               /\ SetGroup(worker.at, [groups[worker.at] EXCEPT !.status = "active"])
            \/ /\ worker.pc = "complete" /\ (Goto("count") \/ Goto("check"))
               /\ SetGroup(worker.at, [groups[worker.at] EXCEPT !.status = "completed"])
            \/ worker.pc = "count" /\ Goto("check") /\ UNCHANGED groups
BY DEF VendorTyped, Walks, MarkGroupActive, CompleteGroup, CountGroup, AtGroup

LEMMA GroupSet ==
  ASSUME VendorTyped, NEW g \in Groups, NEW r \in GroupDocs, SetGroup(g, r)
  PROVE  /\ groups' \in [Groups -> GroupDocs]
         /\ \A k \in Groups \ {g} : groups'[k] = groups[k]
         /\ groups[g].status = "absent" => groups'[g] = groups[g]
         /\ groups[g].status # "absent" => groups'[g] = r
BY DEF VendorTyped, SetGroup

(* The processor changes the status or the number of its group.            *)
LEMMA StatusSet ==
  ASSUME VendorTyped, worker.at \in Groups, NEW x \in {"active", "completed"},
         SetGroup(worker.at, [groups[worker.at] EXCEPT !.status = x])
  PROVE  /\ groups' \in [Groups -> GroupDocs]
         /\ \A g \in Groups \ {worker.at} : groups'[g] = groups[g]
         /\ \A g \in Groups : /\ groups'[g].header = groups[g].header
                              /\ groups'[g].status = "absent" <=> groups[g].status = "absent"
         /\ groups'[worker.at].status \in {x, "absent"}
<1> DEFINE r == [groups[worker.at] EXCEPT !.status = x]
<1>1. groups[worker.at] \in GroupDocs
  BY DEF VendorTyped
<1>2. r \in GroupDocs /\ r.status = x /\ r.header = groups[worker.at].header
  BY <1>1 DEF GroupDocs
<1>3. SetGroup(worker.at, r)
  OBVIOUS
<1> HIDE DEF r
<1>4. QED
  BY <1>2, <1>3, GroupSet

LEMMA HeaderSet ==
  ASSUME VendorTyped, worker.at \in Groups, worker.key \in HeaderIds,
         SetGroup(worker.at, [groups[worker.at] EXCEPT !.header = worker.key])
  PROVE  /\ groups' \in [Groups -> GroupDocs]
         /\ \A g \in Groups \ {worker.at} : groups'[g] = groups[g]
         /\ \A g \in Groups : groups'[g].status = groups[g].status
         /\ groups'[worker.at].header \in {groups[worker.at].header, worker.key}
         /\ groups[worker.at].status # "absent" => groups'[worker.at].header = worker.key
<1> DEFINE r == [groups[worker.at] EXCEPT !.header = worker.key]
<1>1. groups[worker.at] \in GroupDocs
  BY DEF VendorTyped
<1>2. r \in GroupDocs /\ r.header = worker.key /\ r.status = groups[worker.at].status
  BY <1>1 DEF GroupDocs
<1>3. SetGroup(worker.at, r)
  OBVIOUS
<1> HIDE DEF r
<1>4. QED
  BY <1>2, <1>3, GroupSet

(* What a step does not type by itself: the worker, its groups and the     *)
(* journals.                                                               *)
StoreTyped ==
  /\ fo \in Seq(Journals)
  /\ groups \in [Groups -> GroupDocs] /\ worker.snap \in [Groups -> GroupDocs]

RunTyped ==
  /\ IsWorker(worker) /\ worker.at \in 0..N /\ worker.key \in {NoHeader} \cup HeaderIds
  /\ worker.pc \in AtGroup => worker.at \in Groups
  /\ worker.pc \in {"record", "lines"} => worker.key \in HeaderIds
  /\ worker.pc \in {"start", "list"} => worker.at = 0

CoreTyped == StoreTyped /\ RunTyped

LEMMA KeepsTypes ==
  ASSUME VendorTyped, VendorNext, CoreTyped'
  PROVE  VendorTyped'
BY SideStep DEF VendorTyped, SideTyped, CoreTyped, StoreTyped, RunTyped



-----------------------------------------------------------------------------
(* Journals.                                                               *)

LEMMA ChangeJournal ==
  ASSUME VendorTyped, NEW h \in HeaderIds, NEW j \in Journals, fo' = [fo EXCEPT ![h] = j]
  PROVE  /\ fo' \in Seq(Journals) /\ Len(fo') = Len(fo)
         /\ HeaderIds' = HeaderIds /\ GroupDocs' = GroupDocs
         /\ fo'[h] = j /\ \A k \in HeaderIds \ {h} : fo'[k] = fo[k]
<1>1. fo \in Seq(Journals) /\ h \in 1..Len(fo)
  BY DEF VendorTyped, HeaderIds
<1>2. fo' \in Seq(Journals) /\ Len(fo') = Len(fo)
  BY <1>1
<1>3. HeaderIds' = HeaderIds /\ GroupDocs' = GroupDocs
  BY <1>2 DEF HeaderIds, GroupDocs
<1>4. fo'[h] = j /\ \A k \in HeaderIds \ {h} : fo'[k] = fo[k]
  BY <1>1 DEF HeaderIds
<1>5. QED
  BY <1>2, <1>3, <1>4

(* Finance deletes a journal, or gives its number away.                    *)
LEMMA FinanceFrame ==
  ASSUME VendorTyped, Finance
  PROVE  \E h \in HeaderIds : \E j \in Journals :
           /\ fo' = [fo EXCEPT ![h] = j] /\ UNCHANGED <<groups, worker, batch, job, redis, subs, ctl, boot, spent>>
           /\ outside'.lost = outside.lost
           /\ \/ /\ fo[h].live /\ ~j.live /\ j.group = fo[h].group /\ j.lines = fo[h].lines
                 /\ j.gone = IF fo[h].lines \in {"full", "extra"} THEN fo[h].group ELSE fo[h].gone
              \/ j.group = 0 /\ j.lines = "none" /\ worker.pc = "idle"
<1>1. PICK h \in HeaderIds : FinanceDelete(h) \/ FinanceReuse(h)
  BY DEF Finance
<1>2. /\ fo[h] \in Journals /\ UNCHANGED <<groups, worker, batch, job, redis, subs, ctl, boot, spent>>
      /\ fo \in Seq(Journals)
  BY <1>1, SeqFacts DEF FinanceDelete, FinanceReuse, VendorTyped
<1>3. outside'.lost = outside.lost
  BY <1>1 DEF FinanceDelete, FinanceReuse, Suffer, VendorTyped
<1>4. CASE FinanceDelete(h)
  <2> DEFINE gone == IF fo[h].lines \in {"full", "extra"} THEN fo[h].group ELSE fo[h].gone
             j == [fo[h] EXCEPT !.live = FALSE, !.gone = gone]
  <2>1. /\ j \in Journals /\ ~j.live /\ j.group = fo[h].group /\ j.lines = fo[h].lines
        /\ j.gone = gone
    BY <1>2 DEF Journals
  <2>2. fo' = [fo EXCEPT ![h] = j] /\ fo[h].live
    BY <1>4, <1>2, SeqFacts DEF FinanceDelete
  <2>3. QED
    BY <1>2, <1>3, <2>1, <2>2
<1>5. CASE FinanceReuse(h)
  <2> DEFINE j == [fo[h] EXCEPT !.live = TRUE, !.group = 0, !.lines = "none"]
  <2>1. j \in Journals /\ j.group = 0 /\ j.lines = "none"
    <3>1. 0 \in 0..N /\ "none" \in LineStates
      BY SeqFacts DEF LineStates, OnceLines
    <3>2. QED
      BY <1>2, <3>1 DEF Journals
  <2>2. fo' = [fo EXCEPT ![h] = j] /\ worker.pc = "idle"
    BY <1>5, <1>2, SeqFacts DEF FinanceReuse
  <2>3. QED
    BY <1>2, <1>3, <2>1, <2>2
<1>6. QED
  BY <1>1, <1>4, <1>5

(* A new journal gets the next number.                                     *)
LEMMA NewNumber ==
  ASSUME VendorTyped, worker.at \in Groups, fo' = Append(fo, NewJournal(worker.at))
  PROVE  /\ fo' \in Seq(Journals) /\ Len(fo') = Len(fo) + 1
         /\ HeaderIds' = HeaderIds \cup {Len(fo) + 1} /\ Len(fo) + 1 \notin HeaderIds
         /\ fo'[Len(fo) + 1] = NewJournal(worker.at)
         /\ \A h \in HeaderIds : fo'[h] = fo[h]
<1>1. NewJournal(worker.at) \in Journals
  BY SeqFacts DEF NewJournal, Journals, LineStates, OnceLines
<1>2. fo \in Seq(Journals)
  BY DEF VendorTyped
<1>3. QED
  BY <1>1, <1>2 DEF HeaderIds

LEMMA WritesLines ==
  ASSUME VendorTyped, Writes
  PROVE  /\ worker.pc = "lines" /\ worker.key \in HeaderIds /\ worker.at \in Groups
         /\ fo[worker.key].live
         /\ UNCHANGED <<batch, job, groups, redis, subs, ctl, boot, spent>>
         /\ \E after \in LineStates :
              /\ fo' = [fo EXCEPT ![worker.key] = [fo[worker.key] EXCEPT !.lines = after]]
              /\ \/ Goto("complete") /\ after \in {"full", "extra"}
                 \/ Goto("caught")
              /\ fo[worker.key].lines \in {"full", "extra"} => after \in {"full", "extra"}
              /\ \/ outside'.lost > 0
                 \/ /\ outside'.lost = outside.lost
                    /\ fo[worker.key].lines \in OnceLines => after \in OnceLines
<1>0. ~Blind
  BY VendorPostingAssumption DEF Blind, VendorPostingAssumption
<1>1. /\ worker.pc = "lines" /\ fo[worker.key].live
      /\ UNCHANGED <<batch, job, groups, redis, subs, ctl, boot, spent>>
  BY DEF Writes, PostLines, PostLinesRepeated, PostLinesRejected, PostLinesUnlisted, AtLines,
     WriteLines
<1>2. worker.key \in HeaderIds /\ worker.at \in Groups /\ fo[worker.key] \in Journals
  BY <1>1, SeqFacts DEF VendorTyped, AtGroup
<1>3. fo[worker.key].lines \in LineStates /\ outside \in [cleanups : Nat, lost : Nat]
  BY <1>2 DEF Journals, VendorTyped
<1>4. ASSUME NEW after, NEW p, WriteLines(after, p)
      PROVE  fo' = [fo EXCEPT ![worker.key] = [fo[worker.key] EXCEPT !.lines = after]] /\ Goto(p)
  BY <1>4 DEF WriteLines
<1>5. CASE PostLines
  BY <1>0, <1>1, <1>2, <1>3, <1>4, <1>5 DEF PostLines, LinesPosted, LineStates, OnceLines
<1>6. CASE PostLinesRepeated
  <2>1. outside'.lost > 0
    BY <1>3, <1>6 DEF PostLinesRepeated, Suffer
  <2>2. QED
    BY <1>1, <1>2, <1>3, <1>4, <1>6, <2>1 DEF PostLinesRepeated, LineStates, OnceLines, Uneven
<1>7. CASE PostLinesRejected
  BY <1>0, <1>1, <1>2, <1>3, <1>4, <1>7 DEF PostLinesRejected, PartlyPosted, LinesPosted,
     LineStates, OnceLines, Uneven
<1>8. CASE PostLinesUnlisted
  <2>1. outside'.lost > 0
    BY <1>3, <1>8 DEF PostLinesUnlisted, Suffer
  <2>2. QED
    BY <1>1, <1>2, <1>3, <1>4, <1>8, <2>1 DEF PostLinesUnlisted, LineStates, OnceLines, Uneven
<1>9. QED
  BY <1>5, <1>6, <1>7, <1>8 DEF Writes


LEMMA CoreStep ==
  ASSUME VendorTyped, VendorNext
  PROVE  CoreTyped'
<1>0. /\ groups \in [Groups -> GroupDocs] /\ fo \in Seq(Journals)
      /\ worker.snap \in [Groups -> GroupDocs] /\ Groups = 1..N /\ N \in Nat
  BY SeqFacts DEF VendorTyped
<1>2. /\ IsWorker(worker) /\ worker.at \in 0..N
      /\ worker.key \in {NoHeader} \cup HeaderIds
      /\ worker.pc \in AtGroup => worker.at \in Groups
      /\ worker.pc \in {"record", "lines"} => worker.key \in HeaderIds
      /\ worker.pc \in {"start", "list"} => worker.at = 0
      /\ Groups = 1..N /\ N \in Nat
  BY SeqFacts DEF VendorTyped
<1>1. ASSUME UNCHANGED fo
      PROVE  HeaderIds' = HeaderIds /\ GroupDocs' = GroupDocs /\ fo' \in Seq(Journals)
  BY <1>1, SameNumbers
<1>12. NoGroups \in [Groups -> GroupDocs] /\ [g \in Groups |-> Pending] \in [Groups -> GroupDocs]
  BY DEF NoGroups, Absent, Pending, GroupDocs
<1>3. CASE Aside
  <2>1. UNCHANGED <<fo, worker>> /\ groups' \in [Groups -> GroupDocs]
    BY <1>0, <1>12, <1>3, AsideGroups DEF Aside, Quiet
  <2>2. StoreTyped'
    BY <1>0, <1>1, <2>1 DEF StoreTyped
  <2>3. RunTyped'
    BY <1>2, <1>1, <2>1 DEF RunTyped
  <2>4. QED
    BY <2>2, <2>3 DEF CoreTyped
<1>4. CASE Ends
  <2>1. UNCHANGED <<fo, groups>>
    BY <1>4, EndsRun DEF Ends, Quiet
  <2>2. /\ IsWorker(worker)' /\ worker'.snap = NoGroups /\ worker'.at = 0
        /\ worker'.key = NoHeader /\ worker'.pc \in {"idle", "start"}
    BY <1>4, EndsIdle
  <2>3. StoreTyped'
    BY <1>0, <1>1, <1>12, <2>1, <2>2 DEF StoreTyped
  <2>4. RunTyped'
    BY <1>2, <1>1, <1>12, <2>1, <2>2 DEF AtGroup, RunTyped
  <2>5. QED
    BY <2>3, <2>4 DEF CoreTyped
<1>5. CASE Leaves
  <2>1. /\ UNCHANGED <<fo, groups>>
        /\ \E p \in OutOfLoop : Goto(p) /\ (p = "list" => worker.pc = "start")
    BY <1>5, LeavesLoop DEF Leaves, Quiet
  <2>2. PICK p \in OutOfLoop : Goto(p) /\ (p = "list" => worker.pc = "start")
    BY <2>1
  <2>3. /\ IsWorker(worker)' /\ worker'.pc = p /\ worker'.at = worker.at
        /\ worker'.key = worker.key /\ worker'.snap = worker.snap
    BY <2>2, GotoKeeps
  <2>4. p \notin AtGroup /\ p \notin {"record", "lines", "start"}
    BY <2>2 DEF OutOfLoop, AtGroup
  <2>5. p = "list" => worker.at = 0
    BY <1>2, <2>2
  <2>6. StoreTyped'
    BY <1>0, <1>1, <2>1, <2>3, <2>4, <2>5 DEF StoreTyped
  <2>7. RunTyped'
    BY <1>2, <1>1, <2>1, <2>3, <2>4, <2>5 DEF RunTyped
  <2>8. QED
    BY <2>6, <2>7 DEF CoreTyped
<1>6. CASE Walks
  <2>1. /\ UNCHANGED fo /\ worker.pc \in AtGroup /\ worker.at \in Groups
        /\ \E p \in {"open", "count", "check"} : Goto(p)
    BY <1>6, WalksOn DEF Walks, Quiet
  <2>2. PICK p \in {"open", "count", "check"} : Goto(p)
    BY <2>1
  <2>3. /\ IsWorker(worker)' /\ worker'.pc = p /\ worker'.at = worker.at
        /\ worker'.key = worker.key /\ worker'.snap = worker.snap
    BY <2>2, GotoKeeps
  <2>4. groups' \in [Groups -> GroupDocs]
    BY <1>0, <1>6, <2>1, WalksOn, StatusSet
  <2>5. StoreTyped'
    BY <1>0, <1>1, <2>1, <2>2, <2>3, <2>4 DEF StoreTyped
  <2>6. RunTyped'
    BY <1>2, <1>1, <2>1, <2>2, <2>3, <2>4 DEF RunTyped
  <2>7. QED
    BY <2>5, <2>6 DEF CoreTyped
<1>7. CASE Reads
  <2>1. UNCHANGED <<fo, groups>>
    BY <1>7 DEF Reads, Quiet, ListGroups, CheckPause
  <2>2. /\ IsWorker(worker)' /\ worker'.key = worker.key
        /\ worker'.snap \in {worker.snap, groups}
        /\ \/ worker'.at = worker.at /\ worker'.pc \in {"fail", "check", "settle", "stop"}
           \/ worker'.at \in Groups /\ worker'.pc = "markGroup"
    <3>1. CASE ListGroups
      BY <1>0, <1>2, <3>1 DEF ListGroups, IsWorker
    <3>2. CASE Goto("settle") \/ Goto("stop")
      BY <1>2, <3>2, GotoKeeps
    <3>3. CASE \E g \in Unposted : worker' = [worker EXCEPT !.pc = "markGroup", !.at = g]
      <4>1. PICK g \in Groups : worker' = [worker EXCEPT !.pc = "markGroup", !.at = g]
        BY <3>3 DEF Unposted
      <4>2. QED
        BY <1>2, <4>1 DEF IsWorker
    <3>4. QED
      BY <1>7, <3>1, <3>2, <3>3 DEF Reads, CheckPause
  <2>3. /\ worker'.pc \in AtGroup => worker'.at \in Groups
        /\ worker'.pc \notin {"record", "lines", "start", "list"}
        /\ worker'.at \in 0..N
    BY <1>2, <2>2 DEF AtGroup
  <2>4. StoreTyped'
    BY <1>0, <1>1, <2>1, <2>2, <2>3 DEF StoreTyped
  <2>5. RunTyped'
    BY <1>2, <1>1, <2>1, <2>2, <2>3 DEF RunTyped
  <2>6. QED
    BY <2>4, <2>5 DEF CoreTyped

<1>8. CASE Opens
  <2>0. worker.pc \in {"open", "create", "record"} /\ worker.at \in Groups
    <3>1. worker.pc \in {"open", "create", "record"}
      BY <1>8 DEF Opens, OpenGroup, CreateHeader, HeaderUnanswered, SetCreatedHeader
    <3>2. QED
      BY <1>2, <3>1 DEF AtGroup
  <2>1. CASE OpenGroup
    <3> DEFINE h == worker.snap[worker.at].header
    <3>1. UNCHANGED <<fo, groups>> /\ h \in {NoHeader} \cup HeaderIds
      BY <1>0, <2>0, <2>1 DEF OpenGroup, GroupDocs
    <3>2. /\ IsWorker(worker)' /\ worker'.snap = worker.snap /\ worker'.at = worker.at
          /\ \/ worker'.pc = "lines" /\ worker'.key = h /\ h # NoHeader
             \/ worker'.pc = "create" /\ worker'.key = worker.key
      BY <1>2, <2>1 DEF OpenGroup, IsWorker
    <3>3. StoreTyped'
      BY <1>0, <1>1, <2>0, <3>1, <3>2 DEF StoreTyped
    <3>4. RunTyped'
      BY <1>2, <1>1, <2>0, <3>1, <3>2 DEF RunTyped
    <3>5. QED
      BY <3>3, <3>4 DEF CoreTyped
  <2>2. CASE CreateHeader \/ HeaderUnanswered
    <3>1. fo' = Append(fo, NewJournal(worker.at)) /\ UNCHANGED groups
      BY <2>2 DEF CreateHeader, HeaderUnanswered
    <3>2. /\ IsWorker(worker)' /\ worker'.snap = worker.snap /\ worker'.at = worker.at
          /\ \/ worker'.pc = "record" /\ worker'.key = Len(fo) + 1
             \/ worker'.pc \in {"create", "caught"} /\ worker'.key = worker.key
      <4>1. CASE CreateHeader
        BY <1>2, <4>1 DEF CreateHeader, IsWorker
      <4>2. CASE HeaderUnanswered
        BY <1>2, <4>2, GotoKeeps DEF HeaderUnanswered, IsWorker
      <4>3. QED
        BY <2>2, <4>1, <4>2
    <3>3. /\ fo' \in Seq(Journals) /\ Len(fo) <= Len(fo')
          /\ HeaderIds' = HeaderIds \cup {Len(fo) + 1}
      BY <2>0, <3>1, NewNumber, SeqFacts
    <3>4. groups' \in [Groups -> GroupDocs'] /\ worker'.snap \in [Groups -> GroupDocs']
      BY <1>0, <3>1, <3>2, <3>3, MoreNumbers
    <3>5. StoreTyped'
      BY <1>0, <2>0, <3>2, <3>3, <3>4 DEF StoreTyped
    <3>6. RunTyped'
      BY <1>2, <2>0, <3>2, <3>3, <3>4 DEF RunTyped
    <3>7. QED
      BY <3>5, <3>6 DEF CoreTyped
  <2>3. CASE SetCreatedHeader
    <3>1. UNCHANGED fo /\ worker.key \in HeaderIds
      BY <1>2, <2>3 DEF SetCreatedHeader
    <3>3. groups' \in [Groups -> GroupDocs]
      BY <2>0, <2>3, <3>1, HeaderSet DEF SetCreatedHeader
    <3>4. /\ IsWorker(worker)' /\ worker'.snap = worker.snap /\ worker'.at = worker.at
          /\ worker'.pc = "lines" /\ worker'.key = worker.key
      BY <1>2, <2>3 DEF SetCreatedHeader, IsWorker
    <3>5. StoreTyped'
      BY <1>0, <1>1, <2>0, <3>1, <3>3, <3>4 DEF StoreTyped
    <3>6. RunTyped'
      BY <1>2, <1>1, <2>0, <3>1, <3>3, <3>4 DEF RunTyped
    <3>7. QED
      BY <3>5, <3>6 DEF CoreTyped
  <2>4. QED
    BY <1>8, <2>1, <2>2, <2>3 DEF Opens
<1>9. CASE Writes
  <2>1. PICK after \in LineStates :
          /\ fo' = [fo EXCEPT ![worker.key] = [fo[worker.key] EXCEPT !.lines = after]]
          /\ Goto("complete") \/ Goto("caught")
    BY <1>9, WritesLines
  <2>2. worker.key \in HeaderIds /\ worker.at \in Groups /\ UNCHANGED groups
    BY <1>9, WritesLines
  <2>3. [fo[worker.key] EXCEPT !.lines = after] \in Journals
    BY <2>2, SeqFacts DEF Journals
  <2>4. /\ fo' \in Seq(Journals) /\ Len(fo') = Len(fo)
        /\ HeaderIds' = HeaderIds /\ GroupDocs' = GroupDocs
    BY <2>1, <2>2, <2>3, ChangeJournal
  <2>5. /\ IsWorker(worker)' /\ worker'.snap = worker.snap /\ worker'.at = worker.at
        /\ worker'.key = worker.key /\ worker'.pc \in {"complete", "caught"}
    BY <2>1, GotoKeeps
  <2>6. StoreTyped'
    BY <1>0, <2>2, <2>4, <2>5 DEF StoreTyped
  <2>7. RunTyped'
    BY <1>2, <2>2, <2>4, <2>5 DEF RunTyped
  <2>8. QED
    BY <2>6, <2>7 DEF CoreTyped
<1>10. CASE Finance
  <2>1. PICK h \in HeaderIds, j \in Journals : fo' = [fo EXCEPT ![h] = j] /\ UNCHANGED <<groups, worker>>
    BY <1>10, FinanceFrame
  <2>2. /\ fo' \in Seq(Journals) /\ Len(fo') = Len(fo)
        /\ HeaderIds' = HeaderIds /\ GroupDocs' = GroupDocs
    BY <2>1, ChangeJournal
  <2>3. StoreTyped'
    BY <1>0, <2>1, <2>2 DEF StoreTyped
  <2>4. RunTyped'
    BY <1>2, <2>1, <2>2 DEF RunTyped
  <2>5. QED
    BY <2>3, <2>4 DEF CoreTyped
<1>11. QED
  BY <1>3, <1>4, <1>5, <1>6, <1>7, <1>8, <1>9, <1>10, Kinds

LEMMA TypedStep ==
  ASSUME VendorTyped, VendorNext
  PROVE  VendorTyped'
BY CoreStep, KeepsTypes


-----------------------------------------------------------------------------
(* The numbers that are recorded.                                          *)

LEMMA JournalKinds ==
  ASSUME VendorTyped, VendorNext
  PROVE  \/ UNCHANGED fo
         \/ /\ worker.pc = "create" /\ worker.at \in Groups
            /\ fo' = Append(fo, NewJournal(worker.at))
         \/ Writes \/ Finance
<1>1. CASE Aside \/ Ends \/ Leaves \/ Walks \/ Reads
  BY <1>1 DEF Aside, Ends, Leaves, Walks, Reads, Quiet
<1>2. CASE Opens
  BY <1>2 DEF Opens, OpenGroup, CreateHeader, HeaderUnanswered, SetCreatedHeader, VendorTyped,
     AtGroup
<1>3. QED
  BY <1>1, <1>2, Kinds

(* A journal stays of its group until Finance gives its number away.       *)
LEMMA GroupKept ==
  ASSUME VendorTyped, VendorNext, NEW h \in HeaderIds
  PROVE  h \in HeaderIds' /\ fo'[h].group \in {0, fo[h].group}
<1>1. CASE UNCHANGED fo
  BY <1>1 DEF HeaderIds
<1>2. CASE worker.at \in Groups /\ fo' = Append(fo, NewJournal(worker.at))
  BY <1>2, NewNumber
<1>3. CASE Writes
  <2>1. PICK after \in LineStates :
          fo' = [fo EXCEPT ![worker.key] = [fo[worker.key] EXCEPT !.lines = after]]
    BY <1>3, WritesLines
  <2>2. /\ worker.key \in HeaderIds /\ [fo[worker.key] EXCEPT !.lines = after] \in Journals
        /\ [fo[worker.key] EXCEPT !.lines = after].group = fo[worker.key].group
    BY <1>3, WritesLines, SeqFacts DEF Journals
  <2>3. QED
    BY <2>1, <2>2, ChangeJournal
<1>4. CASE Finance
  <2>1. PICK k \in HeaderIds, j \in Journals :
          fo' = [fo EXCEPT ![k] = j] /\ j.group \in {0, fo[k].group}
    BY <1>4, FinanceFrame
  <2>2. QED
    BY <2>1, ChangeJournal
<1>5. QED
  BY <1>1, <1>2, <1>3, <1>4, JournalKinds

LEMMA OwnStep ==
  ASSUME VendorTyped, VendorNext, OwnHeaders
  PROVE  OwnHeaders'
<1> DEFINE Kept(h, g) == h # NoHeader => fo'[h].group \in {0, g}
<1>1. ASSUME NEW h \in {NoHeader} \cup HeaderIds, NEW g, OfGroup(h, g)
      PROVE  Kept(h, g)
  BY <1>1, GroupKept DEF OfGroup
<1>2. \A g \in Groups : Kept(groups[g].header, g) /\ Kept(worker.snap[g].header, g)
  <2>1. ASSUME NEW g \in Groups
        PROVE  /\ groups[g].header \in {NoHeader} \cup HeaderIds
               /\ worker.snap[g].header \in {NoHeader} \cup HeaderIds
    BY DEF VendorTyped, GroupDocs
  <2>2. QED
    BY <1>1, <2>1 DEF OwnHeaders
<1>3. worker.pc \in {"record", "lines"} => Kept(worker.key, worker.at)
  BY <1>1 DEF OwnHeaders, VendorTyped
<1>4. \A g : Kept(NoHeader, g)
  OBVIOUS
<1>5. /\ \A g \in Groups : NoGroups[g].header = NoHeader
      /\ \A g \in Groups : [k \in Groups |-> Pending][g].header = NoHeader
  BY DEF NoGroups, Absent, Pending
<1> DEFINE Docs == \A g \in Groups : Kept(groups'[g].header, g)
           Snap == \A g \in Groups : Kept(worker'.snap[g].header, g)
           Key == worker'.pc \in {"record", "lines"} => Kept(worker'.key, worker'.at)
<1>6. SUFFICES Docs /\ Snap /\ Key
  BY DEF OwnHeaders, OfGroup
<1>7. ASSUME UNCHANGED groups PROVE Docs
  BY <1>2, <1>7
<1>8. ASSUME worker'.snap = worker.snap PROVE Snap
  BY <1>2, <1>8
<1> HIDE DEF Kept
<1>9. CASE Aside
  <2>1. Docs
    BY <1>2, <1>4, <1>5, <1>9, AsideGroups
  <2>2. Snap /\ Key
    BY <1>3, <1>8, <1>9 DEF Aside
  <2>3. QED
    BY <2>1, <2>2
<1>10. CASE Ends
  <2>1. UNCHANGED groups /\ worker'.snap = NoGroups /\ worker'.pc \in {"idle", "start"}
    BY <1>10, EndsIdle
  <2>2. QED
    BY <1>4, <1>5, <1>7, <2>1
<1>11. CASE Leaves
  <2>1. UNCHANGED groups /\ \E p \in OutOfLoop : Goto(p)
    BY <1>11, LeavesLoop
  <2>2. worker'.snap = worker.snap /\ worker'.pc \notin {"record", "lines"}
    BY <2>1, GotoKeeps DEF OutOfLoop
  <2>3. QED
    BY <1>7, <1>8, <2>1, <2>2
<1>12. CASE Walks
  <2>1. PICK p \in {"open", "count", "check"} : Goto(p)
    BY <1>12, WalksOn
  <2>2. worker'.snap = worker.snap /\ worker'.pc \notin {"record", "lines"}
    BY <2>1, GotoKeeps
  <2>3. Docs
    <3>1. worker.at \in Groups
      BY <1>12, WalksOn
    <3>2. ASSUME NEW x \in {"active", "completed"},
                 SetGroup(worker.at, [groups[worker.at] EXCEPT !.status = x])
          PROVE  \A g \in Groups : groups'[g].header = groups[g].header
      BY <3>1, <3>2, StatusSet
    <3>3. \A g \in Groups : groups'[g].header = groups[g].header
      BY <1>12, <3>2, WalksOn
    <3>4. QED
      BY <1>2, <3>3
  <2>4. QED
    BY <1>8, <2>2, <2>3
<1>13. CASE Reads
  <2>1. /\ UNCHANGED groups
        /\ worker'.snap \in {worker.snap, groups} /\ worker'.pc \notin {"record", "lines"}
    BY <1>13 DEF Reads, ListGroups, CheckPause, Goto, VendorTyped, IsWorker
  <2>2. QED
    BY <1>2, <1>7, <2>1
<1>14. CASE OpenGroup
  <2>1. UNCHANGED groups /\ worker'.snap = worker.snap /\ worker.at \in Groups
    BY <1>14 DEF OpenGroup, VendorTyped, IsWorker, AtGroup
  <2>2. \/ worker'.key = worker.snap[worker.at].header /\ worker'.at = worker.at
        \/ worker'.pc = "create"
    BY <1>14 DEF OpenGroup, VendorTyped, IsWorker
  <2>3. QED
    BY <1>2, <1>7, <1>8, <2>1, <2>2
<1>15. CASE CreateHeader \/ HeaderUnanswered
  <2>1. /\ UNCHANGED groups /\ worker'.snap = worker.snap /\ worker'.at = worker.at
        /\ worker'.pc = "record" => worker'.key = Len(fo) + 1
        /\ worker'.pc # "lines" /\ worker.at \in Groups
        /\ fo' = Append(fo, NewJournal(worker.at))
    BY <1>15 DEF CreateHeader, HeaderUnanswered, VendorTyped, IsWorker, Goto, AtGroup
  <2>2. Kept(Len(fo) + 1, worker.at)
    BY <2>1, NewNumber DEF Kept, NewJournal
  <2>3. QED
    BY <1>7, <1>8, <2>1, <2>2
<1>16. CASE SetCreatedHeader
  <2>1. /\ worker'.snap = worker.snap /\ worker'.at = worker.at /\ worker'.key = worker.key
        /\ worker.pc = "record" /\ worker.at \in Groups /\ worker.key \in HeaderIds
        /\ SetGroup(worker.at, [groups[worker.at] EXCEPT !.header = worker.key])
    BY <1>16 DEF SetCreatedHeader, VendorTyped, IsWorker, AtGroup
  <2>2. /\ \A g \in Groups \ {worker.at} : groups'[g] = groups[g]
        /\ groups'[worker.at].header \in {groups[worker.at].header, worker.key}
    BY <2>1, HeaderSet
  <2>4. Docs
    BY <1>2, <1>3, <2>1, <2>2
  <2>5. QED
    BY <1>3, <1>8, <2>1, <2>4
<1>17. CASE Writes
  <2>1. UNCHANGED groups /\ (Goto("complete") \/ Goto("caught"))
    BY <1>17, WritesLines
  <2>2. worker'.snap = worker.snap /\ worker'.pc \notin {"record", "lines"}
    BY <2>1, GotoKeeps
  <2>3. QED
    BY <1>7, <1>8, <2>1, <2>2
<1>18. CASE Finance
  <2>1. UNCHANGED <<groups, worker>>
    BY <1>18, FinanceFrame
  <2>2. QED
    BY <1>3, <1>7, <1>8, <2>1
<1>19. QED
  BY <1>9, <1>10, <1>11, <1>12, <1>13, <1>14, <1>15, <1>16, <1>17, <1>18, Kinds DEF Opens


-----------------------------------------------------------------------------
(* What is taken for posted is.                                            *)

LEMMA NumbersWereKept ==
  ASSUME VendorTyped, VendorNext, NumbersKept'
  PROVE  NumbersKept
BY GroupKept DEF NumbersKept

LEMMA LiveKeepsGone ==
  ASSUME VendorTyped, VendorNext, NumbersKept',
         \A h \in HeaderIds : fo[h].live => fo[h].gone = 0
  PROVE  /\ \A h \in HeaderIds' : fo'[h].live => fo'[h].gone = 0
         /\ \A g \in Groups : DoneIn(fo, g) => DoneIn(fo', g)
<1>0. /\ HeaderIds = 1..Len(fo) /\ HeaderIds' = 1..Len(fo') /\ 0 \notin Groups
      /\ \A h \in HeaderIds : fo[h] \in Journals
  BY SeqFacts DEF HeaderIds
<1>1. CASE UNCHANGED fo
  BY <1>1 DEF HeaderIds
<1>2. CASE worker.at \in Groups /\ fo' = Append(fo, NewJournal(worker.at))
  <2>1. /\ HeaderIds' = HeaderIds \cup {Len(fo) + 1}
        /\ fo'[Len(fo) + 1].gone = 0 /\ \A h \in HeaderIds : fo'[h] = fo[h]
    <3>1. NewJournal(worker.at).gone = 0
      BY DEF NewJournal
    <3>2. QED
      BY <1>2, <3>1, NewNumber
  <2>2. \A h \in HeaderIds' : fo'[h].live => fo'[h].gone = 0
    BY <2>1
  <2>3. ASSUME NEW g \in Groups, DoneIn(fo, g) PROVE DoneIn(fo', g)
    <3>1. PICK h \in HeaderIds :
            \/ fo[h].live /\ fo[h].group = g /\ fo[h].lines \in {"full", "extra"}
            \/ fo[h].gone = g
      BY <1>0, <2>3 DEF DoneIn
    <3>2. fo'[h] = fo[h] /\ h \in 1..Len(fo')
      BY <1>0, <2>1
    <3>3. QED
      BY <3>1, <3>2 DEF DoneIn
  <2>4. QED
    BY <2>2, <2>3
<1>3. CASE Writes
  <2>1. PICK after \in LineStates :
          /\ fo' = [fo EXCEPT ![worker.key] = [fo[worker.key] EXCEPT !.lines = after]]
          /\ fo[worker.key].lines \in {"full", "extra"} => after \in {"full", "extra"}
    BY <1>3, WritesLines
  <2> DEFINE j == [fo[worker.key] EXCEPT !.lines = after]
  <2>2. worker.key \in HeaderIds /\ fo[worker.key] \in Journals
    BY <1>3, WritesLines, SeqFacts
  <2>3. /\ j \in Journals /\ j.group = fo[worker.key].group /\ j.live = fo[worker.key].live
        /\ j.gone = fo[worker.key].gone /\ j.lines = after
    BY <2>2 DEF Journals
  <2>4. /\ HeaderIds' = HeaderIds /\ fo'[worker.key] = j
        /\ \A h \in HeaderIds \ {worker.key} : fo'[h] = fo[h]
    BY <2>1, <2>2, <2>3, ChangeJournal
  <2> HIDE DEF j
  <2>5. \A h \in HeaderIds :
          /\ fo'[h].group = fo[h].group /\ fo'[h].live = fo[h].live /\ fo'[h].gone = fo[h].gone
          /\ fo[h].lines \in {"full", "extra"} => fo'[h].lines \in {"full", "extra"}
    BY <2>1, <2>3, <2>4
  <2>6. QED
    BY <1>0, <2>4, <2>5 DEF DoneIn
<1>4. CASE Finance
  <2>1. PICK k \in HeaderIds, j \in Journals :
          /\ fo' = [fo EXCEPT ![k] = j]
          /\ \/ /\ fo[k].live /\ ~j.live /\ j.group = fo[k].group
                /\ j.gone = IF fo[k].lines \in {"full", "extra"} THEN fo[k].group ELSE fo[k].gone
             \/ j.group = 0
    BY <1>4, FinanceFrame
  <2>2. /\ HeaderIds' = HeaderIds /\ fo'[k] = j
        /\ \A h \in HeaderIds \ {k} : fo'[h] = fo[h]
    BY <2>1, ChangeJournal
  <2>3. j.group # 0
    BY <2>2 DEF NumbersKept
  <2>4. /\ fo[k].live /\ ~j.live
        /\ j.gone = IF fo[k].lines \in {"full", "extra"} THEN fo[k].group ELSE fo[k].gone
        /\ fo[k].gone = 0
    BY <2>1, <2>3
  <2>5. \A h \in HeaderIds' : fo'[h].live => fo'[h].gone = 0
    BY <2>2, <2>4
  <2>6. ASSUME NEW g \in Groups, DoneIn(fo, g) PROVE DoneIn(fo', g)
    <3>1. PICK h \in HeaderIds :
            \/ fo[h].live /\ fo[h].group = g /\ fo[h].lines \in {"full", "extra"}
            \/ fo[h].gone = g
      BY <1>0, <2>6 DEF DoneIn
    <3>2. CASE h = k
      <4>1. fo'[k].gone = g
        BY <1>0, <2>2, <2>4, <2>6, <3>1, <3>2
      <4>2. QED
        BY <1>0, <2>2, <4>1 DEF DoneIn
    <3>3. CASE h # k
      <4>1. fo'[h] = fo[h] /\ h \in 1..Len(fo')
        BY <1>0, <2>2, <3>3
      <4>2. QED
        BY <3>1, <4>1 DEF DoneIn
    <3>4. QED
      BY <3>2, <3>3
  <2>7. QED
    BY <2>5, <2>6
<1>5. QED
  BY <1>1, <1>2, <1>3, <1>4, JournalKinds

(* All lines of the journal at hand have been posted.                      *)
LEMMA WritesDone ==
  ASSUME VendorTyped, Writes, OwnHeaders, NumbersKept, Goto("complete")
  PROVE  DoneIn(fo', worker.at)
<1>1. PICK after \in LineStates :
        /\ fo' = [fo EXCEPT ![worker.key] = [fo[worker.key] EXCEPT !.lines = after]]
        /\ \/ Goto("complete") /\ after \in {"full", "extra"}
           \/ Goto("caught")
  BY WritesLines
<1>2. after \in {"full", "extra"}
  BY <1>1, GotoKeeps
<1>3. /\ worker.key \in HeaderIds /\ fo[worker.key] \in Journals /\ fo[worker.key].live
      /\ worker.pc = "lines" /\ worker.at \in Groups
  BY WritesLines, SeqFacts
<1>4. fo[worker.key].group = worker.at
  BY <1>3, SeqFacts DEF OwnHeaders, OfGroup, NumbersKept
<1> DEFINE j == [fo[worker.key] EXCEPT !.lines = after]
<1>5. j \in Journals /\ j.live /\ j.group = worker.at /\ j.lines = after
  BY <1>3, <1>4 DEF Journals
<1>6. HeaderIds' = HeaderIds /\ fo'[worker.key] = j
  BY <1>1, <1>3, <1>5, ChangeJournal
<1>7. QED
  BY <1>2, <1>3, <1>5, <1>6 DEF DoneIn, HeaderIds

LEMMA PassedStep ==
  ASSUME VendorTyped, VendorNext, OwnHeaders, NumbersKept', PassedInv
  PROVE  PassedInv'
<1> DEFINE D(g) == DoneIn(fo', g)
<1>1. /\ \A h \in HeaderIds' : fo'[h].live => fo'[h].gone = 0
      /\ \A g \in Groups : Done(g) => D(g)
  BY LiveKeepsGone DEF PassedInv, Done
<1>2. /\ \A g \in Groups : groups[g].status = "completed" => D(g)
      /\ \A g \in Groups : worker.snap[g].status = "completed" => D(g)
      /\ worker.pc \in Loop => \A g \in Groups : Passed(g) => D(g)
      /\ worker.pc \in {"settle", "posted", "finish"} => \A g \in Groups : D(g)
  BY <1>1 DEF PassedInv, AllDone
<1>3. \A g \in Groups : /\ NoGroups[g].status = "absent"
                        /\ [k \in Groups |-> Pending][g].status = "pending"
  BY DEF NoGroups, Absent, Pending
<1> HIDE DEF D
<1> DEFINE Docs == \A g \in Groups : groups'[g].status = "completed" => D(g)
           Snap == \A g \in Groups : worker'.snap[g].status = "completed" => D(g)
           Walk == worker'.pc \in Loop =>
                     \A g \in Groups :
                       \/ g < worker'.at
                       \/ g = worker'.at /\ worker'.pc \in {"check", "complete", "count"}
                       => D(g)
           Ready == worker'.pc \in {"settle", "posted", "finish"} => \A g \in Groups : D(g)
<1>4. SUFFICES Docs /\ Snap /\ Walk /\ Ready
  BY <1>1 DEF PassedInv, AllDone, Done, D, Passed
<1>5. ASSUME UNCHANGED groups PROVE Docs
  BY <1>2, <1>5
<1>6. ASSUME worker'.snap = worker.snap PROVE Snap
  BY <1>2, <1>6
<1>7. ASSUME worker'.pc \notin Loop PROVE Walk
  BY <1>7
<1>8. ASSUME worker'.pc \in {"open", "create", "record", "lines"}, worker'.at = worker.at,
             worker.pc \in Loop
      PROVE  Walk /\ Ready
  BY <1>2, <1>8 DEF Passed
<1>9. CASE Aside
  <2>1. Docs
    BY <1>2, <1>3, <1>9, AsideGroups
  <2>2. UNCHANGED worker
    BY <1>9 DEF Aside
  <2>3. Walk /\ Ready
    BY <1>2, <2>2 DEF Passed
  <2>4. QED
    BY <1>6, <2>1, <2>2, <2>3
<1>10. CASE Ends
  <2>1. UNCHANGED groups /\ worker'.snap = NoGroups /\ worker'.pc \in {"idle", "start"}
    BY <1>10, EndsIdle
  <2>2. worker'.pc \notin Loop
    BY <2>1 DEF Loop, AtGroup
  <2>3. QED
    BY <1>3, <1>5, <1>7, <2>1, <2>2
<1>11. CASE Leaves
  <2>1. PICK p \in OutOfLoop : Goto(p)
    BY <1>11, LeavesLoop
  <2>2. UNCHANGED groups /\ worker'.snap = worker.snap /\ worker'.pc = p
    BY <1>11, <2>1, GotoKeeps, LeavesLoop
  <2>3. worker'.pc \notin Loop
    BY <2>2 DEF OutOfLoop, Loop, AtGroup
  <2>4. p = "posted" => worker.pc = "settle"
    BY <1>11, <2>2 DEF Leaves, QueryRejected, HeaderRejected, LinesVanished, StoreFault,
       MarkActive, RecordWorkerStopped, MarkCompleted, FailJob, CancelBatch, StoreHeaderIds,
       CompleteBatch, SetPosted, Goto, VendorTyped, IsWorker
  <2>5. p = "finish" => worker.pc = "posted"
    BY <1>11, <2>2 DEF Leaves, QueryRejected, HeaderRejected, LinesVanished, StoreFault,
       MarkActive, RecordWorkerStopped, MarkCompleted, FailJob, CancelBatch, StoreHeaderIds,
       CompleteBatch, SetPosted, Goto, VendorTyped, IsWorker
  <2>6. Ready
    BY <1>2, <2>2, <2>4, <2>5 DEF OutOfLoop
  <2>7. QED
    BY <1>5, <1>6, <1>7, <2>2, <2>3, <2>6
<1>12. CASE Walks
  <2>1. worker.pc \in AtGroup /\ worker.at \in Groups /\ worker.pc \in Loop
    BY <1>12, WalksOn DEF Loop
  <2>2. PICK p \in {"open", "count", "check"} : Goto(p)
    BY <1>12, WalksOn
  <2>3. worker'.snap = worker.snap /\ worker'.at = worker.at /\ worker'.pc = p
    BY <2>2, GotoKeeps
  <2>5. CASE /\ worker.pc = "markGroup"
             /\ Goto("open")
             /\ SetGroup(worker.at, [groups[worker.at] EXCEPT !.status = "active"])
    <3>1. /\ \A g \in Groups \ {worker.at} : groups'[g] = groups[g]
          /\ groups'[worker.at].status \in {"active", "absent"}
      BY <2>1, <2>5, StatusSet
    <3>2. Docs
      BY <1>2, <3>1
    <3>3. worker'.pc = "open"
      BY <2>5, GotoKeeps
    <3>4. QED
      BY <1>6, <1>8, <2>1, <2>3, <3>2, <3>3
  <2>6. CASE worker.pc \in {"complete", "count"} /\ worker'.pc \in {"count", "check"}
    <3>1. Walk /\ Ready /\ D(worker.at)
      BY <1>2, <2>1, <2>3, <2>6 DEF Passed
    <3>2. CASE UNCHANGED groups
      BY <1>5, <1>6, <2>3, <3>1, <3>2
    <3>3. CASE SetGroup(worker.at, [groups[worker.at] EXCEPT !.status = "completed"])
      <4>2. \A g \in Groups \ {worker.at} : groups'[g] = groups[g]
        BY <2>1, <3>3, StatusSet
      <4>3. Docs
        BY <1>2, <3>1, <4>2
      <4>4. QED
        BY <1>6, <2>3, <3>1, <4>3
    <3>4. QED
      BY <1>12, <2>6, <3>2, <3>3, WalksOn
  <2>7. QED
    BY <1>12, <2>5, <2>6, WalksOn, GotoKeeps
<1>13. CASE ListGroups
  <2>1. /\ UNCHANGED groups /\ worker'.snap = groups /\ worker'.pc \in {"fail", "check"}
        /\ worker'.at = 0
    BY <1>13 DEF ListGroups, VendorTyped, IsWorker
  <2>2. \A g \in Groups : ~(g < 0) /\ g # 0
    BY SeqFacts
  <2>3. QED
    BY <1>2, <1>5, <2>1, <2>2
<1>14. CASE CheckPause
  <2>1. UNCHANGED groups /\ worker.pc = "check" /\ worker.pc \in Loop /\ worker.at \in 0..N
    BY <1>14 DEF CheckPause, Loop, VendorTyped
  <2>2. \A g \in Groups : g <= worker.at \/ g \notin Unposted => D(g)
    <3>1. SUFFICES ASSUME NEW g \in Groups, g <= worker.at \/ g \notin Unposted
                   PROVE  D(g)
      OBVIOUS
    <3>2. CASE g <= worker.at
      BY <1>2, <2>1, <3>2, SeqFacts DEF Passed
    <3>3. CASE ~(g <= worker.at)
      <4>1. g > worker.at
        BY <2>1, <3>3, SeqFacts
      <4>2. worker.snap[g].status = "completed"
        BY <3>1, <3>3, <4>1 DEF Unposted
      <4>3. QED
        BY <1>2, <4>2
    <3>4. QED
      BY <3>2, <3>3
  <2>3. CASE Unposted = {} /\ Goto("settle")
    <3>1. worker'.snap = worker.snap /\ worker'.pc = "settle"
      BY <2>3, GotoKeeps
    <3>2. worker'.pc \notin Loop
      BY <3>1 DEF Loop, AtGroup
    <3>3. Ready
      BY <2>2, <2>3
    <3>4. QED
      BY <1>5, <1>6, <1>7, <2>1, <3>1, <3>2, <3>3
  <2>4. CASE Goto("stop")
    <3>1. worker'.snap = worker.snap /\ worker'.pc = "stop"
      BY <2>4, GotoKeeps
    <3>2. worker'.pc \notin Loop
      BY <3>1 DEF Loop, AtGroup
    <3>3. QED
      BY <1>5, <1>6, <1>7, <2>1, <3>1, <3>2
  <2>5. ASSUME NEW g \in Unposted, \A k \in Unposted : g <= k,
               worker' = [worker EXCEPT !.pc = "markGroup", !.at = g]
        PROVE  Docs /\ Snap /\ Walk /\ Ready
    <3>1. worker'.snap = worker.snap /\ worker'.pc = "markGroup" /\ worker'.at = g
      BY <2>5 DEF VendorTyped, IsWorker
    <3>2. \A k \in Groups : k < g => k \notin Unposted
      BY <2>5, SeqFacts DEF Unposted
    <3>3. Walk /\ Ready
      BY <2>2, <3>1, <3>2
    <3>4. QED
      BY <1>5, <1>6, <2>1, <3>1, <3>3
  <2>6. QED
    BY <1>14, <2>3, <2>4, <2>5 DEF CheckPause
<1>15. CASE Opens
  <2>1. worker.pc \in {"open", "create", "record"}
    BY <1>15 DEF Opens, OpenGroup, CreateHeader, HeaderUnanswered, SetCreatedHeader
  <2>2. worker.pc \in Loop /\ worker.at \in Groups
    BY <2>1 DEF Loop, AtGroup, VendorTyped
  <2>3. /\ worker'.snap = worker.snap /\ worker'.at = worker.at
        /\ worker'.pc \in {"open", "create", "record", "lines", "caught"}
    BY <1>15, <2>1 DEF Opens, OpenGroup, CreateHeader, HeaderUnanswered, SetCreatedHeader, Goto,
       VendorTyped, IsWorker
  <2>4. Docs
    <3>1. CASE SetCreatedHeader
      <4>1. /\ worker.key \in HeaderIds
            /\ SetGroup(worker.at, [groups[worker.at] EXCEPT !.header = worker.key])
        BY <3>1 DEF SetCreatedHeader, VendorTyped
      <4>2. \A g \in Groups : groups'[g].status = groups[g].status
        BY <2>2, <4>1, HeaderSet
      <4>3. QED
        BY <1>2, <4>2
    <3>2. CASE OpenGroup \/ CreateHeader \/ HeaderUnanswered
      BY <1>5, <3>2 DEF OpenGroup, CreateHeader, HeaderUnanswered
    <3>3. QED
      BY <1>15, <3>1, <3>2 DEF Opens
  <2>5. "caught" \notin Loop
    BY DEF Loop, AtGroup
  <2>6. CASE worker'.pc = "caught"
    BY <1>6, <1>7, <2>3, <2>4, <2>5, <2>6
  <2>7. CASE worker'.pc # "caught"
    BY <1>6, <1>8, <2>2, <2>3, <2>4, <2>7
  <2>8. QED
    BY <2>6, <2>7
<1>16. CASE Writes
  <2>1. /\ UNCHANGED groups /\ (Goto("complete") \/ Goto("caught")) /\ worker.pc = "lines"
        /\ worker.at \in Groups
    BY <1>16, WritesLines
  <2>2. worker'.snap = worker.snap /\ worker'.at = worker.at
    BY <2>1, GotoKeeps
  <2>3. Walk /\ Ready
    <3>1. CASE Goto("complete")
      <4>1. D(worker.at) /\ worker'.pc = "complete"
        BY <1>16, <3>1, WritesDone, NumbersWereKept, GotoKeeps DEF D
      <4>2. worker.pc \in Loop
        BY <2>1 DEF Loop, AtGroup
      <4>3. QED
        BY <1>2, <2>1, <2>2, <4>1, <4>2 DEF Passed
    <3>2. CASE Goto("caught")
      <4>1. worker'.pc = "caught"
        BY <3>2, GotoKeeps
      <4>2. "caught" \notin Loop
        BY DEF Loop, AtGroup
      <4>3. QED
        BY <4>1, <4>2
    <3>3. QED
      BY <2>1, <3>1, <3>2
  <2>4. QED
    BY <1>5, <1>6, <2>1, <2>2, <2>3
<1>17. CASE Finance
  <2>1. UNCHANGED <<groups, worker>>
    BY <1>17, FinanceFrame
  <2>2. Walk /\ Ready
    BY <1>2, <2>1 DEF Passed
  <2>3. QED
    BY <1>5, <1>6, <2>1, <2>2
<1>18. QED
  BY <1>9, <1>10, <1>11, <1>12, <1>13, <1>14, <1>15, <1>16, <1>17, Kinds DEF Reads


-----------------------------------------------------------------------------
(* Requests, pauses and deletions.                                         *)

LEMMA SpentGrows ==
  ASSUME VendorTyped, VendorNext
  PROVE  /\ spent.submits <= spent'.submits /\ spent.pauses <= spent'.pauses
         /\ spent.deletes <= spent'.deletes /\ spent.crashes <= spent'.crashes
         /\ spent \in Spendings /\ spent' \in Spendings
         /\ outside.lost <= outside'.lost
         /\ outside \in [cleanups : Nat, lost : Nat] /\ outside' \in [cleanups : Nat, lost : Nat]
<1>1. \/ UNCHANGED spent
      \/ \E what \in {"submits", "pauses", "deletes", "faults", "crashes"} :
           spent' = [spent EXCEPT ![what] = @ + 1]
  BY DEF VendorNext, Queue, Submit, SubmitValidate, SubmitPrepare,
       SubmitLookup, SubmitMarkPosted, SubmitRemoveFailed,
       SubmitStorePrepare, ReplaceDeleteGroups, ReplaceInsertGroups,
       ReplaceUpsertJob, SubmitAdd, Control, PauseRead, PauseSet,
       ResumeRead, ResumeClear, ResumeFindJob, RequeueCheck, RequeueAdd,
       MarkQueued, DeleteRead, DeletePause, DeleteRedisJob, DeletePurge,
       DeleteBatch, Boot, ReleaseRead, ForceRemove, Restore, PickUp,
       PromoteDelayed, Stalled, Crash, Processor, MarkActive, ListGroups,
       CheckPause, RecordWorkerStopped, MarkGroupActive, CompleteGroup,
       CountGroup, MarkCompleted, FailJob, CancelBatch, Return, Throw,
       OpenGroup, QueryRejected, CreateHeader, SetCreatedHeader,
       PostHeaderAndLines, HeaderRejected, HeaderUnanswered, PostLines,
       PostLinesRepeated, PostLinesRejected, LinesVanished,
       PostLinesUnlisted, WriteLines, StoreHeaderIds, CompleteBatch,
       SetPosted, StoreFault, Finance, FinanceDelete, FinanceReuse, Spend
<1>2. \/ UNCHANGED outside
      \/ \E what \in {"cleanups", "lost"} : outside' = [outside EXCEPT
           ![what] = @ + 1]
  BY DEF VendorNext, Queue, Submit, SubmitValidate, SubmitPrepare,
       SubmitLookup, SubmitMarkPosted, SubmitRemoveFailed,
       SubmitStorePrepare, ReplaceDeleteGroups, ReplaceInsertGroups,
       ReplaceUpsertJob, SubmitAdd, Control, PauseRead, PauseSet,
       ResumeRead, ResumeClear, ResumeFindJob, RequeueCheck, RequeueAdd,
       MarkQueued, DeleteRead, DeletePause, DeleteRedisJob, DeletePurge,
       DeleteBatch, Boot, ReleaseRead, ForceRemove, Restore, PickUp,
       PromoteDelayed, Stalled, Crash, Processor, MarkActive, ListGroups,
       CheckPause, RecordWorkerStopped, MarkGroupActive, CompleteGroup,
       CountGroup, MarkCompleted, FailJob, CancelBatch, Return, Throw,
       OpenGroup, QueryRejected, CreateHeader, SetCreatedHeader,
       PostHeaderAndLines, HeaderRejected, HeaderUnanswered, PostLines,
       PostLinesRepeated, PostLinesRejected, LinesVanished,
       PostLinesUnlisted, WriteLines, StoreHeaderIds, CompleteBatch,
       SetPosted, StoreFault, Finance, FinanceDelete, FinanceReuse, Suffer
<1>3. /\ spent \in Spendings /\ spent' \in Spendings
      /\ outside \in [cleanups : Nat, lost : Nat] /\ outside' \in [cleanups : Nat, lost : Nat]
  BY TypedStep DEF VendorTyped
<1>4. /\ spent.submits <= spent'.submits /\ spent.pauses <= spent'.pauses
      /\ spent.deletes <= spent'.deletes /\ spent.crashes <= spent'.crashes
  BY <1>1, <1>3 DEF Spendings
<1>5. outside.lost <= outside'.lost
  BY <1>2, <1>3
<1>6. QED
  BY <1>3, <1>4, <1>5

(* Only the requests of the two screens touch a batch's pause flag or      *)
(* remove it.                                                              *)
LEMMA OthersKeepBatch ==
  ASSUME VendorTyped, VendorNext, ~Control
  PROVE  /\ batch'.exists = batch.exists /\ batch'.paused = batch.paused
         /\ ctl' \in {ctl, "idle"}
<1>1. \/ UNCHANGED batch
      \/ \E x : \/ batch' = [batch EXCEPT !.status = x]
                \/ batch' = [batch EXCEPT !.dfoIds = @ \cup x]
  BY DEF VendorNext, Queue, Submit, SubmitValidate, SubmitPrepare,
       SubmitLookup, SubmitMarkPosted, SubmitRemoveFailed,
       SubmitStorePrepare, ReplaceDeleteGroups, ReplaceInsertGroups,
       ReplaceUpsertJob, SubmitAdd, Boot, ReleaseRead, ForceRemove, Restore,
       Processor, MarkActive, ListGroups, CheckPause, RecordWorkerStopped,
       MarkGroupActive, CompleteGroup, CountGroup, MarkCompleted, FailJob,
       CancelBatch, Return, Throw, PickUp, PromoteDelayed, Stalled, Crash,
       OpenGroup, QueryRejected, CreateHeader, SetCreatedHeader,
       PostHeaderAndLines, HeaderRejected, HeaderUnanswered, PostLines,
       PostLinesRepeated, PostLinesRejected, LinesVanished,
       PostLinesUnlisted, WriteLines, StoreHeaderIds, CompleteBatch,
       SetPosted, StoreFault, Finance, FinanceDelete, FinanceReuse,
       SetBatchStatus, AddDfoIds
<1>2. IsBatch(batch)
  BY DEF VendorTyped
<1>3. ctl' \in {ctl, "idle"}
  BY DEF VendorNext, Queue, Submit, SubmitValidate, SubmitPrepare,
       SubmitLookup, SubmitMarkPosted, SubmitRemoveFailed,
       SubmitStorePrepare, ReplaceDeleteGroups, ReplaceInsertGroups,
       ReplaceUpsertJob, SubmitAdd, Boot, ReleaseRead, ForceRemove, Restore,
       Processor, MarkActive, ListGroups, CheckPause, RecordWorkerStopped,
       MarkGroupActive, CompleteGroup, CountGroup, MarkCompleted, FailJob,
       CancelBatch, Return, Throw, PickUp, PromoteDelayed, Stalled, Crash,
       OpenGroup, QueryRejected, CreateHeader, SetCreatedHeader,
       PostHeaderAndLines, HeaderRejected, HeaderUnanswered, PostLines,
       PostLinesRepeated, PostLinesRejected, LinesVanished,
       PostLinesUnlisted, WriteLines, StoreHeaderIds, CompleteBatch,
       SetPosted, StoreFault, Finance, FinanceDelete, FinanceReuse
<1>4. QED
  BY <1>1, <1>2, <1>3 DEF IsBatch

LEMMA NobodyStops ==
  ASSUME VendorTyped, VendorNext, FreeInv, spent'.pauses + spent'.deletes = 0
  PROVE  ~Control
<1>1. /\ spent.pauses = 0 /\ spent.deletes = 0 /\ spent'.pauses = 0 /\ spent'.deletes = 0
      /\ spent \in Spendings
  BY SpentGrows DEF Spendings
<1>2. ~batch.paused /\ ctl = "idle"
  BY <1>1 DEF FreeInv
<1>3. ~PauseRead /\ ~DeleteRead
  BY <1>1 DEF PauseRead, DeleteRead, Spend, Spendings
<1>4. QED
  BY <1>2, <1>3 DEF Control, PauseSet, ResumeRead, ResumeClear, ResumeFindJob, RequeueCheck,
     RequeueAdd, MarkQueued, DeletePause, DeleteRedisJob, DeletePurge, DeleteBatch

LEMMA FreeStep ==
  ASSUME VendorTyped, VendorNext, FreeInv
  PROVE  FreeInv'
<1>1. SUFFICES ASSUME spent'.pauses + spent'.deletes = 0
               PROVE  batch'.exists /\ ~batch'.paused /\ ctl' = "idle" /\ worker'.pc # "stop"
  BY DEF FreeInv
<1>2. batch.exists /\ ~batch.paused /\ ctl = "idle" /\ worker.pc # "stop"
  BY <1>1, SpentGrows DEF FreeInv, Spendings
<1>3. batch'.exists /\ ~batch'.paused /\ ctl' = "idle"
  BY <1>1, <1>2, NobodyStops, OthersKeepBatch
<1>4. worker'.pc # "stop"
  <2>1. CASE Aside \/ Finance
    BY <1>2, <2>1, FinanceFrame DEF Aside
  <2>2. CASE Ends
    BY <2>2, EndsIdle
  <2>3. CASE Leaves
    BY <2>3, LeavesLoop, GotoKeeps DEF OutOfLoop
  <2>4. CASE Walks
    BY <2>4, WalksOn, GotoKeeps
  <2>5. CASE Reads
    <3>1. CASE ListGroups
      BY <3>1 DEF ListGroups, VendorTyped, IsWorker
    <3>2. CASE CheckPause
      <4>1. \/ Goto("settle")
            \/ \E g : worker' = [worker EXCEPT !.pc = "markGroup", !.at = g]
        BY <1>2, <3>2 DEF CheckPause
      <4>2. QED
        BY <4>1 DEF Goto, VendorTyped, IsWorker
    <3>3. QED
      BY <2>5, <3>1, <3>2 DEF Reads
  <2>6. CASE Opens
    BY <2>6 DEF Opens, OpenGroup, CreateHeader, HeaderUnanswered, SetCreatedHeader, Goto,
       VendorTyped, IsWorker
  <2>7. CASE Writes
    <3>1. Goto("complete") \/ Goto("caught")
      BY <2>7, WritesLines
    <3>2. QED
      BY <3>1, GotoKeeps
  <2>8. QED
    BY <2>1, <2>2, <2>3, <2>4, <2>5, <2>6, <2>7, Kinds
<1>5. QED
  BY <1>3, <1>4

(* What a step does to the requests.                                       *)
LEMMA RequestSteps ==
  ASSUME VendorTyped, VendorNext
  PROVE  \/ UNCHANGED subs \/ subs' = [s \in Submitters |-> "idle"]
         \/ \E s \in Submitters : \E p :
              /\ Submit(s) /\ subs' = [subs EXCEPT ![s] = p]
              /\ subs[s] = "idle" => spent'.submits = spent.submits + 1
              /\ p = "markPosted" => /\ subs[s] = "lookup" /\ redis.state = "completed"
                                     /\ AlreadyMarksPosted
              /\ \/ subs[s] \in Preparing \cup {"remove", "idle"} /\ p \in Preparing
                 \/ p \in {"markPosted", "remove"} /\ subs[s] = "lookup" /\ redis.state # "absent"
                 \/ subs[s] # "idle" /\ p \in {"idle", "add"}
<1>1. ASSUME NEW s \in Submitters, Submit(s)
      PROVE  \E p :
              /\ subs' = [subs EXCEPT ![s] = p]
              /\ subs[s] = "idle" => spent'.submits = spent.submits + 1
              /\ p = "markPosted" => /\ subs[s] = "lookup" /\ redis.state = "completed"
                                     /\ AlreadyMarksPosted
              /\ \/ subs[s] \in Preparing \cup {"remove", "idle"} /\ p \in Preparing
                 \/ p \in {"markPosted", "remove"} /\ subs[s] = "lookup" /\ redis.state # "absent"
                 \/ subs[s] # "idle" /\ p \in {"idle", "add"}
  <2>1. CASE SubmitValidate(s)
    BY <2>1 DEF SubmitValidate, Spend, SubGoto, VendorTyped, Spendings, Preparing
  <2>2. CASE SubmitLookup(s)
    BY <2>2 DEF SubmitLookup, SubGoto, Preparing
  <2>3. CASE SubmitRemoveFailed(s) \/ SubmitStorePrepare(s) \/ ReplaceInsertGroups(s)
    BY <2>3 DEF SubmitRemoveFailed, SubmitStorePrepare, ReplaceInsertGroups, SubGoto, Preparing
  <2>4. CASE \/ SubmitPrepare(s) \/ SubmitMarkPosted(s) \/ ReplaceDeleteGroups(s)
             \/ ReplaceUpsertJob(s) \/ SubmitAdd(s)
    BY <2>4 DEF SubmitPrepare, SubmitMarkPosted, ReplaceDeleteGroups, ReplaceUpsertJob, SubmitAdd,
       SubGoto, Preparing
  <2>5. QED
    BY <1>1, <2>1, <2>2, <2>3, <2>4 DEF Submit
<1>2. CASE \E s \in Submitters : Submit(s)
  BY <1>1, <1>2
<1>3. CASE ~(\E s \in Submitters : Submit(s))
  BY <1>3 DEF VendorNext, Queue, Control, PauseRead, PauseSet, ResumeRead,
       ResumeClear, ResumeFindJob, RequeueCheck, RequeueAdd, MarkQueued,
       DeleteRead, DeletePause, DeleteRedisJob, DeletePurge, DeleteBatch,
       Boot, ReleaseRead, ForceRemove, Restore, Processor, MarkActive,
       ListGroups, CheckPause, RecordWorkerStopped, MarkGroupActive,
       CompleteGroup, CountGroup, MarkCompleted, FailJob, CancelBatch,
       Return, Throw, PickUp, PromoteDelayed, Stalled, Crash, OpenGroup,
       QueryRejected, CreateHeader, SetCreatedHeader, PostHeaderAndLines,
       HeaderRejected, HeaderUnanswered, PostLines, PostLinesRepeated,
       PostLinesRejected, LinesVanished, PostLinesUnlisted, WriteLines,
       StoreHeaderIds, CompleteBatch, SetPosted, StoreFault, Finance,
       FinanceDelete, FinanceReuse
<1>4. QED
  BY <1>2, <1>3


(* Nothing runs and nothing is stored for the batch.                       *)
Untouched ==
  /\ fo = <<>> /\ job.status = "none" /\ redis.state = "absent" /\ worker.pc = "idle"
  /\ ctl \notin {"requeueCheck", "requeueAdd", "markQueued"}

LEMMA UntouchedSteps ==
  ASSUME VendorTyped, VendorNext, Untouched
  PROVE  \/ Crash \/ Boot \/ Control
         \/ \E s \in Submitters : Submit(s)
<1>1. ~PickUp /\ ~PromoteDelayed /\ ~Stalled /\ ~Processor
  BY DEF Untouched, PickUp, PromoteDelayed, Stalled, Processor, MarkActive,
       ListGroups, CheckPause, RecordWorkerStopped, MarkGroupActive,
       CompleteGroup, CountGroup, MarkCompleted, FailJob, CancelBatch,
       Return, Throw
<1>2. HeaderIds = {}
  BY DEF Untouched, HeaderIds
<1>3. ~Finance
  BY <1>2 DEF Finance
<1>4. /\ ~OpenGroup /\ ~QueryRejected /\ ~CreateHeader /\ ~SetCreatedHeader
      /\ ~PostHeaderAndLines /\ ~LinesVanished /\ ~PostLinesUnlisted
      /\ ~StoreHeaderIds /\ ~CompleteBatch /\ ~SetPosted /\ ~StoreFault
  BY DEF Untouched, OpenGroup, QueryRejected, CreateHeader,
       SetCreatedHeader, PostHeaderAndLines, HeaderRejected,
       HeaderUnanswered, PostLines, PostLinesRepeated, PostLinesRejected,
       LinesVanished, PostLinesUnlisted, WriteLines, StoreHeaderIds,
       CompleteBatch, SetPosted, StoreFault, AtLines
<1>5. QED
  BY <1>1, <1>3, <1>4 DEF VendorNext, Queue

LEMMA StaysUntouched ==
  ASSUME VendorTyped, VendorNext, Untouched,
         \A s \in Submitters : Submit(s) => subs[s] \notin {"remove", "upsertJob", "add"}
  PROVE  Untouched'
<1>1. CASE \E s \in Submitters : Submit(s)
  <2>1. PICK s \in Submitters : Submit(s)
    BY <1>1
  <2>2. subs[s] \notin {"remove", "upsertJob", "add"}
    BY <2>1
  <2>3. UNCHANGED <<fo, job, redis, worker, ctl>>
    BY <2>1, <2>2 DEF Submit, SubmitValidate, SubmitPrepare, SubmitLookup,
         SubmitMarkPosted, SubmitRemoveFailed, SubmitStorePrepare,
         ReplaceDeleteGroups, ReplaceInsertGroups, ReplaceUpsertJob,
         SubmitAdd
  <2>4. QED
    BY <2>3 DEF Untouched
<1>2. CASE Control
  <2>1. UNCHANGED <<fo, worker>>
    BY <1>2 DEF Control, PauseRead, PauseSet, ResumeRead, ResumeClear,
         ResumeFindJob, RequeueCheck, RequeueAdd, MarkQueued, DeleteRead,
         DeletePause, DeleteRedisJob, DeletePurge, DeleteBatch
  <2>2. job'.status = "none"
    <3>1. \/ UNCHANGED job \/ SetJobStatus("queued")
          \/ job' = [status |-> "none", completed |-> 0]
      BY <1>2 DEF Control, PauseRead, PauseSet, ResumeRead, ResumeClear,
           ResumeFindJob, RequeueCheck, RequeueAdd, MarkQueued,
           DeleteRead, DeletePause, DeleteRedisJob, DeletePurge,
           DeleteBatch
    <3>2. QED
      BY <3>1 DEF Untouched, SetJobStatus
  <2>3. redis'.state = "absent"
    BY <1>2 DEF Control, PauseRead, PauseSet, ResumeRead, ResumeClear,
         ResumeFindJob, RequeueCheck, RequeueAdd, MarkQueued, DeleteRead,
         DeletePause, DeleteRedisJob, DeletePurge, DeleteBatch, Untouched
  <2>4. ctl' \notin {"requeueCheck", "requeueAdd", "markQueued"}
    BY <1>2 DEF Control, PauseRead, PauseSet, ResumeRead, ResumeClear,
         ResumeFindJob, RequeueCheck, RequeueAdd, MarkQueued, DeleteRead,
         DeletePause, DeleteRedisJob, DeletePurge, DeleteBatch, Untouched
  <2>5. QED
    BY <2>1, <2>2, <2>3, <2>4 DEF Untouched
<1>3. CASE Boot
  BY <1>3 DEF Boot, ReleaseRead, ForceRemove, Restore, Untouched,
       NoRedisJob, Recoverable
<1>4. CASE Crash
  BY <1>4 DEF Crash, Untouched, IdleWorker
<1>5. QED
  BY <1>1, <1>2, <1>3, <1>4, UntouchedSteps

LEMMA RequestStep ==
  ASSUME VendorTyped, VendorNext, RequestInv
  PROVE  RequestInv'
<1>1. SUFFICES ASSUME spent'.submits <= 1
               PROVE  /\ spent'.submits = 0 => \A s \in Submitters : subs'[s] = "idle"
                      /\ \A s, t \in Submitters : subs'[s] # "idle" /\ subs'[t] # "idle" => s = t
                      /\ \A s \in Submitters : subs'[s] \in Preparing \cup {"idle", "add"}
                      /\ Fresh' => Untouched'
  BY DEF RequestInv, Untouched
<1>2. spent.submits <= spent'.submits /\ spent.submits \in Nat /\ spent'.submits \in Nat
  BY SpentGrows DEF Spendings
<1>3. /\ spent.submits = 0 => \A s \in Submitters : subs[s] = "idle"
      /\ \A s, t \in Submitters : subs[s] # "idle" /\ subs[t] # "idle" => s = t
      /\ \A s \in Submitters : subs[s] \in Preparing \cup {"idle", "add"}
      /\ Fresh => Untouched
  BY <1>1, <1>2 DEF RequestInv, Untouched
<1>4. DOMAIN subs = Submitters /\ "idle" \notin Preparing /\ "add" \notin Preparing
  BY DEF VendorTyped, Preparing
<1>5. CASE UNCHANGED subs
  <2>1. /\ \A s, t \in Submitters : subs'[s] # "idle" /\ subs'[t] # "idle" => s = t
        /\ \A s \in Submitters : subs'[s] \in Preparing \cup {"idle", "add"}
        /\ spent'.submits = 0 => \A s \in Submitters : subs'[s] = "idle"
        /\ Fresh' => Fresh
    BY <1>2, <1>3, <1>5 DEF Fresh
  <2>2. ASSUME Fresh' PROVE Untouched'
    <3>1. Untouched
      BY <1>3, <2>1, <2>2
    <3>2. ASSUME NEW s \in Submitters, Submit(s)
          PROVE  subs[s] \notin {"remove", "upsertJob", "add"}
      BY <1>4, <1>5, <3>2 DEF Submit, SubmitValidate, SubmitPrepare,
           SubmitLookup, SubmitMarkPosted, SubmitRemoveFailed,
           SubmitStorePrepare, ReplaceDeleteGroups, ReplaceInsertGroups,
           ReplaceUpsertJob, SubmitAdd, SubGoto
    <3>3. QED
      BY <3>1, <3>2, StaysUntouched
  <2>3. QED
    BY <2>1, <2>2
<1>6. CASE subs' = [s \in Submitters |-> "idle"]
  <2>1. ASSUME Fresh' PROVE Untouched'
    <3>1. spent.submits = 0
      BY <1>2, <1>4, <1>6, <2>1 DEF Fresh
    <3>2. Untouched /\ \A s \in Submitters : subs[s] = "idle"
      BY <1>3, <3>1 DEF Fresh
    <3>3. QED
      BY <3>2, StaysUntouched
  <2>2. QED
    BY <1>6, <2>1, <1>4
<1>7. ASSUME NEW s \in Submitters, NEW p,
             Submit(s), subs' = [subs EXCEPT ![s] = p],
             subs[s] = "idle" => spent'.submits = spent.submits + 1,
             \/ subs[s] \in Preparing \cup {"remove", "idle"} /\ p \in Preparing
             \/ p \in {"markPosted", "remove"} /\ subs[s] = "lookup" /\ redis.state # "absent"
             \/ subs[s] # "idle" /\ p \in {"idle", "add"}
      PROVE  /\ spent'.submits = 0 => \A t \in Submitters : subs'[t] = "idle"
             /\ \A t, u \in Submitters : subs'[t] # "idle" /\ subs'[u] # "idle" => t = u
             /\ \A t \in Submitters : subs'[t] \in Preparing \cup {"idle", "add"}
             /\ Fresh' => Untouched'
  <2>1. subs'[s] = p /\ \A t \in Submitters \ {s} : subs'[t] = subs[t]
    BY <1>4, <1>7
  <2>2. spent'.submits # 0
    BY <1>2, <1>3, <1>7
  <2>3. \A t \in Submitters \ {s} : subs[t] = "idle"
    BY <1>1, <1>2, <1>3, <1>7
  <2>4. p \in Preparing \cup {"idle", "add"}
    <3>1. ASSUME subs[s] = "lookup" PROVE redis.state = "absent"
      BY <1>3, <3>1 DEF Fresh, Preparing, Untouched
    <3>2. QED
      BY <1>7, <3>1
  <2>5. ASSUME Fresh' PROVE Untouched'
    <3>1. p \in Preparing /\ subs[s] \in Preparing \cup {"idle"}
      <4>1. p \in Preparing
        BY <1>4, <2>1, <2>2, <2>3, <2>5 DEF Fresh
      <4>2. QED
        BY <1>3, <1>4, <1>7, <4>1 DEF Preparing
    <3>2. Fresh
      BY <1>1, <1>2, <1>7, <3>1 DEF Fresh
    <3>3. ASSUME NEW t \in Submitters, Submit(t)
          PROVE  subs[t] \notin {"remove", "upsertJob", "add"}
      <4>1. CASE t = s
        <5>1. subs[s] # "upsertJob"
          <6>1. ASSUME subs[s] = "upsertJob" PROVE p = "add"
            BY <1>4, <1>7, <2>1, <6>1 DEF Submit, SubmitValidate,
                 SubmitPrepare, SubmitLookup, SubmitMarkPosted,
                 SubmitRemoveFailed, SubmitStorePrepare,
                 ReplaceDeleteGroups, ReplaceInsertGroups,
                 ReplaceUpsertJob, SubmitAdd, SubGoto
          <6>2. QED
            BY <1>4, <3>1, <6>1
        <5>2. QED
          BY <3>1, <4>1, <5>1 DEF Preparing
      <4>2. CASE t # s
        BY <2>3, <4>2
      <4>3. QED
        BY <4>1, <4>2
    <3>4. QED
      BY <1>3, <3>2, <3>3, StaysUntouched
  <2>6. QED
    BY <1>4, <2>1, <2>2, <2>3, <2>4, <2>5
<1>9. QED
  BY <1>5, <1>6, <1>7, RequestSteps

-----------------------------------------------------------------------------
(* The batch is Posted only when it is.                                    *)

LEMMA PostedStep ==
  ASSUME VendorTyped, VendorNext, NumbersKept', PassedInv, PostedInv, FreeInv, RequestInv
  PROVE  PostedInv'
<1>1. AllDone => AllDone'
  BY LiveKeepsGone DEF PassedInv, AllDone, Done
<1>2. /\ spent.submits <= spent'.submits /\ spent.pauses <= spent'.pauses
      /\ spent.deletes <= spent'.deletes /\ spent \in Spendings /\ spent' \in Spendings
  BY SpentGrows
<1>3. Straight' => Straight
  BY <1>2 DEF Straight, Spendings
<1>4. spent'.pauses + spent'.deletes = 0 => spent.pauses + spent.deletes = 0
  BY <1>2 DEF Spendings
<1>5. /\ IsBatch(batch) /\ DOMAIN subs = Submitters
      /\ redis = [state |-> redis.state, attempts |-> redis.attempts, stalled |-> redis.stalled]
  BY DEF VendorTyped
<1>6. ASSUME Straight', batch'.status = "Posted" PROVE AllDone
  <2>1. \/ batch'.status = batch.status
        \/ SetPosted \/ \E s \in Submitters : SubmitMarkPosted(s)
    BY <1>5, <1>6 DEF IsBatch, VendorNext, Queue, Submit, SubmitValidate,
         SubmitPrepare, SubmitLookup, SubmitMarkPosted,
         SubmitRemoveFailed, SubmitStorePrepare, ReplaceDeleteGroups,
         ReplaceInsertGroups, ReplaceUpsertJob, SubmitAdd, Control,
         PauseRead, PauseSet, ResumeRead, ResumeClear, ResumeFindJob,
         RequeueCheck, RequeueAdd, MarkQueued, DeleteRead, DeletePause,
         DeleteRedisJob, DeletePurge, DeleteBatch, Boot, ReleaseRead,
         ForceRemove, Restore, PickUp, PromoteDelayed, Stalled, Crash,
         Processor, MarkActive, ListGroups, CheckPause,
         RecordWorkerStopped, MarkGroupActive, CompleteGroup, CountGroup,
         MarkCompleted, FailJob, CancelBatch, Return, Throw, OpenGroup,
         QueryRejected, CreateHeader, SetCreatedHeader,
         PostHeaderAndLines, HeaderRejected, HeaderUnanswered, PostLines,
         PostLinesRepeated, PostLinesRejected, LinesVanished,
         PostLinesUnlisted, WriteLines, StoreHeaderIds, CompleteBatch,
         SetPosted, StoreFault, Finance, FinanceDelete, FinanceReuse,
         SetBatchStatus, SetBatchPaused, AddDfoIds
  <2>2. CASE SetPosted
    BY <2>2 DEF SetPosted, PassedInv
  <2>3. CASE \E s \in Submitters : SubmitMarkPosted(s)
    BY <1>3, <1>6, <2>3 DEF SubmitMarkPosted, PostedInv
  <2>4. QED
    BY <1>3, <1>6, <2>1, <2>2, <2>3 DEF PostedInv
<1>7. ASSUME Straight', NEW t \in Submitters, subs'[t] = "markPosted" PROVE AllDone
  <2>1. CASE subs[t] = "markPosted"
    BY <1>3, <1>7, <2>1 DEF PostedInv
  <2>2. CASE subs[t] # "markPosted"
    <3>1. subs[t] = "lookup" /\ redis.state = "completed" /\ AlreadyMarksPosted
      BY <1>5, <1>7, <2>2, RequestSteps
    <3>2. ~(spent.submits <= 1)
      BY <3>1 DEF RequestInv, Fresh, Preparing
    <3>3. spent.pauses + spent.deletes = 0
      BY <1>3, <1>7, <3>1, <3>2 DEF Straight
    <3>4. QED
      BY <3>1, <3>3 DEF PostedInv
  <2>3. QED
    BY <2>1, <2>2
<1>8. ASSUME spent'.pauses + spent'.deletes = 0,
             worker'.pc = "return" \/ redis'.state = "completed"
      PROVE  AllDone
  <2>1. worker.pc = "return" \/ redis.state = "completed" => AllDone
    BY <1>4, <1>8 DEF PostedInv
  <2>2. CASE worker'.pc = "return"
    <3>1. worker.pc \in {"return", "stop", "finish"}
      <4>1. CASE Aside \/ Finance
        BY <2>2, <4>1, FinanceFrame DEF Aside
      <4>2. CASE Ends
        BY <2>2, <4>2, EndsIdle
      <4>3. CASE Leaves
        BY <2>2, <4>3 DEF Leaves, QueryRejected, HeaderRejected, LinesVanished, StoreFault,
           MarkActive, RecordWorkerStopped, MarkCompleted, FailJob, CancelBatch, StoreHeaderIds,
           CompleteBatch, SetPosted, Goto, VendorTyped, IsWorker
      <4>4. CASE Walks
        BY <2>2, <4>4, WalksOn, GotoKeeps
      <4>5. CASE Reads
        BY <2>2, <4>5 DEF Reads, ListGroups, CheckPause, Goto, VendorTyped, IsWorker
      <4>6. CASE Opens
        BY <2>2, <4>6 DEF Opens, OpenGroup, CreateHeader, HeaderUnanswered, SetCreatedHeader,
           Goto, VendorTyped, IsWorker
      <4>7. CASE Writes
        <5>1. Goto("complete") \/ Goto("caught")
          BY <4>7, WritesLines
        <5>2. QED
          BY <2>2, <5>1, GotoKeeps
      <4>8. QED
        BY <4>1, <4>2, <4>3, <4>4, <4>5, <4>6, <4>7, Kinds
    <3>2. worker.pc # "stop"
      BY <1>4, <1>8 DEF FreeInv
    <3>3. QED
      BY <2>1, <3>1, <3>2 DEF PassedInv
  <2>3. CASE redis'.state = "completed"
    <3>1. redis.state = "completed" \/ worker.pc = "return"
      <4>1. \/ Return \/ UNCHANGED redis \/ redis' = NoRedisJob \/ redis' = NewRedisJob
            \/ \E x \in {"waiting", "active", "delayed", "failed"} : \E y :
                 \/ redis' = [redis EXCEPT !.state = x]
                 \/ redis' = [redis EXCEPT !.state = x, !.stalled = y]
                 \/ redis' = [redis EXCEPT !.attempts = y, !.state = x]
        BY DEF VendorNext, Queue, Submit, SubmitValidate,
             SubmitPrepare, SubmitLookup, SubmitMarkPosted,
             SubmitRemoveFailed, SubmitStorePrepare,
             ReplaceDeleteGroups, ReplaceInsertGroups,
             ReplaceUpsertJob, SubmitAdd, Control, PauseRead,
             PauseSet, ResumeRead, ResumeClear, ResumeFindJob,
             RequeueCheck, RequeueAdd, MarkQueued, DeleteRead,
             DeletePause, DeleteRedisJob, DeletePurge, DeleteBatch,
             Boot, ReleaseRead, ForceRemove, Restore, PickUp,
             PromoteDelayed, Stalled, Crash, Processor, MarkActive,
             ListGroups, CheckPause, RecordWorkerStopped,
             MarkGroupActive, CompleteGroup, CountGroup,
             MarkCompleted, FailJob, CancelBatch, Return, Throw,
             OpenGroup, QueryRejected, CreateHeader, SetCreatedHeader,
             PostHeaderAndLines, HeaderRejected, HeaderUnanswered,
             PostLines, PostLinesRepeated, PostLinesRejected,
             LinesVanished, PostLinesUnlisted, WriteLines,
             StoreHeaderIds, CompleteBatch, SetPosted, StoreFault,
             Finance, FinanceDelete, FinanceReuse
      <4>2. QED
        <5>1. CASE Return
          BY <5>1 DEF Return
        <5>2. CASE UNCHANGED redis
          BY <2>3, <5>2
        <5>3. CASE redis' = NoRedisJob \/ redis' = NewRedisJob
          BY <2>3, <5>3 DEF NoRedisJob, NewRedisJob
        <5>4. ASSUME NEW x \in {"waiting", "active", "delayed", "failed"}, NEW y,
                     \/ redis' = [redis EXCEPT !.state = x]
                     \/ redis' = [redis EXCEPT !.state = x, !.stalled = y]
                     \/ redis' = [redis EXCEPT !.attempts = y, !.state = x]
              PROVE  FALSE
          BY <1>5, <2>3, <5>4
        <5>5. QED
          BY <4>1, <5>1, <5>2, <5>3, <5>4
    <3>2. QED
      BY <2>1, <3>1
  <2>4. QED
    BY <1>8, <2>2, <2>3
<1>9. QED
  BY <1>1, <1>6, <1>7, <1>8 DEF PostedInv


-----------------------------------------------------------------------------
(* The journals that have lines.                                           *)

LEMMA NotRepeatedStep ==
  ASSUME VendorTyped, VendorNext, NotRepeated
  PROVE  NotRepeated'
<1>1. SUFFICES ASSUME outside'.lost = 0, NEW h \in HeaderIds'
               PROVE  fo'[h].lines \in OnceLines
  BY DEF NotRepeated
<1>2. \A k \in HeaderIds : fo[k].lines \in OnceLines
  BY <1>1, SpentGrows DEF NotRepeated
<1>3. CASE UNCHANGED fo
  BY <1>1, <1>2, <1>3 DEF HeaderIds
<1>4. CASE worker.at \in Groups /\ fo' = Append(fo, NewJournal(worker.at))
  <2>1. NewJournal(worker.at).lines \in OnceLines
    BY DEF NewJournal, OnceLines
  <2>2. QED
    BY <1>1, <1>2, <1>4, <2>1, NewNumber
<1>5. CASE Writes
  <2>1. worker.key \in HeaderIds /\ fo[worker.key] \in Journals
    BY <1>5, WritesLines, SeqFacts
  <2>2. PICK after \in LineStates :
          /\ fo' = [fo EXCEPT ![worker.key] = [fo[worker.key] EXCEPT !.lines = after]]
          /\ \/ outside'.lost > 0
             \/ fo[worker.key].lines \in OnceLines => after \in OnceLines
    BY <1>5, WritesLines
  <2>3. after \in OnceLines
    BY <1>1, <1>2, <2>1, <2>2
  <2>4. /\ [fo[worker.key] EXCEPT !.lines = after] \in Journals
        /\ [fo[worker.key] EXCEPT !.lines = after].lines = after
    BY <2>1 DEF Journals
  <2>5. /\ HeaderIds' = HeaderIds /\ fo'[worker.key].lines = after
        /\ \A k \in HeaderIds \ {worker.key} : fo'[k] = fo[k]
    BY <2>1, <2>2, <2>4, ChangeJournal
  <2>6. QED
    BY <1>1, <1>2, <2>3, <2>5
<1>6. CASE Finance
  <2>1. PICK k \in HeaderIds, j \in Journals :
          fo' = [fo EXCEPT ![k] = j] /\ j.lines \in {fo[k].lines, "none"}
    BY <1>6, FinanceFrame
  <2>2. /\ HeaderIds' = HeaderIds /\ fo'[k] = j
        /\ \A i \in HeaderIds \ {k} : fo'[i] = fo[i]
    BY <2>1, ChangeJournal
  <2>3. QED
    BY <1>1, <1>2, <2>1, <2>2 DEF OnceLines
<1>7. QED
  BY <1>3, <1>4, <1>5, <1>6, JournalKinds

(* Lines appear only in the journal at hand.                               *)
LEMMA NoNewLines ==
  ASSUME VendorTyped, NEW g \in Groups,
         UNCHANGED fo \/ Opens \/ Finance
  PROVE  LinesIn(fo', g) \subseteq LinesIn(fo, g)
<1>0. HeaderIds = 1..Len(fo) /\ HeaderIds' = 1..Len(fo')
  BY DEF HeaderIds
<1>1. CASE UNCHANGED fo
  BY <1>1
<1>2. CASE worker.at \in Groups /\ fo' = Append(fo, NewJournal(worker.at))
  <2>1. NewJournal(worker.at).lines = "none"
    BY DEF NewJournal
  <2>2. /\ 1..Len(fo') = (1..Len(fo)) \cup {Len(fo) + 1} /\ fo'[Len(fo) + 1].lines = "none"
        /\ \A h \in 1..Len(fo) : fo'[h] = fo[h]
    BY <1>0, <1>2, <2>1, NewNumber
  <2>3. QED
    BY <2>2 DEF LinesIn
<1>3. CASE Finance
  <2>1. PICK k \in HeaderIds, j \in Journals :
          fo' = [fo EXCEPT ![k] = j] /\ (~j.live \/ j.lines = "none")
    BY <1>3, FinanceFrame
  <2>2. /\ HeaderIds' = HeaderIds /\ fo'[k] = j
        /\ \A h \in HeaderIds \ {k} : fo'[h] = fo[h]
    BY <2>1, ChangeJournal
  <2>3. QED
    BY <1>0, <2>1, <2>2 DEF LinesIn
<1>4. CASE Opens
  BY <1>1, <1>2, <1>4 DEF Opens, OpenGroup, CreateHeader, HeaderUnanswered, SetCreatedHeader,
     VendorTyped, AtGroup
<1>5. QED
  BY <1>1, <1>3, <1>4

LEMMA NewLines ==
  ASSUME VendorTyped, OwnHeaders, Writes, NEW g \in Groups
  PROVE  LinesIn(fo', g) \subseteq
           LinesIn(fo, g) \cup (IF g = worker.at THEN {worker.key} ELSE {})
<1>0. /\ HeaderIds = 1..Len(fo) /\ HeaderIds' = 1..Len(fo') /\ 0 \notin Groups
  BY SeqFacts DEF HeaderIds
<1>1. PICK after \in LineStates :
        fo' = [fo EXCEPT ![worker.key] = [fo[worker.key] EXCEPT !.lines = after]]
  BY WritesLines
<1> DEFINE j == [fo[worker.key] EXCEPT !.lines = after]
<1>2. /\ worker.key \in HeaderIds /\ fo[worker.key] \in Journals /\ worker.pc = "lines"
      /\ worker.key # NoHeader
  BY WritesLines, SeqFacts
<1>3. j \in Journals /\ j.group = fo[worker.key].group
  BY <1>2 DEF Journals
<1>4. fo[worker.key].group \in {0, worker.at}
  BY <1>2 DEF OwnHeaders, OfGroup
<1>5. /\ HeaderIds' = HeaderIds /\ fo'[worker.key] = j
      /\ \A h \in HeaderIds \ {worker.key} : fo'[h] = fo[h]
  BY <1>1, <1>2, <1>3, ChangeJournal
<1> HIDE DEF j
<1>6. CASE g = worker.at
  BY <1>0, <1>5, <1>6 DEF LinesIn
<1>7. CASE g # worker.at
  BY <1>0, <1>2, <1>3, <1>4, <1>5, <1>7 DEF LinesIn
<1>8. QED
  BY <1>6, <1>7

(* While the request prepares its job nothing has happened yet.            *)
LEMMA PreparingIsFresh ==
  ASSUME RequestInv, spent.submits <= 1, NEW s \in Submitters, subs[s] \in Preparing
  PROVE  Untouched
BY DEF RequestInv, Fresh, Untouched

LEMMA GroupsReplaced ==
  ASSUME VendorTyped, Aside, RequestInv, spent.submits <= 1
  PROVE  \/ UNCHANGED groups
         \/ groups' = NoGroups /\ (Untouched \/ ctl' = "deleteBatch")
         \/ groups' = [g \in Groups |-> Pending] /\ Untouched
<1>1. CASE \E s \in Submitters : Submit(s)
  <2>1. PICK s \in Submitters : Submit(s)
    BY <1>1
  <2>2. \/ UNCHANGED groups
        \/ /\ groups' = NoGroups \/ groups' = [g \in Groups |-> Pending]
           /\ subs[s] \in Preparing
    BY <2>1 DEF Submit, SubmitValidate, SubmitPrepare, SubmitLookup,
         SubmitMarkPosted, SubmitRemoveFailed, SubmitStorePrepare,
         ReplaceDeleteGroups, ReplaceInsertGroups, ReplaceUpsertJob,
         SubmitAdd, Preparing
  <2>3. QED
    BY <2>2, PreparingIsFresh
<1>2. CASE Control
  BY <1>2 DEF Control, PauseRead, PauseSet, ResumeRead, ResumeClear,
       ResumeFindJob, RequeueCheck, RequeueAdd, MarkQueued, DeleteRead,
       DeletePause, DeleteRedisJob, DeletePurge, DeleteBatch
<1>3. CASE Boot \/ PromoteDelayed \/ Stalled
  BY <1>3 DEF Boot, ReleaseRead, ForceRemove, Restore, PromoteDelayed,
       Stalled
<1>4. QED
  BY <1>1, <1>2, <1>3 DEF Aside

(* Which groups are there changes only when they are replaced.             *)
LEMMA StaysGone ==
  ASSUME VendorTyped, NEW g \in Groups,
         Ends \/ Leaves \/ Walks \/ Reads \/ Opens \/ Writes \/ Finance
  PROVE  Gone(g)' <=> Gone(g)
<1>1. CASE UNCHANGED groups
  BY <1>1 DEF Gone
<1>2. ASSUME NEW x \in {"active", "completed"}, worker.at \in Groups,
             SetGroup(worker.at, [groups[worker.at] EXCEPT !.status = x])
      PROVE  Gone(g)' <=> Gone(g)
  BY <1>2, StatusSet DEF Gone
<1>3. CASE Walks
  BY <1>1, <1>2, <1>3, WalksOn
<1>4. CASE SetCreatedHeader
  <2>1. /\ worker.at \in Groups /\ worker.key \in HeaderIds
        /\ SetGroup(worker.at, [groups[worker.at] EXCEPT !.header = worker.key])
    BY <1>4 DEF SetCreatedHeader, VendorTyped, AtGroup
  <2>2. QED
    BY <2>1, HeaderSet DEF Gone
<1>5. CASE Ends \/ Leaves \/ Writes \/ Finance
  BY <1>1, <1>5, EndsIdle, LeavesLoop, WritesLines, FinanceFrame
<1>6. CASE Reads \/ OpenGroup \/ CreateHeader \/ HeaderUnanswered
  BY <1>1, <1>6 DEF Reads, ListGroups, CheckPause, OpenGroup, CreateHeader, HeaderUnanswered
<1>7. QED
  BY <1>3, <1>4, <1>5, <1>6 DEF Opens


LEMMA HeldStep ==
  ASSUME VendorTyped, VendorNext, OwnHeaders, RequestInv, spent.submits <= 1, HeldInv
  PROVE  HeldInv'
<1>1. /\ \A g \in Groups : \A h, k \in LinesIn(fo, g) : h = k
      /\ groups = NoGroups \/ \A g \in Groups : ~Gone(g)
      /\ \A g \in Groups : ~Gone(g) => HeldBy(g, groups[g].header)
  BY DEF HeldInv
<1>2. /\ worker.pc \in Loop =>
           \A g \in Groups :
             g > worker.at \/ (g = worker.at /\ worker.pc \in {"markGroup", "open"}) =>
               /\ HeldBy(g, worker.snap[g].header)
               /\ ~Gone(g) => groups[g].header = worker.snap[g].header
      /\ worker.pc \in {"create", "record"} => LinesIn(fo, worker.at) = {}
      /\ worker.pc = "lines" =>
           /\ HeldBy(worker.at, worker.key)
           /\ ~Gone(worker.at) => groups[worker.at].header = worker.key
  BY DEF HeldInv
<1> DEFINE Single == \A g \in Groups : \A h, k \in LinesIn(fo', g) : h = k
           Whole == groups' = NoGroups \/ \A g \in Groups : groups'[g].status # "absent"
           Docs == \A g \in Groups :
                     groups'[g].status # "absent" => LinesIn(fo', g) \subseteq {groups'[g].header}
           Ahead == worker'.pc \in Loop =>
                      \A g \in Groups :
                        \/ g > worker'.at
                        \/ g = worker'.at /\ worker'.pc \in {"markGroup", "open"}
                        => /\ LinesIn(fo', g) \subseteq {worker'.snap[g].header}
                           /\ groups'[g].status # "absent" =>
                                groups'[g].header = worker'.snap[g].header
           Empty == worker'.pc \in {"create", "record"} => LinesIn(fo', worker'.at) = {}
           Hand == worker'.pc = "lines" =>
                     /\ LinesIn(fo', worker'.at) \subseteq {worker'.key}
                     /\ groups'[worker'.at].status # "absent" =>
                          groups'[worker'.at].header = worker'.key
<1>3. SUFFICES Single /\ Whole /\ Docs /\ Ahead /\ Empty /\ Hand
  BY DEF HeldInv, HeldBy, Gone
(* No step but one that posts lines adds a journal that has lines.         *)
<1>4. ASSUME UNCHANGED fo \/ Opens \/ Finance
      PROVE  Single /\ \A g \in Groups : LinesIn(fo', g) \subseteq LinesIn(fo, g)
  BY <1>1, <1>4, NoNewLines
<1>5. ASSUME UNCHANGED groups PROVE Whole
  BY <1>1, <1>5 DEF Gone
<1>6. ASSUME UNCHANGED groups, UNCHANGED fo \/ Opens \/ Finance PROVE Docs
  BY <1>1, <1>4, <1>6 DEF Gone, HeldBy
<1>7. ASSUME worker'.pc \notin Loop PROVE Ahead /\ Empty /\ Hand
  BY <1>7 DEF Loop, AtGroup
<1> HIDE DEF Single, Whole, Docs, Ahead, Empty, Hand
<1>8. "lines" \in Loop /\ "create" \in Loop /\ "record" \in Loop /\ "open" \in Loop
      /\ "markGroup" \in Loop /\ "check" \in Loop /\ "caught" \notin Loop /\ "complete" \in Loop
      /\ "idle" \notin Loop
  BY DEF Loop, AtGroup
<1>9. CASE Aside
  <2>1. UNCHANGED <<fo, worker>>
    BY <1>9 DEF Aside, Quiet
  <2>2. Single
    BY <1>1, <2>1 DEF Single
  <2>3. CASE UNCHANGED groups
    <3>1. Docs
      BY <1>1, <2>1, <2>3 DEF Docs, Gone, HeldBy
    <3>2. Ahead /\ Empty /\ Hand
      BY <1>2, <2>1, <2>3 DEF Ahead, Empty, Hand, Gone, HeldBy
    <3>3. QED
      BY <1>5, <2>2, <2>3, <3>1, <3>2
  <2>4. CASE groups' = NoGroups
    <3>1. \A g \in Groups : groups'[g].status = "absent"
      BY <2>4 DEF NoGroups, Absent
    <3>2. Whole /\ Docs
      BY <2>4, <3>1 DEF Whole, Docs
    <3>3. worker.pc \in AtGroup => worker.at \in Groups
      BY DEF VendorTyped
    <3>4. Ahead /\ Empty /\ Hand
      BY <1>2, <2>1, <3>1, <3>3 DEF Ahead, Empty, Hand, HeldBy, AtGroup
    <3>5. QED
      BY <2>2, <3>2, <3>4
  <2>5. CASE groups' = [g \in Groups |-> Pending] /\ Untouched
    <3>1. \A g \in Groups : LinesIn(fo', g) = {}
      BY <2>1, <2>5 DEF Untouched, LinesIn
    <3>2. worker'.pc \notin Loop
      BY <1>8, <2>1, <2>5 DEF Untouched
    <3>3. Docs
      BY <3>1 DEF Docs
    <3>4. Whole
      BY <2>5 DEF Whole, Pending
    <3>5. QED
      BY <1>7, <2>2, <3>2, <3>3, <3>4
  <2>6. QED
    BY <1>9, <2>3, <2>4, <2>5, GroupsReplaced
<1>10. CASE Ends \/ Leaves
  <2>1. UNCHANGED groups /\ worker'.pc \notin Loop
    <3>1. CASE Ends
      BY <3>1, EndsIdle DEF Loop, AtGroup
    <3>2. CASE Leaves
      <4>1. UNCHANGED groups /\ worker'.pc \in OutOfLoop
        BY <3>2, LeavesLoop, GotoKeeps
      <4>2. QED
        BY <4>1 DEF OutOfLoop, Loop, AtGroup
    <3>3. QED
      BY <1>10, <3>1, <3>2
  <2>2. Single /\ Docs
    BY <1>4, <1>6, <1>10, <2>1 DEF Ends, Leaves, Quiet
  <2>3. QED
    BY <1>5, <1>7, <2>1, <2>2
<1>11. CASE Walks
  <2>1. worker.pc \in AtGroup /\ worker.at \in Groups /\ worker.pc \in Loop /\ UNCHANGED fo
    BY <1>11, WalksOn DEF Loop, Walks, Quiet
  <2>2. PICK p \in {"open", "count", "check"} : Goto(p)
    BY <1>11, WalksOn
  <2>3. worker'.snap = worker.snap /\ worker'.at = worker.at /\ worker'.pc = p
    BY <2>2, GotoKeeps
  <2>4. p = "open" => worker.pc = "markGroup"
    BY <1>11, <2>3, WalksOn, GotoKeeps
  <2>5. \A g \in Groups : groups'[g].header = groups[g].header
    <3>1. ASSUME NEW x \in {"active", "completed"},
                 SetGroup(worker.at, [groups[worker.at] EXCEPT !.status = x])
          PROVE  \A g \in Groups : groups'[g].header = groups[g].header
      BY <2>1, <3>1, StatusSet
    <3>2. QED
      BY <1>11, <3>1, WalksOn
  <2>6. /\ \A g \in Groups : groups'[g].status = "absent" <=> groups[g].status = "absent"
        /\ groups = NoGroups => UNCHANGED groups
    BY <1>11, <2>1, StaysGone, WalksOn DEF Gone, SetGroup, NoGroups, Absent
  <2>7. Single /\ Docs
    BY <1>1, <1>4, <2>1, <2>5, <2>6 DEF Docs, Gone, HeldBy
  <2>8. Whole
    BY <1>1, <2>6 DEF Whole, Gone
  <2>9. Ahead
    BY <1>2, <2>1, <2>2, <2>3, <2>4, <2>5, <2>6 DEF Ahead, Gone, HeldBy
  <2>10. Empty /\ Hand
    BY <2>2, <2>3 DEF Empty, Hand
  <2>11. QED
    BY <2>7, <2>8, <2>9, <2>10
<1>12. CASE ListGroups
  <2>1. /\ UNCHANGED <<fo, groups>> /\ worker'.snap = groups /\ worker'.at = 0
        /\ worker'.pc = IF groups = NoGroups THEN "fail" ELSE "check"
    BY <1>12 DEF ListGroups, VendorTyped, IsWorker
  <2>2. Single /\ Docs /\ Whole
    BY <1>4, <1>5, <1>6, <2>1
  <2>3. Ahead /\ Empty /\ Hand
    <3>1. CASE groups = NoGroups
      <4>1. worker'.pc \notin Loop
        BY <2>1, <3>1 DEF Loop, AtGroup
      <4>2. QED
        BY <1>7, <4>1
    <3>2. CASE groups # NoGroups
      <4>1. \A g \in Groups : HeldBy(g, groups[g].header)
        BY <1>1, <3>2
      <4>2. QED
        BY <2>1, <3>2, <4>1 DEF Ahead, Empty, Hand, HeldBy
    <3>3. QED
      BY <3>1, <3>2
  <2>4. QED
    BY <2>2, <2>3
<1>13. CASE CheckPause
  <2>1. UNCHANGED <<fo, groups>> /\ worker.pc = "check" /\ worker.at \in 0..N
    BY <1>13 DEF CheckPause, VendorTyped
  <2>2. Single /\ Docs /\ Whole
    BY <1>4, <1>5, <1>6, <2>1
  <2>3. CASE Goto("settle") \/ Goto("stop")
    <3>1. worker'.pc \in {"settle", "stop"}
      BY <2>3, GotoKeeps
    <3>2. worker'.pc \notin Loop
      BY <3>1 DEF Loop, AtGroup
    <3>3. QED
      BY <1>7, <2>2, <3>2
  <2>4. ASSUME NEW i \in Unposted, worker' = [worker EXCEPT !.pc = "markGroup", !.at = i]
        PROVE  Ahead /\ Empty /\ Hand
    <3>1. worker'.snap = worker.snap /\ worker'.pc = "markGroup" /\ worker'.at = i
      BY <2>4 DEF VendorTyped, IsWorker
    <3>2. i \in Groups /\ i > worker.at
      BY <2>4 DEF Unposted
    <3>3. \A g \in Groups : g > i \/ g = i => g > worker.at
      BY <2>1, <3>2, SeqFacts
    <3>4. worker.pc \in Loop
      BY <1>8, <2>1
    <3>5. QED
      BY <1>2, <2>1, <3>1, <3>3, <3>4 DEF Ahead, Empty, Hand, HeldBy, Gone
  <2>5. QED
    BY <1>13, <2>2, <2>3, <2>4 DEF CheckPause
<1>14. CASE OpenGroup
  <2> DEFINE h == worker.snap[worker.at].header
  <2>1. /\ UNCHANGED <<fo, groups>> /\ worker.pc = "open" /\ worker.at \in Groups
        /\ worker'.snap = worker.snap /\ worker'.at = worker.at
    BY <1>14 DEF OpenGroup, VendorTyped, IsWorker, AtGroup
  <2>2. \/ worker'.pc = "lines" /\ worker'.key = h
        \/ worker'.pc = "create" /\ (h = NoHeader \/ ~fo[h].live)
    BY <1>14 DEF OpenGroup, VendorTyped, IsWorker
  <2>3. Single /\ Docs /\ Whole
    BY <1>4, <1>5, <1>6, <2>1
  <2>4. /\ LinesIn(fo, worker.at) \subseteq {h}
        /\ ~Gone(worker.at) => groups[worker.at].header = h
    BY <1>2, <1>8, <2>1 DEF HeldBy
  <2>5. Hand
    BY <2>1, <2>2, <2>4 DEF Hand, Gone
  <2>6. Empty
    <3>1. h = NoHeader \/ ~fo[h].live => h \notin LinesIn(fo, worker.at)
      BY SeqFacts DEF LinesIn, HeaderIds
    <3>2. QED
      BY <2>1, <2>2, <2>4, <3>1 DEF Empty
  <2>7. Ahead
    BY <1>2, <1>8, <2>1, <2>2 DEF Ahead, HeldBy, Gone
  <2>8. QED
    BY <2>3, <2>5, <2>6, <2>7
<1>15. CASE CreateHeader \/ HeaderUnanswered
  <2>1. /\ UNCHANGED groups /\ worker.pc = "create" /\ worker.at \in Groups
        /\ worker'.snap = worker.snap /\ worker'.at = worker.at
        /\ worker'.pc \in {"create", "record", "caught"}
    BY <1>15 DEF CreateHeader, HeaderUnanswered, VendorTyped, IsWorker, Goto, AtGroup
  <2>2. Single /\ Docs /\ Whole /\ \A g \in Groups : LinesIn(fo', g) \subseteq LinesIn(fo, g)
    BY <1>4, <1>5, <1>6, <1>15, <2>1 DEF Opens
  <2>3. Empty
    BY <1>2, <2>1, <2>2 DEF Empty
  <2>4. Hand
    BY <2>1 DEF Hand
  <2>5. Ahead
    BY <1>2, <1>8, <2>1, <2>2 DEF Ahead, HeldBy, Gone
  <2>6. QED
    BY <2>2, <2>3, <2>4, <2>5
<1>16. CASE SetCreatedHeader
  <2>1. /\ worker'.snap = worker.snap /\ worker'.at = worker.at /\ worker'.key = worker.key
        /\ worker'.pc = "lines" /\ UNCHANGED fo
        /\ worker.pc = "record" /\ worker.at \in Groups /\ worker.key \in HeaderIds
        /\ SetGroup(worker.at, [groups[worker.at] EXCEPT !.header = worker.key])
    BY <1>16 DEF SetCreatedHeader, VendorTyped, IsWorker, AtGroup
  <2>4. /\ \A g \in Groups \ {worker.at} : groups'[g] = groups[g]
        /\ groups[worker.at].status # "absent" => groups'[worker.at].header = worker.key
    BY <2>1, HeaderSet
  <2>5. \A g \in Groups : groups'[g].status = "absent" <=> groups[g].status = "absent"
    BY <1>16, StaysGone DEF Opens, Gone
  <2>6. LinesIn(fo', worker.at) = {}
    BY <1>2, <2>1
  <2>7. Single
    BY <1>1, <2>1 DEF Single
  <2>8. Docs
    BY <1>1, <2>1, <2>4, <2>5, <2>6 DEF Docs, HeldBy, Gone
  <2>9. Whole
    <3>1. groups = NoGroups => UNCHANGED groups
      BY <2>1 DEF SetGroup, NoGroups, Absent
    <3>2. QED
      BY <1>1, <2>5, <3>1 DEF Whole, Gone
  <2>10. Hand /\ Empty
    BY <2>1, <2>4, <2>5, <2>6 DEF Hand, Empty
  <2>11. Ahead
    <3>1. \A g \in Groups : g > worker.at => groups'[g] = groups[g]
      BY <2>1, <2>4, SeqFacts
    <3>2. QED
      BY <1>2, <1>8, <2>1, <3>1 DEF Ahead, HeldBy, Gone
  <2>12. QED
    BY <2>7, <2>8, <2>9, <2>10, <2>11
<1>17. CASE Writes
  <2>1. /\ UNCHANGED groups /\ worker.pc = "lines" /\ worker.at \in Groups
        /\ Goto("complete") \/ Goto("caught")
    BY <1>17, WritesLines
  <2>2. /\ worker'.snap = worker.snap /\ worker'.at = worker.at
        /\ worker'.pc \in {"complete", "caught"}
    BY <2>1, GotoKeeps
  <2>3. /\ \A g \in Groups \ {worker.at} : LinesIn(fo', g) \subseteq LinesIn(fo, g)
        /\ LinesIn(fo', worker.at) \subseteq LinesIn(fo, worker.at) \cup {worker.key}
    BY <1>17, <2>1, NewLines
  <2>4. LinesIn(fo', worker.at) \subseteq {worker.key}
    BY <1>2, <2>1, <2>3 DEF HeldBy
  <2>5. Single
    BY <1>1, <2>3, <2>4 DEF Single
  <2>6. Docs
    BY <1>1, <1>2, <2>1, <2>3, <2>4 DEF Docs, HeldBy, Gone
  <2>7. Ahead
    <3>1. \A g \in Groups : g > worker.at => g # worker.at
      BY <2>1, SeqFacts
    <3>2. QED
      BY <1>2, <1>8, <2>1, <2>2, <2>3, <3>1 DEF Ahead, HeldBy, Gone
  <2>8. Empty /\ Hand
    BY <2>2 DEF Empty, Hand
  <2>9. QED
    BY <1>5, <2>1, <2>5, <2>6, <2>7, <2>8
<1>18. CASE Finance
  <2>1. UNCHANGED <<groups, worker>>
    BY <1>18, FinanceFrame
  <2>2. Single /\ Docs /\ Whole /\ \A g \in Groups : LinesIn(fo', g) \subseteq LinesIn(fo, g)
    BY <1>4, <1>5, <1>6, <1>18, <2>1
  <2>3. Ahead
    BY <1>2, <2>1, <2>2 DEF Ahead, HeldBy, Gone
  <2>4. worker.pc \in AtGroup => worker.at \in Groups
    BY DEF VendorTyped
  <2>5. Empty /\ Hand
    BY <1>2, <2>1, <2>2, <2>4 DEF Empty, Hand, HeldBy, Gone, AtGroup
  <2>6. QED
    BY <2>2, <2>3, <2>5
<1>19. QED
  BY <1>9, <1>10, <1>11, <1>12, <1>13, <1>14, <1>15, <1>16, <1>17, <1>18, Kinds DEF Reads, Opens


LEMMA PurgeStep ==
  ASSUME VendorTyped, VendorNext, RequestInv, spent.submits <= 1, HeldInv, PurgeInv
  PROVE  PurgeInv'
<1> DEFINE Deleting == {"deletePause", "deleteRedis", "deletePurge", "deleteBatch"}
<1>1. /\ spent.deletes <= spent'.deletes /\ spent.crashes <= spent'.crashes
      /\ spent \in Spendings /\ spent' \in Spendings
  BY SpentGrows
<1>2. ctl \in Deleting => spent.deletes > 0
  BY DEF PurgeInv
<1>3. ASSUME ctl' \in Deleting PROVE spent'.deletes > 0
  <2>1. CASE Control
    <3>1. DeleteRead \/ ctl \in Deleting
      BY <1>3, <2>1 DEF Control, PauseRead, PauseSet, ResumeRead, ResumeClear, ResumeFindJob,
         RequeueCheck, RequeueAdd, MarkQueued, DeletePause, DeleteRedisJob, DeletePurge,
         DeleteBatch
    <3>2. CASE DeleteRead
      BY <1>1, <3>2 DEF DeleteRead, Spend, Spendings
    <3>3. QED
      BY <1>1, <1>2, <3>1, <3>2 DEF Spendings
  <2>2. CASE ~Control
    <3>1. ctl' \in {ctl, "idle"}
      BY <2>2, OthersKeepBatch
    <3>2. QED
      BY <1>1, <1>2, <1>3, <3>1 DEF Spendings
  <2>3. QED
    BY <2>1, <2>2
<1> DEFINE Accounted == \/ fo' = <<>> /\ worker'.pc \notin Loop
                        \/ ~batch'.exists \/ ctl' = "deleteBatch"
                        \/ spent'.deletes > 0 /\ spent'.crashes > 0
<1>4. SUFFICES ASSUME NEW i \in Groups, Gone(i)'
               PROVE  Accounted
  BY <1>3 DEF PurgeInv
<1> HIDE DEF Accounted
<1>5. ASSUME Untouched, Aside PROVE Accounted
  BY <1>5 DEF Untouched, Aside, Quiet, Accounted, Loop, AtGroup
<1>6. ASSUME Gone(i) PROVE Accounted
  <2>1. CASE fo = <<>> /\ worker.pc \notin Loop
    <3>1. groups = NoGroups
      BY <1>6 DEF HeldInv
    <3>2. CASE Aside \/ Leaves \/ Ends
      <4>1. UNCHANGED fo
        BY <3>2 DEF Aside, Leaves, Ends, Quiet
      <4>2. worker'.pc \notin Loop
        <5>1. CASE Aside
          BY <2>1, <5>1 DEF Aside
        <5>2. CASE Leaves
          <6>1. worker'.pc \in OutOfLoop
            BY <5>2, LeavesLoop, GotoKeeps
          <6>2. QED
            BY <6>1 DEF OutOfLoop, Loop, AtGroup
        <5>3. CASE Ends
          BY <5>3, EndsIdle DEF Loop, AtGroup
        <5>4. QED
          BY <3>2, <5>1, <5>2, <5>3
      <4>3. QED
        BY <2>1, <4>1, <4>2 DEF Accounted
    <3>3. CASE ListGroups /\ Quiet
      <4>1. worker'.pc = "fail"
        BY <3>1, <3>3 DEF ListGroups, VendorTyped, IsWorker
      <4>2. QED
        BY <2>1, <3>3, <4>1 DEF Accounted, Quiet, Loop, AtGroup
    <3>4. ~Finance
      BY <2>1 DEF Finance, HeaderIds
    <3>5. ~Writes /\ ~Opens /\ ~Walks /\ ~CheckPause
      BY <2>1 DEF Loop, AtGroup, Writes, PostLines, PostLinesRepeated, PostLinesRejected,
         PostLinesUnlisted, AtLines, Opens, OpenGroup, CreateHeader, HeaderUnanswered,
         SetCreatedHeader, Walks, MarkGroupActive, CompleteGroup, CountGroup, CheckPause
    <3>6. QED
      BY <3>2, <3>3, <3>4, <3>5, Kinds DEF Reads
  <2>2. CASE ~batch.exists
    <3>1. ~batch'.exists
      BY <2>2 DEF VendorNext, Queue, Submit, SubmitValidate,
           SubmitPrepare, SubmitLookup, SubmitMarkPosted,
           SubmitRemoveFailed, SubmitStorePrepare, ReplaceDeleteGroups,
           ReplaceInsertGroups, ReplaceUpsertJob, SubmitAdd, Control,
           PauseRead, PauseSet, ResumeRead, ResumeClear, ResumeFindJob,
           RequeueCheck, RequeueAdd, MarkQueued, DeleteRead,
           DeletePause, DeleteRedisJob, DeletePurge, DeleteBatch, Boot,
           ReleaseRead, ForceRemove, Restore, PickUp, PromoteDelayed,
           Stalled, Crash, Processor, MarkActive, ListGroups,
           CheckPause, RecordWorkerStopped, MarkGroupActive,
           CompleteGroup, CountGroup, MarkCompleted, FailJob,
           CancelBatch, Return, Throw, OpenGroup, QueryRejected,
           CreateHeader, SetCreatedHeader, PostHeaderAndLines,
           HeaderRejected, HeaderUnanswered, PostLines,
           PostLinesRepeated, PostLinesRejected, LinesVanished,
           PostLinesUnlisted, WriteLines, StoreHeaderIds, CompleteBatch,
           SetPosted, StoreFault, Finance, FinanceDelete, FinanceReuse,
           SetBatchStatus, SetBatchPaused, AddDfoIds, VendorTyped,
           IsBatch
    <3>2. QED
      BY <3>1 DEF Accounted
  <2>3. CASE ctl = "deleteBatch"
    <3>1. ctl' = ctl \/ DeleteBatch \/ Crash
      BY <2>3 DEF VendorNext, Queue, Submit, SubmitValidate,
           SubmitPrepare, SubmitLookup, SubmitMarkPosted,
           SubmitRemoveFailed, SubmitStorePrepare, ReplaceDeleteGroups,
           ReplaceInsertGroups, ReplaceUpsertJob, SubmitAdd, Control,
           PauseRead, PauseSet, ResumeRead, ResumeClear, ResumeFindJob,
           RequeueCheck, RequeueAdd, MarkQueued, DeleteRead,
           DeletePause, DeleteRedisJob, DeletePurge, DeleteBatch, Boot,
           ReleaseRead, ForceRemove, Restore, PickUp, PromoteDelayed,
           Stalled, Crash, Processor, MarkActive, ListGroups,
           CheckPause, RecordWorkerStopped, MarkGroupActive,
           CompleteGroup, CountGroup, MarkCompleted, FailJob,
           CancelBatch, Return, Throw, OpenGroup, QueryRejected,
           CreateHeader, SetCreatedHeader, PostHeaderAndLines,
           HeaderRejected, HeaderUnanswered, PostLines,
           PostLinesRepeated, PostLinesRejected, LinesVanished,
           PostLinesUnlisted, WriteLines, StoreHeaderIds, CompleteBatch,
           SetPosted, StoreFault, Finance, FinanceDelete, FinanceReuse
    <3>2. CASE DeleteBatch
      BY <3>2 DEF DeleteBatch, Accounted, VendorTyped, IsBatch
    <3>3. CASE Crash
      <4>1. spent'.crashes > 0
        BY <1>1, <3>3 DEF Crash, Spend, Spendings
      <4>2. spent'.deletes > 0
        BY <1>1, <1>2, <2>3 DEF Spendings
      <4>3. QED
        BY <4>1, <4>2 DEF Accounted
    <3>4. QED
      BY <2>3, <3>1, <3>2, <3>3 DEF Accounted
  <2>4. CASE spent.deletes > 0 /\ spent.crashes > 0
    BY <1>1, <2>4 DEF Spendings, Accounted
  <2>5. QED
    BY <1>6, <2>1, <2>2, <2>3, <2>4 DEF PurgeInv
<1>7. CASE Aside
  <2>1. CASE UNCHANGED groups
    BY <1>4, <1>6, <2>1 DEF Gone
  <2>2. CASE ctl' = "deleteBatch"
    BY <2>2 DEF Accounted
  <2>3. QED
    BY <1>5, <1>7, <2>1, <2>2, GroupsReplaced
<1>8. CASE Ends \/ Leaves \/ Walks \/ Reads \/ Opens \/ Writes \/ Finance
  BY <1>4, <1>6, <1>8, StaysGone
<1>9. QED
  BY <1>7, <1>8, Kinds

-----------------------------------------------------------------------------
(* The invariant.                                                          *)

LEMMA VendorInit ==
  ASSUME RInit
  PROVE  VendorInv
<1>1. /\ fo = <<>> /\ groups = NoGroups /\ worker = IdleWorker /\ redis = NoRedisJob
      /\ job = [status |-> "none", completed |-> 0]
      /\ batch = [exists |-> TRUE, status |-> "PendingPosting", paused |-> FALSE, dfoIds |-> {}]
      /\ subs = [s \in Submitters |-> "idle"] /\ ctl = "idle"
      /\ spent = [submits |-> 0, pauses |-> 0, deletes |-> 0, faults |-> 0, crashes |-> 0]
      /\ outside = [cleanups |-> 0, lost |-> 0]
  BY DEF RInit, Init
<1>2. HeaderIds = {} /\ \A g : LinesIn(fo, g) = {}
  BY <1>1 DEF HeaderIds, LinesIn
<1>3. /\ worker.pc = "idle" /\ worker.pc \notin Loop /\ worker.pc \notin AtGroup
      /\ worker.at = 0 /\ worker.key = NoHeader /\ worker.snap = NoGroups /\ IsWorker(worker)
  BY <1>1 DEF IdleWorker, Loop, AtGroup, IsWorker
<1>4. \A g \in Groups : groups[g] = Absent /\ worker.snap[g] = Absent
  BY <1>1, <1>3 DEF NoGroups
<1>5. VendorTyped
  <2>1. NoGroups \in [Groups -> GroupDocs]
    BY DEF NoGroups, Absent, GroupDocs
  <2>2. 0 \in 0..N
    BY DurableQueueAssumption DEF DurableQueueAssumption
  <2>3. fo \in Seq(Journals)
    BY <1>1
  <2>4. IsBatch(batch) /\ DOMAIN subs = Submitters
    BY <1>1 DEF IsBatch
  <2>5. redis = [state |-> redis.state, attempts |-> redis.attempts, stalled |-> redis.stalled]
    BY <1>1 DEF NoRedisJob
  <2>6. spent \in Spendings /\ outside \in [cleanups : Nat, lost : Nat]
    BY <1>1 DEF Spendings
  <2>7. QED
    BY <1>1, <1>3, <2>1, <2>2, <2>3, <2>4, <2>5, <2>6 DEF VendorTyped
<1>6. OwnHeaders
  BY <1>3, <1>4 DEF OwnHeaders, OfGroup, Absent
<1>7. PassedInv
  BY <1>2, <1>3, <1>4 DEF PassedInv, Absent
<1>8. PostedInv
  BY <1>1, <1>3 DEF PostedInv, NoRedisJob
<1>9. FreeInv
  BY <1>1, <1>3 DEF FreeInv
<1>10. RequestInv
  BY <1>1, <1>3 DEF RequestInv, NoRedisJob
<1>11. HeldInv /\ PurgeInv
  BY <1>1, <1>2, <1>3, <1>4 DEF HeldInv, PurgeInv, HeldBy, Gone, Absent
<1>12. NotRepeated
  BY <1>2 DEF NotRepeated
<1>13. QED
  BY <1>5, <1>6, <1>7, <1>8, <1>9, <1>10, <1>11, <1>12 DEF VendorInv, OneRequestInv

LEMMA VendorStep ==
  ASSUME VendorInv, VendorNext
  PROVE  VendorInv'
<1>1. VendorTyped /\ OwnHeaders /\ FreeInv /\ RequestInv /\ OneRequestInv /\ NotRepeated
  BY DEF VendorInv
<1>2. VendorTyped' /\ OwnHeaders' /\ FreeInv' /\ RequestInv' /\ NotRepeated'
  BY <1>1, TypedStep, OwnStep, FreeStep, RequestStep, NotRepeatedStep
<1>3. ASSUME NumbersKept' PROVE PassedInv' /\ PostedInv'
  <2>1. PassedInv /\ PostedInv
    BY <1>1, <1>3, NumbersWereKept DEF VendorInv
  <2>2. QED
    BY <1>1, <1>3, <2>1, PassedStep, PostedStep
<1>4. ASSUME spent'.submits <= 1 PROVE HeldInv' /\ PurgeInv'
  <2>1. spent.submits <= 1
    BY <1>1, <1>4, SpentGrows DEF Spendings
  <2>2. HeldInv /\ PurgeInv
    BY <1>1, <2>1 DEF OneRequestInv
  <2>3. QED
    BY <1>1, <2>1, <2>2, HeldStep, PurgeStep
<1>5. QED
  BY <1>2, <1>3, <1>4 DEF VendorInv, OneRequestInv

LEMMA VendorStutter ==
  ASSUME VendorInv, UNCHANGED rvars
  PROVE  VendorInv'
<1>1. UNCHANGED <<batch, job, groups, redis, fo, worker, subs, ctl, spent, outside>>
  BY DEF rvars, vars
<1>2. VendorTyped' /\ OwnHeaders'
  BY <1>1 DEF VendorInv, VendorTyped, OwnHeaders, OfGroup, HeaderIds, GroupDocs
<1>3. FreeInv' /\ RequestInv' /\ NotRepeated'
  BY <1>1 DEF VendorInv, FreeInv, RequestInv, Fresh, NotRepeated, HeaderIds
<1>4. NumbersKept' => PassedInv' /\ PostedInv'
  BY <1>1 DEF VendorInv, NumbersKept, PassedInv, PostedInv, Straight, AllDone, Done, Passed,
     HeaderIds
<1>5. OneRequestInv'
  BY <1>1 DEF VendorInv, OneRequestInv, HeldInv, PurgeInv, HeldBy, Gone
<1>6. QED
  BY <1>2, <1>3, <1>4, <1>5 DEF VendorInv

LEMMA VendorInvariant == VendorSpec => []VendorInv
<1>1. VendorInv /\ [VendorNext]_rvars => VendorInv'
  BY VendorStep, VendorStutter
<1>2. QED
  BY <1>1, VendorInit, PTL DEF VendorSpec

(* A batch that is Posted has every journal in Finance with all its lines, *)
(* or had until Finance deleted it, whatever failed and crashed on the     *)
(* way: as long as Finance gives no number of the batch to another         *)
(* journal, and no second request is told that a run which stopped on a    *)
(* pause had finished (post-vendor-journal-dfo.processor.ts: postGroups).  *)
THEOREM VendorComplete == VendorSpec => [](NumbersKept /\ Straight => PostedIsComplete)
<1>1. VendorInv => (NumbersKept /\ Straight => PostedIsComplete)
  <2>1. SUFFICES ASSUME VendorInv, NumbersKept, Straight, batch.status = "Posted",
                        NEW g \in Groups
                 PROVE  \/ \E h \in Own(g) : fo[h].lines \in {"full", "extra"}
                        \/ \E h \in HeaderIds : fo[h].gone = g
    BY DEF PostedIsComplete
  <2>2. DoneIn(fo, g)
    BY <2>1 DEF VendorInv, PostedInv, AllDone, Done
  <2>3. QED
    BY <2>2 DEF DoneIn, Own, Live, HeaderIds
<1>2. QED
  BY <1>1, VendorInvariant, PTL

(* While a batch has had one request, no retry, resume or restart of it    *)
(* posts a line a second time, in one journal or in two, as long as        *)
(* Finance answers (postLinesForHeader skips the lines that are there).    *)
THEOREM VendorLinesOnce == VendorSpec => []LinesOnce
<1>1. VendorInv => LinesOnce
  <2>1. SUFFICES ASSUME VendorInv, spent.submits <= 1, outside.lost = 0, NEW g \in Groups
                 PROVE  /\ Cardinality(WithLines(g)) <= 1
                        /\ \A h \in Own(g) : fo[h].lines \in OnceLines
    BY DEF LinesOnce, OnceLines
  <2>2. WithLines(g) = LinesIn(fo, g)
    BY DEF WithLines, Own, Live, HeaderIds, LinesIn
  <2>3. \A h, k \in WithLines(g) : h = k
    BY <2>1, <2>2 DEF VendorInv, OneRequestInv, HeldInv
  <2>4. Cardinality(WithLines(g)) <= 1
    <3>1. CASE WithLines(g) = {}
      BY <3>1, FS_EmptySet
    <3>2. CASE WithLines(g) # {}
      <4>1. PICK h : WithLines(g) = {h}
        BY <2>3, <3>2
      <4>2. Cardinality({h}) = 1
        BY FS_Singleton
      <4>3. QED
        BY <4>1, <4>2
    <3>3. QED
      BY <3>1, <3>2
  <2>5. \A h \in Own(g) : fo[h].lines \in OnceLines
    BY <2>1 DEF VendorInv, NotRepeated, Own, Live
  <2>6. QED
    BY <2>4, <2>5
<1>2. QED
  BY <1>1, VendorInvariant, PTL

(* While a batch has had one request, every journal that has lines is      *)
(* recorded in its durable groups, through every fault, lost answer,       *)
(* pause, crash and retry; except that a deletion and a crash together may *)
(* leave a run whose groups are gone (recordGroup, deleteDurableJob).      *)
THEOREM VendorKnown ==
  VendorSpec => [](spent.submits <= 1 /\ (spent.deletes = 0 \/ spent.crashes = 0)
                     => JournalsAreKnown)
<1>1. VendorInv => (spent.submits <= 1 /\ (spent.deletes = 0 \/ spent.crashes = 0)
                      => JournalsAreKnown)
  <2>1. SUFFICES ASSUME VendorInv, spent.submits <= 1,
                        spent.deletes = 0 \/ spent.crashes = 0,
                        batch.exists, ctl # "deleteBatch", NEW g \in Groups,
                        NEW h \in WithLines(g)
                 PROVE  h \in Recorded
    BY DEF JournalsAreKnown
  <2>2. WithLines(g) = LinesIn(fo, g)
    BY DEF WithLines, Own, Live, HeaderIds, LinesIn
  <2>3. HeldInv /\ PurgeInv /\ VendorTyped
    BY <2>1 DEF VendorInv, OneRequestInv
  <2>4. fo # <<>>
    BY <2>1, <2>2 DEF LinesIn
  <2>5. ~Gone(g)
    BY <2>1, <2>3, <2>4 DEF PurgeInv
  <2>6. h = groups[g].header /\ h \in HeaderIds
    BY <2>1, <2>2, <2>3, <2>5 DEF HeldInv, HeldBy, LinesIn, HeaderIds
  <2>7. QED
    BY <2>1, <2>3, <2>6, SeqFacts DEF Recorded
<1>2. QED
  BY <1>1, VendorInvariant, PTL
=============================================================================
