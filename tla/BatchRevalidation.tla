-------------------------- MODULE BatchRevalidation --------------------------
(***************************************************************************)
(* The life of one data batch before it is posted: the uploads that create *)
(* it (DataBatchService.createAsync), its revalidation by the reprocess    *)
(* queue (QueueService.enqueueBatchReprocess, DataBatchReprocessProcessor, *)
(* DataBatchService.reprocessBatchAsync), the head of a post-to-DFO        *)
(* request, and its deletion.                                              *)
(*                                                                         *)
(* An action is the code between two awaits that touch shared state.  The  *)
(* records of a collection are "none", "part" or "all" of what is to be    *)
(* inserted; what a row says is one bit: the customer it names is missing  *)
(* from the local master data or not.  Enhanced records and error records  *)
(* of a validation run are inserted and deleted together here; the fields  *)
(* that only report the last revalidation are left out.                    *)
(***************************************************************************)
EXTENDS Naturals, FiniteSets

CONSTANTS
  Uploaders,     \* uploads of the same file
  Requesters,    \* reprocess requests
  Submitters,    \* post-to-DFO requests
  EarlyUse,      \* TRUE: users also act on a batch whose upload is going on
  MaxRuns,       \* bound: validation runs of the batch
  MaxTrouble,    \* bound: failed formattings, failed MongoDB calls and crashes
  MaxDeletes     \* bound: delete requests

ASSUME BatchAssumption ==
  /\ EarlyUse \in BOOLEAN /\ MaxRuns \in Nat \ {0}
  /\ {MaxTrouble, MaxDeletes} \subseteq Nat

VARIABLES
  batch,   \* the data_batches document
  src,     \* its source records
  rows,    \* its enhanced and error records, by validation run
  remedy,  \* its missing-master-data document (one customer)
  local,   \* that customer is in the local master data
  up,      \* progress of each upload
  req,     \* progress of each reprocess request
  queue,   \* the BullMQ job of the reprocess queue
  rp,      \* the reprocess worker and its local variables
  sub,     \* progress of each post-to-DFO request
  del,     \* progress of the delete request
  used     \* how much of each bound has been used

batchVars == <<batch, src, rows, remedy, local, up, req, queue, rp, sub, del, used>>

Runs == 1..MaxRuns
NoRun == 0
Extent == {"none", "part", "all"}

NoBatch == [status |-> "none", run |-> NoRun, runs |-> 0, errors |-> 0]
NoRemedy == [creation |-> "absent", reprocess |-> "not_started", data |-> FALSE]
IdleWorker == [pc |-> "idle", prev |-> NoRun, new |-> NoRun, read |-> "none",
               bad |-> FALSE, seen |-> NoRemedy]
IdleSub == [pc |-> "idle", run |-> NoRun, got |-> "none"]

Init ==
  /\ batch = NoBatch
  /\ src = "none"
  /\ rows = [r \in Runs |-> "none"]
  /\ remedy = NoRemedy
  /\ local \in BOOLEAN
  /\ up = [u \in Uploaders |-> "idle"]
  /\ req = [r \in Requesters |-> "idle"]
  /\ queue = [state |-> "absent", stalled |-> FALSE]
  /\ rp = IdleWorker
  /\ sub = [s \in Submitters |-> IdleSub]
  /\ del = "idle"
  /\ used = [rejects |-> 0, faults |-> 0, undoFaults |-> 0, crashes |-> 0,
             unanswered |-> 0, deletes |-> 0]

Trouble == used.rejects + used.faults + used.undoFaults + used.crashes + used.unanswered
Suffer(what) == /\ Trouble < MaxTrouble
                /\ used' = [used EXCEPT ![what] = @ + 1]

Exists == batch.status \notin {"none", "deleted"}
SetBatch(doc) == batch' = IF Exists THEN doc ELSE batch

(* Nobody has the id of a batch before its upload has been answered, but   *)
(* the list shows it, and a second upload of the file returns it, at once. *)
Uploaded == Exists /\ \E u \in Uploaders : up[u] = "answered"
Usable == Exists /\ (EarlyUse \/ Uploaded)

Grow(extent) == IF extent = "none" THEN "part" ELSE "all"

-----------------------------------------------------------------------------
(* createAsync.  The counts are taken from the validated rows, then the    *)
(* batch is created once per source fingerprint, then its records are      *)
(* inserted.  An upload that finds the batch is answered with it at once.  *)
(* A file uploaded again after its batch was deleted is left out: there is *)
(* one batch.                                                              *)

UpGoto(u, pc) == up' = [up EXCEPT ![u] = pc]

UploadFind(u) ==
  /\ up[u] = "idle" /\ batch.status # "deleted"
  /\ UpGoto(u, IF Exists THEN "found" ELSE "create")
  /\ UNCHANGED <<batch, src, rows, remedy, local, req, queue, rp, sub, del, used>>

(* The unique index on the fingerprint decides between two uploads.        *)
UploadCreate(u) ==
  /\ up[u] = "create" /\ batch.status # "deleted"
  /\ \/ /\ batch.status = "none"
        /\ batch' = [status |-> "PendingPosting", run |-> 1, runs |-> 1,
                     errors |-> IF local THEN 0 ELSE 1]
        /\ UpGoto(u, "source")
     \/ /\ batch.status # "none"
        /\ UpGoto(u, "found")
        /\ UNCHANGED batch
  /\ UNCHANGED <<src, rows, remedy, local, req, queue, rp, sub, del, used>>

UploadSource(u) ==
  /\ up[u] = "source"
  /\ src' = Grow(src)
  /\ UpGoto(u, IF src' = "all" THEN "rows" ELSE "source")
  /\ UNCHANGED <<batch, rows, remedy, local, req, queue, rp, sub, del, used>>

UploadRows(u) ==
  /\ up[u] = "rows"
  /\ rows' = [rows EXCEPT ![1] = Grow(rows[1])]
  /\ UpGoto(u, IF rows'[1] # "all" THEN "rows"
               ELSE IF batch.errors > 0 THEN "missing" ELSE "answered")
  /\ UNCHANGED <<batch, src, remedy, local, req, queue, rp, sub, del, used>>

UploadMissing(u) ==
  /\ up[u] = "missing"
  /\ remedy' = [remedy EXCEPT !.creation = "missing", !.reprocess = "not_started"]
  /\ UpGoto(u, "answered")
  /\ UNCHANGED <<batch, src, rows, local, req, queue, rp, sub, del, used>>

Upload(u) == \/ UploadFind(u) \/ UploadCreate(u) \/ UploadSource(u)
             \/ UploadRows(u) \/ UploadMissing(u)

-----------------------------------------------------------------------------
(* enqueueBatchReprocess and ReprocessBatchHandler.                        *)

ReqGoto(r, pc) == req' = [req EXCEPT ![r] = pc]

ReprocessLook(r) ==
  /\ req[r] = "idle" /\ Usable
  /\ ReqGoto(r, CASE queue.state = "absent" -> "add"
                  [] queue.state \in {"waiting", "active"} -> "done"
                  [] OTHER -> "remove")
  /\ UNCHANGED <<batch, src, rows, remedy, local, up, queue, rp, sub, del, used>>

ReprocessRemove(r) ==
  /\ req[r] = "remove"
  /\ \/ /\ queue.state # "active"
        /\ queue' = [state |-> "absent", stalled |-> FALSE]
        /\ ReqGoto(r, "add")
     \/ /\ queue.state = "active"
        /\ ReqGoto(r, "done")
        /\ UNCHANGED queue
  /\ UNCHANGED <<batch, src, rows, remedy, local, up, rp, sub, del, used>>

ReprocessAdd(r) ==
  /\ req[r] = "add"
  /\ queue' = IF queue.state = "absent" THEN [state |-> "waiting", stalled |-> FALSE]
              ELSE queue
  /\ ReqGoto(r, "done")
  /\ UNCHANGED <<batch, src, rows, remedy, local, up, rp, sub, del, used>>

Request(r) == ReprocessLook(r) \/ ReprocessRemove(r) \/ ReprocessAdd(r)

-----------------------------------------------------------------------------
(* The reprocess worker, one job at a time.                                *)

RpGoto(pc) == rp' = [rp EXCEPT !.pc = pc]

ReprocessPick ==
  /\ rp.pc = "idle" /\ queue.state = "waiting"
  /\ queue' = [queue EXCEPT !.state = "active"]
  /\ rp' = [IdleWorker EXCEPT !.pc = "claim"]
  /\ UNCHANGED <<batch, src, rows, remedy, local, up, req, sub, del, used>>

ReprocessStalled ==
  /\ rp.pc = "idle" /\ queue.state = "active"
  /\ queue' = IF queue.stalled THEN [queue EXCEPT !.state = "failed"]
              ELSE [state |-> "waiting", stalled |-> TRUE]
  /\ UNCHANGED <<batch, src, rows, remedy, local, up, req, rp, sub, del, used>>

ClaimForRevalidation ==
  /\ rp.pc = "claim" /\ batch.runs < MaxRuns
  /\ \/ /\ batch.status = "PendingPosting"
        /\ batch' = [batch EXCEPT !.status = "Revalidating"]
        /\ rp' = [rp EXCEPT !.pc = "read", !.prev = batch.run]
     \/ /\ batch.status # "PendingPosting"
        /\ RpGoto("failed")
        /\ UNCHANGED batch
  /\ UNCHANGED <<src, rows, remedy, local, up, req, queue, sub, del, used>>

ReadSource ==
  /\ rp.pc = "read"
  /\ rp' = [rp EXCEPT !.read = src, !.pc = IF src = "none" THEN "undo" ELSE "format"]
  /\ UNCHANGED <<batch, src, rows, remedy, local, up, req, queue, sub, del, used>>

FormatAndValidate ==
  /\ rp.pc = "format"
  /\ rp' = [rp EXCEPT !.pc = "insert", !.bad = ~local, !.new = batch.runs + 1]
  /\ batch' = [batch EXCEPT !.runs = @ + 1]
  /\ UNCHANGED <<src, rows, remedy, local, up, req, queue, sub, del, used>>

(* Formatting looks things up in Finance; a row may not even format.       *)
FormatFails ==
  /\ rp.pc = "format"
  /\ Suffer("rejects")
  /\ RpGoto("undo")
  /\ UNCHANGED <<batch, src, rows, remedy, local, up, req, queue, sub, del>>

InsertRows ==
  /\ rp.pc = "insert"
  /\ rows' = [rows EXCEPT ![rp.new] = Grow(rows[rp.new])]
  /\ RpGoto(IF rows'[rp.new] = rp.read THEN "list" ELSE "insert")
  /\ UNCHANGED <<batch, src, remedy, local, up, req, queue, sub, del, used>>

ListMissing ==
  /\ rp.pc = "list"
  /\ rp' = [rp EXCEPT !.seen = remedy, !.pc = "upsert"]
  /\ UNCHANGED <<batch, src, rows, remedy, local, up, req, queue, sub, del, used>>

(* The upsert writes back the states that were listed; a customer that is  *)
(* no longer missing is marked as created.                                 *)
UpsertMissing ==
  /\ rp.pc = "upsert"
  /\ remedy' =
       IF rp.bad
       THEN [remedy EXCEPT
               !.creation = IF rp.seen.creation = "absent" THEN "missing"
                            ELSE rp.seen.creation,
               !.reprocess = rp.seen.reprocess]
       ELSE IF rp.seen.creation = "absent" \/ remedy.creation = "absent" THEN remedy
       ELSE [remedy EXCEPT
               !.reprocess = "succeeded",
               !.creation = IF rp.seen.creation = "created" THEN @ ELSE "created"]
  /\ RpGoto("switch")
  /\ UNCHANGED <<batch, src, rows, local, up, req, queue, sub, del, used>>

SwitchRun ==
  /\ rp.pc = "switch"
  /\ SetBatch([batch EXCEPT !.status = "PendingPosting", !.run = rp.new,
                            !.errors = IF rp.bad THEN 1 ELSE 0])
  /\ RpGoto("clean")
  /\ UNCHANGED <<src, rows, remedy, local, up, req, queue, sub, del, used>>

(* The update takes effect but its answer is lost: the catch undoes what   *)
(* has become the active run.                                              *)
SwitchUnanswered ==
  /\ rp.pc = "switch"
  /\ Suffer("unanswered")
  /\ SetBatch([batch EXCEPT !.status = "PendingPosting", !.run = rp.new,
                            !.errors = IF rp.bad THEN 1 ELSE 0])
  /\ RpGoto("undo")
  /\ UNCHANGED <<src, rows, remedy, local, up, req, queue, sub, del>>

(* Mutant: the old run is kept.                                            *)
CleanOldRunKept ==
  /\ rp.pc = "clean"
  /\ RpGoto("completed")
  /\ UNCHANGED <<batch, src, rows, remedy, local, up, req, queue, sub, del, used>>

CleanOldRun ==
  /\ rp.pc = "clean"
  /\ rows' = [rows EXCEPT ![rp.prev] = "none"]
  /\ RpGoto("completed")
  /\ UNCHANGED <<batch, src, remedy, local, up, req, queue, sub, del, used>>

(* Failing calls: in the try they are undone, in the cleanup only logged.  *)
ReprocessFault ==
  /\ Suffer("faults")
  /\ \/ /\ rp.pc \in {"read", "format", "insert", "list", "upsert", "switch"}
        /\ RpGoto("undo")
     \/ rp.pc = "clean" /\ RpGoto("completed")
     \/ rp.pc = "claim" /\ RpGoto("failed")
  /\ UNCHANGED <<batch, src, rows, remedy, local, up, req, queue, sub, del>>

(* The catch of reprocessBatchAsync: the new rows, then the status.        *)
(* Mutant: it deletes the rows of the active run.                          *)
UndoDeletesPrevious ==
  /\ rp.pc = "undo"
  /\ rows' = IF rp.new = NoRun THEN rows ELSE [rows EXCEPT ![rp.prev] = "none"]
  /\ RpGoto("release")
  /\ UNCHANGED <<batch, src, remedy, local, up, req, queue, sub, del, used>>

UndoRows ==
  /\ rp.pc = "undo"
  /\ rows' = IF rp.new = NoRun THEN rows ELSE [rows EXCEPT ![rp.new] = "none"]
  /\ RpGoto("release")
  /\ UNCHANGED <<batch, src, remedy, local, up, req, queue, sub, del, used>>

(* Mutant: the status is left as it is.                                    *)
ReleaseForgotten ==
  /\ rp.pc = "release"
  /\ RpGoto("failed")
  /\ UNCHANGED <<batch, src, rows, remedy, local, up, req, queue, sub, del, used>>

ReleaseBatch ==
  /\ rp.pc = "release"
  /\ SetBatch([batch EXCEPT !.status = "PendingPosting"])
  /\ RpGoto("failed")
  /\ UNCHANGED <<src, rows, remedy, local, up, req, queue, sub, del, used>>

UndoFault ==
  /\ rp.pc \in {"undo", "release"}
  /\ Suffer("undoFaults")
  /\ RpGoto("failed")
  /\ UNCHANGED <<batch, src, rows, remedy, local, up, req, queue, sub, del>>

ReprocessReturns ==
  /\ rp.pc \in {"completed", "failed"}
  /\ queue' = [queue EXCEPT !.state = rp.pc]
  /\ rp' = IdleWorker
  /\ UNCHANGED <<batch, src, rows, remedy, local, up, req, sub, del, used>>

Reprocess ==
  \/ ClaimForRevalidation \/ ReadSource
  \/ FormatAndValidate \/ FormatFails \/ InsertRows \/ ListMissing
  \/ UpsertMissing \/ SwitchRun \/ SwitchUnanswered \/ CleanOldRun
  \/ ReprocessFault \/ UndoRows \/ ReleaseBatch \/ UndoFault \/ ReprocessReturns

-----------------------------------------------------------------------------
(* A post-to-DFO request up to the durable job (DurableQueue goes on from  *)
(* there), and the end of the posting.  The rows of the run are read with  *)
(* a cursor, some of them after the others.                                *)

SubSet(s, rec) == sub' = [sub EXCEPT ![s] = rec]

SubmitCheck(s) ==
  /\ sub[s].pc = "idle" /\ Usable
  /\ batch.status \notin {"Posting", "Posted", "Revalidating"}
  /\ SubSet(s, [IdleSub EXCEPT !.pc = "open"])
  /\ UNCHANGED <<batch, src, rows, remedy, local, up, req, queue, rp, del, used>>

SubmitOpenCursor(s) ==
  /\ sub[s].pc = "open"
  /\ SubSet(s, IF Exists THEN [pc |-> "read", run |-> batch.run, got |-> "none"]
               ELSE [IdleSub EXCEPT !.pc = "done"])
  /\ UNCHANGED <<batch, src, rows, remedy, local, up, req, queue, rp, del, used>>

(* A cursor that finds nothing any more has come to its end.               *)
SubmitRead(s) ==
  /\ sub[s].pc = "read"
  /\ LET more == IF rows[sub[s].run] = "all" THEN Grow(sub[s].got)
                 ELSE IF sub[s].got = "none" THEN rows[sub[s].run] ELSE sub[s].got
     IN  SubSet(s, [sub[s] EXCEPT
                      !.got = more,
                      !.pc = IF more = "none" THEN "done"
                             ELSE IF more = sub[s].got \/ more = "all" THEN "prepare"
                             ELSE "read"])
  /\ UNCHANGED <<batch, src, rows, remedy, local, up, req, queue, rp, del, used>>

SubmitPrepare(s) ==
  /\ sub[s].pc = "prepare"
  /\ SetBatch([batch EXCEPT !.status = "Posting"])
  /\ SubSet(s, [sub[s] EXCEPT !.pc = "posting"])
  /\ UNCHANGED <<src, rows, remedy, local, up, req, queue, rp, del, used>>

PostingEnded(s) ==
  /\ sub[s].pc = "posting"
  /\ \E end \in {"Posted", "Canceled"} : SetBatch([batch EXCEPT !.status = end])
  /\ SubSet(s, [sub[s] EXCEPT !.pc = "done"])
  /\ UNCHANGED <<src, rows, remedy, local, up, req, queue, rp, del, used>>

Submit(s) == \/ SubmitCheck(s) \/ SubmitOpenCursor(s) \/ SubmitRead(s)
             \/ SubmitPrepare(s) \/ PostingEnded(s)

-----------------------------------------------------------------------------
(* DeleteBatchHandler: queue work first, then all records at once.         *)

DeleteRead ==
  /\ del = "idle" /\ Usable
  /\ used.deletes < MaxDeletes
  /\ used' = [used EXCEPT !.deletes = @ + 1]
  /\ del' = "jobs"
  /\ UNCHANGED <<batch, src, rows, remedy, local, up, req, queue, rp, sub>>

DeleteJobs ==
  /\ del = "jobs"
  /\ queue' = IF queue.state = "waiting" THEN [queue EXCEPT !.state = "absent"] ELSE queue
  /\ del' = "records"
  /\ UNCHANGED <<batch, src, rows, remedy, local, up, req, rp, sub, used>>

DeleteRecords ==
  /\ del = "records"
  /\ batch' = [batch EXCEPT !.status = "deleted"]
  /\ src' = "none"
  /\ rows' = [r \in Runs |-> "none"]
  /\ remedy' = NoRemedy
  /\ del' = "idle"
  /\ UNCHANGED <<local, up, req, queue, rp, sub, used>>

Delete == DeleteRead \/ DeleteJobs \/ DeleteRecords

-----------------------------------------------------------------------------
(* The master-data synchronisation brings the customer.                    *)
SyncCustomer ==
  /\ ~local
  /\ local' = TRUE
  /\ UNCHANGED <<batch, src, rows, remedy, up, req, queue, rp, sub, del, used>>

(* A crash ends whatever the process was doing.                            *)
CrashBatch ==
  /\ Suffer("crashes")
  /\ up' = [u \in Uploaders |-> IF up[u] \in {"idle", "found", "answered"} THEN up[u] ELSE "failed"]
  /\ req' = [r \in Requesters |-> IF req[r] = "idle" THEN "idle" ELSE "done"]
  /\ sub' = [s \in Submitters |-> IF sub[s].pc \in {"idle", "posting"} THEN sub[s]
                                  ELSE [sub[s] EXCEPT !.pc = "done"]]
  /\ del' = "idle"
  /\ rp' = IdleWorker
  /\ UNCHANGED <<batch, src, rows, remedy, local, queue>>

Next ==
  \/ \E u \in Uploaders : Upload(u)
  \/ \E r \in Requesters : Request(r)
  \/ ReprocessPick \/ ReprocessStalled \/ Reprocess
  \/ \E s \in Submitters : Submit(s)
  \/ Delete \/ SyncCustomer \/ CrashBatch

Spec == Init /\ [][Next]_batchVars

(* BullMQ hands out and recovers jobs, the worker goes on.                 *)
ReprocessFairness ==
  /\ WF_batchVars(ReprocessPick) /\ WF_batchVars(ReprocessStalled)
  /\ WF_batchVars(Reprocess)
FairSpec == Spec /\ ReprocessFairness

-----------------------------------------------------------------------------
Statuses == {"none", "PendingPosting", "Revalidating", "Posting", "Posted",
             "Canceled", "deleted"}
Remedies == [creation : {"absent", "missing", "creating", "created", "create_failed"},
             reprocess : {"not_started", "pending", "succeeded"}, data : BOOLEAN]
WorkerPc == {"idle", "claim", "read", "format", "insert", "list", "upsert",
             "switch", "clean", "undo", "release", "completed", "failed"}

(* Every variable has its type.                                            *)
BatchTypeOK ==
  /\ batch \in [status : Statuses, run : Runs \cup {NoRun}, runs : Nat, errors : Nat]
  /\ src \in Extent /\ rows \in [Runs -> Extent]
  /\ remedy \in Remedies /\ local \in BOOLEAN
  /\ up \in [Uploaders -> {"idle", "create", "source", "rows", "missing", "answered",
                           "found", "failed"}]
  /\ req \in [Requesters -> {"idle", "remove", "add", "done"}]
  /\ queue \in [state : {"absent", "waiting", "active", "completed", "failed"},
                stalled : BOOLEAN]
  /\ rp \in [pc : WorkerPc, prev : Runs \cup {NoRun}, new : Runs \cup {NoRun},
             read : Extent, bad : BOOLEAN, seen : Remedies]
  /\ sub \in [Submitters -> [pc : {"idle", "open", "read", "prepare", "posting", "done"},
                             run : Runs \cup {NoRun}, got : Extent]]
  /\ del \in {"idle", "jobs", "records"}
  /\ used \in [rejects : Nat, faults : Nat, undoFaults : Nat, crashes : Nat,
              unanswered : Nat, deletes : Nat]

RowsComplete == src = "all" /\ rows[batch.run] = "all"

(* Once the upload has been answered, the records of the active validation *)
(* run are complete at every moment: a revalidation that fails, is undone, *)
(* or stops with the process never costs the batch its rows, unless it is  *)
(* the answer to the switch to the new run that got lost.                  *)
ActiveRunComplete == used.unanswered = 0 /\ Uploaded => RowsComplete

(* The same without the exception: a replacement that fails, in any way,   *)
(* keeps the active run, as the tests of the service say.  It does not     *)
(* hold: the catch deletes the run an unanswered switch has made active.   *)
FailureKeepsActiveRun == Uploaded => RowsComplete

(* No other run keeps rows, except one for each cleanup that failed or was *)
(* never reached, and for each switch that was applied but not answered.   *)
StaleRunsCounted ==
  Exists /\ rp.pc = "idle" =>
    Cardinality({r \in Runs \ {batch.run} : rows[r] # "none"})
      <= used.faults + used.undoFaults + used.crashes + used.unanswered

(* A revalidation gives the batch back, unless the process ends or the     *)
(* catch that gives it back fails itself.                                  *)
RevalidationEnds ==
  batch.status = "Revalidating" ~>
    batch.status # "Revalidating" \/ used.crashes > 0 \/ used.undoFaults > 0

(* A batch that is being revalidated is not posted: the post-to-DFO        *)
(* handlers refuse it.  It does not hold: they check the status long before*)
(* they set it, and a revalidation may claim the batch in between.         *)
RevalidatedIsNotPosted ==
  \A s \in Submitters :
    sub[s].pc = "posting" =>
      rp.pc \notin {"read", "format", "insert", "list", "upsert", "switch"}
=============================================================================
