---------------------------- MODULE DurableQueue ----------------------------
(***************************************************************************)
(* The durable posting queue of one data batch, without the part that      *)
(* writes journals: the batch document, the durable job and its journal    *)
(* groups in MongoDB (QueueJobStoreService), the BullMQ job in Redis, the  *)
(* post-to-DFO handlers that submit a batch (QueueService.addDurableJob),  *)
(* pause / resume / delete (BatchPostingControlService), the wrapper every *)
(* posting processor runs (processJob and the head of its group loop) and  *)
(* the reconciliation at boot (QueueRecoveryService).                      *)
(*                                                                         *)
(* An action is the code between two awaits that touch shared state.  The  *)
(* worker modules (LedgerPosting, ...) extend this one with the steps from *)
(* pc "open" to pc "complete", with "caught" and "settle", and with where  *)
(* a failing MongoDB call goes.                                            *)
(***************************************************************************)
EXTENDS Naturals, Sequences, FiniteSets

CONSTANTS
  N,                 \* journal groups of the batch
  MaxAttempts,       \* attempts given to every durable job (3 in the code)
  MaxStalled,        \* BullMQ's maxStalledCount (1 by default)
  Submitters,        \* concurrent post-to-DFO requests
  SubmitChecksPause, \* TRUE for the cash handler, which rejects a paused batch
  AlreadyMarksPosted,\* TRUE for the handlers that set Posted on a duplicate
  MaxHeaders,        \* bound: journals Finance ever creates
  MaxSubmits,        \* bound: accepted post-to-DFO requests
  MaxPauses,         \* bound: pause requests
  MaxDeletes,        \* bound: delete requests
  MaxFaults,         \* bound: failed MongoDB calls and lost answers
  MaxCrashes         \* bound: process crashes

ASSUME DurableQueueAssumption ==
  /\ N \in Nat \ {0} /\ MaxAttempts \in Nat \ {0} /\ MaxStalled \in Nat
  /\ SubmitChecksPause \in BOOLEAN /\ AlreadyMarksPosted \in BOOLEAN
  /\ {MaxHeaders, MaxSubmits, MaxPauses, MaxDeletes, MaxFaults, MaxCrashes}
       \subseteq Nat

VARIABLES
  batch,   \* the data_batches document
  job,     \* the queue_jobs document
  groups,  \* the queue_job_groups documents
  redis,   \* the BullMQ job
  fo,      \* the journals Finance has created, by journal number
  worker,  \* the processor run and its local variables
  subs,    \* progress of each post-to-DFO request
  ctl,     \* progress of the pause / resume / delete request
  boot,    \* progress of the reconciliation at boot
  spent    \* how much of each bound has been used

vars == <<batch, job, groups, redis, fo, worker, subs, ctl, boot, spent>>

Groups == 1..N
NoHeader == 0
HeaderIds == 1..Len(fo)

BatchStatus == {"PendingPosting", "Posting", "Posted", "Canceled"}
JobStatus == {"none", "queued", "active", "retrying", "paused", "completed",
              "failed"}
RedisState == {"absent", "waiting", "active", "delayed", "completed", "failed"}
Running == {"waiting", "active", "delayed"}
Recoverable == {"queued", "active", "retrying"}

Absent == [status |-> "absent", header |-> NoHeader]
Pending == [status |-> "pending", header |-> NoHeader]
NoGroups == [g \in Groups |-> Absent]
NewRedisJob == [state |-> "waiting", attempts |-> 0, stalled |-> 0]
NoRedisJob == [state |-> "absent", attempts |-> 0, stalled |-> 0]

IdleWorker ==
  [pc |-> "idle", attempt |-> 0, snap |-> NoGroups, at |-> 0, key |-> NoHeader,
   created |-> <<>>, undo |-> 0, failed |-> {}]

Init ==
  /\ batch = [exists |-> TRUE, status |-> "PendingPosting", paused |-> FALSE,
              dfoIds |-> {}]
  /\ job = [status |-> "none", completed |-> 0]
  /\ groups = NoGroups
  /\ redis = NoRedisJob
  /\ fo = <<>>
  /\ worker = IdleWorker
  /\ subs = [s \in Submitters |-> "idle"]
  /\ ctl = "idle"
  /\ boot = "done"
  /\ spent = [submits |-> 0, pauses |-> 0, deletes |-> 0, faults |-> 0,
              crashes |-> 0]

Spend(what, bound) == /\ spent[what] < bound
                      /\ spent' = [spent EXCEPT ![what] = @ + 1]

-----------------------------------------------------------------------------
(* MongoDB updates: an updateOne on a missing document changes nothing.    *)

SetBatchStatus(s) ==
  batch' = IF batch.exists THEN [batch EXCEPT !.status = s] ELSE batch
SetBatchPaused(p) ==
  batch' = IF batch.exists THEN [batch EXCEPT !.paused = p] ELSE batch
AddDfoIds(ids) ==
  batch' = IF batch.exists THEN [batch EXCEPT !.dfoIds = @ \cup ids] ELSE batch

SetJobStatus(s) ==
  job' = IF job.status = "none" THEN job ELSE [job EXCEPT !.status = s]

SetGroup(g, rec) ==
  groups' = IF groups[g].status = "absent" THEN groups
            ELSE [groups EXCEPT ![g] = rec]

CompletedGroups == {g \in Groups : groups[g].status = "completed"}

(* Mutant: only groups still active are put back.                          *)
AfterRollbackActiveOnly(rec, cleared, retained) ==
  IF rec.status = "active" /\ rec.header \in cleared \cup {NoHeader} THEN Pending
  ELSE rec

(* A group that resetAfterRollback puts back: its journal was rolled back, *)
(* or it was started without one; a retained journal keeps its group       *)
(* active.                                                                 *)
AfterRollback(rec, cleared, retained) ==
  IF \/ rec.header \in cleared
     \/ rec.status = "active" /\ rec.header = NoHeader
  THEN Pending
  ELSE IF rec.header \in retained THEN [rec EXCEPT !.status = "active"] ELSE rec

(* Mutant: the counter is not taken again.                                 *)
resetAfterRollbackUncounted(attempted, retained) ==
  /\ groups' = [g \in Groups |->
                  IF groups[g].status = "absent" THEN groups[g]
                  ELSE AfterRollback(groups[g], attempted \ retained, retained)]
  /\ UNCHANGED job

resetAfterRollback(attempted, retained) ==
  /\ groups' = [g \in Groups |->
                  IF groups[g].status = "absent" THEN groups[g]
                  ELSE AfterRollback(groups[g], attempted \ retained, retained)]
  /\ job' = IF job.status = "none" THEN job
            ELSE [job EXCEPT !.completed =
                    Cardinality({g \in Groups : groups'[g].status = "completed"})]

-----------------------------------------------------------------------------
(* Post-to-DFO request: validateBatch, prepareBatchForPosting, then        *)
(* addDurableJob with the job store's prepare and replace.                 *)

SubGoto(s, pc) == subs' = [subs EXCEPT ![s] = pc]

(* Mutant: a batch that has been posted is accepted again.                 *)
SubmitValidatePosted(s) ==
  /\ subs[s] = "idle"
  /\ batch.exists
  /\ batch.status # "Posting"
  /\ SubmitChecksPause => ~batch.paused
  /\ Spend("submits", MaxSubmits)
  /\ SubGoto(s, "prepare")
  /\ UNCHANGED <<batch, job, groups, redis, fo, worker, ctl, boot>>

SubmitValidate(s) ==
  /\ subs[s] = "idle"
  /\ batch.exists
  /\ batch.status \notin {"Posting", "Posted"}
  /\ SubmitChecksPause => ~batch.paused
  /\ Spend("submits", MaxSubmits)
  /\ SubGoto(s, "prepare")
  /\ UNCHANGED <<batch, job, groups, redis, fo, worker, ctl, boot>>

SubmitPrepare(s) ==
  /\ subs[s] = "prepare"
  /\ SetBatchStatus("Posting")
  /\ SubGoto(s, "lookup")
  /\ UNCHANGED <<job, groups, redis, fo, worker, ctl, boot, spent>>

SubmitLookup(s) ==
  /\ subs[s] = "lookup"
  /\ SubGoto(s, CASE redis.state = "absent" -> "storePrepare"
                  [] redis.state = "failed" -> "remove"
                  [] redis.state = "completed" ->
                       IF AlreadyMarksPosted THEN "markPosted" ELSE "idle"
                  [] OTHER -> "idle")
  /\ UNCHANGED <<batch, job, groups, redis, fo, worker, ctl, boot, spent>>

SubmitMarkPosted(s) ==
  /\ subs[s] = "markPosted"
  /\ SetBatchStatus("Posted")
  /\ SubGoto(s, "idle")
  /\ UNCHANGED <<job, groups, redis, fo, worker, ctl, boot, spent>>

SubmitRemoveFailed(s) ==
  /\ subs[s] = "remove"
  /\ \/ /\ redis.state # "active"
        /\ redis' = NoRedisJob
        /\ SubGoto(s, "deleteGroups")
     \/ /\ redis.state = "active"
        /\ SubGoto(s, "idle")
        /\ UNCHANGED redis
  /\ UNCHANGED <<batch, job, groups, fo, worker, ctl, boot, spent>>

SubmitStorePrepare(s) ==
  /\ subs[s] = "storePrepare"
  /\ SubGoto(s, IF job.status \in Recoverable THEN "add" ELSE "deleteGroups")
  /\ UNCHANGED <<batch, job, groups, redis, fo, worker, ctl, boot, spent>>

ReplaceDeleteGroups(s) ==
  /\ subs[s] = "deleteGroups"
  /\ groups' = NoGroups
  /\ SubGoto(s, "insertGroups")
  /\ UNCHANGED <<batch, job, redis, fo, worker, ctl, boot, spent>>

(* The unique index (jobId, index) rejects the second of two replaces.     *)
ReplaceInsertGroups(s) ==
  /\ subs[s] = "insertGroups"
  /\ \/ /\ groups = NoGroups
        /\ groups' = [g \in Groups |-> Pending]
        /\ SubGoto(s, "upsertJob")
     \/ /\ groups # NoGroups
        /\ SubGoto(s, "idle")
        /\ UNCHANGED groups
  /\ UNCHANGED <<batch, job, redis, fo, worker, ctl, boot, spent>>

ReplaceUpsertJob(s) ==
  /\ subs[s] = "upsertJob"
  /\ job' = [status |-> "queued", completed |-> 0]
  /\ SubGoto(s, "add")
  /\ UNCHANGED <<batch, groups, redis, fo, worker, ctl, boot, spent>>

(* queue.add with the id of a job that exists keeps the existing job.      *)
SubmitAdd(s) ==
  /\ subs[s] = "add"
  /\ redis' = IF redis.state = "absent" THEN NewRedisJob ELSE redis
  /\ SubGoto(s, "idle")
  /\ UNCHANGED <<batch, job, groups, fo, worker, ctl, boot, spent>>

Submit(s) ==
  \/ SubmitValidate(s) \/ SubmitPrepare(s) \/ SubmitLookup(s)
  \/ SubmitMarkPosted(s) \/ SubmitRemoveFailed(s) \/ SubmitStorePrepare(s)
  \/ ReplaceDeleteGroups(s) \/ ReplaceInsertGroups(s) \/ ReplaceUpsertJob(s)
  \/ SubmitAdd(s)

-----------------------------------------------------------------------------
(* Pause, resume and delete, one request at a time (they come from the     *)
(* same two screens).  Each is a read of the batch followed by writes that *)
(* do not look at it again.                                                *)

PauseRead ==
  /\ ctl = "idle"
  /\ batch.exists /\ batch.status # "Posted" /\ ~batch.paused
  /\ Spend("pauses", MaxPauses)
  /\ ctl' = "pauseSet"
  /\ UNCHANGED <<batch, job, groups, redis, fo, worker, subs, boot>>

PauseSet ==
  /\ ctl = "pauseSet"
  /\ SetBatchPaused(TRUE)
  /\ ctl' = "idle"
  /\ UNCHANGED <<job, groups, redis, fo, worker, subs, boot, spent>>

ResumeRead ==
  /\ ctl = "idle"
  /\ batch.exists /\ batch.paused
  /\ ctl' = "resumeClear"
  /\ UNCHANGED <<batch, job, groups, redis, fo, worker, subs, boot, spent>>

ResumeClear ==
  /\ ctl = "resumeClear"
  /\ SetBatchPaused(FALSE)
  /\ ctl' = "resumeFind"
  /\ UNCHANGED <<job, groups, redis, fo, worker, subs, boot, spent>>

ResumeFindJob ==
  /\ ctl = "resumeFind"
  /\ ctl' = IF job.status = "paused" THEN "requeueCheck" ELSE "idle"
  /\ UNCHANGED <<batch, job, groups, redis, fo, worker, subs, boot, spent>>

(* requeueDurableJob: nothing to do while the Redis job runs, otherwise    *)
(* the finished job makes room for a new one with the same id.             *)
RequeueCheck ==
  /\ ctl = "requeueCheck"
  /\ \/ /\ redis.state \in Running
        /\ ctl' = "idle"
        /\ UNCHANGED redis
     \/ /\ redis.state \notin Running
        /\ redis' = NoRedisJob
        /\ ctl' = "requeueAdd"
  /\ UNCHANGED <<batch, job, groups, fo, worker, subs, boot, spent>>

RequeueAdd ==
  /\ ctl = "requeueAdd"
  /\ redis' = IF redis.state = "absent" THEN NewRedisJob ELSE redis
  /\ ctl' = "markQueued"
  /\ UNCHANGED <<batch, job, groups, fo, worker, subs, boot, spent>>

MarkQueued ==
  /\ ctl = "markQueued"
  /\ SetJobStatus("queued")
  /\ ctl' = "idle"
  /\ UNCHANGED <<batch, groups, redis, fo, worker, subs, boot, spent>>

DeleteRead ==
  /\ ctl = "idle"
  /\ batch.exists
  /\ Spend("deletes", MaxDeletes)
  /\ ctl' = "deletePause"
  /\ UNCHANGED <<batch, job, groups, redis, fo, worker, subs, boot>>

DeletePause ==
  /\ ctl = "deletePause"
  /\ SetBatchPaused(TRUE)
  /\ ctl' = "deleteRedis"
  /\ UNCHANGED <<job, groups, redis, fo, worker, subs, boot, spent>>

(* A worker's lock makes remove() refuse an active job; the others go.     *)
DeleteRedisJob ==
  /\ ctl = "deleteRedis"
  /\ redis' = IF redis.state \in {"waiting", "delayed"} THEN NoRedisJob
              ELSE redis
  /\ ctl' = "deletePurge"
  /\ UNCHANGED <<batch, job, groups, fo, worker, subs, boot, spent>>

DeletePurge ==
  /\ ctl = "deletePurge"
  /\ job' = [status |-> "none", completed |-> 0]
  /\ groups' = NoGroups
  /\ ctl' = "deleteBatch"
  /\ UNCHANGED <<batch, redis, fo, worker, subs, boot, spent>>

DeleteBatch ==
  /\ ctl = "deleteBatch"
  /\ batch' = [batch EXCEPT !.exists = FALSE]
  /\ ctl' = "idle"
  /\ UNCHANGED <<job, groups, redis, fo, worker, subs, boot, spent>>

Control ==
  \/ PauseRead \/ PauseSet
  \/ ResumeRead \/ ResumeClear \/ ResumeFindJob
  \/ RequeueCheck \/ RequeueAdd \/ MarkQueued
  \/ DeleteRead \/ DeletePause \/ DeleteRedisJob \/ DeletePurge \/ DeleteBatch

-----------------------------------------------------------------------------
(* BullMQ: one worker process with concurrency 1.                          *)

PickUp ==
  /\ worker.pc = "idle" /\ redis.state = "waiting"
  /\ redis' = [redis EXCEPT !.state = "active"]
  /\ worker' = [IdleWorker EXCEPT !.pc = "start", !.attempt = redis.attempts]
  /\ UNCHANGED <<batch, job, groups, fo, subs, ctl, boot, spent>>

PromoteDelayed ==
  /\ redis.state = "delayed"
  /\ redis' = [redis EXCEPT !.state = "waiting"]
  /\ UNCHANGED <<batch, job, groups, fo, worker, subs, ctl, boot, spent>>

(* The lock of a crashed worker expires.                                   *)
Stalled ==
  /\ worker.pc = "idle" /\ redis.state = "active"
  /\ redis' = IF redis.stalled < MaxStalled
              THEN [redis EXCEPT !.state = "waiting",
                                 !.stalled = redis.stalled + 1]
              ELSE [redis EXCEPT !.state = "failed"]
  /\ UNCHANGED <<batch, job, groups, fo, worker, subs, ctl, boot, spent>>

-----------------------------------------------------------------------------
(* The processor: processJob and the head and tail of its group loop.      *)

Goto(pc) == worker' = [worker EXCEPT !.pc = pc]

Unposted == {g \in Groups : g > worker.at /\ worker.snap[g].status # "completed"}

MarkActive ==
  /\ worker.pc = "start"
  /\ SetJobStatus("active")
  /\ Goto("list")
  /\ UNCHANGED <<batch, groups, redis, fo, subs, ctl, boot, spent>>

(* Finding no group throws before anything could need a rollback.          *)
ListGroups ==
  /\ worker.pc = "list"
  /\ worker' = [worker EXCEPT !.snap = groups,
                  !.pc = IF groups = NoGroups THEN "fail" ELSE "check"]
  /\ UNCHANGED <<batch, job, groups, redis, fo, subs, ctl, boot, spent>>

(* Mutant: the pause flag is read once per run.                            *)
CheckPauseOnce ==
  /\ worker.pc = "check"
  /\ LET stop == worker.at = 0 /\ (batch.paused \/ ~batch.exists)
     IN  \/ Unposted = {} /\ Goto("settle")
         \/ Unposted # {} /\ stop /\ Goto("stop")
         \/ ~stop /\ \E g \in Unposted :
              /\ \A k \in Unposted : g <= k
              /\ worker' = [worker EXCEPT !.pc = "markGroup", !.at = g]
  /\ UNCHANGED <<batch, job, groups, redis, fo, subs, ctl, boot, spent>>

CheckPause ==
  /\ worker.pc = "check"
  /\ \/ Unposted = {} /\ Goto("settle")
     \/ Unposted # {} /\ (batch.paused \/ ~batch.exists) /\ Goto("stop")
     \/ ~batch.paused /\ batch.exists /\ \E g \in Unposted :
          /\ \A k \in Unposted : g <= k
          /\ worker' = [worker EXCEPT !.pc = "markGroup", !.at = g]
  /\ UNCHANGED <<batch, job, groups, redis, fo, subs, ctl, boot, spent>>

RecordWorkerStopped ==
  /\ worker.pc = "stop"
  /\ SetJobStatus("paused")
  /\ Goto("return")
  /\ UNCHANGED <<batch, groups, redis, fo, subs, ctl, boot, spent>>

MarkGroupActive ==
  /\ worker.pc = "markGroup"
  /\ SetGroup(worker.at, [groups[worker.at] EXCEPT !.status = "active"])
  /\ Goto("open")
  /\ UNCHANGED <<batch, job, redis, fo, subs, ctl, boot, spent>>

CompleteGroup ==
  /\ worker.pc = "complete"
  /\ SetGroup(worker.at, [groups[worker.at] EXCEPT !.status = "completed"])
  /\ Goto(IF groups[worker.at].status \in {"pending", "active"}
          THEN "count" ELSE "check")
  /\ UNCHANGED <<batch, job, redis, fo, subs, ctl, boot, spent>>

CountGroup ==
  /\ worker.pc = "count"
  /\ job' = IF job.status = "none" THEN job
            ELSE [job EXCEPT !.completed = @ + 1]
  /\ Goto("check")
  /\ UNCHANGED <<batch, groups, redis, fo, subs, ctl, boot, spent>>

MarkCompleted ==
  /\ worker.pc = "finish"
  /\ SetJobStatus("completed")
  /\ Goto("return")
  /\ UNCHANGED <<batch, groups, redis, fo, subs, ctl, boot, spent>>

(* Mutant: attemptsMade is compared as if it counted this attempt.         *)
isFinalAttemptLate == worker.attempt >= MaxAttempts

isFinalAttempt == worker.attempt + 1 >= MaxAttempts

FailJob ==
  /\ worker.pc = "fail"
  /\ SetJobStatus(IF isFinalAttempt THEN "failed" ELSE "retrying")
  /\ Goto(IF isFinalAttempt THEN "cancel" ELSE "throw")
  /\ UNCHANGED <<batch, groups, redis, fo, subs, ctl, boot, spent>>

CancelBatch ==
  /\ worker.pc = "cancel"
  /\ SetBatchStatus("Canceled")
  /\ Goto("throw")
  /\ UNCHANGED <<job, groups, redis, fo, subs, ctl, boot, spent>>

(* BullMQ's half of a run that returned or threw; a job that is no longer  *)
(* active is left alone.                                                   *)
Return ==
  /\ worker.pc = "return"
  /\ redis' = IF redis.state = "active" THEN [redis EXCEPT !.state = "completed"]
              ELSE redis
  /\ worker' = IdleWorker
  /\ UNCHANGED <<batch, job, groups, fo, subs, ctl, boot, spent>>

Throw ==
  /\ worker.pc = "throw"
  /\ redis' = IF redis.state = "active"
              THEN [redis EXCEPT !.attempts = redis.attempts + 1,
                      !.state = IF redis.attempts + 1 < MaxAttempts
                                THEN "delayed" ELSE "failed"]
              ELSE redis
  /\ worker' = IdleWorker
  /\ UNCHANGED <<batch, job, groups, fo, subs, ctl, boot, spent>>

Processor ==
  \/ MarkActive \/ ListGroups \/ CheckPause \/ RecordWorkerStopped
  \/ MarkGroupActive \/ CompleteGroup \/ CountGroup \/ MarkCompleted
  \/ FailJob \/ CancelBatch \/ Return \/ Throw

-----------------------------------------------------------------------------
(* A crash loses every local variable; MongoDB, Redis and Finance stay.    *)

Crash ==
  /\ Spend("crashes", MaxCrashes)
  /\ worker' = IdleWorker
  /\ subs' = [s \in Submitters |-> "idle"]
  /\ ctl' = "idle"
  /\ boot' = "release"
  /\ UNCHANGED <<batch, job, groups, redis, fo>>

(* releaseOrphanedActiveJobs: the Mongo status is read first; in the step  *)
(* after, the job is failed as by its worker, which delays it if it has    *)
(* attempts left, and removed unless a worker's lock still holds it.       *)
ReleaseRead ==
  /\ boot = "release"
  /\ boot' = IF redis.state = "active" /\ job.status \notin {"active", "retrying"}
             THEN "force" ELSE "restore"
  /\ UNCHANGED <<batch, job, groups, redis, fo, worker, subs, ctl, spent>>

ForceRemove ==
  /\ boot = "force"
  /\ \/ worker.pc = "idle" /\ redis' = NoRedisJob
     \/ redis' = IF redis.state = "active"
                 THEN [redis EXCEPT !.attempts = redis.attempts + 1,
                         !.state = IF redis.attempts + 1 < MaxAttempts
                                   THEN "delayed" ELSE "failed"]
                 ELSE redis
  /\ boot' = "restore"
  /\ UNCHANGED <<batch, job, groups, fo, worker, subs, ctl, spent>>

Restore ==
  /\ boot = "restore"
  /\ redis' = IF job.status \in Recoverable /\ redis.state = "absent"
              THEN NewRedisJob ELSE redis
  /\ boot' = "done"
  /\ UNCHANGED <<batch, job, groups, fo, worker, subs, ctl, spent>>

Boot == ReleaseRead \/ ForceRemove \/ Restore

(* Nothing is under way and nothing will happen without a new request.     *)
Quiescent ==
  /\ worker.pc = "idle" /\ ctl = "idle" /\ boot = "done"
  /\ \A s \in Submitters : subs[s] = "idle"
  /\ redis.state \notin Running
=============================================================================
