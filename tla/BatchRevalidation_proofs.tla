---------------------- MODULE BatchRevalidation_proofs ----------------------
(***************************************************************************)
(* The records of a batch, for every number of uploads, requests, crashes  *)
(* and failures, as long as nobody acts on a batch whose upload has not    *)
(* been answered (EarlyUse = FALSE): the active run is complete at every   *)
(* moment, unless the answer to a switch got lost, and the runs that are   *)
(* left behind are no more than the cleanups and undos that failed.        *)
(*                                                                         *)
(* The argument: nothing but the upload moves before its answer (Unused),  *)
(* and the run a revalidation writes is newer than every run that is or    *)
(* was active until the switch makes it the active one (WorkerInv); the    *)
(* undo deletes the active one only after a switch without answer          *)
(* (KeptInv).  Between two revalidations a run with rows is either active  *)
(* or one of those left behind (StaleInv).                                 *)
(***************************************************************************)
EXTENDS BatchRevalidation, FiniteSetTheorems, TLAPS

Batches == [status : Statuses, run : Nat, runs : Nat, errors : Nat]
Uploads == {"idle", "create", "source", "rows", "missing", "answered", "found", "failed"}
Subs == [pc : {"idle", "open", "read", "prepare", "posting", "done"},
         run : Nat, got : Extent]
IsWorker(p) == p = [pc |-> p.pc, prev |-> p.prev, new |-> p.new, read |-> p.read,
                    bad |-> p.bad, seen |-> p.seen]

BatchTyped ==
  /\ batch \in Batches /\ batch.run <= batch.runs /\ batch.runs <= MaxRuns
  /\ src \in Extent /\ rows \in [Runs -> Extent]
  /\ up \in [Uploaders -> Uploads]
  /\ sub \in [Submitters -> Subs]
  /\ IsWorker(rp)

(* One upload creates the batch, and then writes its records.              *)
Creating(u) == up[u] \in {"source", "rows", "missing", "answered"}
Answered == \E u \in Uploaders : up[u] = "answered"
UploadInv ==
  /\ \A u, v \in Uploaders : Creating(u) /\ Creating(v) => u = v
  /\ batch.status = "none" => \A u \in Uploaders : ~Creating(u)
  /\ \A u \in Uploaders :
       /\ up[u] \in {"source", "rows", "missing"} => batch.run = 1
       /\ up[u] \in {"rows", "missing"} => src = "all"
       /\ up[u] = "missing" => rows[1] = "all"
  /\ Exists => batch.run >= 1

(* Nobody uses the batch before that.                                      *)
Unused ==
  ~Answered =>
    /\ batch.status \in {"none", "PendingPosting"}
    /\ rp.pc = "idle" /\ queue.state = "absent" /\ del = "idle"
    /\ \A r \in Requesters : req[r] = "idle"
    /\ \A s \in Submitters : sub[s].pc = "idle"

Written == {"insert", "list", "upsert", "switch"}
WorkerInv ==
  /\ rp.pc \in {"claim", "read", "format"} => rp.new = NoRun
  /\ rp.pc \in {"read", "format"} => batch.runs < MaxRuns
  /\ rp.pc \in Written => rp.new = batch.runs /\ rp.new > batch.run /\ rp.new \in Runs
  /\ rp.pc \in {"read", "format"} \cup Written => rp.prev = batch.run
  /\ rp.pc = "undo" => rp.new = NoRun \/ rp.new \in Runs
  /\ Exists =>
       /\ rp.pc \in {"format"} \cup Written => rp.read = "all"
       /\ rp.pc \in Written \ {"insert"} => rows[rp.new] = "all"
       /\ rp.pc = "clean" => rp.prev < batch.run

SubmitInv ==
  \A s \in Submitters :
    sub[s].pc \in {"read", "prepare", "posting"} => sub[s].run \in 1..batch.run

SourceKept == Uploaded => src = "all"

BatchInv == /\ BatchTyped /\ UploadInv /\ Unused /\ WorkerInv /\ SubmitInv
            /\ SourceKept

LEMMA BatchInvInit == Init => BatchInv
<1> SUFFICES ASSUME Init PROVE BatchInv
  OBVIOUS
<1>1. /\ batch.status = "none" /\ batch.run = 0 /\ batch.runs = 0 /\ batch \in Batches
      /\ src = "none" /\ rows \in [Runs -> Extent]
      /\ rp.pc = "idle" /\ IsWorker(rp) /\ queue.state = "absent" /\ del = "idle"
  BY DEF Init, NoBatch, NoRun, Batches, Statuses, Extent, IdleWorker, IsWorker
<1>2. /\ up \in [Uploaders -> Uploads] /\ \A u \in Uploaders : up[u] = "idle"
      /\ \A r \in Requesters : req[r] = "idle"
  BY DEF Init, Uploads
<1>3. sub \in [Submitters -> Subs] /\ \A s \in Submitters : sub[s].pc = "idle"
  BY DEF Init, IdleSub, Subs, NoRun, Extent
<1>4. BatchTyped
  BY <1>1, <1>2, <1>3, BatchAssumption DEF BatchTyped, Extent
<1>5. ~Exists
  BY <1>1 DEF Exists
<1>6. QED
  BY <1>1, <1>2, <1>3, <1>4, <1>5 DEF BatchInv, UploadInv, Creating, Unused, WorkerInv, Written,
     SubmitInv, SourceKept, Uploaded

(* Whoever uses the batch was given it by an answer.                       *)
LEMMA UsableIsAnswered ==
  ASSUME EarlyUse = FALSE, Usable PROVE Answered /\ Exists
BY DEF Usable, Uploaded, Answered

LEMMA Parts ==
  ASSUME BatchInv
  PROVE  /\ BatchTyped /\ UploadInv /\ Unused /\ WorkerInv /\ SubmitInv /\ SourceKept
         /\ batch \in Batches /\ batch.run <= batch.runs /\ batch.runs <= MaxRuns
         /\ src \in Extent /\ rows \in [Runs -> Extent]
         /\ up \in [Uploaders -> Uploads] /\ sub \in [Submitters -> Subs] /\ IsWorker(rp)
         /\ batch.run \in Nat /\ batch.runs \in Nat /\ MaxRuns \in Nat /\ MaxRuns >= 1
BY BatchAssumption DEF BatchInv, BatchTyped, Batches

LEMMA GrowExtent == \A e \in Extent : Grow(e) \in Extent /\ (e # "none" => Grow(e) = "all")
BY DEF Extent, Grow

-----------------------------------------------------------------------------
(* The uploads.                                                            *)

LEMMA UploadFindStep ==
  ASSUME BatchInv, NEW u \in Uploaders, up[u] \in {"idle", "create"},
         NEW pc \in {"found", "create"}, UpGoto(u, pc),
         UNCHANGED <<batch, src, rows, rp, queue, del, req, sub>>
  PROVE  BatchInv'
<1>1. /\ BatchTyped /\ UploadInv /\ Unused /\ WorkerInv /\ SubmitInv /\ SourceKept
      /\ up \in [Uploaders -> Uploads] /\ IsWorker(rp)
  BY Parts
<1>2. /\ up' \in [Uploaders -> Uploads] /\ up'[u] = pc
      /\ \A v \in Uploaders : v # u => up'[v] = up[v]
  BY <1>1 DEF UpGoto, Uploads
<1>3. BatchTyped'
  BY <1>1, <1>2 DEF BatchTyped, IsWorker
<1>4. \A v \in Uploaders :
        /\ Creating(v)' = Creating(v)
        /\ up'[v] \in {"source", "rows", "missing", "answered"} => up'[v] = up[v]
        /\ up'[v] = "answered" <=> up[v] = "answered"
  BY <1>2 DEF Creating
<1>5. UploadInv'
  BY <1>1, <1>4 DEF UploadInv, Exists
<1>6. Unused'
  BY <1>1, <1>4 DEF Unused, Answered
<1>7. WorkerInv' /\ SubmitInv'
  BY <1>1 DEF WorkerInv, SubmitInv, Exists
<1>8. SourceKept'
  BY <1>1, <1>4 DEF SourceKept, Uploaded, Exists
<1>9. QED
  BY <1>3, <1>5, <1>6, <1>7, <1>8 DEF BatchInv

(* The upload that creates the batch finds nothing under way.              *)
LEMMA UploadCreateStep ==
  ASSUME BatchInv, NEW u \in Uploaders, UploadCreate(u) PROVE BatchInv'
<1>1. /\ BatchTyped /\ UploadInv /\ Unused
      /\ up \in [Uploaders -> Uploads] /\ IsWorker(rp) /\ MaxRuns >= 1 /\ batch \in Batches
  BY Parts
<1>2. CASE batch.status # "none"
  <2>1. up[u] = "create" /\ UpGoto(u, "found")
        /\ UNCHANGED <<batch, src, rows, rp, queue, del, req, sub>>
    BY <1>2 DEF UploadCreate
  <2>2. QED
    BY <2>1, UploadFindStep
<1>3. CASE batch.status = "none"
  <2>1. \A v \in Uploaders : ~Creating(v)
    BY <1>1, <1>3 DEF UploadInv
  <2>2. ~Answered
    BY <2>1 DEF Answered, Creating
  <2>3. /\ UNCHANGED <<src, rows, rp, queue, del, req, sub>> /\ UpGoto(u, "source")
    BY <1>3 DEF UploadCreate
  <2>4. /\ batch' \in Batches /\ batch'.run = 1 /\ batch'.runs = 1
        /\ batch'.status = "PendingPosting"
    BY <1>3 DEF UploadCreate, Batches, Statuses
  <2>5. /\ up' \in [Uploaders -> Uploads] /\ up'[u] = "source"
        /\ \A v \in Uploaders : v # u => up'[v] = up[v]
    BY <1>1, <2>3 DEF UpGoto, Uploads
  <2>6. /\ rp.pc = "idle" /\ queue.state = "absent" /\ del = "idle"
        /\ \A r \in Requesters : req[r] = "idle"
        /\ \A s \in Submitters : sub[s].pc = "idle"
    BY <1>1, <2>2 DEF Unused
  <2>7. BatchTyped'
    BY <1>1, <2>3, <2>4, <2>5 DEF BatchTyped, IsWorker
  <2>8. UploadInv'
    BY <2>1, <2>4, <2>5 DEF UploadInv, Creating
  <2>9. Unused' /\ WorkerInv' /\ SubmitInv'
    BY <2>3, <2>4, <2>6 DEF Unused, WorkerInv, Written, SubmitInv
  <2>10. SourceKept'
    BY <2>1, <2>5 DEF SourceKept, Uploaded, Creating
  <2>11. QED
    BY <2>7, <2>8, <2>9, <2>10 DEF BatchInv
<1>4. QED
  BY <1>2, <1>3

(* The records are written by one upload, of the first run.                *)
LEMMA UploadWriteStep ==
  ASSUME BatchInv, NEW u \in Uploaders,
         UploadSource(u) \/ UploadRows(u) \/ UploadMissing(u)
  PROVE  BatchInv'
<1>1. /\ BatchTyped /\ UploadInv /\ Unused /\ MaxRuns >= 1 /\ MaxRuns \in Nat
      /\ up \in [Uploaders -> Uploads] /\ IsWorker(rp) /\ src \in Extent
      /\ rows \in [Runs -> Extent]
  BY Parts
<1>2. /\ up[u] \in {"source", "rows", "missing"}
      /\ UNCHANGED <<batch, rp, queue, del, req, sub>>
  BY DEF UploadSource, UploadRows, UploadMissing
<1>3. /\ Creating(u) /\ \A v \in Uploaders : Creating(v) => v = u
  BY <1>1, <1>2 DEF UploadInv, Creating
<1>4. ~Answered
  BY <1>2, <1>3 DEF Answered, Creating
<1>5. /\ rp.pc = "idle" /\ queue.state = "absent" /\ del = "idle"
      /\ \A r \in Requesters : req[r] = "idle"
      /\ \A s \in Submitters : sub[s].pc = "idle"
      /\ batch.status = "PendingPosting" /\ batch.run = 1 /\ 1 \in Runs
  BY <1>1, <1>2, <1>3, <1>4 DEF Unused, UploadInv, Runs
<1>6. PICK pc \in {"source", "rows", "missing", "answered"} :
        /\ UpGoto(u, pc) /\ src' \in Extent /\ rows' \in [Runs -> Extent]
        /\ pc # "source" => src' = "all"
        /\ pc \in {"missing", "answered"} => rows'[1] = "all"
  <2>1. CASE UploadSource(u)
    <3>1. src' \in Extent /\ rows' = rows /\ up[u] = "source"
      BY <1>1, <2>1, GrowExtent DEF UploadSource
    <3>2. QED
      BY <1>1, <2>1, <3>1 DEF UploadSource
  <2>2. CASE UploadRows(u)
    <3>1. src' = src /\ src = "all"
      BY <1>1, <2>2 DEF UploadRows, UploadInv
    <3>2. rows' \in [Runs -> Extent]
      BY <1>1, <1>5, <2>2, GrowExtent DEF UploadRows
    <3>3. QED
      BY <1>1, <2>2, <3>1, <3>2 DEF UploadRows
  <2>3. CASE UploadMissing(u)
    BY <1>1, <2>3 DEF UploadMissing, UploadInv
  <2>4. QED
    BY <2>1, <2>2, <2>3
<1>7. /\ up' \in [Uploaders -> Uploads] /\ up'[u] = pc
      /\ \A v \in Uploaders : v # u => up'[v] = up[v]
  BY <1>1, <1>6 DEF UpGoto, Uploads
<1>8. BatchTyped'
  BY <1>1, <1>2, <1>6, <1>7 DEF BatchTyped, IsWorker
<1>9. \A v \in Uploaders : Creating(v)' => v = u
  BY <1>3, <1>7 DEF Creating
<1>10. UploadInv'
  <2>1. \A v \in Uploaders : up'[v] \in {"source", "rows", "missing"} => v = u
    BY <1>9 DEF Creating
  <2>2. QED
    BY <1>2, <1>5, <1>6, <1>7, <1>9, <2>1 DEF UploadInv, Exists
<1>11. Unused' /\ WorkerInv' /\ SubmitInv'
  BY <1>2, <1>5 DEF Unused, WorkerInv, Written, SubmitInv
<1>12. SourceKept'
  BY <1>2, <1>5, <1>6, <1>7, <1>9 DEF SourceKept, Uploaded, Creating
<1>13. QED
  BY <1>8, <1>10, <1>11, <1>12 DEF BatchInv

LEMMA UploadStep ==
  ASSUME BatchInv, NEW u \in Uploaders, Upload(u) PROVE BatchInv'
<1>1. CASE UploadFind(u)
  <2>1. PICK pc \in {"found", "create"} :
          /\ up[u] = "idle" /\ UpGoto(u, pc)
          /\ UNCHANGED <<batch, src, rows, rp, queue, del, req, sub>>
    BY <1>1 DEF UploadFind
  <2>2. QED
    BY <2>1, UploadFindStep
<1>2. QED
  BY <1>1, UploadCreateStep, UploadWriteStep DEF Upload

-----------------------------------------------------------------------------
(* What the other steps have in common: the upload has been answered.      *)

LEMMA UsedStep ==
  ASSUME BatchTyped', UploadInv', WorkerInv', SubmitInv', SourceKept',
         Answered, up' = up
  PROVE  BatchInv'
BY DEF BatchInv, Unused, Answered

LEMMA KeepRecords ==
  ASSUME BatchInv, UNCHANGED <<batch, src, rows, up>>
  PROVE  UploadInv' /\ SourceKept'
<1>1. UploadInv /\ SourceKept
  BY Parts
<1>2. QED
  BY <1>1 DEF UploadInv, Creating, Exists, SourceKept, Uploaded

LEMMA QueueSteps ==
  ASSUME BatchInv, EarlyUse = FALSE,
         (\E r \in Requesters : Request(r)) \/ ReprocessStalled
  PROVE  BatchInv'
<1>1. /\ BatchTyped /\ WorkerInv /\ SubmitInv /\ Unused
  BY Parts
<1>2. UNCHANGED <<batch, src, rows, up, rp, sub>>
  BY DEF Request, ReprocessLook, ReprocessRemove, ReprocessAdd, ReprocessStalled
<1>3. Answered
  BY <1>1, UsableIsAnswered
  DEF Request, ReprocessLook, ReprocessRemove, ReprocessAdd, ReprocessStalled, Unused
<1>4. BatchTyped' /\ WorkerInv' /\ SubmitInv'
  BY <1>1, <1>2 DEF BatchTyped, IsWorker, WorkerInv, SubmitInv, Exists
<1>5. QED
  BY <1>2, <1>3, <1>4, KeepRecords, UsedStep

(* Only what the worker knows changes.                                     *)
LEMMA WorkerStep ==
  ASSUME BatchInv, Answered, IsWorker(rp)', WorkerInv', UNCHANGED <<batch, src, rows, up, sub>>
  PROVE  BatchInv'
<1>1. BatchTyped /\ SubmitInv
  BY Parts
<1>2. BatchTyped' /\ SubmitInv'
  BY <1>1 DEF BatchTyped, SubmitInv, Exists
<1>3. QED
  BY <1>2, KeepRecords, UsedStep

LEMMA WorkerAnswered == ASSUME BatchInv, rp.pc # "idle" PROVE Answered
BY Parts DEF Unused

-----------------------------------------------------------------------------
(* The reprocess worker.                                                   *)

(* Picking, reading, listing, failing and returning.                       *)
LEMMA QuietWorkerSteps ==
  ASSUME BatchInv,
         \/ ReprocessPick \/ ReadSource \/ FormatFails \/ ListMissing \/ UpsertMissing
         \/ ReprocessFault \/ UndoFault \/ ReprocessReturns
  PROVE  BatchInv'
<1>1. /\ WorkerInv /\ Unused /\ SourceKept /\ IsWorker(rp) /\ batch.run \in Nat
      /\ batch.runs \in Nat
  BY Parts
<1>2. UNCHANGED <<batch, src, rows, up, sub>>
  BY DEF ReprocessPick, ReadSource, FormatFails, ListMissing, UpsertMissing,
         ReprocessFault, UndoFault, ReprocessReturns
<1>3. Answered
  BY <1>1 DEF ReprocessPick, ReadSource, FormatFails, ListMissing, UpsertMissing,
         ReprocessFault, UndoFault, ReprocessReturns, Unused
<1>4. CASE ReprocessPick
  <2>1. IsWorker(rp)' /\ rp'.pc = "claim" /\ rp'.new = NoRun
    BY <1>4 DEF ReprocessPick, IdleWorker, IsWorker
  <2>2. WorkerInv'
    BY <2>1 DEF WorkerInv, Written
  <2>3. QED
    BY <1>2, <1>3, <2>1, <2>2, WorkerStep
<1>5. CASE ReprocessReturns
  <2>1. IsWorker(rp)' /\ rp'.pc = "idle"
    BY <1>5 DEF ReprocessReturns, IdleWorker, IsWorker
  <2>2. WorkerInv'
    BY <2>1 DEF WorkerInv, Written
  <2>3. QED
    BY <1>2, <1>3, <2>1, <2>2, WorkerStep
<1>6. CASE ReadSource
  <2>1. /\ IsWorker(rp)' /\ rp'.new = rp.new /\ rp'.prev = rp.prev /\ rp'.read = src
        /\ rp'.pc = (IF src = "none" THEN "undo" ELSE "format") /\ rp.pc = "read"
    BY <1>1, <1>6 DEF ReadSource, IsWorker
  <2>2. Exists => src = "all"
    BY <1>1, <1>3 DEF SourceKept, Uploaded, Answered
  <2>3. WorkerInv'
    BY <1>1, <1>2, <2>1, <2>2 DEF WorkerInv, Written, Exists
  <2>4. QED
    BY <1>2, <1>3, <2>1, <2>3, WorkerStep
<1>7. CASE ListMissing \/ UpsertMissing
  <2>1. /\ IsWorker(rp)' /\ rp'.new = rp.new /\ rp'.prev = rp.prev /\ rp'.read = rp.read
        /\ rp.pc \in {"list", "upsert"} /\ rp'.pc \in {"upsert", "switch"}
    <3>1. CASE ListMissing
      BY <1>1, <1>7, <3>1 DEF ListMissing, IsWorker
    <3>2. CASE UpsertMissing
      BY <1>1, <1>7, <3>2 DEF UpsertMissing, IsWorker, RpGoto
    <3>3. QED
      BY <1>7, <3>1, <3>2
  <2>2. WorkerInv'
    BY <1>1, <1>2, <2>1 DEF WorkerInv, Written, Exists
  <2>3. QED
    BY <1>2, <1>3, <2>1, <2>2, WorkerStep
<1>8. CASE FormatFails \/ ReprocessFault \/ UndoFault
  <2>1. /\ IsWorker(rp)' /\ rp'.new = rp.new
        /\ rp'.pc \in {"undo", "completed", "failed"}
        /\ rp'.pc = "undo" => rp.pc \in {"read", "format"} \cup Written
    <3>1. PICK pc \in {"undo", "completed", "failed"} :
            RpGoto(pc) /\ (pc = "undo" => rp.pc \in {"read", "format"} \cup Written)
      BY <1>8 DEF FormatFails, ReprocessFault, UndoFault, Written
    <3>2. QED
      BY <1>1, <3>1 DEF RpGoto, IsWorker
  <2>2. WorkerInv'
    BY <1>1, <1>2, <2>1 DEF WorkerInv, Written
  <2>3. QED
    BY <1>2, <1>3, <2>1, <2>2, WorkerStep
<1>9. QED
  BY <1>4, <1>5, <1>6, <1>7, <1>8

LEMMA ClaimStep ==
  ASSUME BatchInv, ClaimForRevalidation PROVE BatchInv'
<1>1. /\ BatchTyped /\ UploadInv /\ WorkerInv /\ SubmitInv /\ SourceKept
      /\ IsWorker(rp) /\ batch \in Batches
  BY Parts
<1>2. rp.pc = "claim" /\ batch.runs < MaxRuns /\ UNCHANGED <<src, rows, up, sub>>
  BY DEF ClaimForRevalidation
<1>3. Answered
  BY <1>2, WorkerAnswered
<1>4. CASE batch.status = "PendingPosting"
  <2>1. batch' = [batch EXCEPT !.status = "Revalidating"]
        /\ rp' = [rp EXCEPT !.pc = "read", !.prev = batch.run]
    BY <1>4 DEF ClaimForRevalidation
  <2>2. /\ batch' \in Batches /\ batch'.run = batch.run /\ batch'.runs = batch.runs
        /\ batch'.status = "Revalidating" /\ Exists /\ Exists'
    BY <1>1, <1>4, <2>1 DEF Batches, Statuses, Exists
  <2>3. IsWorker(rp)' /\ rp'.pc = "read" /\ rp'.prev = batch.run /\ rp'.new = rp.new
    BY <1>1, <2>1 DEF IsWorker
  <2>4. BatchTyped' /\ SubmitInv'
    BY <1>1, <1>2, <2>2, <2>3 DEF BatchTyped, SubmitInv
  <2>5. UploadInv' /\ SourceKept'
    BY <1>1, <1>2, <2>2 DEF UploadInv, Creating, SourceKept, Uploaded
  <2>6. WorkerInv'
    BY <1>1, <1>2, <2>2, <2>3 DEF WorkerInv, Written
  <2>7. QED
    BY <1>2, <1>3, <2>4, <2>5, <2>6, UsedStep
<1>5. CASE batch.status # "PendingPosting"
  <2>1. RpGoto("failed") /\ batch' = batch
    BY <1>5 DEF ClaimForRevalidation
  <2>2. IsWorker(rp)' /\ rp'.pc = "failed"
    BY <1>1, <2>1 DEF RpGoto, IsWorker
  <2>3. WorkerInv'
    BY <2>2 DEF WorkerInv, Written
  <2>4. QED
    BY <1>2, <1>3, <2>1, <2>2, <2>3, WorkerStep
<1>6. QED
  BY <1>4, <1>5

(* The new run is newer than every run there has been.                     *)
LEMMA FormatStep ==
  ASSUME BatchInv, FormatAndValidate PROVE BatchInv'
<1>1. /\ BatchTyped /\ UploadInv /\ WorkerInv /\ SubmitInv /\ SourceKept
      /\ IsWorker(rp) /\ batch \in Batches /\ batch.run \in Nat /\ batch.runs \in Nat
      /\ batch.run <= batch.runs /\ MaxRuns \in Nat
  BY Parts
<1>2. rp.pc = "format" /\ UNCHANGED <<src, rows, up, sub>>
  BY DEF FormatAndValidate
<1>3. Answered /\ batch.runs < MaxRuns
  BY <1>1, <1>2, WorkerAnswered DEF WorkerInv
<1>4. /\ IsWorker(rp)' /\ rp'.pc = "insert" /\ rp'.new = batch.runs + 1
      /\ rp'.prev = rp.prev /\ rp'.read = rp.read
  BY <1>1 DEF FormatAndValidate, IsWorker
<1>5. /\ batch' = [batch EXCEPT !.runs = batch.runs + 1] /\ batch.runs + 1 \in Nat
  BY <1>1 DEF FormatAndValidate
<1>6. /\ batch' \in Batches /\ batch'.run = batch.run /\ batch'.runs = batch.runs + 1
      /\ batch'.status = batch.status /\ Exists' = Exists
  BY <1>1, <1>5 DEF Batches, Exists
<1>7. BatchTyped' /\ SubmitInv'
  BY <1>1, <1>2, <1>3, <1>4, <1>6 DEF BatchTyped, SubmitInv
<1>8. UploadInv' /\ SourceKept'
  BY <1>1, <1>2, <1>6 DEF UploadInv, Creating, SourceKept, Uploaded
<1>9. WorkerInv'
  BY <1>1, <1>2, <1>3, <1>4, <1>6 DEF WorkerInv, Written, Runs
<1>10. QED
  BY <1>2, <1>3, <1>7, <1>8, <1>9, UsedStep

(* The rows of a run are written or deleted.                               *)
LEMMA RowsStep ==
  ASSUME BatchInv, Answered, NEW r, NEW e \in Extent,
         rows' = [rows EXCEPT ![r] = e], UNCHANGED <<batch, src, up, sub>>,
         IsWorker(rp)', WorkerInv'
  PROVE  BatchInv'
<1>1. /\ BatchTyped /\ UploadInv /\ SubmitInv /\ SourceKept /\ rows \in [Runs -> Extent]
      /\ batch.run \in Nat /\ batch.runs \in Nat /\ batch.run <= batch.runs
      /\ batch.runs <= MaxRuns /\ MaxRuns \in Nat
  BY Parts
<1>2. rows' \in [Runs -> Extent]
  BY <1>1
<1>3. BatchTyped' /\ SubmitInv'
  BY <1>1, <1>2 DEF BatchTyped, SubmitInv, Exists
<1>4. SourceKept'
  BY <1>1, <1>2 DEF SourceKept, Uploaded, Exists
<1>5. UploadInv'
  <2>1. \A u \in Uploaders : up[u] # "missing"
    BY <1>1 DEF UploadInv, Creating, Answered
  <2>2. QED
    BY <1>1, <2>1 DEF UploadInv, Creating, Exists
<1>6. QED
  BY <1>3, <1>4, <1>5, UsedStep

LEMMA RowSteps ==
  ASSUME BatchInv, InsertRows \/ CleanOldRun \/ UndoRows
  PROVE  BatchInv'
<1>1. /\ WorkerInv /\ IsWorker(rp) /\ rows \in [Runs -> Extent] /\ batch.run \in Nat
      /\ batch.runs \in Nat
  BY Parts
<1>2. UNCHANGED <<batch, src, up, sub>>
  BY DEF InsertRows, CleanOldRun, UndoRows
<1>3. Answered
  BY WorkerAnswered DEF InsertRows, CleanOldRun, UndoRows
<1>4. "none" \in Extent
  BY DEF Extent
<1>5. CASE InsertRows
  <2>1. /\ rp.pc = "insert" /\ rp.new \in Runs /\ rp.new > batch.run /\ rp.new # batch.run
    BY <1>1, <1>5 DEF InsertRows, WorkerInv, Written, Runs
  <2>2. /\ rows' = [rows EXCEPT ![rp.new] = Grow(rows[rp.new])] /\ Grow(rows[rp.new]) \in Extent
    BY <1>1, <1>5, <2>1, GrowExtent DEF InsertRows
  <2>3. /\ IsWorker(rp)' /\ rp'.new = rp.new /\ rp'.prev = rp.prev /\ rp'.read = rp.read
        /\ rp'.pc = (IF rows'[rp.new] = rp.read THEN "list" ELSE "insert")
    BY <1>1, <1>5 DEF InsertRows, RpGoto, IsWorker
  <2>4. WorkerInv'
    BY <1>1, <1>2, <2>1, <2>3 DEF WorkerInv, Written, Exists
  <2>5. QED
    BY <1>2, <1>3, <2>1, <2>2, <2>3, <2>4, RowsStep
<1>6. CASE CleanOldRun
  <2>1. /\ rp.pc = "clean" /\ rows' = [rows EXCEPT ![rp.prev] = "none"]
        /\ IsWorker(rp)' /\ rp'.pc = "completed"
    BY <1>1, <1>6 DEF CleanOldRun, RpGoto, IsWorker
  <2>2. WorkerInv'
    BY <2>1 DEF WorkerInv, Written
  <2>3. QED
    BY <1>2, <1>3, <1>4, <2>1, <2>2, RowsStep
<1>7. CASE UndoRows
  <2>1. rp.pc = "undo" /\ IsWorker(rp)' /\ rp'.pc = "release"
    BY <1>1, <1>7 DEF UndoRows, RpGoto, IsWorker
  <2>2. WorkerInv'
    BY <2>1 DEF WorkerInv, Written
  <2>3. CASE rp.new = NoRun
    BY <1>2, <1>3, <1>7, <2>1, <2>2, <2>3, WorkerStep DEF UndoRows
  <2>4. CASE rp.new # NoRun
    <3>1. rows' = [rows EXCEPT ![rp.new] = "none"]
      BY <1>7, <2>4 DEF UndoRows
    <3>2. QED
      BY <1>2, <1>3, <1>4, <2>1, <2>2, <3>1, RowsStep
  <2>5. QED
    BY <2>3, <2>4
<1>8. QED
  BY <1>5, <1>6, <1>7

(* The switch, with or without its answer.                                 *)
LEMMA SwitchStep ==
  ASSUME BatchInv, SwitchRun \/ SwitchUnanswered PROVE BatchInv'
<1>1. /\ BatchTyped /\ UploadInv /\ WorkerInv /\ SubmitInv /\ SourceKept
      /\ IsWorker(rp) /\ batch \in Batches /\ batch.run \in Nat /\ batch.runs \in Nat
      /\ batch.run <= batch.runs /\ sub \in [Submitters -> Subs]
  BY Parts
<1>2. rp.pc = "switch" /\ UNCHANGED <<src, rows, up, sub>>
  BY DEF SwitchRun, SwitchUnanswered
<1>3. Answered
  BY <1>2, WorkerAnswered
<1>4. /\ IsWorker(rp)' /\ rp'.pc \in {"clean", "undo"} /\ rp'.prev = rp.prev
      /\ rp'.new = rp.new
  BY <1>1 DEF SwitchRun, SwitchUnanswered, RpGoto, IsWorker
<1>5. /\ rp.new = batch.runs /\ rp.new > batch.run /\ rp.new \in Nat /\ rp.prev = batch.run
      /\ rp.new \in Runs
  BY <1>1, <1>2 DEF WorkerInv, Written
<1>6. CASE ~Exists
  <2>1. batch' = batch
    BY <1>6 DEF SwitchRun, SwitchUnanswered, SetBatch
  <2>2. WorkerInv'
    BY <1>4, <1>5, <1>6, <2>1 DEF WorkerInv, Written, Exists
  <2>3. QED
    BY <1>2, <1>3, <1>4, <2>1, <2>2, WorkerStep
<1>7. CASE Exists
  <2>1. PICK n \in Nat :
          batch' = [batch EXCEPT !.status = "PendingPosting", !.run = rp.new, !.errors = n]
    BY <1>7 DEF SwitchRun, SwitchUnanswered, SetBatch
  <2>2. /\ batch' \in Batches /\ batch'.run = rp.new /\ batch'.runs = batch.runs
        /\ batch'.status = "PendingPosting" /\ Exists'
    BY <1>1, <1>5, <2>1 DEF Batches, Statuses, Exists
  <2>3. BatchTyped'
    BY <1>1, <1>2, <1>4, <1>5, <2>2 DEF BatchTyped
  <2>4. UploadInv'
    <3>1. \A u \in Uploaders : up[u] \notin {"source", "rows", "missing"}
      BY <1>1, <1>3 DEF UploadInv, Creating, Answered
    <3>2. QED
      BY <1>1, <1>2, <1>5, <2>2, <3>1 DEF UploadInv, Creating
  <2>5. SourceKept'
    BY <1>1, <1>2, <1>5, <1>7, <2>2 DEF SourceKept, Uploaded
  <2>6. WorkerInv'
    BY <1>4, <1>5, <2>2 DEF WorkerInv, Written
  <2>7. SubmitInv'
    <3>1. \A s \in Submitters : sub[s].run \in Nat
      BY <1>1 DEF Subs
    <3>2. QED
      BY <1>1, <1>2, <1>5, <2>2, <3>1 DEF SubmitInv
  <2>8. QED
    BY <1>2, <1>3, <2>3, <2>4, <2>5, <2>6, <2>7, UsedStep
<1>8. QED
  BY <1>6, <1>7

(* Only the status of an existing batch changes, to one it exists in.      *)
LEMMA StatusStep ==
  ASSUME BatchInv, Answered, NEW status \in Statuses \ {"none", "deleted"},
         SetBatch([batch EXCEPT !.status = status]), UNCHANGED <<src, rows, up>>,
         IsWorker(rp)', rp' = rp \/ rp'.pc = "failed",
         sub' \in [Submitters -> Subs],
         \A s \in Submitters :
           sub'[s] = sub[s] \/ sub'[s].pc = "done"
             \/ /\ sub[s].pc = "prepare" /\ sub'[s].run = sub[s].run /\ sub'[s].got = sub[s].got
  PROVE  BatchInv'
<1>1. /\ BatchTyped /\ UploadInv /\ WorkerInv /\ SubmitInv /\ SourceKept
      /\ batch \in Batches
  BY Parts
<1>2. /\ batch' \in Batches /\ batch'.run = batch.run /\ batch'.runs = batch.runs
      /\ Exists' = Exists /\ (batch'.status = "none" <=> batch.status = "none")
  <2>1. CASE Exists
    <3>1. batch' = [batch EXCEPT !.status = status]
      BY <2>1 DEF SetBatch
    <3>2. QED
      BY <1>1, <2>1, <3>1 DEF Batches, Exists
  <2>2. CASE ~Exists
    BY <1>1, <2>2 DEF SetBatch, Exists
  <2>3. QED
    BY <2>1, <2>2
<1>3. BatchTyped'
  BY <1>1, <1>2 DEF BatchTyped
<1>4. UploadInv' /\ SourceKept'
  BY <1>1, <1>2 DEF UploadInv, Creating, SourceKept, Uploaded
<1>5. WorkerInv'
  <2>1. CASE rp' = rp
    BY <1>1, <1>2, <2>1 DEF WorkerInv
  <2>2. CASE rp'.pc = "failed"
    BY <2>2 DEF WorkerInv, Written
  <2>3. QED
    BY <2>1, <2>2
<1>6. SubmitInv'
  BY <1>1, <1>2 DEF SubmitInv
<1>7. QED
  BY <1>3, <1>4, <1>5, <1>6, UsedStep

LEMMA ReleaseStep ==
  ASSUME BatchInv, ReleaseBatch PROVE BatchInv'
<1>1. IsWorker(rp) /\ WorkerInv /\ sub \in [Submitters -> Subs]
  BY Parts
<1>2. /\ SetBatch([batch EXCEPT !.status = "PendingPosting"]) /\ UNCHANGED <<src, rows, up, sub>>
      /\ rp.pc = "release"
  BY DEF ReleaseBatch
<1>3. IsWorker(rp)' /\ rp'.pc = "failed"
  BY <1>1 DEF ReleaseBatch, RpGoto, IsWorker
<1>4. "PendingPosting" \in Statuses \ {"none", "deleted"} /\ Answered
  BY <1>2, WorkerAnswered DEF Statuses
<1>5. QED
  BY <1>1, <1>2, <1>3, <1>4, StatusStep

-----------------------------------------------------------------------------
(* Submissions, deletions, and the rest.                                   *)

(* A submission reads a run that is or was active.                         *)
LEMMA ReadSteps ==
  ASSUME BatchInv, EarlyUse = FALSE, NEW s \in Submitters,
         SubmitCheck(s) \/ SubmitOpenCursor(s) \/ SubmitRead(s)
  PROVE  BatchInv'
<1>1. /\ BatchTyped /\ WorkerInv /\ SubmitInv /\ Unused /\ SourceKept
      /\ sub \in [Submitters -> Subs] /\ batch \in Batches /\ rows \in [Runs -> Extent]
      /\ batch.run \in Nat /\ batch.runs \in Nat /\ batch.run <= batch.runs
      /\ batch.runs <= MaxRuns /\ MaxRuns \in Nat /\ UploadInv
  BY Parts
<1>2. UNCHANGED <<batch, src, rows, up, rp>>
  BY DEF SubmitCheck, SubmitOpenCursor, SubmitRead
<1>3. Answered
  BY <1>1, UsableIsAnswered DEF SubmitCheck, SubmitOpenCursor, SubmitRead, Unused
<1>4. PICK to \in Subs :
        /\ sub' = [sub EXCEPT ![s] = to]
        /\ to.pc \in {"open", "read", "prepare", "done"}
        /\ to.pc \in {"read", "prepare"} => to.run \in 1..batch.run
  <2>1. CASE SubmitCheck(s)
    <3>1. [IdleSub EXCEPT !.pc = "open"] \in Subs /\ [IdleSub EXCEPT !.pc = "open"].pc = "open"
      BY DEF IdleSub, Subs, NoRun, Extent
    <3>2. QED
      BY <2>1, <3>1 DEF SubmitCheck, SubSet
  <2>2. CASE SubmitOpenCursor(s)
    <3>1. DEFINE read == [pc |-> "read", run |-> batch.run, got |-> "none"]
                 done == [IdleSub EXCEPT !.pc = "done"]
    <3>2. /\ read \in Subs /\ read.pc = "read" /\ (Exists => read.run \in 1..batch.run)
          /\ done \in Subs /\ done.pc = "done"
      BY <1>1 DEF IdleSub, Subs, NoRun, Extent, UploadInv
    <3>3. (Exists /\ sub' = [sub EXCEPT ![s] = read]) \/ sub' = [sub EXCEPT ![s] = done]
      BY <2>2 DEF SubmitOpenCursor, SubSet
    <3>4. QED
      BY <3>2, <3>3
  <2>3. CASE SubmitRead(s)
    <3>1. /\ sub[s] \in Subs /\ sub[s].pc = "read" /\ sub[s].run \in 1..batch.run
          /\ sub[s].run \in Runs
      BY <1>1, <2>3 DEF SubmitRead, SubmitInv, Runs
    <3>2. DEFINE more == IF rows[sub[s].run] = "all" THEN Grow(sub[s].got)
                         ELSE IF sub[s].got = "none" THEN rows[sub[s].run] ELSE sub[s].got
                 pc == IF more = "none" THEN "done"
                       ELSE IF more = sub[s].got \/ more = "all" THEN "prepare" ELSE "read"
                 to == [sub[s] EXCEPT !.got = more, !.pc = pc]
    <3>3. sub' = [sub EXCEPT ![s] = to]
      BY <2>3 DEF SubmitRead, SubSet
    <3>4. more \in Extent
      BY <1>1, <3>1, GrowExtent DEF Subs
    <3>5. pc \in {"done", "prepare", "read"}
      OBVIOUS
    <3> HIDE DEF more, pc
    <3>6. to \in Subs /\ to.pc = pc /\ to.run = sub[s].run
      BY <3>1, <3>4, <3>5 DEF Subs
    <3>7. QED
      BY <3>1, <3>3, <3>5, <3>6
  <2>4. QED
    BY <2>1, <2>2, <2>3
<1>5. sub' \in [Submitters -> Subs] /\ sub'[s] = to
      /\ \A t \in Submitters : t # s => sub'[t] = sub[t]
  BY <1>1, <1>4
<1>6. BatchTyped' /\ WorkerInv'
  BY <1>1, <1>2, <1>5 DEF BatchTyped, IsWorker, WorkerInv, Exists
<1>7. SubmitInv'
  BY <1>1, <1>2, <1>4, <1>5 DEF SubmitInv, Exists
<1>8. QED
  BY <1>2, <1>3, <1>6, <1>7, KeepRecords, UsedStep

LEMMA PostingSteps ==
  ASSUME BatchInv, NEW s \in Submitters, SubmitPrepare(s) \/ PostingEnded(s)
  PROVE  BatchInv'
<1>1. /\ sub \in [Submitters -> Subs] /\ IsWorker(rp) /\ Unused
  BY Parts
<1>2. /\ sub[s].pc \in {"prepare", "posting"} /\ UNCHANGED <<src, rows, up, rp>>
  BY DEF SubmitPrepare, PostingEnded
<1>3. Answered /\ IsWorker(rp)'
  BY <1>1, <1>2 DEF Unused, IsWorker
<1>4. PICK status \in {"Posting", "Posted", "Canceled"}, pc \in {"posting", "done"} :
        /\ SetBatch([batch EXCEPT !.status = status])
        /\ sub' = [sub EXCEPT ![s] = [sub[s] EXCEPT !.pc = pc]]
        /\ pc = "posting" => sub[s].pc = "prepare"
  BY DEF SubmitPrepare, PostingEnded, SubSet
<1>5. status \in Statuses \ {"none", "deleted"}
  BY DEF Statuses
<1>6. DEFINE to == [sub[s] EXCEPT !.pc = pc]
<1>7. to \in Subs /\ to.pc = pc /\ to.run = sub[s].run /\ to.got = sub[s].got
  BY <1>1 DEF Subs
<1> HIDE DEF to
<1>8. sub' \in [Submitters -> Subs] /\ sub'[s] = to
      /\ \A t \in Submitters : t # s => sub'[t] = sub[t]
  BY <1>1, <1>4, <1>7 DEF to
<1>9. \A t \in Submitters :
        sub'[t] = sub[t] \/ sub'[t].pc = "done"
          \/ /\ sub[t].pc = "prepare" /\ sub'[t].run = sub[t].run /\ sub'[t].got = sub[t].got
  BY <1>4, <1>7, <1>8
<1>10. QED
  BY <1>2, <1>3, <1>4, <1>5, <1>8, <1>9, StatusStep

LEMMA DeleteStep ==
  ASSUME BatchInv, EarlyUse = FALSE, Delete PROVE BatchInv'
<1>1. /\ BatchTyped /\ UploadInv /\ WorkerInv /\ SubmitInv /\ SourceKept /\ Unused
      /\ batch \in Batches
  BY Parts
<1>2. UNCHANGED <<up, rp, sub>>
  BY DEF Delete, DeleteRead, DeleteJobs, DeleteRecords
<1>3. Answered
  BY <1>1, UsableIsAnswered DEF Delete, DeleteRead, DeleteJobs, DeleteRecords, Unused
<1>4. CASE DeleteRead \/ DeleteJobs
  <2>1. UNCHANGED <<batch, src, rows>>
    BY <1>4 DEF DeleteRead, DeleteJobs
  <2>2. BatchTyped' /\ WorkerInv' /\ SubmitInv'
    BY <1>1, <1>2, <2>1 DEF BatchTyped, IsWorker, WorkerInv, SubmitInv, Exists
  <2>3. QED
    BY <1>2, <1>3, <2>1, <2>2, KeepRecords, UsedStep
<1>5. CASE DeleteRecords
  <2>1. /\ batch' \in Batches /\ batch'.run = batch.run /\ batch'.runs = batch.runs
        /\ batch'.status = "deleted"
    BY <1>1, <1>5 DEF DeleteRecords, Batches, Statuses
  <2>2. src' \in Extent /\ rows' \in [Runs -> Extent]
    BY <1>5 DEF DeleteRecords, Extent
  <2>3. ~Exists'
    BY <2>1 DEF Exists
  <2>4. BatchTyped' /\ WorkerInv' /\ SubmitInv'
    BY <1>1, <1>2, <2>1, <2>2, <2>3 DEF BatchTyped, IsWorker, WorkerInv, SubmitInv
  <2>5. UploadInv'
    <3>1. \A u \in Uploaders : up[u] \notin {"source", "rows", "missing"}
      BY <1>1, <1>3 DEF UploadInv, Creating, Answered
    <3>2. QED
      BY <1>1, <1>2, <2>1, <2>3, <3>1 DEF UploadInv, Creating
  <2>6. SourceKept'
    BY <2>3 DEF SourceKept, Uploaded
  <2>7. QED
    BY <1>2, <1>3, <2>4, <2>5, <2>6, UsedStep
<1>6. QED
  BY <1>4, <1>5 DEF Delete

(* An upload that a crash ends is never answered.                          *)
LEMMA CrashStep ==
  ASSUME BatchInv, CrashBatch PROVE BatchInv'
<1>1. /\ BatchTyped /\ UploadInv /\ Unused /\ SubmitInv /\ SourceKept
      /\ up \in [Uploaders -> Uploads] /\ sub \in [Submitters -> Subs]
  BY Parts
<1>2. /\ UNCHANGED <<batch, src, rows, queue>> /\ del' = "idle"
      /\ IsWorker(rp)' /\ rp'.pc = "idle"
      /\ \A r \in Requesters : req[r] = "idle" => req'[r] = "idle"
  BY DEF CrashBatch, IdleWorker, IsWorker
<1>3. /\ up' \in [Uploaders -> Uploads]
      /\ \A u \in Uploaders :
           /\ up'[u] = "answered" <=> up[u] = "answered"
           /\ up'[u] \notin {"source", "rows", "missing"}
  BY <1>1 DEF CrashBatch, Uploads
<1>4. /\ sub' \in [Submitters -> Subs]
      /\ \A s \in Submitters :
           sub'[s] = sub[s] \/ (sub[s].pc # "idle" /\ sub'[s].pc = "done")
  <2>1. \A s \in Submitters :
          [sub[s] EXCEPT !.pc = "done"] \in Subs /\ [sub[s] EXCEPT !.pc = "done"].pc = "done"
    BY <1>1 DEF Subs
  <2>2. sub' = [s \in Submitters |-> IF sub[s].pc \in {"idle", "posting"} THEN sub[s]
                                    ELSE [sub[s] EXCEPT !.pc = "done"]]
    BY DEF CrashBatch
  <2>3. QED
    BY <1>1, <2>1, <2>2
<1>5. BatchTyped' /\ WorkerInv'
  BY <1>1, <1>2, <1>3, <1>4 DEF BatchTyped, WorkerInv, Written
<1>6. UploadInv'
  BY <1>1, <1>2, <1>3 DEF UploadInv, Creating, Exists
<1>7. Unused'
  BY <1>1, <1>2, <1>3, <1>4 DEF Unused, Answered
<1>8. SubmitInv'
  BY <1>1, <1>2, <1>4 DEF SubmitInv, Exists
<1>9. SourceKept'
  BY <1>1, <1>2, <1>3 DEF SourceKept, Uploaded, Exists
<1>10. QED
  BY <1>5, <1>6, <1>7, <1>8, <1>9 DEF BatchInv

LEMMA NothingStep ==
  ASSUME BatchInv, UNCHANGED <<batch, src, rows, up, rp, sub, req, queue, del>>
  PROVE  BatchInv'
<1>1. BatchTyped /\ WorkerInv /\ SubmitInv /\ Unused
  BY Parts
<1>2. BatchTyped' /\ WorkerInv' /\ SubmitInv' /\ Unused'
  BY <1>1 DEF BatchTyped, IsWorker, WorkerInv, SubmitInv, Unused, Answered, Exists
<1>3. QED
  BY <1>2, KeepRecords DEF BatchInv

LEMMA BatchInvStep == EarlyUse = FALSE /\ BatchInv /\ [Next]_batchVars => BatchInv'
<1> SUFFICES ASSUME EarlyUse = FALSE, BatchInv, [Next]_batchVars PROVE BatchInv'
  OBVIOUS
<1>1. CASE \E u \in Uploaders : Upload(u)
  BY <1>1, UploadStep
<1>2. CASE (\E r \in Requesters : Request(r)) \/ ReprocessStalled
  BY <1>2, QueueSteps
<1>3. CASE ReprocessPick \/ Reprocess
  BY <1>3, QuietWorkerSteps, ClaimStep, FormatStep, RowSteps, SwitchStep, ReleaseStep
  DEF Reprocess
<1>4. CASE \E s \in Submitters : Submit(s)
  <2>1. PICK s \in Submitters : Submit(s)
    BY <1>4
  <2>2. QED
    BY <2>1, ReadSteps, PostingSteps DEF Submit
<1>5. CASE Delete \/ CrashBatch
  BY <1>5, DeleteStep, CrashStep
<1>6. CASE SyncCustomer \/ UNCHANGED batchVars
  BY <1>6, NothingStep DEF SyncCustomer, batchVars
<1>7. QED
  BY <1>1, <1>2, <1>3, <1>4, <1>5, <1>6 DEF Next

-----------------------------------------------------------------------------
(* What is used up: a step after which no answer has been lost was not the *)
(* switch that loses it.                                                   *)

Uses == [rejects : Nat, faults : Nat, undoFaults : Nat, crashes : Nat,
         unanswered : Nat, deletes : Nat]
Troubles == {"rejects", "faults", "undoFaults", "crashes", "unanswered"}

LEMMA UsedHow ==
  ASSUME [Next]_batchVars
  PROVE  \/ used' = used
         \/ \E what \in Troubles : Suffer(what)
         \/ used' = [used EXCEPT !.deletes = @ + 1]
<1>1. CASE \E u \in Uploaders : Upload(u)
  BY <1>1 DEF Upload, UploadFind, UploadCreate, UploadSource, UploadRows, UploadMissing
<1>2. CASE \E r \in Requesters : Request(r)
  BY <1>2 DEF Request, ReprocessLook, ReprocessRemove, ReprocessAdd
<1>3. CASE Reprocess
  BY <1>3 DEF Reprocess, ClaimForRevalidation, ReadSource, FormatAndValidate, FormatFails,
     InsertRows, ListMissing, UpsertMissing, SwitchRun, SwitchUnanswered, CleanOldRun,
     ReprocessFault, UndoRows, ReleaseBatch, UndoFault, ReprocessReturns, Troubles
<1>4. CASE \E s \in Submitters : Submit(s)
  BY <1>4 DEF Submit, SubmitCheck, SubmitOpenCursor, SubmitRead, SubmitPrepare, PostingEnded
<1>5. CASE Delete \/ CrashBatch
  BY <1>5 DEF Delete, DeleteRead, DeleteJobs, DeleteRecords, CrashBatch, Troubles
<1>6. CASE ReprocessPick \/ ReprocessStalled \/ SyncCustomer \/ UNCHANGED batchVars
  BY <1>6 DEF ReprocessPick, ReprocessStalled, SyncCustomer, batchVars
<1>7. QED
  BY <1>1, <1>2, <1>3, <1>4, <1>5, <1>6 DEF Next

LEMMA UsesStep ==
  ASSUME used \in Uses, [Next]_batchVars
  PROVE  /\ used' \in Uses
         /\ used'.unanswered = 0 => used.unanswered = 0 /\ ~SwitchUnanswered
<1>1. \A what \in Troubles :
        Suffer(what) =>
          /\ used' \in Uses
          /\ used'.unanswered = used.unanswered + (IF what = "unanswered" THEN 1 ELSE 0)
  BY DEF Suffer, Troubles, Uses
<1>2. used' = [used EXCEPT !.deletes = @ + 1] =>
        used' \in Uses /\ used'.unanswered = used.unanswered
  BY DEF Uses
<1>3. used.unanswered \in Nat
  BY DEF Uses
<1>4. SwitchUnanswered => used'.unanswered # 0
  BY <1>1, <1>3 DEF SwitchUnanswered, Troubles
<1>5. QED
  BY <1>1, <1>2, <1>3, <1>4, UsedHow

-----------------------------------------------------------------------------
(* The rows of the active run.  The undo deletes another one.              *)
KeptInv ==
  used.unanswered = 0 =>
    /\ Uploaded => rows[batch.run] = "all"
    /\ Exists /\ rp.pc = "undo" => rp.new # batch.run

(* The rows of the active run are not touched, nor does it change.         *)
LEMMA KeptElsewhere ==
  ASSUME BatchInv, KeptInv, used.unanswered = 0, used'.unanswered = 0,
         Exists' => Exists, Answered' => Answered,
         Exists => batch'.run = batch.run /\ rows'[batch.run] = rows[batch.run],
         rp'.pc = "undo" => rp'.new = rp.new
           /\ rp.pc \in {"undo", "read", "format"} \cup Written
  PROVE  KeptInv'
<1>1. WorkerInv /\ UploadInv /\ batch.run \in Nat
  BY Parts
<1>2. Exists' /\ rp'.pc = "undo" => rp'.new # batch'.run
  BY <1>1 DEF KeptInv, WorkerInv, UploadInv, NoRun, Runs
<1>3. Uploaded' => rows'[batch'.run] = "all"
  BY DEF KeptInv, Uploaded, Answered
<1>4. QED
  BY <1>2, <1>3 DEF KeptInv

LEMMA KeptByUpload ==
  ASSUME BatchInv, KeptInv, used.unanswered = 0, used'.unanswered = 0,
         NEW u \in Uploaders, Upload(u)
  PROVE  KeptInv'
<1>1. /\ UploadInv /\ Unused /\ up \in [Uploaders -> Uploads] /\ rows \in [Runs -> Extent]
      /\ MaxRuns >= 1 /\ MaxRuns \in Nat
  BY Parts
<1>2. rp' = rp
  BY DEF Upload, UploadFind, UploadCreate, UploadSource, UploadRows, UploadMissing
<1>3. CASE UploadFind(u) \/ (UploadCreate(u) /\ batch.status # "none")
  <2>1. UNCHANGED <<batch, rows>> /\ \E pc \in {"found", "create"} : UpGoto(u, pc)
    BY <1>3 DEF UploadFind, UploadCreate
  <2>2. Exists' = Exists /\ (Answered' => Answered)
    BY <1>1, <2>1 DEF UpGoto, Exists, Answered
  <2>3. QED
    BY <1>2, <2>1, <2>2, KeptElsewhere
<1>4. CASE UploadCreate(u) /\ batch.status = "none"
  <2>1. \A v \in Uploaders : up[v] # "answered"
    BY <1>1, <1>4 DEF UploadInv, Creating
  <2>2. up' = [up EXCEPT ![u] = "source"]
    BY <1>4 DEF UploadCreate, UpGoto
  <2>3. ~Uploaded' /\ rp.pc = "idle"
    BY <1>1, <2>1, <2>2 DEF Uploaded, Unused, Answered
  <2>4. QED
    BY <1>2, <2>3 DEF KeptInv
<1>5. CASE UploadSource(u) \/ UploadRows(u) \/ UploadMissing(u)
  <2>1. /\ up[u] \in {"source", "rows", "missing"} /\ batch' = batch /\ batch.run = 1
    BY <1>1, <1>5 DEF UploadSource, UploadRows, UploadMissing, UploadInv
  <2>2. \A v \in Uploaders : up[v] # "answered"
    BY <1>1, <2>1 DEF UploadInv, Creating
  <2>3. rp.pc = "idle"
    BY <1>1, <2>2 DEF Unused, Answered
  <2>4. up'[u] = "answered" => rows'[1] = "all"
    <3>1. CASE UploadSource(u)
      BY <1>1, <3>1 DEF UploadSource, UpGoto
    <3>2. CASE UploadRows(u)
      BY <1>1, <3>2 DEF UploadRows, UpGoto
    <3>3. CASE UploadMissing(u)
      BY <1>1, <3>3 DEF UploadMissing, UploadInv
    <3>4. QED
      BY <1>5, <3>1, <3>2, <3>3
  <2>5. \A v \in Uploaders : v # u => up'[v] = up[v]
    BY <1>1, <1>5 DEF UploadSource, UploadRows, UploadMissing, UpGoto
  <2>6. Uploaded' => rows'[batch'.run] = "all"
    BY <2>1, <2>2, <2>4, <2>5 DEF Uploaded
  <2>7. QED
    BY <1>2, <2>3, <2>6 DEF KeptInv
<1>6. QED
  BY <1>3, <1>4, <1>5 DEF Upload, UploadCreate

LEMMA KeptByWorker ==
  ASSUME BatchInv, KeptInv, used.unanswered = 0, used'.unanswered = 0,
         ReprocessPick \/ Reprocess, ~SwitchUnanswered
  PROVE  KeptInv'
<1>1. /\ UploadInv /\ WorkerInv /\ IsWorker(rp) /\ batch \in Batches /\ batch.run \in Nat
      /\ batch.runs \in Nat /\ batch.run <= batch.runs /\ batch.runs <= MaxRuns
      /\ MaxRuns \in Nat /\ rows \in [Runs -> Extent]
  BY Parts
<1>2. up' = up
  BY DEF ReprocessPick, Reprocess, ClaimForRevalidation, ReadSource, FormatAndValidate,
     FormatFails, InsertRows, ListMissing, UpsertMissing, SwitchRun, SwitchUnanswered,
     CleanOldRun, ReprocessFault, UndoRows, ReleaseBatch, UndoFault, ReprocessReturns
<1>3. (Answered' => Answered) /\ (Exists => batch.run \in Runs)
  BY <1>1, <1>2 DEF Answered, UploadInv, Runs
<1>4. CASE ReprocessPick \/ ListMissing \/ UpsertMissing \/ ReprocessReturns
  <2>1. UNCHANGED <<batch, rows>> /\ rp'.pc # "undo"
    <3>1. UNCHANGED <<batch, rows>>
      BY <1>4 DEF ReprocessPick, ListMissing, UpsertMissing, ReprocessReturns
    <3>2. CASE ReprocessPick \/ ReprocessReturns
      BY <3>1, <3>2 DEF ReprocessPick, ReprocessReturns, IdleWorker
    <3>3. CASE ListMissing
      BY <1>1, <3>1, <3>3 DEF ListMissing, IsWorker
    <3>4. CASE UpsertMissing
      BY <1>1, <3>1, <3>4 DEF UpsertMissing, RpGoto, IsWorker
    <3>5. QED
      BY <1>4, <3>2, <3>3, <3>4
  <2>2. QED
    BY <1>3, <2>1, KeptElsewhere DEF Exists
<1>5. CASE ReadSource \/ FormatFails \/ ReprocessFault \/ UndoFault
  <2>1. /\ UNCHANGED <<batch, rows>> /\ rp'.new = rp.new
        /\ rp'.pc = "undo" => rp.pc \in {"read", "format"} \cup Written
    BY <1>1, <1>5 DEF ReadSource, FormatFails, ReprocessFault, UndoFault, RpGoto, IsWorker,
       Written
  <2>2. QED
    BY <1>3, <2>1, KeptElsewhere DEF Exists
<1>6. CASE ClaimForRevalidation \/ FormatAndValidate \/ ReleaseBatch
  <2>1. /\ rows' = rows /\ batch'.run = batch.run /\ Exists' = Exists /\ rp'.pc # "undo"
    BY <1>1, <1>6 DEF ClaimForRevalidation, FormatAndValidate, ReleaseBatch, SetBatch,
       RpGoto, IsWorker, Batches, Exists
  <2>2. QED
    BY <1>3, <2>1, KeptElsewhere
<1>7. CASE InsertRows \/ CleanOldRun
  <2>1. /\ batch' = batch /\ rp'.pc # "undo"
        /\ \E r, e : rows' = [rows EXCEPT ![r] = e] /\ (Exists => r # batch.run)
    BY <1>1, <1>7 DEF InsertRows, CleanOldRun, RpGoto, IsWorker, WorkerInv, Written
  <2>2. QED
    BY <1>1, <1>3, <2>1, KeptElsewhere DEF Exists
<1>8. CASE UndoRows
  <2>1. /\ batch' = batch /\ rp'.pc # "undo" /\ rp.pc = "undo"
        /\ rows' = IF rp.new = NoRun THEN rows ELSE [rows EXCEPT ![rp.new] = "none"]
    BY <1>1, <1>8 DEF UndoRows, RpGoto, IsWorker
  <2>2. Exists => rows'[batch.run] = rows[batch.run]
    BY <1>1, <1>3, <2>1 DEF KeptInv
  <2>3. QED
    BY <1>3, <2>1, <2>2, KeptElsewhere DEF Exists
<1>9. CASE SwitchRun
  <2>1. /\ rows' = rows /\ rp.pc = "switch" /\ rp'.pc = "clean"
        /\ Exists => rows[rp.new] = "all" /\ batch'.run = rp.new
        /\ ~Exists => batch' = batch
    BY <1>1, <1>9 DEF SwitchRun, SetBatch, RpGoto, IsWorker, Batches, WorkerInv, Written
  <2>2. Uploaded' => rows'[batch'.run] = "all"
    BY <2>1 DEF Uploaded, Exists
  <2>3. QED
    BY <2>1, <2>2 DEF KeptInv
<1>10. QED
  BY <1>4, <1>5, <1>6, <1>7, <1>8, <1>9 DEF Reprocess

LEMMA KeptByOthers ==
  ASSUME BatchInv, KeptInv, used.unanswered = 0, used'.unanswered = 0,
         \/ \E r \in Requesters : Request(r)
         \/ \E s \in Submitters : Submit(s)
         \/ ReprocessStalled \/ Delete \/ SyncCustomer \/ CrashBatch
         \/ UNCHANGED batchVars
  PROVE  KeptInv'
<1>1. batch \in Batches /\ up \in [Uploaders -> Uploads]
  BY Parts
<1>2. CASE UNCHANGED <<batch, rows, rp, up>>
  BY <1>2, KeptElsewhere DEF Exists, Answered
<1>3. CASE \E s \in Submitters : Submit(s)
  <2>1. PICK s \in Submitters : Submit(s)
    BY <1>3
  <2>2. UNCHANGED <<rows, rp, up>> /\ batch'.run = batch.run /\ Exists' = Exists
    BY <1>1, <2>1 DEF Submit, SubmitCheck, SubmitOpenCursor, SubmitRead, SubmitPrepare,
       PostingEnded, SetBatch, Batches, Exists
  <2>3. QED
    BY <2>2, KeptElsewhere DEF Answered
<1>4. CASE DeleteRecords
  <2>1. ~Exists'
    BY <1>1, <1>4 DEF DeleteRecords, Batches, Exists
  <2>2. QED
    BY <2>1 DEF KeptInv, Uploaded
<1>5. CASE CrashBatch
  <2>1. /\ UNCHANGED <<batch, rows>> /\ rp'.pc = "idle"
        /\ \A u \in Uploaders : up'[u] = "answered" => up[u] = "answered"
    BY <1>1, <1>5 DEF CrashBatch, IdleWorker
  <2>2. QED
    BY <2>1, KeptElsewhere DEF Exists, Answered
<1>6. QED
  BY <1>2, <1>3, <1>4, <1>5 DEF Request, ReprocessLook, ReprocessRemove, ReprocessAdd,
     ReprocessStalled, Delete, DeleteRead, DeleteJobs, SyncCustomer, batchVars

LEMMA KeptInvStep ==
  BatchInv /\ used \in Uses /\ KeptInv /\ [Next]_batchVars => KeptInv'
<1> SUFFICES ASSUME BatchInv, used \in Uses, KeptInv, [Next]_batchVars PROVE KeptInv'
  OBVIOUS
<1>1. CASE used'.unanswered # 0
  BY <1>1 DEF KeptInv
<1>2. CASE used'.unanswered = 0
  <2>1. used.unanswered = 0 /\ ~SwitchUnanswered
    BY <1>2, UsesStep
  <2>2. QED
    BY <1>2, <2>1, KeptByUpload, KeptByWorker, KeptByOthers DEF Next
<1>3. QED
  BY <1>1, <1>2

LEMMA UsesInit == Init => used \in Uses /\ KeptInv
BY DEF Init, Uses, KeptInv, Uploaded, Exists, NoBatch

(* No revalidation, however it fails, is undone or is cut short, costs a   *)
(* batch that was answered the records of its active run, unless the       *)
(* answer to its switch gets lost; whatever the number of uploads,         *)
(* requests, runs, failures, crashes and deletions.                        *)
THEOREM RecordsKept ==
  ASSUME EarlyUse = FALSE PROVE Spec => []ActiveRunComplete
<1>1. BatchInv /\ KeptInv => ActiveRunComplete
  BY DEF BatchInv, SourceKept, KeptInv, ActiveRunComplete, RowsComplete
<1>2. BatchInv /\ [Next]_batchVars => BatchInv'
  BY BatchInvStep
<1>3. used \in Uses /\ [Next]_batchVars => (used \in Uses)'
  BY UsesStep
<1>4. QED
  BY <1>1, <1>2, <1>3, BatchInvInit, UsesInit, KeptInvStep, PTL DEF Spec

-----------------------------------------------------------------------------
(* Rows that stay behind.                                                  *)

(* StaleRunsCounted only speaks of an idle worker.  While one is at work,  *)
(* the run it has to clean up is not counted: the one it writes or undoes, *)
(* and after the switch the one it replaces.                               *)
Handled == IF rp.pc \in Written \cup {"undo"} THEN {rp.new}
           ELSE IF rp.pc = "clean" THEN {rp.prev} ELSE {}
Stale == {r \in Runs \ {batch.run} : rows[r] # "none"}
Left == Stale \ Handled

(* Calls that failed, and crashes: each can leave one run behind.          *)
Lost == used.faults + used.undoFaults + used.crashes + used.unanswered

StaleInv ==
  /\ used \in Uses
  /\ batch.status = "none" => \A r \in Runs : rows[r] = "none"
  /\ Exists => Cardinality(Left) <= Lost

LEMMA LeftFinite ==
  /\ IsFiniteSet(Left) /\ Cardinality(Left) \in Nat
  /\ IsFiniteSet(Left') /\ Cardinality(Left') \in Nat
<1>1. IsFiniteSet(Runs)
  BY BatchAssumption, FS_Interval DEF BatchAssumption, Runs
<1>2. Left \in SUBSET Runs /\ Left' \in SUBSET Runs
  BY DEF Left, Stale
<1>3. QED
  BY <1>1, <1>2, FS_Subset, FS_CardinalityType

(* A step that leaves no run behind ...                                    *)
LEMMA LeavesNone ==
  ASSUME StaleInv, used' = used, Exists, Left' \subseteq Left
  PROVE  Cardinality(Left') <= Lost'
<1>1. Cardinality(Left') <= Cardinality(Left)
  BY LeftFinite, FS_Subset
<1>2. Lost \in Nat /\ Lost' = Lost
  BY DEF StaleInv, Lost, Uses
<1>3. QED
  BY <1>1, <1>2, LeftFinite DEF StaleInv

(* ... and one that costs a failed call or a crash and leaves one.         *)
LEMMA LeavesOne ==
  ASSUME StaleInv, Exists, Lost' = Lost + 1, NEW x, Left' \subseteq Left \cup {x}
  PROVE  Cardinality(Left') <= Lost'
<1>1. IsFiniteSet(Left \cup {x}) /\ Cardinality(Left \cup {x}) <= Cardinality(Left) + 1
  BY LeftFinite, FS_AddElement
<1>2. Cardinality(Left') <= Cardinality(Left \cup {x})
  BY <1>1, FS_Subset
<1>3. Cardinality(Left \cup {x}) \in Nat /\ Lost \in Nat
  BY <1>1, FS_CardinalityType DEF StaleInv, Lost, Uses
<1>4. QED
  BY <1>1, <1>2, <1>3, LeftFinite DEF StaleInv

LEMMA Cost ==
  ASSUME StaleInv, NEW what \in Troubles, Suffer(what)
  PROVE  /\ used' \in Uses
         /\ what = "rejects" => Lost' = Lost
         /\ what # "rejects" => Lost' = Lost + 1
<1>1. used \in Uses /\ used' = [used EXCEPT ![what] = used[what] + 1]
  BY DEF StaleInv, Suffer
<1>2. CASE what = "rejects"
  BY <1>1, <1>2 DEF Uses, Lost
<1>3. CASE what = "faults"
  BY <1>1, <1>3 DEF Uses, Lost
<1>4. CASE what = "undoFaults"
  BY <1>1, <1>4 DEF Uses, Lost
<1>5. CASE what = "crashes"
  BY <1>1, <1>5 DEF Uses, Lost
<1>6. CASE what = "unanswered"
  BY <1>1, <1>6 DEF Uses, Lost
<1>7. QED
  BY <1>2, <1>3, <1>4, <1>5, <1>6 DEF Troubles

(* The uploads only write the rows of the first run, which is active.      *)
LEMMA UploadLeaves ==
  ASSUME BatchInv, StaleInv, NEW u \in Uploaders, Upload(u) PROVE StaleInv'
<1>0. UploadInv /\ batch \in Batches /\ rows \in [Runs -> Extent]
  BY Parts
<1>1. UNCHANGED <<rp, used>>
  BY DEF Upload, UploadFind, UploadCreate, UploadSource, UploadRows, UploadMissing
<1>2. CASE UNCHANGED <<batch, rows>>
  <2>1. Exists' = Exists /\ Left' = Left
    BY <1>1, <1>2 DEF Exists, Left, Stale, Handled
  <2>2. QED
    BY <1>1, <1>2, <2>1 DEF StaleInv, Lost
<1>3. CASE batch.status = "none" /\ UNCHANGED rows
  <2>1. \A r \in Runs : rows'[r] = "none"
    BY <1>3 DEF StaleInv
  <2>2. Left' = {}
    BY <2>1 DEF Left, Stale
  <2>3. Cardinality(Left') = 0 /\ Lost' \in Nat
    BY <1>1, <2>2, FS_EmptySet DEF StaleInv, Uses, Lost
  <2>4. QED
    BY <1>1, <2>1, <2>3 DEF StaleInv
<1>4. CASE UploadRows(u)
  <2>1. up[u] = "rows" /\ rows' = [rows EXCEPT ![1] = Grow(rows[1])] /\ UNCHANGED batch
    BY <1>4 DEF UploadRows
  <2>2. batch.run = 1 /\ batch.status # "none"
    BY <1>0, <2>1 DEF UploadInv, Creating
  <2>3. Left' = Left /\ Exists' = Exists
    BY <1>0, <1>1, <2>1, <2>2 DEF Left, Stale, Handled, Exists
  <2>4. QED
    BY <1>1, <2>1, <2>2, <2>3 DEF StaleInv, Lost
<1>5. QED
  BY <1>2, <1>3, <1>4 DEF Upload, UploadFind, UploadCreate, UploadSource, UploadMissing

(* Only the worker has a run to clean up.                                  *)
LEMMA WorkerLeaves ==
  ASSUME BatchInv, StaleInv, Reprocess PROVE StaleInv'
<1>0. /\ WorkerInv /\ Unused /\ UploadInv /\ IsWorker(rp) /\ batch \in Batches
      /\ rows \in [Runs -> Extent] /\ batch.run \in Nat
  BY Parts
<1>1. CASE ClaimForRevalidation
  <2>1. /\ UNCHANGED <<rows, used>> /\ batch'.run = batch.run /\ Exists' = Exists
        /\ rp.pc = "claim" /\ rp'.pc \in {"read", "failed"}
        /\ batch'.status = "none" => batch.status = "none"
    BY <1>0, <1>1 DEF ClaimForRevalidation, RpGoto, IsWorker, Batches, Exists
  <2>2. Left' = Left
    BY <2>1 DEF Left, Stale, Handled, Written
  <2>3. QED
    BY <2>1, <2>2 DEF StaleInv, Lost
<1>2. CASE ReadSource \/ FormatFails
  <2>1. /\ UNCHANGED <<rows, batch>> /\ rp.pc \in {"read", "format"} /\ rp.new = NoRun
        /\ rp'.pc \in {"undo", "format"} /\ rp'.new = rp.new
    BY <1>0, <1>2 DEF ReadSource, FormatFails, RpGoto, IsWorker, WorkerInv
  <2>2. Left' = Left /\ Exists' = Exists
    BY <2>1 DEF Left, Stale, Handled, Written, NoRun, Runs, Exists
  <2>3. used' \in Uses /\ Lost' = Lost
    BY <1>2, Cost DEF ReadSource, FormatFails, StaleInv, Lost, Troubles
  <2>4. QED
    BY <2>1, <2>2, <2>3 DEF StaleInv
<1>3. CASE FormatAndValidate
  <2>1. /\ UNCHANGED <<rows, used>> /\ batch'.run = batch.run
        /\ batch'.status = batch.status /\ rp.pc = "format"
    BY <1>0, <1>3 DEF FormatAndValidate, Batches
  <2>2. Left' \subseteq Left /\ Exists' = Exists
    BY <2>1 DEF Left, Stale, Handled, Written, Exists
  <2>3. QED
    BY <2>1, <2>2, LeavesNone DEF StaleInv
<1>4. CASE InsertRows
  <2>1. /\ UNCHANGED <<batch, used>> /\ rows' = [rows EXCEPT ![rp.new] = Grow(rows[rp.new])]
        /\ rp.pc = "insert" /\ rp'.new = rp.new /\ rp'.pc \in {"insert", "list"}
    BY <1>0, <1>4 DEF InsertRows, RpGoto, IsWorker
  <2>2. Left' = Left /\ Exists' = Exists
    BY <1>0, <2>1 DEF Left, Stale, Handled, Written, Exists
  <2>3. batch.status # "none"
    BY <1>0, <2>1 DEF Unused, UploadInv, Creating, Answered
  <2>4. QED
    BY <2>1, <2>2, <2>3 DEF StaleInv, Lost
<1>5. CASE ListMissing \/ UpsertMissing
  <2>1. /\ UNCHANGED <<batch, rows, used>> /\ rp'.new = rp.new
        /\ rp.pc \in Written /\ rp'.pc \in Written
    BY <1>0, <1>5 DEF ListMissing, UpsertMissing, RpGoto, IsWorker, Written
  <2>2. Left' = Left /\ Exists' = Exists
    BY <2>1 DEF Left, Stale, Handled, Exists
  <2>3. QED
    BY <2>1, <2>2 DEF StaleInv, Lost
<1>6. CASE SwitchRun
  <2>1. /\ UNCHANGED <<rows, used>> /\ rp.pc = "switch" /\ rp'.pc = "clean"
        /\ rp'.prev = rp.prev /\ rp.prev = batch.run /\ Exists' = Exists
        /\ Exists => batch'.run = rp.new
        /\ ~Exists => batch' = batch
    BY <1>0, <1>6
    DEF SwitchRun, SetBatch, RpGoto, IsWorker, WorkerInv, Written, Batches, Exists
  <2>2. Exists => Left' = Left
    BY <2>1 DEF Left, Stale, Handled, Written
  <2>3. QED
    BY <2>1, <2>2 DEF StaleInv, Lost, Exists
<1>7. CASE CleanOldRun
  <2>1. /\ UNCHANGED <<batch, used>> /\ rows' = [rows EXCEPT ![rp.prev] = "none"]
        /\ rp.pc = "clean" /\ rp'.pc = "completed"
    BY <1>0, <1>7 DEF CleanOldRun, RpGoto, IsWorker
  <2>2. Left' \subseteq Left /\ Exists' = Exists
    BY <1>0, <2>1 DEF Left, Stale, Handled, Written, Exists
  <2>3. QED
    BY <1>0, <2>1, <2>2, LeavesNone DEF StaleInv
<1>8. CASE ReprocessFault
  <2>1. /\ UNCHANGED <<batch, rows>> /\ rp'.new = rp.new /\ Suffer("faults")
        /\ \/ rp.pc \in {"read", "format"} \cup Written /\ rp'.pc = "undo"
           \/ rp.pc = "clean" /\ rp'.pc = "completed"
           \/ rp.pc = "claim" /\ rp'.pc = "failed"
    BY <1>0, <1>8 DEF ReprocessFault, RpGoto, IsWorker, Written
  <2>2. Exists' = Exists /\ \E x : Left' \subseteq Left \cup {x}
    <3>1. Left' \subseteq Left \cup {rp.prev}
      BY <2>1 DEF Left, Stale, Handled, Written
    <3>2. QED
      BY <2>1, <3>1 DEF Exists
  <2>3. QED
    BY <2>1, <2>2, Cost, LeavesOne DEF StaleInv, Troubles
<1>9. CASE UndoRows
  <2>1. /\ UNCHANGED <<batch, used>> /\ rp.pc = "undo" /\ rp'.pc = "release"
        /\ rows' = IF rp.new = NoRun THEN rows ELSE [rows EXCEPT ![rp.new] = "none"]
    BY <1>0, <1>9 DEF UndoRows, RpGoto, IsWorker
  <2>2. Left' \subseteq Left /\ Exists' = Exists
    BY <1>0, <2>1 DEF Left, Stale, Handled, Written, Exists, NoRun, Runs
  <2>3. QED
    BY <1>0, <2>1, <2>2, LeavesNone DEF StaleInv
<1>10. CASE ReleaseBatch
  <2>1. /\ UNCHANGED <<rows, used>> /\ rp.pc = "release" /\ rp'.pc = "failed"
        /\ batch'.run = batch.run /\ Exists' = Exists
        /\ batch'.status = "none" => batch.status = "none"
    BY <1>0, <1>10 DEF ReleaseBatch, SetBatch, RpGoto, IsWorker, Batches, Exists
  <2>2. Left' = Left
    BY <2>1 DEF Left, Stale, Handled, Written
  <2>3. QED
    BY <2>1, <2>2 DEF StaleInv, Lost
<1>11. CASE UndoFault
  <2>1. /\ UNCHANGED <<batch, rows>> /\ Suffer("undoFaults")
        /\ rp.pc \in {"undo", "release"}
    BY <1>11 DEF UndoFault
  <2>2. Exists' = Exists /\ \E x : Left' \subseteq Left \cup {x}
    <3>1. Left' \subseteq Left \cup {rp.new}
      BY <2>1 DEF Left, Stale, Handled, Written
    <3>2. QED
      BY <2>1, <3>1 DEF Exists
  <2>3. QED
    BY <2>1, <2>2, Cost, LeavesOne DEF StaleInv, Troubles
<1>12. CASE ReprocessReturns
  <2>1. /\ UNCHANGED <<batch, rows, used>> /\ rp.pc \in {"completed", "failed"}
        /\ rp'.pc = "idle"
    BY <1>12 DEF ReprocessReturns, IdleWorker
  <2>2. Left' = Left /\ Exists' = Exists
    BY <2>1 DEF Left, Stale, Handled, Written, Exists
  <2>3. QED
    BY <2>1, <2>2 DEF StaleInv, Lost
<1>13. CASE SwitchUnanswered
  <2>1. /\ rows' = rows /\ Suffer("unanswered") /\ rp.pc = "switch" /\ rp'.pc = "undo"
        /\ rp'.new = rp.new /\ rp.prev = batch.run /\ Exists' = Exists
        /\ ~Exists => batch' = batch
    BY <1>0, <1>13
    DEF SwitchUnanswered, SetBatch, RpGoto, IsWorker, WorkerInv, Written, Batches, Exists
  <2>2. \E x : Left' \subseteq Left \cup {x}
    <3>1. Left' \subseteq Left \cup {batch.run}
      BY <2>1 DEF Left, Stale, Handled, Written
    <3>2. QED
      BY <3>1
  <2>3. QED
    BY <2>1, <2>2, Cost, LeavesOne DEF StaleInv, Exists, Troubles
<1>14. QED
  BY <1>1, <1>2, <1>3, <1>4, <1>5, <1>6, <1>7, <1>8, <1>9, <1>10, <1>11, <1>12, <1>13
  DEF Reprocess

(* The others delete all rows, or none.                                    *)
LEMMA OthersLeave ==
  ASSUME BatchInv, StaleInv,
         \/ \E r \in Requesters : Request(r)
         \/ \E s \in Submitters : Submit(s)
         \/ ReprocessPick \/ ReprocessStalled \/ Delete \/ SyncCustomer \/ CrashBatch
         \/ UNCHANGED batchVars
  PROVE  StaleInv'
<1>0. batch \in Batches /\ IsWorker(rp)
  BY Parts
<1>1. CASE UNCHANGED <<batch, rows, rp, used>>
  <2>1. Left' = Left /\ Exists' = Exists
    BY <1>1 DEF Left, Stale, Handled, Exists
  <2>2. QED
    BY <1>1, <2>1 DEF StaleInv, Lost
<1>2. CASE \E s \in Submitters : Submit(s)
  <2>1. PICK s \in Submitters : Submit(s)
    BY <1>2
  <2>2. /\ UNCHANGED <<rows, rp, used>> /\ batch'.run = batch.run /\ Exists' = Exists
        /\ batch'.status = "none" => batch.status = "none"
    BY <1>0, <2>1 DEF Submit, SubmitCheck, SubmitOpenCursor, SubmitRead, SubmitPrepare,
       PostingEnded, SetBatch, Batches, Exists
  <2>3. Left' = Left
    BY <2>2 DEF Left, Stale, Handled
  <2>4. QED
    BY <2>2, <2>3 DEF StaleInv, Lost
<1>3. CASE ReprocessPick
  <2>1. UNCHANGED <<batch, rows, used>> /\ rp.pc = "idle" /\ rp'.pc = "claim"
    BY <1>3 DEF ReprocessPick, IdleWorker
  <2>2. Left' = Left /\ Exists' = Exists
    BY <2>1 DEF Left, Stale, Handled, Written, Exists
  <2>3. QED
    BY <2>1, <2>2 DEF StaleInv, Lost
<1>4. CASE DeleteRead
  <2>1. UNCHANGED <<batch, rows, rp>> /\ used' = [used EXCEPT !.deletes = used.deletes + 1]
    BY <1>4 DEF DeleteRead
  <2>2. used' \in Uses /\ Lost' = Lost
    BY <2>1 DEF StaleInv, Uses, Lost
  <2>3. Left' = Left /\ Exists' = Exists
    BY <2>1 DEF Left, Stale, Handled, Exists
  <2>4. QED
    BY <2>1, <2>2, <2>3 DEF StaleInv
<1>5. CASE DeleteRecords
  <2>1. batch'.status = "deleted" /\ used' = used
    BY <1>0, <1>5 DEF DeleteRecords, Batches
  <2>2. QED
    BY <2>1 DEF StaleInv, Exists
<1>6. CASE CrashBatch
  <2>1. UNCHANGED <<batch, rows>> /\ Suffer("crashes")
    BY <1>6 DEF CrashBatch
  <2>2. Exists' = Exists /\ \E x : Left' \subseteq Left \cup {x}
    <3>1. Left' \subseteq Left \cup {rp.new} \/ Left' \subseteq Left \cup {rp.prev}
      BY <2>1 DEF Left, Stale, Handled, Written
    <3>2. QED
      BY <2>1, <3>1 DEF Exists
  <2>3. QED
    BY <2>1, <2>2, Cost, LeavesOne DEF StaleInv, Troubles
<1>7. QED
  BY <1>1, <1>2, <1>3, <1>4, <1>5, <1>6 DEF Request, ReprocessLook, ReprocessRemove,
     ReprocessAdd, ReprocessStalled, Delete, DeleteJobs, SyncCustomer, batchVars

(* Between two revalidations no run but the active one has rows, except    *)
(* one for each cleanup, undo or process that failed and for each switch   *)
(* whose answer got lost (cleanupOldRunArtifacts and the catch of          *)
(* reprocessBatchAsync).                                                   *)
THEOREM StaleRunsBounded ==
  ASSUME EarlyUse = FALSE PROVE Spec => []StaleRunsCounted
<1>1. Init => StaleInv
  <2> SUFFICES ASSUME Init PROVE StaleInv
    OBVIOUS
  <2>1. used \in Uses /\ (\A r \in Runs : rows[r] = "none") /\ batch.status = "none"
    BY DEF Init, Uses, NoBatch
  <2>2. QED
    BY <2>1 DEF StaleInv, Exists
<1>2. BatchInv /\ StaleInv /\ [Next]_batchVars => StaleInv'
  BY UploadLeaves, WorkerLeaves, OthersLeave DEF Next
<1>3. StaleInv => StaleRunsCounted
  <2>1. rp.pc = "idle" => Left = {r \in Runs \ {batch.run} : rows[r] # "none"}
    BY DEF Left, Stale, Handled, Written
  <2>2. QED
    BY <2>1 DEF StaleInv, StaleRunsCounted, Lost
<1>4. BatchInv /\ [Next]_batchVars => BatchInv'
  BY BatchInvStep
<1>5. QED
  BY <1>1, <1>2, <1>3, <1>4, BatchInvInit, PTL DEF Spec
=============================================================================
